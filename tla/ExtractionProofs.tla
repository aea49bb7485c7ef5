-------------------------- MODULE ExtractionProofs --------------------------
(***************************************************************************)
(* Proofs about Extraction.  Every step of a worker is, for the store, one *)
(* of the store's own operations or nothing, so that all that              *)
(* MemoryStoreProofs proves of the store holds under extraction, for any   *)
(* number of workers, faults and users.                                    *)
(***************************************************************************)
EXTENDS Extraction, MemoryStoreProofs

(* What the local variables of process_source hold at each of its steps.   *)
WorkerInv ==
  \A w \in Workers :
    /\ IF At(w, "idle") THEN source[w] = None ELSE source[w] \in Sources
    /\ pc[w] \in {"resolve", "create"} => proposal[w] \in Proposals
    /\ pc[w] \in {"reinforce", "count", "approve"} => memory[w] \in Memories
    /\ pc[w] \in {"idle", "propose"} => memory[w] = None

LocalTypeOK == /\ pc \in [Workers -> Steps]
               /\ source \in [Workers -> Sources \cup {None}]
               /\ left \in [Workers -> 0..MaxProposals]
               /\ proposal \in [Workers -> Proposals \cup {None}]
               /\ memory \in [Workers -> Memories \cup {None}]
               /\ target \in [Workers -> Memories \cup {None}]
               /\ runs \in [Sources -> 0..MaxRuns]
               /\ done \subseteq Sources

LocalInv == LocalTypeOK /\ WorkerInv

-----------------------------------------------------------------------------
(* The local variables. *)
LEMMA LocalInvInit == Init => LocalInv
  BY MaxAssumption DEF Init, LocalInv, LocalTypeOK, WorkerInv, At, Steps

(* A worker that stays inside its job.                                     *)
LEMMA GotoKeepsLocal ==
  ASSUME LocalInv, NEW w \in Workers, NEW step \in Steps \ {"idle", "propose"}, Goto(w, step),
         ~At(w, "idle"), left' \in [Workers -> 0..MaxProposals],
         \A v \in Workers \ {w} : proposal'[v] = proposal[v],
         step \in {"resolve", "create"} => proposal'[w] \in Proposals,
         step \in {"reinforce", "count", "approve"} => memory'[w] \in Memories,
         proposal' = proposal \/ \E p \in Proposals \cup {None} : proposal' = [proposal EXCEPT ![w] = p],
         memory' = memory \/ \E m \in Memories : memory' = [memory EXCEPT ![w] = m],
         target' = target \/ \E t \in Memories \cup {None} : target' = [target EXCEPT ![w] = t]
  PROVE  LocalInv'
<1>1. LocalTypeOK'
  <2>1. /\ pc' \in [Workers -> Steps] /\ source' \in [Workers -> Sources \cup {None}]
        /\ runs' \in [Sources -> 0..MaxRuns] /\ done' \subseteq Sources
    BY DEF LocalInv, LocalTypeOK, Goto, queue
  <2>2. proposal' \in [Workers -> Proposals \cup {None}]
    BY DEF LocalInv, LocalTypeOK
  <2>3. memory' \in [Workers -> Memories \cup {None}] /\ target' \in [Workers -> Memories \cup {None}]
    BY DEF LocalInv, LocalTypeOK
  <2> QED
    BY <2>1, <2>2, <2>3 DEF LocalTypeOK
<1>2. WorkerInv'
  BY DEF LocalInv, LocalTypeOK, WorkerInv, Goto, queue, At
<1> QED
  BY <1>1, <1>2 DEF LocalInv

(* A worker that turns to the next proposal.                               *)
LEMMA NextProposalKeepsLocal ==
  ASSUME LocalInv, NEW w \in Workers, ~At(w, "idle"), NextProposal(w),
         left' \in [Workers -> 0..MaxProposals]
  PROVE  LocalInv'
<1>1. LocalTypeOK'
  BY DEF LocalInv, LocalTypeOK, NextProposal, Goto, queue, Steps
<1>2. WorkerInv'
  BY DEF LocalInv, LocalTypeOK, WorkerInv, NextProposal, Goto, queue, At
<1> QED
  BY <1>1, <1>2 DEF LocalInv

(* A worker that takes a proposal of the answer.                           *)
LEMMA TakeKeepsLeft ==
  ASSUME LocalInv, NEW w \in Workers, NEW p \in Proposals, Take(w, p)
  PROVE  left' \in [Workers -> 0..MaxProposals]
  BY MaxAssumption DEF Take, LocalInv, LocalTypeOK

(* A worker whose run is over.                                             *)
LEMMA LeaveKeepsLocal ==
  ASSUME LocalInv, NEW w \in Workers, LeaveJob(w), done' \in SUBSET Sources
  PROVE  LocalInv'
<1>1. LocalTypeOK'
  BY MaxAssumption DEF LocalInv, LocalTypeOK, LeaveJob, Steps
<1>2. WorkerInv'
  BY DEF LocalInv, LocalTypeOK, WorkerInv, LeaveJob, At
<1> QED
  BY <1>1, <1>2 DEF LocalInv

-----------------------------------------------------------------------------
(* A step keeps LocalInv and is a step of the store.                       *)
LEMMA WorkerStep ==
  ASSUME LocalInv, [Next]_vars
  PROVE  LocalInv' /\ [StoreNext]_storeVars
<1> USE DEF LocalInv
<1>1. ASSUME NEW w \in Workers, NEW s \in Sources, StartJob(w, s)
      PROVE  LocalInv' /\ [StoreNext]_storeVars
  <2>1. LocalTypeOK'
    BY <1>1, MaxAssumption DEF StartJob, LocalTypeOK, Steps
  <2>2. WorkerInv'
    BY <1>1 DEF StartJob, LocalTypeOK, WorkerInv, At
  <2> QED
    BY <1>1, <2>1, <2>2 DEF StartJob
<1>2. ASSUME NEW w \in Workers, FinishJob(w)
      PROVE  LocalInv' /\ [StoreNext]_storeVars
  <2>1. done' \in SUBSET Sources
    BY <1>2 DEF FinishJob, LocalTypeOK, WorkerInv, At
  <2> QED
    BY <1>2, <2>1, LeaveKeepsLocal DEF FinishJob
<1>3. ASSUME NEW w \in Workers, NEW p \in Proposals, NEW m \in Memories, FindExisting(w, p, m)
      PROVE  LocalInv' /\ [StoreNext]_storeVars
  <2>1. ~At(w, "idle") /\ left' \in [Workers -> 0..MaxProposals] /\ UNCHANGED storeVars
    BY <1>3, TakeKeepsLeft DEF FindExisting, Take, At
  <2>2. CASE Goto(w, "reinforce") /\ memory' = [memory EXCEPT ![w] = m] /\ UNCHANGED <<proposal, target>>
    <3>1. memory'[w] \in Memories
      BY <2>2 DEF LocalTypeOK
    <3> QED
      BY <2>1, <2>2, <3>1, GotoKeepsLocal DEF Steps
  <2>3. CASE /\ Goto(w, "resolve") /\ memory' = [memory EXCEPT ![w] = m]
             /\ proposal' = [proposal EXCEPT ![w] = p] /\ UNCHANGED target
    <3>1. proposal'[w] \in Proposals /\ \A v \in Workers \ {w} : proposal'[v] = proposal[v]
      BY <2>3 DEF LocalTypeOK
    <3> QED
      BY <2>1, <2>3, <3>1, GotoKeepsLocal DEF Steps
  <2>4. CASE NextProposal(w)
    BY <2>1, <2>4, NextProposalKeepsLocal
  <2> QED
    BY <1>3, <2>2, <2>3, <2>4 DEF FindExisting
<1>4. ASSUME NEW w \in Workers, NEW p \in Proposals, FindNothing(w, p)
      PROVE  LocalInv' /\ [StoreNext]_storeVars
  <2>1. ~At(w, "idle") /\ left' \in [Workers -> 0..MaxProposals] /\ UNCHANGED storeVars
    BY <1>4, TakeKeepsLeft DEF FindNothing, Take, At
  <2>2. CASE /\ Goto(w, "resolve")
             /\ proposal' = [proposal EXCEPT ![w] = p] /\ UNCHANGED <<memory, target>>
    <3>1. proposal'[w] \in Proposals /\ \A v \in Workers \ {w} : proposal'[v] = proposal[v]
      BY <2>2 DEF LocalTypeOK
    <3> QED
      BY <2>1, <2>2, <3>1, GotoKeepsLocal DEF Steps
  <2>3. CASE NextProposal(w)
    BY <2>1, <2>3, NextProposalKeepsLocal
  <2> QED
    BY <1>4, <2>2, <2>3 DEF FindNothing
<1>5. ASSUME NEW w \in Workers, Reinforce(w)
      PROVE  LocalInv' /\ [StoreNext]_storeVars
  <2>1. /\ ~At(w, "idle") /\ source[w] \in Sources /\ memory[w] \in Memories
        /\ left' \in [Workers -> 0..MaxProposals]
    BY <1>5 DEF Reinforce, WorkerInv, LocalTypeOK, At
  <2>2. CASE AddEvidence(memory[w], source[w]) /\ Goto(w, "count") /\ UNCHANGED <<proposal, memory, target>>
    BY <2>1, <2>2, GotoKeepsLocal DEF StoreNext, Steps
  <2>3. CASE NextProposal(w) /\ UNCHANGED storeVars
    BY <2>1, <2>3, NextProposalKeepsLocal
  <2> QED
    BY <1>5, <2>2, <2>3 DEF Reinforce
<1>6. ASSUME NEW w \in Workers, Count(w)
      PROVE  LocalInv' /\ [StoreNext]_storeVars
  <2>1. ~At(w, "idle") /\ memory[w] \in Memories /\ left' \in [Workers -> 0..MaxProposals]
    BY <1>6 DEF Count, WorkerInv, LocalTypeOK, At
  <2> QED
    BY <1>6, <2>1, NextProposalKeepsLocal DEF Count, StoreNext
<1>7. ASSUME NEW w \in Workers, Resolve(w)
      PROVE  LocalInv' /\ [StoreNext]_storeVars
  <2> DEFINE t == proposal[w].supersedes
  <2>1. /\ ~At(w, "idle") /\ proposal[w] \in Proposals /\ UNCHANGED storeVars
        /\ left' \in [Workers -> 0..MaxProposals]
    BY <1>7 DEF Resolve, WorkerInv, LocalTypeOK, At
  <2>2. CASE NextProposal(w)
    BY <2>1, <2>2, NextProposalKeepsLocal
  <2>3. CASE Resolved(w, t) /\ (t = None \/ t \in Memories)
    <3>1. target' = [target EXCEPT ![w] = t] /\ t \in Memories \cup {None}
      BY <2>3 DEF Resolved
    <3>2. CASE memory[w] = None /\ Goto(w, "create") /\ UNCHANGED <<proposal, memory>>
      BY <2>1, <3>1, <3>2, GotoKeepsLocal DEF Steps
    <3>3. CASE memory[w] # None /\ GoOnWith(w, memory[w], "approve")
      <4>1. memory[w] \in Memories
        BY <3>3 DEF LocalTypeOK
      <4>2. memory'[w] \in Memories /\ \A v \in Workers \ {w} : proposal'[v] = proposal[v]
        BY <3>3, <4>1 DEF GoOnWith, LocalTypeOK
      <4> QED
        BY <2>1, <3>1, <3>3, <4>1, <4>2, GotoKeepsLocal DEF GoOnWith, Steps
    <3> QED
      BY <2>3, <3>2, <3>3 DEF Resolved
  <2> QED
    BY <1>7, <2>2, <2>3 DEF Resolve
<1>8. ASSUME NEW w \in Workers, NEW m \in Memories, CreateCandidate(w, m)
       PROVE  LocalInv' /\ [StoreNext]_storeVars
  <2>1. /\ ~At(w, "idle") /\ proposal[w] \in Proposals /\ source[w] \in Sources
        /\ left' \in [Workers -> 0..MaxProposals]
    BY <1>8 DEF CreateCandidate, WorkerInv, LocalTypeOK, At
  <2>2. StoreNext
    <3>1. Create(m, proposal[w].statement, proposal[w].score, proposal[w].start, {source[w]})
      BY <1>8 DEF CreateCandidate
    <3>2. /\ proposal[w].statement \in Statements /\ proposal[w].score \in Scores
          /\ proposal[w].start \in Starts /\ {source[w]} \in SUBSET Sources
      BY <2>1 DEF Proposals
    <3> QED
      BY <3>1, <3>2 DEF StoreNext
  <2>3. CASE GoOnWith(w, m, "approve") /\ UNCHANGED target
    <3>1. memory'[w] \in Memories /\ \A v \in Workers \ {w} : proposal'[v] = proposal[v]
      BY <2>3 DEF GoOnWith, LocalTypeOK
    <3> QED
      BY <2>1, <2>2, <2>3, <3>1, GotoKeepsLocal DEF GoOnWith, Steps
  <2>4. CASE NextProposal(w)
    BY <2>1, <2>2, <2>4, NextProposalKeepsLocal
  <2> QED
    BY <1>8, <2>3, <2>4 DEF CreateCandidate
<1>9. ASSUME NEW w \in Workers, ApproveMemory(w)
       PROVE  LocalInv' /\ [StoreNext]_storeVars
  <2>1. /\ ~At(w, "idle") /\ memory[w] \in Memories /\ target[w] \in Memories \cup {None}
        /\ left' \in [Workers -> 0..MaxProposals]
    BY <1>9 DEF ApproveMemory, WorkerInv, At, LocalTypeOK
  <2> QED
    BY <1>9, <2>1, NextProposalKeepsLocal DEF ApproveMemory, StoreNext
<1>10. ASSUME NEW w \in Workers, ApproveFails(w)
       PROVE  LocalInv' /\ [StoreNext]_storeVars
  <2>1. done' \in SUBSET Sources
    BY <1>10 DEF ApproveFails, LocalTypeOK
  <2> QED
    BY <1>10, <2>1, LeaveKeepsLocal DEF ApproveFails
<1>11. ASSUME NEW w \in Workers, CutOff(w)
       PROVE  LocalInv' /\ [StoreNext]_storeVars
  <2>1. done' \in SUBSET Sources
    BY <1>11 DEF CutOff, LocalTypeOK
  <2>2. [StoreNext]_storeVars
    BY <1>11 DEF CutOff, WorkerInv, At, StoreNext
  <2> QED
    BY <1>11, <2>1, <2>2, LeaveKeepsLocal DEF CutOff
<1>12. CASE UserStep \/ TimeStep
  <2>1. LocalInv'
    BY <1>12 DEF UserStep, TimeStep, local, queue, LocalTypeOK, WorkerInv, At
  <2>2. StoreNext
    BY <1>12 DEF UserStep, TimeStep, StoreNext
  <2> QED
    BY <2>1, <2>2
<1>13. CASE UNCHANGED vars
  BY <1>13 DEF vars, local, queue, LocalTypeOK, WorkerInv, At
<1> QED
  BY <1>1, <1>2, <1>3, <1>4, <1>5, <1>6, <1>7, <1>8, <1>9, <1>10, <1>11, <1>12, <1>13
  DEF Next

(* Extraction, its users and its crashes included, is a behaviour of the   *)
(* store alone: it writes the store only through the store's operations.   *)
THEOREM ExtractionUsesStore == Spec => UsesStore
<1>1. Init => LocalInv /\ StoreInit
  BY LocalInvInit DEF Init
<1>2. LocalInv /\ [Next]_vars => LocalInv' /\ [StoreNext]_storeVars
  BY WorkerStep
<1> QED
  BY <1>1, <1>2, PTL DEF Spec, UsesStore, StoreSpec

(* So the chain of supersession, the validity periods and the counts stay  *)
(* right, history is kept, no fact loses its current version, and searches *)
(* see only approvals, while workers extract and users review              *)
(* (process_source with the handlers of memories.rs).                      *)
THEOREM ExtractionKeepsStore ==
  /\ Spec => [](/\ OneSuccessor /\ HistoryHasOrigin /\ ValidityMatchesStatus
                /\ RecurrenceBacked /\ CurrentVersion)
  /\ Spec => HistoryKept /\ SearchSeesApprovals
  BY ExtractionUsesStore, OneSuccessorCorrect, HistoryHasOriginCorrect, ValidityCorrect,
     RecurrenceCorrect, CurrentVersionCorrect, HistoryKeptCorrect, SearchSeesApprovalsCorrect,
     PTL DEF UsesStore

-----------------------------------------------------------------------------
(* The promotion thresholds. *)

(* With review off, every row passed the thresholds when it was created,   *)
(* and a worker gets as far as creating one only with a promoted proposal. *)
ThresholdInv == /\ \A m \in Memories : status[m] # "none" => score[m] = "high"
                /\ \A w \in Workers : (At(w, "create") \/ (At(w, "resolve") /\ memory[w] = None))
                                        => Promoted(proposal[w])

(* A store step that creates no row keeps the rows' scores.                *)
LEMMA RowsKeepScore ==
  ASSUME \A m \in Memories : status[m] # "none" => score[m] = "high", score' = score,
         \A m \in Memories : status[m] = "none" => status'[m] = "none"
  PROVE  \A m \in Memories : status'[m] # "none" => score'[m] = "high"
  OBVIOUS

(* Each step keeps it; only the worker that takes the step matters.        *)
LEMMA ThresholdStep ==
  ASSUME AutoPromote, ~KeepUnpromoted, ~Users, StoreTypeOK, LocalInv, ThresholdInv, [Next]_vars
  PROVE  ThresholdInv'
<1> DEFINE Rowed == \A m \in Memories : status'[m] # "none" => score'[m] = "high"
<1> USE DEF LocalInv, LocalTypeOK, At
<1>1. ASSUME NEW w \in Workers, \/ \E s \in Sources : StartJob(w, s)
                                \/ FinishJob(w) \/ ApproveFails(w)
      PROVE  ThresholdInv'
  BY <1>1 DEF StartJob, FinishJob, ApproveFails, LeaveJob, queue,
              storeVars, content, ThresholdInv, Promoted
<1>2. ASSUME NEW w \in Workers, NEW p \in Proposals, NEW m \in Memories, FindExisting(w, p, m)
      PROVE  ThresholdInv'
  BY <1>2, NoneAssumption DEF FindExisting, Take, Goto, NextProposal, queue, storeVars, content,
                              ThresholdInv, Promoted
<1>3. ASSUME NEW w \in Workers, NEW p \in Proposals, FindNothing(w, p)
      PROVE  ThresholdInv'
  BY <1>3 DEF FindNothing, Take, Discarded, Goto, NextProposal, queue, storeVars, content,
              ThresholdInv, Promoted
<1>4. ASSUME NEW w \in Workers, Reinforce(w) \/ Count(w) \/ CutOff(w)
      PROVE  ThresholdInv'
  <2>1. pc'[w] \notin {"create", "resolve"}
    BY <1>4 DEF Reinforce, Count, CutOff, NextProposal, LeaveJob, Goto
  <2>2. \A v \in Workers \ {w} : /\ pc'[v] = pc[v] /\ memory'[v] = memory[v]
                                 /\ proposal'[v] = proposal[v]
    BY <1>4 DEF Reinforce, Count, CutOff, NextProposal, LeaveJob, Goto
  <2>3. UNCHANGED <<status, score>>
    BY <1>4 DEF Reinforce, Count, CutOff, AddEvidence, Recur, RecurLost, storeVars, content
  <2> QED
    BY <2>1, <2>2, <2>3 DEF ThresholdInv, Promoted
<1>5. ASSUME NEW w \in Workers, Resolve(w)
      PROVE  ThresholdInv'
  <2>1. UNCHANGED <<status, score>>
    BY <1>5 DEF Resolve, storeVars, content
  <2>2. \A v \in Workers \ {w} : /\ pc'[v] = pc[v] /\ memory'[v] = memory[v]
                                 /\ proposal'[v] = proposal[v]
    BY <1>5 DEF Resolve, Resolved, GoOnWith, NextProposal, Goto
  <2>3. \/ pc'[w] \notin {"create", "resolve"}
        \/ /\ At(w, "resolve") /\ memory[w] = None
           /\ pc'[w] = "create" /\ proposal' = proposal
    BY <1>5 DEF Resolve, Resolved, GoOnWith, NextProposal, Goto
  <2> QED
    BY <2>1, <2>2, <2>3 DEF ThresholdInv, Promoted
<1>6. ASSUME NEW w \in Workers, NEW m \in Memories, CreateCandidate(w, m)
      PROVE  ThresholdInv'
  <2>1. pc'[w] \notin {"create", "resolve"}
    BY <1>6 DEF CreateCandidate, GoOnWith, NextProposal, Goto
  <2>2. \A v \in Workers \ {w} : /\ pc'[v] = pc[v] /\ memory'[v] = memory[v]
                                 /\ proposal'[v] = proposal[v]
    BY <1>6 DEF CreateCandidate, GoOnWith, NextProposal, Goto
  <2>3. proposal[w].score = "high"
    BY <1>6 DEF CreateCandidate, ThresholdInv, Promoted
  <2>4. Rowed
    BY <1>6, <2>3 DEF CreateCandidate, Create, ThresholdInv, StoreTypeOK
  <2> QED
    BY <2>1, <2>2, <2>4 DEF ThresholdInv, Promoted
<1>7. ASSUME NEW w \in Workers, ApproveMemory(w)
      PROVE  ThresholdInv'
  <2>1. /\ score' = score
        /\ \A m \in Memories : status[m] = "none" => status'[m] = "none"
    <3>1. /\ memory[w] \in Memories /\ target[w] \in Memories \cup {None}
          /\ Approve(memory[w], target[w])
      BY <1>7 DEF ApproveMemory, WorkerInv
    <3> QED
      BY <3>1, NoneAssumption DEF Approve, Approved, Approvable, Candidate, Supersedable, content
  <2>2. Rowed
    BY <2>1, RowsKeepScore DEF ThresholdInv
  <2> QED
    BY <1>7, <2>2 DEF ApproveMemory, NextProposal, Goto, ThresholdInv, Promoted
<1>8. CASE UserStep \/ TimeStep \/ UNCHANGED vars
  BY <1>8 DEF UserStep, TimeStep, Begin, vars, local, storeVars, content, ThresholdInv, Promoted
<1> QED
  BY <1>1, <1>2, <1>3, <1>4, <1>5, <1>6, <1>7, <1>8 DEF Next

(* As long as no user steps in and review is off, no memory becomes active *)
(* below the thresholds, for any number of workers, even on the same job,  *)
(* and wherever runs are cut off.                                          *)
THEOREM ThresholdsHold ==
  ASSUME AutoPromote, ~KeepUnpromoted, ~Users
  PROVE  Spec => []ActivePassedThresholds
<1>1. Init => StoreTypeOK /\ LocalInv /\ ThresholdInv
  BY StoreTypeInit, LocalInvInit DEF Init, StoreInit, ThresholdInv, At
<1>2. /\ StoreTypeOK /\ LocalInv /\ ThresholdInv /\ [Next]_vars
      => (StoreTypeOK /\ LocalInv /\ ThresholdInv)'
  BY WorkerStep, StoreTypeStep, ThresholdStep
<1>3. ThresholdInv => ActivePassedThresholds
  BY DEF ThresholdInv, ActivePassedThresholds
<1> QED
  BY <1>1, <1>2, <1>3, PTL DEF Spec

-----------------------------------------------------------------------------
(* Runs that were lost, with any number of workers. *)

Busy(s) == {w \in Workers : source[w] = s}
Ended(s) == IF s \in done THEN 1 ELSE 0

(* A run that was started is under way, ended well or was lost. *)
RunsInv == \A s \in Sources : runs[s] >= Cardinality(Busy(s)) + Ended(s)

LEMMA BusyIsFinite ==
  ASSUME IsFiniteSet(Workers), NEW s
  PROVE  IsFiniteSet(Busy(s)) /\ Cardinality(Busy(s)) \in Nat
  BY FS_Subset, FS_CardinalityType DEF Busy

LEMMA EndedOnce ==
  ASSUME NEW D, NEW s
  PROVE  Cardinality(D \cap {s}) = IF s \in D THEN 1 ELSE 0
<1>1. D \cap {s} = IF s \in D THEN {s} ELSE {}
  OBVIOUS
<1> QED
  BY <1>1, FS_Singleton, FS_EmptySet

(* w begins a run of the job of s. *)
LEMMA BusyJoins ==
  ASSUME IsFiniteSet(Workers), LocalTypeOK, NEW w \in Workers, NEW s \in Sources,
         source[w] = None, source' = [source EXCEPT ![w] = s], NEW r \in Sources
  PROVE  Cardinality(Busy(r)') = Cardinality(Busy(r)) + (IF r = s THEN 1 ELSE 0)
<1>1. r # None /\ IsFiniteSet(Busy(r)) /\ Cardinality(Busy(r)) \in Nat
  BY NoneAssumption, BusyIsFinite
<1>2. CASE r = s
  <2>1. Busy(r)' = Busy(r) \cup {w} /\ w \notin Busy(r)
    BY <1>1, <1>2 DEF Busy, LocalTypeOK
  <2> QED
    BY <1>1, <1>2, <2>1, FS_AddElement
<1>3. CASE r # s
  <2>1. Busy(r)' = Busy(r)
    BY <1>1, <1>3 DEF Busy, LocalTypeOK
  <2> QED
    BY <1>1, <1>3, <2>1
<1> QED
  BY <1>2, <1>3

(* The run of w is over. *)
LEMMA BusyLeaves ==
  ASSUME IsFiniteSet(Workers), LocalTypeOK, NEW w \in Workers, NEW s \in Sources,
         source[w] = s, source' = [source EXCEPT ![w] = None], NEW r \in Sources
  PROVE  Cardinality(Busy(r)') = Cardinality(Busy(r)) - (IF r = s THEN 1 ELSE 0)
<1>1. r # None /\ IsFiniteSet(Busy(r)) /\ Cardinality(Busy(r)) \in Nat
  BY NoneAssumption, BusyIsFinite
<1>2. CASE r = s
  <2>1. Busy(r)' = Busy(r) \ {w} /\ w \in Busy(r)
    BY <1>1, <1>2 DEF Busy, LocalTypeOK
  <2> QED
    BY <1>1, <1>2, <2>1, FS_RemoveElement
<1>3. CASE r # s
  <2>1. Busy(r)' = Busy(r)
    BY <1>1, <1>3 DEF Busy, LocalTypeOK
  <2> QED
    BY <1>1, <1>3, <2>1
<1> QED
  BY <1>2, <1>3

(* The runs of the job of s that were lost go from n to n + k. *)
LEMMA LostGrows ==
  ASSUME IsFiniteSet(Workers), LocalTypeOK, RunsInv, NEW s \in Sources, NEW k \in Nat,
         NEW r \in Int, NEW b \in Int, NEW e \in Int,
         runs'[s] = runs[s] + r,
         Cardinality(Busy(s)') = Cardinality(Busy(s)) + b, Ended(s)' = Ended(s) + e,
         r = b + e + k
  PROVE  /\ runs'[s] >= Cardinality(Busy(s)') + Ended(s)'
         /\ RunLost(s) \/ k > 0 => RunLost(s)'
<1>1. Cardinality(Busy(s)) \in Nat /\ runs[s] \in Nat /\ Ended(s) \in {0, 1}
  BY BusyIsFinite, MaxAssumption DEF LocalTypeOK, Ended
<1>2. runs[s] >= Cardinality(Busy(s)) + Ended(s)
  BY DEF RunsInv
<1>3. RunLost(s) <=> runs[s] # Cardinality(Busy(s)) + Ended(s)
  BY EndedOnce DEF RunLost, Busy, Ended
<1>4. RunLost(s)' <=> runs'[s] # Cardinality(Busy(s)') + Ended(s)'
  BY EndedOnce DEF RunLost, Busy, Ended
<1>5. PICK c \in Int, i \in Int, n \in Int :
        c = Cardinality(Busy(s)) /\ i = Ended(s) /\ n = runs[s]
  BY <1>1
<1>6. n >= c + i /\ (RunLost(s) <=> n # c + i)
  BY <1>2, <1>3, <1>5
<1>7. runs'[s] = n + r /\ Cardinality(Busy(s)') = c + b /\ Ended(s)' = i + e
  BY <1>5
<1>8. n + r >= (c + b) + (i + e) /\ (n # c + i \/ k > 0 => n + r # (c + b) + (i + e))
  BY <1>6
<1> QED
  BY <1>4, <1>6, <1>7, <1>8

(* The start of a run and its end are counted alike, its loss is not; what *)
(* is lost stays lost, and a run that fails or is cut off is lost.         *)
LEMMA RunsStep ==
  ASSUME IsFiniteSet(Workers), LocalInv, RunsInv, [Next]_vars
  PROVE  /\ RunsInv'
         /\ \A s \in Sources : RunLost(s) => RunLost(s)'
         /\ \A w \in Workers, s \in Sources :
              source[w] = s /\ (ApproveFails(w) \/ CutOff(w)) => RunLost(s)'
<1> DEFINE Goes(s) == /\ runs'[s] >= Cardinality(Busy(s)') + Ended(s)'
                      /\ RunLost(s) => RunLost(s)'
           GoesOn == \A s \in Sources : Goes(s)
<1> USE DEF LocalInv, At
<1>a. \A s \in Sources : Cardinality(Busy(s)) \in Nat /\ runs[s] \in Nat /\ Ended(s) \in {0, 1}
  BY BusyIsFinite, MaxAssumption DEF LocalTypeOK, Ended
<1>1. ASSUME NEW w \in Workers, NEW s \in Sources, StartJob(w, s), NEW r \in Sources
      PROVE  Goes(r)
  <2> DEFINE d == IF r = s THEN 1 ELSE 0
  <2>1. /\ source[w] = None /\ source' = [source EXCEPT ![w] = s]
        /\ Ended(r)' = Ended(r) + 0 /\ runs'[r] = runs[r] + d
    BY <1>1, <1>a DEF StartJob, WorkerInv, LocalTypeOK, Ended
  <2>2. Cardinality(Busy(r)') = Cardinality(Busy(r)) + d
    BY <2>1, BusyJoins
  <2>3. d \in Int /\ d = d + 0 + 0
    OBVIOUS
  <2> HIDE DEF d
  <2> QED
    BY <2>1, <2>2, <2>3, LostGrows
<1>2. ASSUME NEW w \in Workers, LeaveJob(w), ~At(w, "idle"), NEW r \in Sources,
             done' = done \/ (done' = done \cup {source[w]} /\ source[w] \notin done)
      PROVE  Goes(r) /\ (done' = done /\ source[w] = r => RunLost(r)')
  <2> DEFINE d == IF r = source[w] THEN 1 ELSE 0
             e == IF r = source[w] /\ done' # done THEN 1 ELSE 0
  <2>1. /\ source[w] \in Sources /\ source' = [source EXCEPT ![w] = None]
        /\ runs'[r] = runs[r] + 0
    BY <1>2, <1>a DEF LeaveJob, WorkerInv
  <2>2. Ended(r)' = Ended(r) + e
    BY <1>2 DEF Ended
  <2>3. Cardinality(Busy(r)') = Cardinality(Busy(r)) - d
    BY <2>1, BusyLeaves
  <2>4. Cardinality(Busy(r)') = Cardinality(Busy(r)) + (-d)
    BY <2>3, <1>a
  <2>5. e \in Int /\ -d \in Int /\ d - e \in Nat /\ 0 = (-d) + e + (d - e)
    OBVIOUS
  <2>6. done' = done /\ source[w] = r => d - e > 0
    OBVIOUS
  <2> HIDE DEF d, e
  <2> QED
    BY <2>1, <2>2, <2>4, <2>5, <2>6, LostGrows
<1>3. ASSUME NEW w \in Workers, FinishJob(w)
      PROVE  GoesOn
  <2>1. LeaveJob(w) /\ ~At(w, "idle") /\ done' = done \cup {source[w]}
    BY <1>3 DEF FinishJob
  <2> QED
    BY <1>2, <2>1
<1>4. ASSUME NEW w \in Workers, ApproveFails(w) \/ CutOff(w)
      PROVE  GoesOn /\ \A s \in Sources : source[w] = s => RunLost(s)'
  <2>1. LeaveJob(w) /\ ~At(w, "idle") /\ done' = done
    BY <1>4 DEF ApproveFails, CutOff
  <2> QED
    BY <1>2, <2>1
<1>5. ASSUME UNCHANGED <<source, runs, done>>
      PROVE  GoesOn
  BY <1>5 DEF RunsInv, RunLost, Busy, Ended
<1>6. ASSUME NEW w \in Workers, \/ \E p \in Proposals : \/ FindNothing(w, p)
                                                        \/ \E m \in Memories : FindExisting(w, p, m)
                                \/ \E m \in Memories : CreateCandidate(w, m)
                                \/ Reinforce(w) \/ Count(w) \/ Resolve(w) \/ ApproveMemory(w)
      PROVE  GoesOn
  <2>1. UNCHANGED <<source, runs, done>>
    BY <1>6 DEF FindExisting, CreateCandidate, FindNothing, Reinforce, Count, Resolve, Resolved,
                ApproveMemory, NextProposal, GoOnWith, Goto, queue
  <2> QED
    BY <1>5, <2>1
<1>7. ASSUME UserStep \/ TimeStep \/ UNCHANGED vars
      PROVE  GoesOn
  BY <1>5, <1>7 DEF UserStep, TimeStep, vars, local, queue
<1>8. ASSUME NEW w \in Workers, NEW s \in Sources, StartJob(w, s)
      PROVE  GoesOn
  BY <1>1, <1>8
<1>9. GoesOn
  <2> HIDE DEF GoesOn
  <2> QED
    BY <1>3, <1>4, <1>6, <1>7, <1>8 DEF Next
<1>10. RunsInv'
  BY <1>9 DEF RunsInv
<1> QED
  BY <1>4, <1>9, <1>10

LEMMA RunsInit == ASSUME Init, IsFiniteSet(Workers) PROVE RunsInv
<1>1. ASSUME NEW s \in Sources
      PROVE  runs[s] >= Cardinality(Busy(s)) + Ended(s)
  <2>1. Busy(s) = {} /\ Ended(s) = 0 /\ runs[s] = 0
    BY NoneAssumption DEF Init, Busy, Ended
  <2> QED
    BY <2>1, FS_EmptySet
<1> QED
  BY <1>1 DEF RunsInv

-----------------------------------------------------------------------------
(* The counts of evidence, with any number of workers. *)

(* EvidenceCounted, which holds of candidates too, so that it holds when   *)
(* they become active; and a worker only ever counts for a memory that was *)
(* active, so that its UPDATE finds the row unless it was superseded.      *)
CountInv ==
  /\ \A m \in Memories : status[m] \in {"candidate", "active"} =>
       Cardinality(Counted(m)) <= recurrence[m]
  /\ \A w \in Workers : At(w, "count") => status[memory[w]] \in {"active", "superseded"}

LEMMA CountedFinite ==
  ASSUME StoreTypeOK, NEW m \in Memories
  PROVE  IsFiniteSet(Counted(m)) /\ Cardinality(Counted(m)) \in Nat
<1>1. Counted(m) \subseteq Sources
  BY DEF Counted, StoreTypeOK
<1> QED
  BY <1>1, SourcesAssumption, FS_Subset, FS_CardinalityType

(* What is no longer counted, as a run was lost or a count is on its way,   *)
(* makes EvidenceCounted ask for less.                                     *)
LEMMA CountedLess ==
  ASSUME StoreTypeOK, NEW m \in Memories, Counted(m)' \subseteq Counted(m),
         recurrence'[m] = recurrence[m], Cardinality(Counted(m)) <= recurrence[m]
  PROVE  Cardinality(Counted(m)') <= recurrence'[m]
<1>1. /\ Cardinality(Counted(m)') <= Cardinality(Counted(m))
      /\ IsFiniteSet(Counted(m)') /\ Cardinality(Counted(m)) \in Nat
  BY CountedFinite, FS_Subset
<1>2. Cardinality(Counted(m)') \in Nat /\ recurrence[m] \in Nat
  BY <1>1, FS_CardinalityType DEF StoreTypeOK
<1> QED
  BY <1>1, <1>2

(* One more is counted, and the count goes up by one.                      *)
LEMMA CountedMore ==
  ASSUME StoreTypeOK, NEW m \in Memories, NEW s, Counted(m)' \subseteq Counted(m) \cup {s},
         recurrence'[m] = recurrence[m] + 1, Cardinality(Counted(m)) <= recurrence[m]
  PROVE  Cardinality(Counted(m)') <= recurrence'[m]
<1>1. IsFiniteSet(Counted(m)) /\ Cardinality(Counted(m)) \in Nat
  BY CountedFinite
<1>2. /\ IsFiniteSet(Counted(m) \cup {s})
      /\ Cardinality(Counted(m) \cup {s}) \in Nat
      /\ Cardinality(Counted(m) \cup {s}) <= Cardinality(Counted(m)) + 1
  BY <1>1, FS_AddElement, FS_CardinalityType
<1>3. /\ Cardinality(Counted(m)') <= Cardinality(Counted(m) \cup {s})
      /\ IsFiniteSet(Counted(m)')
  BY <1>2, FS_Subset
<1>4. Cardinality(Counted(m)') \in Nat /\ recurrence[m] \in Nat
  BY <1>3, FS_CardinalityType DEF StoreTypeOK
<1> QED
  BY <1>1, <1>2, <1>3, <1>4

(* A memory that was active stays active or is superseded, and only a      *)
(* candidate becomes active.                                               *)
LEMMA StatusGoesOn ==
  ASSUME StoreTypeOK, [StoreNext]_storeVars, NEW m \in Memories
  PROVE  /\ status[m] \in {"active", "superseded"} => status'[m] \in {"active", "superseded"}
         /\ status[m] # "none" /\ status'[m] \in {"candidate", "active"}
              => status[m] \in {"candidate", "active"}
<1>1. ASSUME NEW k \in Memories, NEW p \in Memories \cup {None}, Approve(k, p)
      PROVE  /\ status[m] \in {"active", "superseded"} => status'[m] \in {"active", "superseded"}
             /\ status[m] # "none" /\ status'[m] \in {"candidate", "active"}
                  => status[m] \in {"candidate", "active"}
  BY <1>1 DEF Approve, Approvable, Approved, Candidate, Supersedable, StoreTypeOK
<1>2. ASSUME NEW k \in Memories, NEW st \in {"candidate", "rejected"},
             status' = [status EXCEPT ![k] = st], status[k] \notin {"active", "superseded"},
             st = "candidate" => status[k] = "none"
      PROVE  /\ status[m] \in {"active", "superseded"} => status'[m] \in {"active", "superseded"}
             /\ status[m] # "none" /\ status'[m] \in {"candidate", "active"}
                  => status[m] \in {"candidate", "active"}
  BY <1>2 DEF StoreTypeOK
<1>3. \/ status' = status
      \/ \E k \in Memories, p \in Memories \cup {None} : Approve(k, p)
      \/ \E k \in Memories, st \in {"candidate", "rejected"} :
           /\ status' = [status EXCEPT ![k] = st] /\ status[k] \notin {"active", "superseded"}
           /\ st = "candidate" => status[k] = "none"
  <2>1. ASSUME NEW k \in Memories, NEW s \in Statements, NEW c \in Scores, NEW start \in Starts,
               NEW E \in SUBSET Sources, Create(k, s, c, start, E)
        PROVE  /\ status' = [status EXCEPT ![k] = "candidate"] /\ status[k] = "none"
    BY <2>1 DEF Create
  <2>2. ASSUME NEW k \in Memories, RejectRow(k)
        PROVE  status' = [status EXCEPT ![k] = "rejected"] /\ status[k] = "candidate"
    BY <2>2 DEF RejectRow
  <2>3. ASSUME NEW k \in Memories, \/ RejectAudit(k) \/ RejectLost(k)
                                   \/ \E s \in Sources : AddEvidence(k, s)
                                   \/ Recur(k) \/ RecurLost(k) \/ Begin(k)
        PROVE  status' = status
    BY <2>3 DEF RejectAudit, RejectLost, AddEvidence, Recur, RecurLost, Begin
  <2> QED
    BY <2>1, <2>2, <2>3 DEF StoreNext, storeVars
<1> QED
  BY <1>1, <1>2, <1>3

LEMMA CountStep ==
  ASSUME IsFiniteSet(Workers), ~Users, StoreTypeOK, LocalInv, RunsInv, CountInv, [Next]_vars
  PROVE  CountInv'
<1> DEFINE Tallied(m) == status'[m] \in {"candidate", "active"} =>
                           Cardinality(Counted(m)') <= recurrence'[m]
           Alike(w) == /\ UNCHANGED source
                       /\ \A v \in Workers \ {w} : pc'[v] = pc[v] /\ memory'[v] = memory[v]
<1> USE DEF LocalInv, At
<1>a. \A s \in Sources : RunLost(s) => RunLost(s)'
  BY RunsStep
<1>b. \A m \in Memories :
        /\ status[m] \in {"active", "superseded"} => status'[m] \in {"active", "superseded"}
        /\ status[m] # "none" /\ status'[m] \in {"candidate", "active"}
             => status[m] \in {"candidate", "active"}
  BY WorkerStep, StatusGoesOn
<1>c. ASSUME \A w \in Workers : pc'[w] = "count" => pc[w] = "count" /\ memory'[w] = memory[w],
             \A m \in Memories : Tallied(m)
      PROVE  CountInv'
  BY <1>b, <1>c DEF CountInv, WorkerInv
<1>d. ASSUME NEW m \in Memories, status[m] # "none", recurrence'[m] = recurrence[m],
             Counted(m)' \subseteq Counted(m)
      PROVE  Tallied(m)
  BY <1>b, <1>d, CountedLess DEF CountInv
<1>e. \A m \in Memories :
        Counted(m)' = {s \in evidence'[m] :
                         /\ ~RunLost(s)'
                         /\ \A w \in Workers : ~(pc'[w] = "count" /\ memory'[w] = m /\ source'[w] = s)}
  BY DEF Counted
<1>f. ASSUME status' = status \/ \E w \in Workers : ApproveMemory(w),
             UNCHANGED <<recurrence, evidence>>,
             \A w \in Workers : pc[w] = "count" =>
               pc'[w] = "count" /\ memory'[w] = memory[w] /\ source'[w] = source[w],
             \A w \in Workers : pc'[w] = "count" => pc[w] = "count"
      PROVE  CountInv'
  <2>1. ASSUME NEW m \in Memories
        PROVE  Counted(m)' \subseteq Counted(m)
    BY <1>a, <1>e, <1>f DEF Counted, StoreTypeOK
  <2>2. ASSUME NEW m \in Memories, status[m] = "none"
        PROVE  status'[m] = "none"
    <3>1. ASSUME NEW w \in Workers, ApproveMemory(w)
          PROVE  status'[m] = "none"
      <4>1. memory[w] \in Memories /\ Approve(memory[w], target[w])
        BY <3>1 DEF ApproveMemory, WorkerInv
      <4>2. target[w] \in Memories \cup {None}
        BY DEF LocalTypeOK
      <4> QED
        BY <2>2, <4>1, <4>2, NoneAssumption
           DEF Approve, Approvable, Approved, Candidate, Supersedable
    <3> QED
      BY <1>f, <2>2, <3>1
  <2>3. ASSUME NEW m \in Memories
        PROVE  Tallied(m)
    BY <1>d, <1>f, <2>1, <2>2
  <2> QED
    BY <1>c, <1>f, <2>3
<1>1. ASSUME NEW w \in Workers, \/ \E s \in Sources : StartJob(w, s)
                                \/ FinishJob(w) \/ ApproveFails(w)
      PROVE  CountInv'
  <2>1. /\ UNCHANGED <<status, recurrence, evidence>> /\ pc[w] # "count" /\ pc'[w] # "count"
        /\ \A v \in Workers \ {w} : pc'[v] = pc[v] /\ memory'[v] = memory[v] /\ source'[v] = source[v]
    BY <1>1 DEF StartJob, FinishJob, ApproveFails, LeaveJob, storeVars, LocalTypeOK
  <2> QED
    BY <1>f, <2>1
<1>2. ASSUME NEW w \in Workers, \/ \E p \in Proposals : \/ FindNothing(w, p)
                                                        \/ \E m \in Memories : FindExisting(w, p, m)
                                \/ Resolve(w)
      PROVE  CountInv'
  <2>1. /\ UNCHANGED <<status, recurrence, evidence>> /\ pc[w] # "count" /\ pc'[w] # "count"
        /\ Alike(w)
    BY <1>2 DEF FindNothing, FindExisting, Take, Resolve, Resolved, GoOnWith, NextProposal, Goto,
                storeVars, LocalTypeOK
  <2> QED
    BY <1>f, <2>1
<1>3. ASSUME NEW w \in Workers, ApproveMemory(w)
      PROVE  CountInv'
  <2>1. /\ UNCHANGED <<recurrence, evidence>> /\ pc[w] # "count" /\ pc'[w] # "count"
        /\ Alike(w)
    BY <1>3 DEF ApproveMemory, Approve, Approved, NextProposal, Goto, LocalTypeOK
  <2> QED
    BY <1>3, <1>f, <2>1
<1>4. ASSUME NEW w \in Workers, NEW m \in Memories, CreateCandidate(w, m)
      PROVE  CountInv'
  <2>1. /\ status[m] = "none" /\ status' = [status EXCEPT ![m] = "candidate"]
        /\ recurrence' = [recurrence EXCEPT ![m] = 1]
        /\ evidence' = [evidence EXCEPT ![m] = {source[w]}]
        /\ pc[w] # "count" /\ pc'[w] # "count" /\ Alike(w)
    BY <1>4 DEF CreateCandidate, Create, GoOnWith, NextProposal, Goto, LocalTypeOK
  <2>2. Tallied(m)
    <3>1. Counted(m)' \subseteq {source[w]} /\ recurrence'[m] = 1
      BY <1>e, <2>1 DEF StoreTypeOK
    <3>2. /\ IsFiniteSet({source[w]}) /\ Cardinality({source[w]}) = 1
          /\ Cardinality(Counted(m)') <= Cardinality({source[w]})
      BY <3>1, FS_Singleton, FS_Subset
    <3> QED
      BY <3>1, <3>2
  <2>3. ASSUME NEW k \in Memories, k # m, status[k] # "none"
        PROVE  Tallied(k)
    <3>1. recurrence'[k] = recurrence[k] /\ evidence'[k] = evidence[k]
      BY <2>1, <2>3 DEF StoreTypeOK
    <3>2. Counted(k)' \subseteq Counted(k)
      BY <1>a, <1>e, <2>1, <3>1 DEF Counted, StoreTypeOK
    <3> QED
      BY <1>d, <2>3, <3>1, <3>2
  <2>4. ASSUME NEW k \in Memories, k # m, status[k] = "none"
        PROVE  Tallied(k)
    BY <2>1, <2>4 DEF StoreTypeOK
  <2> QED
    BY <1>c, <2>1, <2>2, <2>3, <2>4
<1>5. ASSUME NEW w \in Workers, Reinforce(w)
      PROVE  CountInv'
  <2>1. CASE NextProposal(w) /\ UNCHANGED storeVars
    <3>1. /\ UNCHANGED <<status, recurrence, evidence>> /\ pc[w] # "count" /\ pc'[w] # "count"
          /\ Alike(w)
      BY <1>5, <2>1 DEF Reinforce, NextProposal, Goto, storeVars, LocalTypeOK
    <3> QED
      BY <1>f, <3>1
  <2>2. CASE AddEvidence(memory[w], source[w]) /\ Goto(w, "count") /\ UNCHANGED memory
    <3>1. /\ memory[w] \in Memories /\ source[w] \in Sources /\ pc[w] = "reinforce"
          /\ pc'[w] = "count" /\ memory' = memory /\ source' = source
          /\ \A v \in Workers \ {w} : pc'[v] = pc[v]
      BY <1>5, <2>2 DEF Reinforce, WorkerInv, Goto, LocalTypeOK
    <3>2. /\ status[memory[w]] \in {"active", "superseded"} /\ UNCHANGED <<status, recurrence>>
          /\ evidence' = [evidence EXCEPT ![memory[w]] = @ \cup {source[w]}]
      BY <2>2 DEF AddEvidence
    <3>3. ASSUME NEW m \in Memories
          PROVE  Tallied(m)
      <4>1. Counted(m)' \subseteq Counted(m)
        BY <1>a, <1>e, <3>1, <3>2 DEF Counted, StoreTypeOK
      <4> QED
        BY <1>d, <3>2, <4>1
    <3>4. \A v \in Workers : pc'[v] = "count" => status'[memory'[v]] \in {"active", "superseded"}
      BY <3>1, <3>2 DEF CountInv
    <3> QED
      BY <3>3, <3>4 DEF CountInv
  <2> QED
    BY <1>5, <2>1, <2>2 DEF Reinforce
<1>6. ASSUME NEW w \in Workers, Count(w)
      PROVE  CountInv'
  <2>1. /\ memory[w] \in Memories /\ pc[w] = "count" /\ pc'[w] # "count" /\ Alike(w)
        /\ UNCHANGED <<status, evidence>>
        /\ recurrence' = [recurrence EXCEPT ![memory[w]] =
                            IF status[memory[w]] = "active" THEN @ + 1 ELSE @]
    BY <1>6 DEF Count, Recur, WorkerInv, NextProposal, Goto, LocalTypeOK
  <2>2. ASSUME NEW m \in Memories, m # memory[w]
        PROVE  Tallied(m)
    <3>1. Counted(m)' \subseteq Counted(m) /\ recurrence'[m] = recurrence[m]
      BY <1>a, <1>e, <2>1, <2>2 DEF Counted, StoreTypeOK
    <3> QED
      BY <1>d, <2>1, <3>1
  <2>3. ASSUME NEW m \in Memories, m = memory[w]
        PROVE  Tallied(m)
    <3> SUFFICES ASSUME status[m] = "active"
                 PROVE  Cardinality(Counted(m)') <= recurrence'[m]
      BY <1>b, <2>1, <2>3 DEF CountInv
    <3>1. Counted(m)' \subseteq Counted(m) \cup {source[w]}
      BY <1>a, <1>e, <2>1, <2>3 DEF Counted, StoreTypeOK
    <3>2. recurrence'[m] = recurrence[m] + 1
      BY <2>1, <2>3 DEF StoreTypeOK
    <3>3. Cardinality(Counted(m)) <= recurrence[m]
      BY DEF CountInv
    <3> QED
      BY <3>1, <3>2, <3>3, CountedMore
  <2> QED
    BY <1>c, <2>1, <2>2, <2>3
<1>7. ASSUME NEW w \in Workers, CutOff(w)
      PROVE  CountInv'
  <2>1. /\ \A s \in Sources : source[w] = s => RunLost(s)'
        /\ pc'[w] # "count" /\ UNCHANGED <<status, recurrence, evidence>>
        /\ \A v \in Workers \ {w} : pc'[v] = pc[v] /\ memory'[v] = memory[v] /\ source'[v] = source[v]
    <3>1. UNCHANGED <<status, recurrence, evidence>>
      BY <1>7 DEF CutOff, RecurLost, storeVars
    <3> QED
      BY <1>7, <3>1, RunsStep DEF CutOff, LeaveJob, LocalTypeOK
  <2>2. ASSUME NEW m \in Memories
        PROVE  Tallied(m)
    <3>1. Counted(m)' \subseteq Counted(m)
      BY <1>a, <1>e, <2>1 DEF Counted, StoreTypeOK
    <3> QED
      BY <1>d, <2>1, <3>1
  <2> QED
    BY <1>c, <2>1, <2>2
<1>8. CASE TimeStep \/ UNCHANGED vars
  <2>1. UNCHANGED <<status, recurrence, evidence, pc, memory, source>>
    BY <1>8 DEF TimeStep, Begin, vars, local, storeVars
  <2> QED
    BY <1>f, <2>1
<1>9. ~UserStep
  BY DEF UserStep
<1> QED
  BY <1>1, <1>2, <1>3, <1>4, <1>5, <1>6, <1>7, <1>8, <1>9 DEF Next

(* However many workers run the jobs, and run them again after crashes, an *)
(* active memory misses no more counts than sources of it lost a run or    *)
(* are being counted (reinforce_existing_memory).                          *)
THEOREM EvidenceCountedCorrect ==
  ASSUME IsFiniteSet(Workers), ~Users
  PROVE  Spec => []EvidenceCounted
<1>1. Init => StoreTypeOK /\ LocalInv /\ RunsInv /\ CountInv
  BY StoreTypeInit, LocalInvInit, RunsInit DEF Init, StoreInit, CountInv, At
<1>2. /\ StoreTypeOK /\ LocalInv /\ RunsInv /\ CountInv /\ [Next]_vars
      => (StoreTypeOK /\ LocalInv /\ RunsInv /\ CountInv)'
  BY WorkerStep, StoreTypeStep, RunsStep, CountStep
<1>3. CountInv => EvidenceCounted
  BY DEF CountInv, EvidenceCounted
<1> QED
  BY <1>1, <1>2, <1>3, PTL DEF Spec

-----------------------------------------------------------------------------
(* One worker and no users. *)

Sole == ~Users /\ \A v, w \in Workers : v = w

LEMMA SoleIsFinite == ASSUME Sole PROVE IsFiniteSet(Workers)
<1>1. CASE Workers = {}
  BY <1>1, FS_EmptySet
<1>2. CASE Workers # {}
  <2>1. PICK w \in Workers : Workers = {w}
    BY <1>2 DEF Sole
  <2> QED
    BY <2>1, FS_Singleton
<1> QED
  BY <1>1, <1>2

(* With nobody to interfere, what process_source found out stays true: no   *)
(* live memory says what it is about to create, what it is about to        *)
(* approve is a candidate, and what it will supersede is active.           *)
FoundHolds ==
  \A w \in Workers :
    /\ At(w, "create") \/ (At(w, "resolve") /\ memory[w] = None) =>
         \A m \in Live : statement[m] # proposal[w].statement
    /\ At(w, "approve") \/ (At(w, "resolve") /\ memory[w] # None) =>
         status[memory[w]] = "candidate"
    /\ pc[w] \in {"create", "approve"} /\ target[w] # None => status[target[w]] = "active"

SoleInv == OneMemoryPerFact /\ FoundHolds

(* Away from create and approve, the step of the only worker leaves the     *)
(* live memories alone.                                                    *)
LEMMA SoleFrame ==
  ASSUME Sole, SoleInv, UNCHANGED <<status, statement>>, NEW w \in Workers,
         pc'[w] \notin {"resolve", "create", "approve"}
  PROVE  SoleInv'
<1>1. \A v \in Workers : v = w
  BY DEF Sole
<1>2. OneMemoryPerFact'
  BY DEF SoleInv, OneMemoryPerFact, Live
<1>3. FoundHolds'
  BY <1>1 DEF FoundHolds, At
<1> QED
  BY <1>2, <1>3 DEF SoleInv

LEMMA SoleStep ==
  ASSUME Sole, StoreTypeOK, LocalInv, SoleInv, [Next]_vars
  PROVE  SoleInv'
<1> USE DEF LocalInv, LocalTypeOK, At
<1>0. \A v, w \in Workers : v = w
  BY DEF Sole
<1>1. ASSUME NEW w \in Workers, \/ \E s \in Sources : StartJob(w, s)
                                \/ FinishJob(w) \/ ApproveFails(w)
      PROVE  SoleInv'
  <2>1. /\ UNCHANGED <<status, statement>>
        /\ pc'[w] \notin {"resolve", "create", "approve"}
    BY <1>1 DEF StartJob, FinishJob, ApproveFails, LeaveJob, storeVars, content
  <2> QED
    BY <2>1, SoleFrame
<1>2. ASSUME NEW w \in Workers, Reinforce(w) \/ Count(w) \/ CutOff(w)
      PROVE  SoleInv'
  <2>1. /\ UNCHANGED <<status, statement>>
        /\ pc'[w] \notin {"resolve", "create", "approve"}
    BY <1>2 DEF Reinforce, Count, CutOff, AddEvidence, Recur, RecurLost, NextProposal, LeaveJob,
                Goto, storeVars, content
  <2> QED
    BY <2>1, SoleFrame
<1>3. ASSUME NEW w \in Workers, NEW p \in Proposals, NEW m \in Memories, FindExisting(w, p, m)
      PROVE  SoleInv'
  <2>1. UNCHANGED <<status, statement>>
    BY <1>3 DEF FindExisting, storeVars, content
  <2>2. CASE pc'[w] \notin {"resolve", "create", "approve"}
    BY <2>1, <2>2, SoleFrame
  <2>3. CASE pc'[w] \in {"resolve", "create", "approve"}
    <3>1. pc'[w] = "resolve" /\ memory'[w] = m /\ status[m] = "candidate"
      BY <1>3, <2>3 DEF FindExisting, NextProposal, Goto
    <3>2. FoundHolds'
      BY <1>0, <2>1, <3>1, NoneAssumption DEF FoundHolds
    <3> QED
      BY <2>1, <3>2 DEF SoleInv, OneMemoryPerFact, Live
  <2> QED
    BY <2>2, <2>3
<1>4. ASSUME NEW w \in Workers, NEW p \in Proposals, FindNothing(w, p)
      PROVE  SoleInv'
  <2>1. UNCHANGED <<status, statement>>
    BY <1>4 DEF FindNothing, storeVars, content
  <2>2. CASE pc'[w] \notin {"resolve", "create", "approve"}
    BY <2>1, <2>2, SoleFrame
  <2>3. CASE pc'[w] \in {"resolve", "create", "approve"}
    <3>1. pc'[w] = "resolve" /\ memory' = memory /\ proposal'[w] = p
      BY <1>4, <2>3 DEF FindNothing, NextProposal, Goto
    <3>2. \A m \in Live : statement[m] # p.statement
      BY <1>4 DEF FindNothing, Existing, Same, Live
    <3>3. memory[w] = None
      BY <1>4 DEF FindNothing, Take, WorkerInv
    <3>4. FoundHolds'
      BY <1>0, <2>1, <3>1, <3>2, <3>3 DEF FoundHolds, Live
    <3> QED
      BY <2>1, <3>4 DEF SoleInv, OneMemoryPerFact, Live
  <2> QED
    BY <2>2, <2>3
<1>5. ASSUME NEW w \in Workers, Resolve(w)
      PROVE  SoleInv'
  <2>1. UNCHANGED <<status, statement>>
    BY <1>5 DEF Resolve, storeVars, content
  <2>2. CASE NextProposal(w)
    <3>1. pc'[w] \notin {"resolve", "create", "approve"}
      BY <2>2 DEF NextProposal, Goto
    <3> QED
      BY <2>1, <3>1, SoleFrame
  <2>3. CASE ~NextProposal(w)
    <3> DEFINE t == proposal[w].supersedes
    <3>1. /\ At(w, "resolve") /\ memory'[w] = memory[w]
          /\ t = None \/ status[t] = "active"
          /\ target'[w] = t
          /\ IF memory[w] = None THEN pc'[w] = "create" /\ proposal'[w] = proposal[w]
                                 ELSE pc'[w] = "approve"
      BY <1>5, <2>3 DEF Resolve, Resolved, GoOnWith, Goto
    <3>2. FoundHolds'
      BY <1>0, <2>1, <3>1 DEF SoleInv, FoundHolds, Live
    <3> QED
      BY <2>1, <3>2 DEF SoleInv, OneMemoryPerFact, Live
  <2> QED
    BY <2>2, <2>3
<1>6. ASSUME NEW w \in Workers, NEW m \in Memories, CreateCandidate(w, m)
      PROVE  SoleInv'
  <2>1. /\ At(w, "create") /\ status[m] = "none"
        /\ status' = [status EXCEPT ![m] = "candidate"]
        /\ statement' = [statement EXCEPT ![m] = proposal[w].statement]
    BY <1>6 DEF CreateCandidate, Create
  <2>2. Live' = Live \cup {m} /\ m \notin Live
    BY <2>1 DEF Live, StoreTypeOK
  <2>3. \A k \in Live : statement'[k] = statement[k] /\ statement[k] # statement'[m]
    BY <2>1, <2>2 DEF SoleInv, FoundHolds, StoreTypeOK, Live
  <2>4. OneMemoryPerFact'
    BY <2>2, <2>3 DEF SoleInv, OneMemoryPerFact
  <2>5. CASE pc'[w] \notin {"resolve", "create", "approve"}
    BY <1>0, <2>4, <2>5 DEF SoleInv, FoundHolds
  <2>6. CASE pc'[w] \in {"resolve", "create", "approve"}
    <3>1. pc'[w] = "approve" /\ memory'[w] = m /\ target' = target
      BY <1>6, <2>6 DEF CreateCandidate, NextProposal, GoOnWith, Goto
    <3>2. target[w] # None => status[target[w]] = "active" /\ target[w] \in Memories
      BY <2>1 DEF SoleInv, FoundHolds
    <3>3. status'[m] = "candidate" /\ (target[w] # None => status'[target[w]] = "active")
      BY <2>1, <3>2 DEF StoreTypeOK
    <3>4. FoundHolds'
      BY <1>0, <3>1, <3>3 DEF FoundHolds
    <3> QED
      BY <2>4, <3>4 DEF SoleInv
  <2> QED
    BY <2>5, <2>6
<1>7. ASSUME NEW w \in Workers, ApproveMemory(w)
      PROVE  SoleInv'
  <2>1. /\ memory[w] \in Memories /\ target[w] \in Memories \cup {None}
        /\ Approve(memory[w], target[w]) /\ pc'[w] = "propose"
    BY <1>7 DEF ApproveMemory, NextProposal, Goto, WorkerInv
  <2>2. statement' = statement /\ Live' \subseteq Live
    BY <2>1 DEF Approve, Approved, Approvable, Candidate, content, Live
  <2>3. FoundHolds'
    BY <1>0, <2>1 DEF FoundHolds
  <2> QED
    BY <2>2, <2>3 DEF SoleInv, OneMemoryPerFact
<1>8. CASE TimeStep \/ UNCHANGED vars
  <2>1. UNCHANGED <<status, statement, pc, memory, proposal, target>>
    BY <1>8 DEF TimeStep, Begin, content, local, vars, storeVars
  <2> QED
    BY <2>1 DEF SoleInv, OneMemoryPerFact, FoundHolds, Live
<1>9. ~UserStep
  BY DEF UserStep, Sole
<1> QED
  BY <1>1, <1>2, <1>3, <1>4, <1>5, <1>6, <1>7, <1>8, <1>9 DEF Next

LEMMA SoleInvariant ==
  ASSUME Sole
  PROVE  Spec => [](StoreTypeOK /\ LocalInv /\ SoleInv)
<1>1. Init => StoreTypeOK /\ LocalInv /\ SoleInv
  <2> SUFFICES ASSUME Init PROVE StoreTypeOK /\ LocalInv /\ SoleInv
    OBVIOUS
  <2>1. Live = {} /\ \A w \in Workers : pc[w] = "idle"
    BY DEF Init, StoreInit, Live
  <2> QED
    BY <2>1, StoreTypeInit, LocalInvInit
       DEF Init, SoleInv, OneMemoryPerFact, FoundHolds, At
<1>2. /\ StoreTypeOK /\ LocalInv /\ SoleInv /\ [Next]_vars
      => (StoreTypeOK /\ LocalInv /\ SoleInv)'
  BY WorkerStep, StoreTypeStep, SoleStep
<1> QED
  BY <1>1, <1>2, PTL DEF Spec

(* One worker never makes two live memories of a fact, wherever its runs    *)
(* are cut off and however often they are repeated (find_existing_memory). *)
THEOREM OneMemoryCorrect ==
  ASSUME Sole
  PROVE  Spec => []OneMemoryPerFact
<1>1. SoleInv => OneMemoryPerFact
  BY DEF SoleInv
<1> QED
  BY <1>1, SoleInvariant, PTL

(* What it checked of a proposal is still so when approve_memory checks it *)
(* again, except for a target that begins in the future.                   *)
THEOREM CheckedCorrect ==
  ASSUME Sole
  PROVE  Spec => []CheckedProposalsActivate
<1>1. SoleInv => CheckedProposalsActivate
  BY DEF SoleInv, FoundHolds, CheckedProposalsActivate, Approvable, Candidate, Supersedable, At
<1> QED
  BY <1>1, SoleInvariant, PTL

-----------------------------------------------------------------------------
(* Candidates, with one worker, auto-promotion on and review off. *)

(* While no run was lost, every candidate is the one the worker has just    *)
(* created from its source and is about to approve.                        *)
Underway ==
  /\ \A m \in Memories : status[m] = "candidate" =>
       \E w \in Workers : memory[w] = m /\ At(w, "approve")
  /\ \A w \in Workers : /\ At(w, "resolve") => memory[w] = None
                        /\ At(w, "approve") => source[w] \in evidence[memory[w]]
CandidateInv == NoRunLost => Underway

LEMMA CandidateStep ==
  ASSUME Sole, AutoPromote, ~KeepUnpromoted,
         StoreTypeOK, LocalInv, RunsInv, ThresholdInv, CandidateInv, [Next]_vars
  PROVE  CandidateInv'
<1> SUFFICES ASSUME NoRunLost'
             PROVE  Underway'
  BY DEF CandidateInv
<1> USE DEF LocalInv, LocalTypeOK, At
<1>0. \A v, w \in Workers : v = w
  BY DEF Sole
<1>1. Underway /\ ~ \E w \in Workers : ApproveFails(w) \/ CutOff(w)
  <2>1. NoRunLost
    BY RunsStep, SoleIsFinite DEF NoRunLost
  <2>2. ASSUME NEW w \in Workers, ApproveFails(w) \/ CutOff(w)
        PROVE  FALSE
    <3>1. source[w] \in Sources
      BY <2>2 DEF ApproveFails, CutOff, WorkerInv
    <3> QED
      BY <2>2, <3>1, RunsStep, SoleIsFinite DEF NoRunLost
  <2> QED
    BY <2>1, <2>2 DEF CandidateInv
<1>2. ASSUME NEW w \in Workers, pc[w] # "approve", status' = status,
             pc'[w] \notin {"resolve", "approve"}
      PROVE  Underway'
  <2>1. \A m \in Memories : status'[m] # "candidate"
    BY <1>0, <1>1, <1>2 DEF Underway
  <2> QED
    BY <1>0, <1>2, <2>1 DEF Underway
<1>3. ASSUME NEW w \in Workers, \/ \E s \in Sources : StartJob(w, s)
                                \/ FinishJob(w)
      PROVE  Underway'
  <2>1. status' = status /\ pc[w] # "approve" /\ pc'[w] \notin {"resolve", "approve"}
    BY <1>3 DEF StartJob, FinishJob, LeaveJob, storeVars
  <2> QED
    BY <1>2, <2>1
<1>4. ASSUME NEW w \in Workers, Reinforce(w) \/ Count(w)
      PROVE  Underway'
  <2>1. status' = status /\ pc[w] # "approve" /\ pc'[w] \notin {"resolve", "approve"}
    BY <1>4 DEF Reinforce, Count, AddEvidence, Recur, NextProposal, Goto, storeVars
  <2> QED
    BY <1>2, <2>1
<1>5. ASSUME NEW w \in Workers, NEW p \in Proposals, NEW m \in Memories, FindExisting(w, p, m)
      PROVE  Underway'
  <2>1. status[m] # "candidate"
    BY <1>0, <1>1, <1>5 DEF FindExisting, Take, Underway
  <2>2. status' = status /\ pc[w] # "approve" /\ pc'[w] \notin {"resolve", "approve"}
    BY <1>5, <2>1 DEF FindExisting, Take, NextProposal, Goto, storeVars
  <2> QED
    BY <1>2, <2>2
<1>6. ASSUME NEW w \in Workers, NEW p \in Proposals, FindNothing(w, p)
      PROVE  Underway'
  <2>1. /\ UNCHANGED <<status, evidence>> /\ pc[w] = "propose" /\ memory[w] = None
        /\ memory'[w] = None /\ pc'[w] # "approve"
    BY <1>6 DEF FindNothing, Take, NextProposal, Goto, storeVars, WorkerInv
  <2>2. \A m \in Memories : status'[m] # "candidate"
    BY <1>0, <1>1, <2>1 DEF Underway
  <2> QED
    BY <1>0, <2>1, <2>2 DEF Underway
<1>7. ASSUME NEW w \in Workers, Resolve(w)
      PROVE  Underway'
  <2>1. memory[w] = None
    BY <1>1, <1>7 DEF Resolve, Underway
  <2>2. status' = status /\ pc[w] # "approve" /\ pc'[w] \notin {"resolve", "approve"}
    BY <1>7, <2>1 DEF Resolve, Resolved, NextProposal, Goto, storeVars
  <2> QED
    BY <1>2, <2>2
<1>8. ASSUME NEW w \in Workers, NEW m \in Memories, CreateCandidate(w, m)
      PROVE  Underway'
  <2>1. Promoted(proposal[w])
    BY <1>8 DEF CreateCandidate, ThresholdInv
  <2>2. /\ pc[w] = "create" /\ pc'[w] = "approve" /\ memory'[w] = m /\ source' = source
        /\ status' = [status EXCEPT ![m] = "candidate"]
        /\ evidence' = [evidence EXCEPT ![m] = {source[w]}]
    BY <1>8, <2>1 DEF CreateCandidate, Create, GoOnWith, Goto
  <2>3. \A k \in Memories : status[k] # "candidate"
    BY <1>0, <1>1, <2>2 DEF Underway
  <2>4. \A k \in Memories : status'[k] = "candidate" => k = m
    BY <2>2, <2>3 DEF StoreTypeOK
  <2>5. source'[w] \in evidence'[m]
    BY <2>2 DEF StoreTypeOK
  <2> QED
    BY <1>0, <2>2, <2>4, <2>5 DEF Underway
<1>9. ASSUME NEW w \in Workers, ApproveMemory(w)
      PROVE  Underway'
  <2>1. /\ memory[w] \in Memories /\ pc[w] = "approve" /\ pc'[w] = "propose"
        /\ Approve(memory[w], target[w])
    BY <1>9 DEF ApproveMemory, NextProposal, Goto, WorkerInv
  <2>2. \A k \in Memories : status[k] = "candidate" => k = memory[w]
    BY <1>0, <1>1 DEF Underway
  <2>3. \A k \in Memories : status'[k] # "candidate"
    BY <2>1, <2>2 DEF Approve, Approved
  <2> QED
    BY <1>0, <2>1, <2>3 DEF Underway
<1>10. CASE TimeStep \/ UNCHANGED vars
  <2>1. UNCHANGED <<status, evidence, source, pc, memory>>
    BY <1>10 DEF TimeStep, Begin, vars, local, storeVars
  <2> QED
    BY <1>1, <2>1 DEF Underway
<1>11. ~UserStep
  BY DEF UserStep, Sole
<1> QED
  BY <1>1, <1>3, <1>4, <1>5, <1>6, <1>7, <1>8, <1>9, <1>10, <1>11 DEF Next

LostInv == StoreTypeOK /\ LocalInv /\ RunsInv /\ ThresholdInv /\ CandidateInv

LEMMA LostInvariant ==
  ASSUME Sole, AutoPromote, ~KeepUnpromoted
  PROVE  Spec => []LostInv
<1>1. Init => LostInv
  <2> SUFFICES ASSUME Init PROVE LostInv
    OBVIOUS
  <2>1. StoreTypeOK /\ LocalInv
    BY StoreTypeInit, LocalInvInit DEF Init
  <2>2. \A w \in Workers : pc[w] = "idle" /\ source[w] = None
    BY DEF Init
  <2>3. ThresholdInv /\ CandidateInv
    BY <2>2 DEF Init, StoreInit, ThresholdInv, CandidateInv, Underway, At
  <2>4. RunsInv
    BY RunsInit, SoleIsFinite
  <2> QED
    BY <2>1, <2>3, <2>4 DEF LostInv
<1>2. LostInv /\ [Next]_vars => LostInv'
  <2> SUFFICES ASSUME LostInv, [Next]_vars PROVE LostInv'
    OBVIOUS
  <2>1. ~Users
    BY DEF Sole
  <2>2. StoreTypeOK' /\ LocalInv'
    BY WorkerStep, StoreTypeStep DEF LostInv
  <2>3. RunsInv' /\ CandidateInv'
    BY RunsStep, SoleIsFinite, CandidateStep DEF LostInv
  <2>4. ThresholdInv'
    BY <2>1, ThresholdStep DEF LostInv
  <2> QED
    BY <2>2, <2>3, <2>4 DEF LostInv
<1> QED
  BY <1>1, <1>2, PTL DEF Spec

(* While no run is lost, one worker leaves no candidate for nobody to       *)
(* review, whatever the model proposes (process_source).                   *)
THEOREM NoCandidateCorrect ==
  ASSUME Sole, AutoPromote, ~KeepUnpromoted
  PROVE  Spec => []NoCandidateLeftBehind
<1>1. LostInv => NoCandidateLeftBehind
  BY DEF LostInv, CandidateInv, Underway, NoCandidateLeftBehind, At
<1> QED
  BY <1>1, LostInvariant, PTL

(* And what it activates has the source at hand among its evidence.        *)
THEOREM ActivatedOnEvidenceCorrect ==
  ASSUME Sole, AutoPromote, ~KeepUnpromoted
  PROVE  Spec => ActivatedOnEvidence
<1> DEFINE OnEvidence ==
      \A w \in Workers :
        (NoRunLost /\ At(w, "approve") /\ status[memory[w]] = "candidate"
         /\ status'[memory[w]] = "active")
        => source[w] \in evidence'[memory[w]]
<1>1. StoreInv /\ LostInv /\ [Next]_vars => [OnEvidence]_vars
  <2> SUFFICES ASSUME StoreInv, LostInv, [Next]_vars, NEW w \in Workers, NoRunLost, At(w, "approve")
               PROVE  source[w] \in evidence'[memory[w]]
    OBVIOUS
  <2>1. memory[w] \in Memories
    BY DEF LostInv, LocalInv, WorkerInv, At
  <2>2. source[w] \in evidence[memory[w]]
    BY DEF LostInv, CandidateInv, Underway
  <2>3. [StoreNext]_storeVars
    BY WorkerStep DEF LostInv
  <2> QED
    BY <2>1, <2>2, <2>3, StepKeepsHistory
<1>2. Spec => []StoreInv
  BY ExtractionUsesStore, StoreInvariant, PTL DEF UsesStore
<1> QED
  BY <1>1, <1>2, LostInvariant, PTL DEF Spec, ActivatedOnEvidence
=============================================================================
