----------------------------- MODULE Extraction -----------------------------
(***************************************************************************)
(* The extract_memories jobs (memory_extraction.rs: process_source and the *)
(* functions it calls) on top of MemoryStore.  A worker runs one job at a  *)
(* time; every SQL statement or transaction of process_source is a step,   *)
(* between which other workers and the users of the HTTP API (memories.rs) *)
(* may take theirs, and after which the job may be cut off.                *)
(*                                                                         *)
(* The job queue is seen from here as at-least-once delivery: the job of a *)
(* source is started until one run of it ends well, at most MaxRuns times. *)
(* Two workers may run it at once, which JobQueue excludes only under its   *)
(* assumption Exclusive.                                                   *)
(*                                                                         *)
(* The model's answer is any sequence of proposals.  One that              *)
(* validate_candidate discards leaves no trace, so it is left out, and so  *)
(* are the texts: a statement is one of Statements, already normalised.    *)
(***************************************************************************)
EXTENDS MemoryStore

CONSTANTS
  Workers,
  Users,            \* TRUE: the HTTP API creates, approves and rejects too
  AutoPromote,      \* memory_auto_promote_enabled
  KeepUnpromoted,   \* memory_keep_unpromoted_candidates
  Faults,           \* TRUE: a run may be cut off anywhere
  MaxProposals,     \* memory_max_candidates_per_source
  MaxRuns           \* bound: runs of one job (fail_job gives up at 8)

ASSUME PolicyAssumption == /\ AutoPromote \in BOOLEAN /\ KeepUnpromoted \in BOOLEAN
                           /\ Users \in BOOLEAN /\ Faults \in BOOLEAN
ASSUME MaxAssumption == MaxProposals \in Nat /\ MaxRuns \in Nat
ASSUME FaultsAssumption == Faults => Lossy

VARIABLES
  pc,         \* pc[w]: the statement w runs next
  source,     \* source[w]: the source of its job
  left,       \* left[w]: proposals still to come
  proposal,   \* proposal[w]: candidate of the loop, while it is looked at
  memory,     \* memory[w]: existing_id, or the id of the candidate created
  target,     \* target[w]: what resolve_supersedes returned
  runs,       \* runs[s]: how often the job of s was started
  done        \* sources whose job ended well

local == <<pc, source, left, proposal, memory, target>>
queue == <<runs, done>>
vars == <<storeVars, local, queue>>

(* Proposals that pass validate_candidate: what it looks at beyond these   *)
(* fields (the type, lengths, the quote, secrets) plays no part later.     *)
Proposals == [statement : Statements, score : Scores, start : Starts,
              supersedes : Memories \cup {None}]

Steps == {"idle", "propose", "reinforce", "count", "resolve", "create", "approve"}

TypeOK == /\ StoreTypeOK
          /\ pc \in [Workers -> Steps]
          /\ source \in [Workers -> Sources \cup {None}]
          /\ left \in [Workers -> 0..MaxProposals]
          /\ proposal \in [Workers -> Proposals \cup {None}]
          /\ memory \in [Workers -> Memories \cup {None}]
          /\ target \in [Workers -> Memories \cup {None}]
          /\ runs \in [Sources -> 0..MaxRuns]
          /\ done \subseteq Sources

Init == /\ StoreInit
        /\ pc = [w \in Workers |-> "idle"]
        /\ source = [w \in Workers |-> None]
        /\ left = [w \in Workers |-> 0]
        /\ proposal = [w \in Workers |-> None]
        /\ memory = [w \in Workers |-> None]
        /\ target = [w \in Workers |-> None]
        /\ runs = [s \in Sources |-> 0]
        /\ done = {}

-----------------------------------------------------------------------------
At(w, step) == pc[w] = step

(* w goes to a step inside the handling of one proposal. *)
Goto(w, step) == /\ pc' = [pc EXCEPT ![w] = step]
                 /\ UNCHANGED <<source, queue>>

(* w goes on with memory m, and looks at the proposal no more. *)
GoOnWith(w, m, step) == /\ Goto(w, step)
                        /\ memory' = [memory EXCEPT ![w] = m]
                        /\ proposal' = [proposal EXCEPT ![w] = None]

(* continue: w is done with this proposal. *)
NextProposal(w) == /\ Goto(w, "propose")
                   /\ proposal' = [proposal EXCEPT ![w] = None]
                   /\ memory' = [memory EXCEPT ![w] = None]
                   /\ target' = [target EXCEPT ![w] = None]

(* The run is over: its local variables are gone. *)
LeaveJob(w) == /\ pc' = [pc EXCEPT ![w] = "idle"]
               /\ source' = [source EXCEPT ![w] = None]
               /\ left' = [left EXCEPT ![w] = 0]
               /\ proposal' = [proposal EXCEPT ![w] = None]
               /\ memory' = [memory EXCEPT ![w] = None]
               /\ target' = [target EXCEPT ![w] = None]
               /\ UNCHANGED runs

(* The queue hands the job of s to w, which reads the source and at most   *)
(* memory_context_limit active memories and calls the model.  This writes  *)
(* nothing, and what was read only informs the model: nothing ties its     *)
(* answer, of which max_candidates proposals are taken, to it.             *)
StartJob(w, s) ==
  /\ At(w, "idle")
  /\ s \notin done
  /\ runs[s] < MaxRuns
  /\ pc' = [pc EXCEPT ![w] = "propose"]
  /\ source' = [source EXCEPT ![w] = s]
  /\ left' = [left EXCEPT ![w] = MaxProposals]
  /\ runs' = [runs EXCEPT ![s] = @ + 1]
  /\ UNCHANGED <<proposal, memory, target, done, storeVars>>

(* No proposal is left; complete_job. *)
FinishJob(w) ==
  /\ At(w, "propose")
  /\ done' = done \cup {source[w]}
  /\ LeaveJob(w)
  /\ UNCHANGED storeVars

(* Seeded fault: the thresholds are not compared. *)
PromotedAlways(p) == AutoPromote

(* should_auto_promote *)
Promoted(p) == AutoPromote /\ p.score = "high"

(* The next proposal of the answer is p, which may name any memory there   *)
(* is to be superseded, shown to the model or not.  A proposal that names  *)
(* none that exists meets the same end as one that names an inactive one.  *)
Take(w, p) == /\ At(w, "propose")
              /\ left[w] > 0
              /\ p.supersedes \in Rows \cup {None}
              /\ left' = [left EXCEPT ![w] = @ - 1]

(* Rows find_existing_memory selects: the active ones come first. *)
Same(p, st) == {m \in Memories : status[m] = st /\ statement[m] = p.statement}
(* Seeded fault: candidates are overlooked. *)
ExistingActive(p) == Same(p, "active")
Existing(p) == IF Same(p, "active") # {} THEN Same(p, "active") ELSE Same(p, "candidate")

(* find_existing_memory returns a row. *)
FindExisting(w, p, m) ==
  /\ Take(w, p)
  /\ m \in Existing(p)
  /\ \/ /\ status[m] = "active"
        /\ Goto(w, "reinforce")
        /\ memory' = [memory EXCEPT ![w] = m]
        /\ UNCHANGED <<proposal, target>>
     \/ /\ status[m] = "candidate"
        /\ Promoted(p)
        /\ Goto(w, "resolve")
        /\ memory' = [memory EXCEPT ![w] = m]
        /\ proposal' = [proposal EXCEPT ![w] = p]
        /\ UNCHANGED target
     \/ /\ status[m] = "candidate"
        /\ ~Promoted(p)
        /\ NextProposal(w)
  /\ UNCHANGED storeVars

(* Seeded fault: the policy gate is missing. *)
DiscardedNever(p) == FALSE

(* A proposal the policy drops rather than keep it for review. *)
Discarded(p) == AutoPromote /\ ~Promoted(p) /\ ~KeepUnpromoted

(* find_existing_memory returns nothing. *)
FindNothing(w, p) ==
  /\ Take(w, p)
  /\ Existing(p) = {}
  /\ \/ /\ Discarded(p)
        /\ NextProposal(w)
     \/ /\ ~Discarded(p)
        /\ Goto(w, "resolve")
        /\ proposal' = [proposal EXCEPT ![w] = p]
        /\ UNCHANGED <<memory, target>>
  /\ UNCHANGED storeVars

(* reinforce_existing_memory, INSERT INTO memory_evidence. *)
Reinforce(w) ==
  /\ At(w, "reinforce")
  /\ UNCHANGED left
  /\ \/ /\ AddEvidence(memory[w], source[w])
        /\ Goto(w, "count")
        /\ UNCHANGED <<proposal, memory, target>>
     \/ /\ source[w] \in evidence[memory[w]]
        /\ NextProposal(w)
        /\ UNCHANGED storeVars

(* reinforce_existing_memory, UPDATE memories. *)
Count(w) == /\ At(w, "count")
            /\ Recur(memory[w])
            /\ UNCHANGED left
            /\ NextProposal(w)

(* create_memory_candidate comes next, or approve_memory when there was a   *)
(* candidate already.                                                      *)
Resolved(w, t) ==
  /\ target' = [target EXCEPT ![w] = t]
  /\ \/ /\ memory[w] = None
        /\ Goto(w, "create")
        /\ UNCHANGED <<proposal, memory>>
     \/ /\ memory[w] # None
        /\ GoOnWith(w, memory[w], "approve")

(* Seeded fault: the target is believed, not looked up. *)
ResolveUnchecked(w) ==
  /\ At(w, "resolve")
  /\ Resolved(w, proposal[w].supersedes)
  /\ UNCHANGED <<left, storeVars>>

(* resolve_supersedes; a target that is named and not active ends the      *)
(* handling of the proposal.                                               *)
Resolve(w) ==
  LET t == proposal[w].supersedes IN
  /\ At(w, "resolve")
  /\ \/ /\ t = None \/ (t \in Memories /\ status[t] = "active")
        /\ Resolved(w, t)
     \/ /\ t \in Memories /\ status[t] # "active"
        /\ NextProposal(w)
  /\ UNCHANGED <<left, storeVars>>

(* create_memory_candidate with the source as its evidence. *)
CreateCandidate(w, m) ==
  /\ At(w, "create")
  /\ UNCHANGED left
  /\ Create(m, proposal[w].statement, proposal[w].score, proposal[w].start, {source[w]})
  /\ \/ /\ Promoted(proposal[w])
        /\ GoOnWith(w, m, "approve")
        /\ UNCHANGED target
     \/ /\ ~Promoted(proposal[w])
        /\ NextProposal(w)

(* Seeded fault: the checks that found the rows fit are not repeated. *)
ApproveChecked(w) == /\ At(w, "approve")
                     /\ Approved(memory[w], target[w])
                     /\ UNCHANGED left
                     /\ NextProposal(w)

(* approve_memory succeeds. *)
ApproveMemory(w) == /\ At(w, "approve")
                    /\ Approve(memory[w], target[w])
                    /\ UNCHANGED left
                    /\ NextProposal(w)

(* approve_memory returns an error, and with it the run (fail_job). *)
ApproveFails(w) == /\ At(w, "approve")
                   /\ ~Approvable(memory[w], target[w])
                   /\ LeaveJob(w)
                   /\ UNCHANGED <<done, storeVars>>

(* A database or provider error, a crash: the rest of the run is not done. *)
CutOff(w) == /\ Faults
             /\ ~At(w, "idle")
             /\ IF At(w, "count") THEN RecurLost(memory[w]) ELSE UNCHANGED storeVars
             /\ LeaveJob(w)
             /\ UNCHANGED done

(* The HTTP API, and time. *)
UserStep == /\ Users
            /\ \/ \E m \in Memories, s \in Statements, c \in Scores,
                     start \in Starts, E \in SUBSET Sources : Create(m, s, c, start, E)
               \/ \E m \in Memories, p \in Memories \cup {None} : Approve(m, p)
               \/ \E m \in Memories : RejectRow(m) \/ RejectAudit(m) \/ RejectLost(m)
            /\ UNCHANGED <<local, queue>>
TimeStep == /\ \E m \in Memories : Begin(m)
            /\ UNCHANGED <<local, queue>>

Next == \/ \E w \in Workers, s \in Sources : StartJob(w, s)
        \/ \E w \in Workers, p \in Proposals :
             FindNothing(w, p) \/ \E m \in Memories : FindExisting(w, p, m)
        \/ \E w \in Workers : Reinforce(w) \/ Count(w) \/ Resolve(w)
        \/ \E w \in Workers, m \in Memories : CreateCandidate(w, m)
        \/ \E w \in Workers : ApproveMemory(w) \/ ApproveFails(w)
        \/ \E w \in Workers : FinishJob(w) \/ CutOff(w)
        \/ UserStep
        \/ TimeStep

Spec == Init /\ [][Next]_vars

-----------------------------------------------------------------------------
Live == {m \in Memories : status[m] \in {"candidate", "active"}}

(* A fact is one memory: no two memories that are active, or about to be,  *)
(* say the same.  find_existing_memory is meant to see to it, although     *)
(* nothing ties its SELECT to the later INSERT (memory_extraction.rs).     *)
OneMemoryPerFact == \A m, n \in Live : statement[m] = statement[n] => m = n

(* Without a user's hand no memory becomes active below the promotion      *)
(* thresholds (README, "Grounded auto-promotion").                         *)
ActivePassedThresholds ==
  \A m \in Memories : status[m] \in {"active", "superseded"} => score[m] = "high"

(* A run of the job of s was cut off or failed, or was one too many: the   *)
(* runs that are under way and the one that ended well are not all.        *)
RunLost(s) ==
  runs[s] # Cardinality({w \in Workers : source[w] = s}) + Cardinality(done \cap {s})

NoRunLost == \A s \in Sources : ~RunLost(s)

(* When review is off and no run was lost, extraction leaves no candidate  *)
(* behind for nobody to review: a candidate is on its way to being         *)
(* approved by the worker that made it or found it.                        *)
NoCandidateLeftBehind ==
  NoRunLost => \A m \in Memories : status[m] = "candidate" =>
    \E w \in Workers : memory[w] = m /\ pc[w] \in {"resolve", "approve"}

(* The source whose extraction activates a memory is among its evidence,   *)
(* unless a lost run left the candidate there.                             *)
ActivatedOnEvidence ==
  [][\A w \in Workers :
       (NoRunLost /\ At(w, "approve") /\ status[memory[w]] = "candidate"
        /\ status'[memory[w]] = "active")
       => source[w] \in evidence'[memory[w]]]_vars

(* With nobody to interfere, a proposal that got past every check of        *)
(* process_source can be activated, through whatever supersedes whatever    *)
(* in the same answer; but a target that begins in the future passes the   *)
(* checks and fails the CHECK constraint.                                  *)
CheckedProposalsActivate ==
  \A w \in Workers :
    /\ At(w, "approve")
    /\ target[w] # None => validFrom[target[w]] # "future"
    => Approvable(memory[w], target[w])

(* The evidence of m that a run took part in to the end, the count after   *)
(* it included, as far as one can tell from the queue.                     *)
Counted(m) == {s \in evidence[m] :
                 /\ ~RunLost(s)
                 /\ \A w \in Workers : ~(At(w, "count") /\ memory[w] = m /\ source[w] = s)}

(* Without a user's hand, a lost run is all that can cost an active memory *)
(* a count, and it costs one for its source at most: evidence and count    *)
(* are two statements, the retry finds the evidence there and counts no    *)
(* more, and another worker may do so before the first has counted         *)
(* (reinforce_existing_memory).                                            *)
EvidenceCounted ==
  \A m \in Memories : status[m] = "active" => Cardinality(Counted(m)) <= recurrence[m]

(* Whatever workers and users do, and however they interleave, the store   *)
(* only ever sees its own operations, so what holds of it holds here.      *)
UsesStore == StoreSpec
=============================================================================
