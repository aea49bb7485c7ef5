--------------------------- MODULE MemoryTxProofs ---------------------------
(***************************************************************************)
(* Proofs about MemoryTx: for any number of handlers and memories, what a  *)
(* transaction read holds until it commits, so that the whole is an        *)
(* implementation of MemoryStore, and no transactions wait in a circle.    *)
(***************************************************************************)
EXTENDS MemoryTx, MemoryStoreProofs

(* A transaction holds the locks of the rows it read, and only those.      *)
Holds(h, m) == \/ stage[h] \in {"locked", "ready"} /\ m = cand[h]
               \/ stage[h] = "ready" /\ m = prev[h]
LocksMatch ==
  /\ \A h \in Handlers, m \in Memories : lock[m] = h <=> Holds(h, m)
  /\ \A h \in Handlers : stage[h] # "idle" => cand[h] \in Memories
  /\ \A h \in Handlers : stage[h] = "locked" => prev[h] \in Memories

TxInv == StoreTypeOK /\ TxTypeOK /\ LocksMatch /\ ReadsHold

LEMMA TxInvInit == TxInit => TxInv
<1> SUFFICES ASSUME TxInit PROVE TxInv
  OBVIOUS
<1>1. StoreTypeOK
  BY StoreTypeInit DEF TxInit
<1>2. TxTypeOK
  BY DEF TxInit, TxTypeOK
<1>3. LocksMatch
  BY HandlersAssumption DEF TxInit, LocksMatch, Holds
<1> QED
  BY <1>1, <1>2, <1>3 DEF TxInit, TxInv, ReadsHold

-----------------------------------------------------------------------------
(* The store sees an approval at its commit, where both locks make what    *)
(* was read true still, and every other step as it is.                     *)
LEMMA StepImplements ==
  ASSUME TxInv, [TxNext]_vars
  PROVE  [StoreNext]_storeVars
<1>1. ASSUME NEW h \in Handlers, Commit(h)
      PROVE  StoreNext
  <2>1. cand[h] \in Memories /\ prev[h] \in Memories \cup {None}
    BY <1>1 DEF Commit, TxInv, TxTypeOK, LocksMatch
  <2>2. Approve(cand[h], prev[h])
    BY <1>1 DEF Commit, Approve, TxInv, ReadsHold
  <2> QED
    BY <2>1, <2>2 DEF StoreNext
<1>2. ASSUME NEW m \in Memories, NEW s \in Statements, NEW c \in Scores,
             NEW start \in Starts, NEW E \in SUBSET Sources, CreateOther(m, s, c, start, E)
      PROVE  StoreNext
  BY <1>2 DEF CreateOther, StoreNext
<1>3. ASSUME NEW m \in Memories, RejectOther(m) \/ RejectEnd(m) \/ BeginOther(m)
      PROVE  StoreNext
  BY <1>3 DEF RejectOther, RejectEnd, BeginOther, StoreNext
<1>4. ASSUME NEW h \in Handlers,
             \/ \E m \in Rows, p \in Rows \cup {None} : BeginTx(h, m, p)
             \/ SelectCandidate(h) \/ NoCandidate(h)
             \/ UpdatePrevious(h) \/ NoPrevious(h) \/ Abort(h)
      PROVE  UNCHANGED storeVars
  BY <1>4 DEF BeginTx, SelectCandidate, NoCandidate, UpdatePrevious, NoPrevious, Abort
<1>5. CASE UNCHANGED vars
  BY <1>5 DEF vars
<1> QED
  BY <1>1, <1>2, <1>3, <1>4, <1>5 DEF TxNext

-----------------------------------------------------------------------------
(* The end of a transaction gives up its locks and no others.              *)
LEMMA EndKeepsLocks ==
  ASSUME TxTypeOK, LocksMatch, NEW h \in Handlers, NEW M \in SUBSET Memories, End(h, M)
  PROVE  /\ TxTypeOK' /\ LocksMatch'
         /\ stage'[h] = "idle"
         /\ \A g \in Handlers \ {h} : /\ stage'[g] = stage[g]
                                      /\ cand'[g] = cand[g]
                                      /\ prev'[g] = prev[g]
<1>1. TxTypeOK'
  BY DEF End, TxTypeOK
<1>2. /\ stage'[h] = "idle"
      /\ \A g \in Handlers \ {h} : /\ stage'[g] = stage[g]
                                   /\ cand'[g] = cand[g]
                                   /\ prev'[g] = prev[g]
      /\ \A m \in Memories : lock'[m] = IF lock[m] = h THEN None ELSE lock[m]
  BY DEF End, TxTypeOK
<1>3. LocksMatch'
  BY <1>2, HandlersAssumption DEF LocksMatch, Holds
<1> QED
  BY <1>1, <1>2, <1>3

(* A lock that was free and is taken.                                      *)
LEMMA TakeKeepsLocks ==
  ASSUME TxTypeOK, LocksMatch, NEW h \in Handlers, NEW m \in Memories,
         lock[m] = None, lock' = [lock EXCEPT ![m] = h],
         \/ /\ stage[h] = "begun" /\ m = cand[h]
            /\ stage' = [stage EXCEPT ![h] = IF prev[h] = None THEN "ready" ELSE "locked"]
         \/ /\ stage[h] = "locked" /\ m = prev[h]
            /\ stage' = [stage EXCEPT ![h] = "ready"],
         UNCHANGED <<cand, prev, since, later>>
  PROVE  TxTypeOK' /\ LocksMatch'
<1>1. TxTypeOK'
  BY DEF TxTypeOK
<1>2. /\ \A k \in Memories : lock'[k] = IF k = m THEN h ELSE lock[k]
      /\ \A g \in Handlers \ {h} : stage'[g] = stage[g]
      /\ h # None
  BY HandlersAssumption DEF TxTypeOK
<1>3. CASE stage[h] = "begun"
  <2>1. stage'[h] = IF prev[h] = None THEN "ready" ELSE "locked"
    BY <1>3 DEF TxTypeOK
  <2>2. prev[h] \in Memories \cup {None}
    BY DEF TxTypeOK
  <2>3. m = cand[h]
    BY <1>3
  <2>4. \A g \in Handlers, k \in Memories : lock'[k] = g <=> Holds(g, k)'
    <3> SUFFICES ASSUME NEW g \in Handlers, NEW k \in Memories
                 PROVE  lock'[k] = g <=> Holds(g, k)'
      OBVIOUS
    <3>1. CASE g # h
      BY <1>2, <3>1, HandlersAssumption DEF LocksMatch, Holds
    <3>2. CASE g = h
      <4>1. ~ Holds(h, k)
        BY <1>3 DEF Holds
      <4>2. Holds(h, k)' <=> k = m
        BY <2>1, <2>3, NoneAssumption DEF Holds
      <4> QED
        BY <1>2, <3>2, <4>1, <4>2 DEF LocksMatch
    <3> QED
      BY <3>1, <3>2
  <2>5. /\ \A g \in Handlers : stage'[g] # "idle" => cand'[g] \in Memories
        /\ \A g \in Handlers : stage'[g] = "locked" => prev'[g] \in Memories
    BY <1>2, <1>3, <2>1, <2>2, <2>3 DEF LocksMatch
  <2> QED
    BY <1>1, <2>4, <2>5 DEF LocksMatch
<1>4. CASE stage[h] = "locked"
  <2>1. stage'[h] = "ready" /\ m = prev[h]
    BY <1>4 DEF TxTypeOK
  <2>2. \A g \in Handlers, k \in Memories : lock'[k] = g <=> Holds(g, k)'
    <3> SUFFICES ASSUME NEW g \in Handlers, NEW k \in Memories
                 PROVE  lock'[k] = g <=> Holds(g, k)'
      OBVIOUS
    <3>1. CASE g # h
      BY <1>2, <3>1, HandlersAssumption DEF LocksMatch, Holds
    <3>2. CASE g = h
      <4>1. Holds(h, k) <=> k = cand[h]
        BY <1>4 DEF Holds
      <4>2. Holds(h, k)' <=> k = cand[h] \/ k = m
        BY <2>1 DEF Holds
      <4> QED
        BY <1>2, <3>2, <4>1, <4>2 DEF LocksMatch
    <3> QED
      BY <3>1, <3>2
  <2>3. /\ \A g \in Handlers : stage'[g] # "idle" => cand'[g] \in Memories
        /\ \A g \in Handlers : stage'[g] = "locked" => prev'[g] \in Memories
    BY <1>2, <1>4, <2>1 DEF LocksMatch
  <2> QED
    BY <1>1, <2>2, <2>3 DEF LocksMatch
<1> QED
  BY <1>3, <1>4

(* A step of the store that leaves the locked rows alone, but for a        *)
(* validity that begins, leaves every reading true.                        *)
LEMMA ReadsFrame ==
  ASSUME StoreTypeOK, TxTypeOK, LocksMatch, ReadsHold,
         UNCHANGED <<stage, cand, prev>>,
         \A m \in Memories :
           lock[m] # None => /\ status'[m] = status[m]
                             /\ validFrom'[m] = "future" => validFrom[m] = "future"
  PROVE  ReadsHold'
<1> SUFFICES ASSUME NEW h \in Handlers, stage[h] \in {"locked", "ready"}
             PROVE  /\ Candidate(cand[h])'
                    /\ stage[h] = "ready" => Approvable(cand[h], prev[h])'
  BY DEF ReadsHold
<1>1. Candidate(cand[h])'
  BY HandlersAssumption DEF ReadsHold, Candidate, LocksMatch, Holds
<1>2. ASSUME stage[h] = "ready", prev[h] # None
      PROVE  Supersedable(prev[h])'
  <2>1. prev[h] \in Memories /\ lock[prev[h]] = h
    BY <1>2 DEF TxTypeOK, LocksMatch, Holds
  <2>2. Supersedable(prev[h])
    BY <1>2 DEF ReadsHold, Approvable
  <2> QED
    BY <2>1, <2>2, HandlersAssumption DEF Supersedable
<1> QED
  BY <1>1, <1>2 DEF Approvable, Candidate

-----------------------------------------------------------------------------
LEMMA TxInvStep ==
  ASSUME TxInv, [TxNext]_vars
  PROVE  TxInv'
<1> USE DEF TxInv
<1>0. StoreTypeOK'
  BY StepImplements, StoreTypeStep
<1>1. ASSUME NEW h \in Handlers, NEW m \in Rows, NEW p \in Rows \cup {None}, BeginTx(h, m, p)
      PROVE  TxInv'
  <2>1. m \in Memories /\ p \in Memories \cup {None}
    BY DEF Rows
  <2>2. TxTypeOK'
    BY <1>1, <2>1 DEF BeginTx, TxTypeOK, Open
  <2>3. LocksMatch'
    BY <1>1, <2>1 DEF BeginTx, TxTypeOK, LocksMatch, Holds
  <2>4. ReadsHold'
    BY <1>1 DEF BeginTx, TxTypeOK, ReadsHold, Approvable, Candidate, Supersedable, storeVars
  <2> QED
    BY <1>0, <2>2, <2>3, <2>4
<1>2. ASSUME NEW h \in Handlers, SelectCandidate(h)
      PROVE  TxInv'
  <2>1. cand[h] \in Memories
    BY <1>2 DEF SelectCandidate, LocksMatch
  <2>2. TxTypeOK' /\ LocksMatch'
    BY <1>2, <2>1, TakeKeepsLocks DEF SelectCandidate, Free
  <2>3. ReadsHold'
    BY <1>2 DEF SelectCandidate, TxTypeOK, ReadsHold, Approvable, Candidate, Supersedable, storeVars
  <2> QED
    BY <1>0, <2>2, <2>3
<1>3. ASSUME NEW h \in Handlers, UpdatePrevious(h)
      PROVE  TxInv'
  <2>1. prev[h] \in Memories /\ Supersedable(prev[h]) /\ status[prev[h]] = "active"
    BY <1>3 DEF UpdatePrevious, LocksMatch, EndsAfterItBegan, Supersedable
  <2>2. lock[prev[h]] = None
    <3>1. lock[prev[h]] \in {None, h}
      BY <1>3, <2>1 DEF UpdatePrevious, Busy
    <3>2. lock[prev[h]] = h => prev[h] = cand[h]
      BY <1>3, <2>1 DEF UpdatePrevious, LocksMatch, Holds
    <3>3. Candidate(cand[h])
      BY <1>3 DEF UpdatePrevious, ReadsHold
    <3> QED
      BY <2>1, <3>1, <3>2, <3>3 DEF Candidate
  <2>3. TxTypeOK' /\ LocksMatch'
    BY <1>3, <2>1, <2>2, TakeKeepsLocks DEF UpdatePrevious
  <2>4. ReadsHold'
    BY <1>3, <2>1 DEF UpdatePrevious, TxTypeOK, ReadsHold, Approvable, Candidate, Supersedable, storeVars
  <2> QED
    BY <1>0, <2>3, <2>4
<1>4. ASSUME NEW h \in Handlers, End(h, {}), UNCHANGED storeVars
      PROVE  TxInv'
  <2>1. /\ TxTypeOK' /\ LocksMatch'
        /\ stage'[h] = "idle"
        /\ \A g \in Handlers \ {h} : stage'[g] = stage[g] /\ cand'[g] = cand[g] /\ prev'[g] = prev[g]
    BY <1>4, EndKeepsLocks
  <2>2. ReadsHold'
    BY <1>4, <2>1 DEF ReadsHold, Approvable, Candidate, Supersedable, storeVars
  <2> QED
    BY <1>0, <2>1, <2>2
<1>5. ASSUME NEW h \in Handlers, Commit(h)
      PROVE  TxInv'
  <2>1. cand[h] \in Memories /\ prev[h] \in Memories \cup {None}
    BY <1>5 DEF Commit, TxTypeOK, LocksMatch
  <2> DEFINE M == IF validFrom[cand[h]] = "null" THEN {cand[h]} ELSE {}
  <2>2. M \in SUBSET Memories /\ End(h, M)
    BY <1>5, <2>1 DEF Commit
  <2> HIDE DEF M
  <2>3. /\ TxTypeOK' /\ LocksMatch'
        /\ stage'[h] = "idle"
        /\ \A g \in Handlers \ {h} : stage'[g] = stage[g] /\ cand'[g] = cand[g] /\ prev'[g] = prev[g]
    BY <2>2, EndKeepsLocks
  <2>4. ASSUME NEW m \in Memories, m # cand[h], m # prev[h]
        PROVE  status'[m] = status[m] /\ validFrom'[m] = validFrom[m]
    BY <1>5, <2>4 DEF Commit, Approved, StoreTypeOK
  <2>5. ASSUME NEW g \in Handlers, stage'[g] \in {"locked", "ready"}
        PROVE  /\ Candidate(cand[g])'
               /\ stage'[g] = "ready" => Approvable(cand[g], prev[g])'
    <3>1. g # h /\ stage'[g] = stage[g] /\ cand'[g] = cand[g] /\ prev'[g] = prev[g]
      BY <2>3, <2>5
    <3>2. \A m \in Memories : Holds(g, m) => m # cand[h] /\ m # prev[h]
      BY <1>5, <2>1, <3>1 DEF Commit, LocksMatch, Holds
    <3>3. cand[g] \in Memories /\ Holds(g, cand[g]) /\ Candidate(cand[g])
      BY <2>5, <3>1 DEF LocksMatch, Holds, ReadsHold
    <3>4. Candidate(cand[g])'
      BY <2>4, <3>1, <3>2, <3>3 DEF Candidate
    <3>5. ASSUME stage[g] = "ready", prev[g] # None
          PROVE  Supersedable(prev[g])'
      <4>1. prev[g] \in Memories /\ Holds(g, prev[g]) /\ Supersedable(prev[g])
        BY <3>5 DEF TxTypeOK, Holds, ReadsHold, Approvable
      <4> QED
        BY <2>4, <3>1, <3>2, <4>1 DEF Supersedable
    <3> QED
      BY <3>1, <3>4, <3>5 DEF Approvable, Candidate
  <2>6. ReadsHold'
    BY <2>5 DEF ReadsHold
  <2> QED
    BY <1>0, <2>3, <2>6
<1>6. ASSUME NEW m \in Memories, NEW s \in Statements, NEW c \in Scores,
             NEW start \in Starts, NEW E \in SUBSET Sources, CreateOther(m, s, c, start, E)
      PROVE  TxInv'
  <2>1. TxTypeOK' /\ LocksMatch'
    BY <1>6 DEF CreateOther, TxTypeOK, LocksMatch, Holds, Open
  <2>2. lock[m] = None
    <3>1. ASSUME NEW h \in Handlers, Holds(h, m)
          PROVE  status[m] # "none"
      BY <3>1, NoneAssumption DEF Holds, ReadsHold, Approvable, Candidate, Supersedable
    <3> QED
      BY <1>6, <3>1 DEF CreateOther, Create, TxTypeOK, LocksMatch
  <2>3. ReadsHold'
    BY <1>6, <2>2, ReadsFrame DEF CreateOther, Create, StoreTypeOK
  <2> QED
    BY <1>0, <2>1, <2>3
<1>7. ASSUME NEW m \in Memories, RejectOther(m) \/ RejectEnd(m)
      PROVE  TxInv'
  <2>1. TxTypeOK' /\ LocksMatch' /\ UNCHANGED <<stage, cand, prev>>
    BY <1>7 DEF RejectOther, RejectEnd, txVars, TxTypeOK, LocksMatch, Holds
  <2>2. ReadsHold'
    BY <1>7, <2>1, ReadsFrame
    DEF RejectOther, RejectEnd, RejectRow, RejectAudit, RejectLost, Free, StoreTypeOK
  <2> QED
    BY <1>0, <2>1, <2>2
<1>8. ASSUME NEW m \in Memories, BeginOther(m)
      PROVE  TxInv'
  <2>1. TxTypeOK' /\ LocksMatch' /\ UNCHANGED <<stage, cand, prev>>
    BY <1>8 DEF BeginOther, TxTypeOK, LocksMatch, Holds, Open
  <2>2. ReadsHold'
    BY <1>8, <2>1, ReadsFrame DEF BeginOther, Begin, StoreTypeOK
  <2> QED
    BY <1>0, <2>1, <2>2
<1>9. CASE UNCHANGED vars
  BY <1>0, <1>9 DEF vars, txVars, storeVars, TxTypeOK, LocksMatch, Holds, ReadsHold,
                    Approvable, Candidate, Supersedable
<1> QED
  BY <1>1, <1>2, <1>3, <1>4, <1>5, <1>6, <1>7, <1>8, <1>9
  DEF TxNext, NoCandidate, NoPrevious, Abort

LEMMA TxInvariant == TxSpec => []TxInv
<1>1. TxInit => TxInv
  BY TxInvInit
<1>2. TxInv /\ [TxNext]_vars => TxInv'
  BY TxInvStep
<1> QED
  BY <1>1, <1>2, PTL DEF TxSpec

-----------------------------------------------------------------------------
(* ReadsHold: what a transaction read of the memories it approves and      *)
(* supersedes is true until it commits (approve_memory).                   *)
THEOREM ReadsHoldCorrect == TxSpec => []ReadsHold
<1>1. TxInv => ReadsHold
  BY DEF TxInv
<1> QED
  BY <1>1, TxInvariant, PTL

(* NoDeadlock: however many approvals cross, some one of any group waits   *)
(* for no other of the group: one that holds a candidate waits only for    *)
(* one that is ready to commit (approve_memory).                           *)
THEOREM NoDeadlockCorrect == TxSpec => []NoDeadlock
<1>1. ASSUME TxInv, NEW H \in SUBSET Handlers, H # {}
      PROVE  \E h \in H : \A g \in H : ~ WaitsFor(h, g)
  <2> USE DEF TxInv
  <2>1. CASE \E h \in H : stage[h] \in {"idle", "ready"}
    BY <2>1 DEF WaitsFor
  <2>2. CASE \A h \in H : stage[h] \notin {"idle", "ready"}
    <3>1. \A h \in H : stage[h] \in {"begun", "locked"}
      BY <1>1, <2>2 DEF TxTypeOK
    <3>2. CASE \E h \in H : stage[h] = "locked"
      <4>1. PICK h \in H : stage[h] = "locked"
        BY <3>2
      <4>2. ASSUME NEW g \in H, WaitsFor(h, g)
            PROVE  FALSE
        <5>1. status[prev[h]] = "active" /\ lock[prev[h]] = g /\ prev[h] \in Memories
          BY <1>1, <4>1, <4>2 DEF WaitsFor, Busy, LocksMatch
        <5>2. stage[g] = "locked" /\ prev[h] = cand[g]
          BY <1>1, <3>1, <5>1 DEF LocksMatch, Holds
        <5> QED
          BY <1>1, <5>1, <5>2 DEF ReadsHold, Candidate
      <4> QED
        BY <4>2
    <3>3. CASE \A h \in H : stage[h] = "begun"
      <4>1. PICK h \in H : stage[h] = "begun"
        BY <1>1, <3>3
      <4>2. \A g \in H : ~ WaitsFor(h, g)
        BY <1>1, <3>3, <4>1 DEF WaitsFor, LocksMatch, Holds
      <4> QED
        BY <4>2
    <3> QED
      BY <3>1, <3>2, <3>3
  <2> QED
    BY <2>1, <2>2
<1>2. TxInv => NoDeadlock
  BY <1>1 DEF NoDeadlock
<1> QED
  BY <1>2, TxInvariant, PTL

(* ImplementsStore: approve_memory taken apart into its statements, with   *)
(* its locks, rollbacks and other callers, is MemoryStore, where it is one *)
(* step.                                                                   *)
THEOREM StoreImplemented == TxSpec => ImplementsStore
<1>1. TxInit => StoreInit
  BY DEF TxInit
<1>2. TxInv /\ [TxNext]_vars => [StoreNext]_storeVars
  BY StepImplements
<1> QED
  BY <1>1, <1>2, TxInvariant, PTL DEF TxSpec, StoreSpec, ImplementsStore

(* So two approvals that race on their row locks leave one successor, a    *)
(* chain with an origin, validity periods that agree and a current version *)
(* of every fact, and searches see each as one step (approve_memory).      *)
THEOREM LocksKeepHistory ==
  /\ TxSpec => [](OneSuccessor /\ HistoryHasOrigin /\ ValidityMatchesStatus /\ CurrentVersion)
  /\ TxSpec => SearchSeesApprovals
  BY StoreImplemented, OneSuccessorCorrect, HistoryHasOriginCorrect, ValidityCorrect,
     CurrentVersionCorrect, SearchSeesApprovalsCorrect, PTL DEF ImplementsStore
=============================================================================
