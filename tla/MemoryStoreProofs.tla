------------------------- MODULE MemoryStoreProofs -------------------------
(***************************************************************************)
(* Proofs about MemoryStore: its invariants hold for any number of         *)
(* memories and sources, whatever callers do and wherever they are cut off.*)
(***************************************************************************)
EXTENDS MemoryStore, FiniteSetTheorems, TLAPS

(* The actions that only move a memory along its lifecycle or touch        *)
(* bookkeeping; the other conjuncts of StoreNext are handled by name.      *)
Aside(m) == RejectRow(m) \/ RejectAudit(m) \/ RejectLost(m)

-----------------------------------------------------------------------------
(* Types. *)
LEMMA StoreTypeInit == StoreInit => StoreTypeOK
  BY DEF StoreInit, StoreTypeOK, Statuses

LEMMA StoreTypeStep ==
  ASSUME StoreTypeOK, [StoreNext]_storeVars
  PROVE  StoreTypeOK'
<1>1. ASSUME NEW m \in Memories, NEW s \in Statements, NEW c \in Scores,
             NEW start \in Starts, NEW E \in SUBSET Sources, Create(m, s, c, start, E)
      PROVE  StoreTypeOK'
  BY <1>1, ScoresAssumption, StartsAssumption DEF Create, StoreTypeOK, Statuses
<1>2. ASSUME NEW m \in Memories, NEW p \in Memories \cup {None}, Approve(m, p)
      PROVE  StoreTypeOK'
  BY <1>2 DEF Approve, Approved, StoreTypeOK, Statuses, content
<1>3. ASSUME NEW m \in Memories, Aside(m)
      PROVE  StoreTypeOK'
  BY <1>3 DEF Aside, RejectRow, RejectAudit, RejectLost, StoreTypeOK, Statuses, content
<1>4. ASSUME NEW m \in Memories, NEW s \in Sources, AddEvidence(m, s)
      PROVE  StoreTypeOK'
  BY <1>4 DEF AddEvidence, StoreTypeOK, content
<1>5. ASSUME NEW m \in Memories, Recur(m) \/ RecurLost(m) \/ Begin(m)
      PROVE  StoreTypeOK'
  BY <1>5 DEF Recur, RecurLost, Begin, StoreTypeOK, content
<1>6. CASE UNCHANGED storeVars
  BY <1>6 DEF storeVars, StoreTypeOK
<1> QED
  BY <1>1, <1>2, <1>3, <1>4, <1>5, <1>6 DEF StoreNext, Aside

-----------------------------------------------------------------------------
(* The supersession chain. *)

(* A step that leaves supersedes alone, and every status but those of rows *)
(* that are new, candidates or rejected, keeps the chain.                  *)
LEMMA ChainFrame ==
  ASSUME OneSuccessor, HistoryHasOrigin, supersedes' = supersedes,
         \A m \in Memories : \/ status'[m] = status[m]
                             \/ /\ status[m] \notin {"active", "superseded"}
                                /\ status'[m] \notin {"active", "superseded"}
  PROVE  OneSuccessor' /\ HistoryHasOrigin'
<1>1. \A p \in Memories : Successors(p)' = Successors(p)
  BY DEF Successors
<1>2. \A p \in Memories : \A m \in Successors(p) : m \in Memories
  BY DEF Successors
<1>3. OneSuccessor'
  BY <1>1, <1>2 DEF OneSuccessor
<1>4. HistoryHasOrigin'
  BY DEF HistoryHasOrigin
<1> QED
  BY <1>3, <1>4

(* approve_memory adds one link, from a memory without links to one that   *)
(* nothing superseded.                                                     *)
LEMMA ApproveKeepsChain ==
  ASSUME StoreTypeOK, OneSuccessor, HistoryHasOrigin,
         NEW m \in Memories, NEW p \in Memories \cup {None}, Approve(m, p)
  PROVE  OneSuccessor' /\ HistoryHasOrigin'
<1>1. /\ status[m] = "candidate"
      /\ p # None => status[p] = "active"
      /\ m # p
  BY NoneAssumption DEF Approve, Approved, Approvable, Candidate, Supersedable
<1>2. /\ \A k \in Memories : supersedes'[k] = IF k = m THEN p ELSE supersedes[k]
      /\ \A k \in Memories : status'[k] = IF k = m THEN "active"
                                          ELSE IF k = p THEN "superseded" ELSE status[k]
  BY DEF Approve, Approved, StoreTypeOK
<1>3. \A q \in Memories : m \notin Successors(q)
  BY <1>1 DEF OneSuccessor
<1>4. Successors(m) = {}
  BY <1>1 DEF OneSuccessor
<1>5. \A q \in Memories : Successors(q)' = IF q = p THEN Successors(q) \cup {m} ELSE Successors(q)
  BY <1>2, <1>3 DEF Successors
<1>6. OneSuccessor'
  <2> SUFFICES ASSUME NEW q \in Memories
               PROVE  /\ status'[q] = "superseded" <=> Successors(q)' # {}
                      /\ \A k, n \in Successors(q)' : k = n
                      /\ \A k \in Successors(q)' : status'[k] \in {"active", "superseded"}
    BY DEF OneSuccessor
  <2>1. CASE q = p
    <3>1. Successors(q) = {}
      BY <1>1, <2>1, NoneAssumption DEF OneSuccessor
    <3> QED
      BY <1>1, <1>2, <1>5, <2>1, <3>1
  <2>2. CASE q # p
    <3>1. Successors(q)' = Successors(q)
      BY <1>5, <2>2
    <3>2. status'[q] = "superseded" <=> status[q] = "superseded"
      BY <1>1, <1>2, <2>2
    <3>3. \A k \in Successors(q) : k \in Memories /\ k # m /\ status[k] \in {"active", "superseded"}
      BY <1>3 DEF OneSuccessor, Successors
    <3> QED
      BY <1>2, <3>1, <3>2, <3>3 DEF OneSuccessor
  <2> QED
    BY <2>1, <2>2
<1>7. HistoryHasOrigin'
  <2> SUFFICES ASSUME NEW S \in SUBSET Memories, S # {},
                      \A k \in S : supersedes'[k] \in S
               PROVE  FALSE
    BY DEF HistoryHasOrigin
  <2>1. \A k \in S \ {m} : supersedes[k] \in S \ {m}
    BY <1>2, <1>4 DEF Successors
  <2>2. S \ {m} = {}
    BY <2>1 DEF HistoryHasOrigin
  <2> QED
    BY <1>1, <1>2, <2>2
<1> QED
  BY <1>6, <1>7

-----------------------------------------------------------------------------
(* The counts. *)

(* Evidence is finite, so that it can be counted.                          *)
LEMMA EvidenceFinite ==
  ASSUME StoreTypeOK, NEW m \in Memories
  PROVE  IsFiniteSet(evidence[m]) /\ Cardinality(evidence[m]) \in Nat
  BY SourcesAssumption, FS_Subset, FS_CardinalityType DEF StoreTypeOK

(* create_memory_candidate starts the count at one, and has a source.      *)
LEMMA CreateKeepsCounts ==
  ASSUME StoreTypeOK, RecurrenceBacked, NewRowEmpty,
         NEW m \in Memories, NEW s, NEW c, NEW start, NEW E \in SUBSET Sources,
         Create(m, s, c, start, E)
  PROVE  RecurrenceBacked' /\ NewRowEmpty'
<1>1. Cardinality(E) \in Nat /\ Cardinality(E) >= 1
  BY SourcesAssumption, FS_Subset, FS_CardinalityType, FS_EmptySet DEF Create
<1>2. owed[m] = 0
  BY DEF Create, NewRowEmpty
<1> QED
  BY <1>1, <1>2 DEF Create, RecurrenceBacked, NewRowEmpty, Rows, StoreTypeOK

(* An evidence row that is inserted pays for one count.                    *)
LEMMA EvidenceKeepsCounts ==
  ASSUME StoreTypeOK, RecurrenceBacked, NewRowEmpty,
         NEW m \in Memories, NEW s \in Sources, AddEvidence(m, s)
  PROVE  RecurrenceBacked' /\ NewRowEmpty'
<1>1. Cardinality(evidence[m] \cup {s}) = Cardinality(evidence[m]) + 1
  BY EvidenceFinite, FS_AddElement DEF AddEvidence
<1>2. Cardinality(evidence[m]) \in Nat
  BY EvidenceFinite
<1> QED
  BY <1>1, <1>2 DEF AddEvidence, RecurrenceBacked, NewRowEmpty, Rows, StoreTypeOK

(* The count, or its loss, uses the payment up.                            *)
LEMMA RecurKeepsCounts ==
  ASSUME StoreTypeOK, RecurrenceBacked, NewRowEmpty,
         NEW m \in Memories, Recur(m) \/ RecurLost(m)
  PROVE  RecurrenceBacked' /\ NewRowEmpty'
<1>1. Cardinality(evidence[m]) \in Nat
  BY EvidenceFinite
<1>2. status[m] # "none"
  BY DEF Recur, RecurLost, NewRowEmpty
<1>3. RecurrenceBacked'
  BY <1>1, <1>2 DEF Recur, RecurLost, RecurrenceBacked, Rows, StoreTypeOK
<1>4. NewRowEmpty'
  BY <1>2 DEF Recur, RecurLost, NewRowEmpty, StoreTypeOK
<1> QED
  BY <1>3, <1>4

(* Every other step changes neither counts nor evidence, and creates no row. *)
LEMMA CountsFrame ==
  ASSUME RecurrenceBacked, NewRowEmpty,
         UNCHANGED <<recurrence, owed, evidence>>,
         \A m \in Memories : status'[m] = "none" <=> status[m] = "none"
  PROVE  RecurrenceBacked' /\ NewRowEmpty'
  BY DEF RecurrenceBacked, NewRowEmpty, Rows

-----------------------------------------------------------------------------
(* Validity and status. *)

(* approve_memory opens the validity of one memory and ends another's.     *)
LEMMA ApproveKeepsValidity ==
  ASSUME StoreTypeOK, ValidityMatchesStatus,
         NEW m \in Memories, NEW p \in Memories \cup {None}, Approve(m, p)
  PROVE  ValidityMatchesStatus'
<1> SUFFICES ASSUME NEW k \in Memories
             PROVE  /\ closed'[k] <=> status'[k] = "superseded"
                    /\ status'[k] = "active" => validFrom'[k] # "null"
                    /\ status'[k] = "superseded" => validFrom'[k] = "past"
  BY DEF ValidityMatchesStatus
<1>1. /\ status[m] = "candidate"
      /\ p # None => status[p] = "active" /\ validFrom[p] # "future"
  BY DEF Approve, Approved, Approvable, Candidate, Supersedable
<1>2. /\ status'[k] = IF k = m THEN "active" ELSE IF k = p THEN "superseded" ELSE status[k]
      /\ validFrom'[k] = IF k = m /\ validFrom[m] = "null" THEN "past" ELSE validFrom[k]
      /\ closed'[k] <=> closed[k] \/ k = p
  BY DEF Approve, Approved, StoreTypeOK
<1>3. /\ closed[k] <=> status[k] = "superseded"
      /\ status[k] = "active" => validFrom[k] # "null"
      /\ status[k] = "superseded" => validFrom[k] = "past"
      /\ validFrom[k] \in {"null", "past", "future"}
  BY DEF ValidityMatchesStatus, StoreTypeOK
<1>4. CASE k = m
  BY <1>1, <1>2, <1>3, <1>4, NoneAssumption
<1>5. CASE k = p
  BY <1>1, <1>2, <1>3, <1>5, NoneAssumption
<1>6. CASE k # m /\ k # p
  BY <1>2, <1>3, <1>6
<1> QED
  BY <1>4, <1>5, <1>6

(* Every other step leaves closed alone; it may create a candidate, reject *)
(* one, or let a validity begin.                                           *)
LEMMA ValidityFrame ==
  ASSUME ValidityMatchesStatus, closed' = closed,
         \A m \in Memories :
           \/ status'[m] = status[m] /\ validFrom'[m] = validFrom[m]
           \/ status'[m] = status[m] /\ validFrom[m] = "future" /\ validFrom'[m] = "past"
           \/ /\ status[m] \notin {"active", "superseded"}
              /\ status'[m] \notin {"active", "superseded"}
  PROVE  ValidityMatchesStatus'
<1> SUFFICES ASSUME NEW m \in Memories
             PROVE  /\ closed'[m] <=> status'[m] = "superseded"
                    /\ status'[m] = "active" => validFrom'[m] # "null"
                    /\ status'[m] = "superseded" => validFrom'[m] = "past"
  BY DEF ValidityMatchesStatus
<1>1. /\ closed[m] <=> status[m] = "superseded"
      /\ status[m] = "active" => validFrom[m] # "null"
      /\ status[m] = "superseded" => validFrom[m] = "past"
  BY DEF ValidityMatchesStatus
<1> QED
  BY <1>1

-----------------------------------------------------------------------------
(* The invariant. *)

(* All the parts of StoreInv together are inductive: the chain needs to    *)
(* know who is active, the counts that new rows owe nothing.               *)
LEMMA StoreInvStep ==
  ASSUME StoreInv, [StoreNext]_storeVars
  PROVE  StoreInv'
<1>0. StoreTypeOK /\ StoreTypeOK'
  BY StoreTypeStep DEF StoreInv
<1>1. ASSUME NEW m \in Memories, NEW s \in Statements, NEW c \in Scores,
             NEW start \in Starts, NEW E \in SUBSET Sources, Create(m, s, c, start, E)
      PROVE  StoreInv'
  <2>1. /\ supersedes' = supersedes /\ closed' = closed
        /\ \A k \in Memories : \/ status'[k] = status[k] /\ validFrom'[k] = validFrom[k]
                               \/ k = m /\ status[k] = "none" /\ status'[k] = "candidate"
    BY <1>0, <1>1 DEF Create, StoreTypeOK
  <2>2. OneSuccessor' /\ HistoryHasOrigin'
    BY <2>1, ChainFrame DEF StoreInv
  <2>3. ValidityMatchesStatus'
    BY <2>1, ValidityFrame DEF StoreInv
  <2>4. RecurrenceBacked' /\ NewRowEmpty'
    BY <1>1, CreateKeepsCounts DEF StoreInv
  <2> QED
    BY <1>0, <2>2, <2>3, <2>4 DEF StoreInv
<1>2. ASSUME NEW m \in Memories, NEW p \in Memories \cup {None}, Approve(m, p)
      PROVE  StoreInv'
  <2>1. /\ UNCHANGED <<recurrence, owed, evidence>>
        /\ \A k \in Memories : status'[k] = "none" <=> status[k] = "none"
    BY <1>0, <1>2, NoneAssumption DEF Approve, Approved, Approvable, Candidate, Supersedable, StoreTypeOK
  <2>2. RecurrenceBacked' /\ NewRowEmpty'
    BY <2>1, CountsFrame DEF StoreInv
  <2> QED
    BY <1>0, <1>2, <2>2, ApproveKeepsChain, ApproveKeepsValidity DEF StoreInv
<1>3. ASSUME NEW m \in Memories, Aside(m)
      PROVE  StoreInv'
  <2>1. /\ supersedes' = supersedes /\ closed' = closed /\ validFrom' = validFrom
        /\ UNCHANGED <<recurrence, owed, evidence>>
        /\ \A k \in Memories : \/ status'[k] = status[k]
                               \/ status[k] = "candidate" /\ status'[k] = "rejected"
    BY <1>0, <1>3 DEF Aside, RejectRow, RejectAudit, RejectLost, StoreTypeOK
  <2>2. OneSuccessor' /\ HistoryHasOrigin'
    BY <2>1, ChainFrame DEF StoreInv
  <2>3. ValidityMatchesStatus'
    BY <2>1, ValidityFrame DEF StoreInv
  <2>4. RecurrenceBacked' /\ NewRowEmpty'
    BY <2>1, CountsFrame DEF StoreInv
  <2> QED
    BY <1>0, <2>2, <2>3, <2>4 DEF StoreInv
<1>4. ASSUME NEW m \in Memories, NEW s \in Sources, AddEvidence(m, s)
      PROVE  StoreInv'
  <2>1. supersedes' = supersedes /\ closed' = closed /\ status' = status /\ validFrom' = validFrom
    BY <1>4 DEF AddEvidence
  <2>2. OneSuccessor' /\ HistoryHasOrigin'
    BY <2>1, ChainFrame DEF StoreInv
  <2>3. ValidityMatchesStatus'
    BY <2>1, ValidityFrame DEF StoreInv
  <2> QED
    BY <1>0, <1>4, <2>2, <2>3, EvidenceKeepsCounts DEF StoreInv
<1>5. ASSUME NEW m \in Memories, Recur(m) \/ RecurLost(m)
      PROVE  StoreInv'
  <2>1. supersedes' = supersedes /\ closed' = closed /\ status' = status /\ validFrom' = validFrom
    BY <1>5 DEF Recur, RecurLost
  <2>2. OneSuccessor' /\ HistoryHasOrigin'
    BY <2>1, ChainFrame DEF StoreInv
  <2>3. ValidityMatchesStatus'
    BY <2>1, ValidityFrame DEF StoreInv
  <2> QED
    BY <1>0, <1>5, <2>2, <2>3, RecurKeepsCounts DEF StoreInv
<1>6. ASSUME NEW m \in Memories, Begin(m)
      PROVE  StoreInv'
  <2>1. /\ supersedes' = supersedes /\ closed' = closed /\ status' = status
        /\ UNCHANGED <<recurrence, owed, evidence>>
        /\ \A k \in Memories : \/ validFrom'[k] = validFrom[k]
                               \/ validFrom[k] = "future" /\ validFrom'[k] = "past"
    BY <1>0, <1>6 DEF Begin, StoreTypeOK
  <2>2. OneSuccessor' /\ HistoryHasOrigin'
    BY <2>1, ChainFrame DEF StoreInv
  <2>3. ValidityMatchesStatus'
    BY <2>1, ValidityFrame DEF StoreInv
  <2>4. RecurrenceBacked' /\ NewRowEmpty'
    BY <2>1, CountsFrame DEF StoreInv
  <2> QED
    BY <1>0, <2>2, <2>3, <2>4 DEF StoreInv
<1>7. CASE UNCHANGED storeVars
  BY <1>7 DEF storeVars, StoreInv, StoreTypeOK, OneSuccessor, Successors, HistoryHasOrigin,
              ValidityMatchesStatus, RecurrenceBacked, Rows, NewRowEmpty
<1> QED
  BY <1>1, <1>2, <1>3, <1>4, <1>5, <1>6, <1>7 DEF StoreNext, Aside

(* An empty store has no history to be wrong about.                        *)
LEMMA StoreInvInit == StoreInit => StoreInv
<1> SUFFICES ASSUME StoreInit PROVE StoreInv
  OBVIOUS
<1>1. \A m \in Memories : /\ status[m] = "none" /\ supersedes[m] = None
                          /\ closed[m] = FALSE /\ owed[m] = 0 /\ evidence[m] = {}
  BY DEF StoreInit
<1>2. OneSuccessor
  BY <1>1, NoneAssumption DEF OneSuccessor, Successors
<1>3. HistoryHasOrigin
  BY <1>1, NoneAssumption DEF HistoryHasOrigin
<1> QED
  BY <1>1, <1>2, <1>3, StoreTypeInit
  DEF StoreInv, ValidityMatchesStatus, RecurrenceBacked, Rows, NewRowEmpty

LEMMA StoreInvariant == StoreSpec => []StoreInv
<1>1. StoreInit => StoreInv
  BY StoreInvInit
<1>2. StoreInv /\ [StoreNext]_storeVars => StoreInv'
  BY StoreInvStep
<1> QED
  BY <1>1, <1>2, PTL DEF StoreSpec

(* Whatever callers do, wherever they are cut off and however many rows    *)
(* there are: a fact never has two successors, and whoever is superseded   *)
(* has one (approve_memory) ...                                            *)
THEOREM OneSuccessorCorrect == StoreSpec => []OneSuccessor
<1>1. StoreInv => OneSuccessor
  BY DEF StoreInv
<1> QED
  BY <1>1, StoreInvariant, PTL

(* ... its history never runs in a circle (approve_memory) ...             *)
THEOREM HistoryHasOriginCorrect == StoreSpec => []HistoryHasOrigin
<1>1. StoreInv => HistoryHasOrigin
  BY DEF StoreInv
<1> QED
  BY <1>1, StoreInvariant, PTL

(* ... its validity says what its status says (approve_memory, and the      *)
(* CHECK of the table) ...                                                 *)
THEOREM ValidityCorrect == StoreSpec => []ValidityMatchesStatus
<1>1. StoreInv => ValidityMatchesStatus
  BY DEF StoreInv
<1> QED
  BY <1>1, StoreInvariant, PTL

(* ... and no source is counted twice (reinforce_existing_memory).         *)
THEOREM RecurrenceCorrect == StoreSpec => []RecurrenceBacked
<1>1. StoreInv => RecurrenceBacked
  BY DEF StoreInv
<1> QED
  BY <1>1, StoreInvariant, PTL

(* A store step keeps the history of every memory.                         *)
LEMMA StepKeepsHistory ==
  ASSUME StoreInv, [StoreNext]_storeVars, NEW m \in Memories
  PROVE  /\ evidence[m] \subseteq evidence'[m]
         /\ status[m] \in {"superseded", "rejected"} =>
              /\ status'[m] = status[m]
              /\ supersedes'[m] = supersedes[m]
              /\ recurrence'[m] = recurrence[m]
<1> USE DEF StoreInv, StoreTypeOK
<1>1. ASSUME NEW k \in Memories, NEW s \in Statements, NEW c \in Scores,
             NEW start \in Starts, NEW E \in SUBSET Sources, Create(k, s, c, start, E)
      PROVE  /\ evidence[m] \subseteq evidence'[m]
             /\ status[m] \in {"superseded", "rejected"} =>
                  /\ status'[m] = status[m]
                  /\ supersedes'[m] = supersedes[m]
                  /\ recurrence'[m] = recurrence[m]
  BY <1>1 DEF Create, NewRowEmpty
<1>2. ASSUME NEW k \in Memories, NEW p \in Memories \cup {None}, Approve(k, p)
      PROVE  /\ evidence[m] \subseteq evidence'[m]
             /\ status[m] \in {"superseded", "rejected"} =>
                  /\ status'[m] = status[m]
                  /\ supersedes'[m] = supersedes[m]
                  /\ recurrence'[m] = recurrence[m]
  BY <1>2, NoneAssumption DEF Approve, Approved, Approvable, Candidate, Supersedable
<1>3. ASSUME NEW k \in Memories, Aside(k)
      PROVE  /\ evidence[m] \subseteq evidence'[m]
             /\ status[m] \in {"superseded", "rejected"} =>
                  /\ status'[m] = status[m]
                  /\ supersedes'[m] = supersedes[m]
                  /\ recurrence'[m] = recurrence[m]
  BY <1>3 DEF Aside, RejectRow, RejectAudit, RejectLost
<1>4. ASSUME NEW k \in Memories, NEW s \in Sources, AddEvidence(k, s)
      PROVE  /\ evidence[m] \subseteq evidence'[m]
             /\ UNCHANGED <<status, supersedes, recurrence>>
  BY <1>4 DEF AddEvidence
<1>5. ASSUME NEW k \in Memories, Recur(k) \/ RecurLost(k) \/ Begin(k)
      PROVE  /\ UNCHANGED <<evidence, status, supersedes>>
             /\ recurrence'[m] = recurrence[m] \/ status[m] = "active"
  BY <1>5 DEF Recur, RecurLost, Begin
<1>6. CASE UNCHANGED storeVars
  BY <1>6 DEF storeVars
<1> QED
  BY <1>1, <1>2, <1>3, <1>4, <1>5, <1>6 DEF StoreNext, Aside

(* History is never rewritten, for any number of memories and sources.     *)
THEOREM HistoryKeptCorrect == StoreSpec => HistoryKept
<1>1. StoreInv /\ [StoreNext]_storeVars =>
        [\A m \in Memories :
           /\ evidence[m] \subseteq evidence'[m]
           /\ status[m] \in {"superseded", "rejected"} =>
                /\ status'[m] = status[m]
                /\ supersedes'[m] = supersedes[m]
                /\ recurrence'[m] = recurrence[m]]_storeVars
  BY StepKeepsHistory
<1> QED
  BY <1>1, StoreInvariant, PTL DEF StoreSpec, HistoryKept

-----------------------------------------------------------------------------
(* Lineages. *)

(* S goes on from each of its members along the links.                     *)
GoesBack(S, links) == \A k \in S : links[k] # None => links[k] \in S

(* A lineage is the least set with the memory that goes back.              *)
LEMMA LineageIsLeast ==
  ASSUME NEW m \in Memories
  PROVE  /\ Lineage(m) \subseteq Memories /\ m \in Lineage(m)
         /\ \A S \in SUBSET Memories : m \in S /\ GoesBack(S, supersedes) => Lineage(m) \subseteq S
  BY DEF Lineage, GoesBack

LEMMA LineageGoesBack ==
  ASSUME StoreTypeOK, NEW m \in Memories
  PROVE  GoesBack(Lineage(m), supersedes)
<1> SUFFICES ASSUME NEW k \in Lineage(m), supersedes[k] # None,
                    NEW S \in SUBSET Memories, m \in S, GoesBack(S, supersedes)
             PROVE  supersedes[k] \in S
  BY LineageIsLeast DEF Lineage, GoesBack, StoreTypeOK
<1>1. k \in S
  BY LineageIsLeast
<1> QED
  BY <1>1 DEF GoesBack

(* The same after a step.                                                  *)
LEMMA LineageIsLeastAfter ==
  ASSUME NEW m \in Memories, StoreTypeOK'
  PROVE  /\ Lineage(m)' \subseteq Memories /\ m \in Lineage(m)'
         /\ \A S \in SUBSET Memories : m \in S /\ GoesBack(S, supersedes') => Lineage(m)' \subseteq S
         /\ GoesBack(Lineage(m)', supersedes')
<1>1. /\ Lineage(m)' \subseteq Memories /\ m \in Lineage(m)'
      /\ \A S \in SUBSET Memories : m \in S /\ GoesBack(S, supersedes') => Lineage(m)' \subseteq S
  BY DEF Lineage, GoesBack
<1>2. ASSUME NEW k \in Lineage(m)', supersedes'[k] # None,
             NEW S \in SUBSET Memories, m \in S, GoesBack(S, supersedes')
      PROVE  supersedes'[k] \in S
  BY <1>1, <1>2 DEF GoesBack
<1>3. supersedes' \in [Memories -> Memories \cup {None}]
  BY DEF StoreTypeOK
<1>4. GoesBack(Lineage(m)', supersedes')
  BY <1>1, <1>2, <1>3 DEF Lineage, GoesBack
<1> QED
  BY <1>1, <1>4

LEMMA ApproveLinks ==
  ASSUME StoreInv, NEW m \in Memories, NEW p \in Memories \cup {None}, Approve(m, p)
  PROVE  /\ status[m] = "candidate" /\ supersedes[m] = None /\ m # p
         /\ p # None => status[p] = "active"
         /\ \A k \in Memories : supersedes[k] # m
         /\ \A k \in Memories : supersedes'[k] = IF k = m THEN p ELSE supersedes[k]
         /\ \A k \in Memories : status'[k] = IF k = m THEN "active"
                                             ELSE IF k = p THEN "superseded" ELSE status[k]
         /\ StoreTypeOK'
<1>1. /\ status[m] = "candidate" /\ m # p
      /\ p # None => status[p] = "active"
  BY NoneAssumption DEF Approve, Approvable, Candidate, Supersedable
<1>2. supersedes[m] = None
  BY <1>1 DEF StoreInv, StoreTypeOK, OneSuccessor, Successors
<1>3. \A k \in Memories : supersedes[k] # m
  BY <1>1 DEF StoreInv, OneSuccessor, Successors
<1>4. /\ \A k \in Memories : supersedes'[k] = IF k = m THEN p ELSE supersedes[k]
      /\ \A k \in Memories : status'[k] = IF k = m THEN "active"
                                          ELSE IF k = p THEN "superseded" ELSE status[k]
  BY DEF Approve, Approved, StoreInv, StoreTypeOK
<1>5. StoreTypeOK'
  BY StoreTypeStep DEF StoreInv, StoreNext
<1> QED
  BY <1>1, <1>2, <1>3, <1>4, <1>5

(* An approval gives the approved memory the lineage of what it supersedes. *)
LEMMA ApproveLineage ==
  ASSUME StoreInv, NEW m \in Memories, NEW p \in Memories \cup {None}, Approve(m, p)
  PROVE  /\ \A k \in Memories \ {m} : Lineage(k)' = Lineage(k)
         /\ Lineage(m) = {m}
         /\ Lineage(m)' = {m} \cup (IF p = None THEN {} ELSE Lineage(p))
<1>1. /\ supersedes[m] = None /\ m # p
      /\ \A k \in Memories : supersedes[k] # m
      /\ \A k \in Memories : supersedes'[k] = IF k = m THEN p ELSE supersedes[k]
      /\ StoreTypeOK /\ StoreTypeOK'
  BY ApproveLinks DEF StoreInv
<1>2. \A S \in SUBSET Memories :
        /\ GoesBack(S, supersedes) => GoesBack(S \ {m}, supersedes')
        /\ GoesBack(S, supersedes') => GoesBack(S \ {m}, supersedes)
  BY <1>1 DEF GoesBack
<1>3. ASSUME NEW k \in Memories \ {m}
      PROVE  Lineage(k)' = Lineage(k)
  <2>1. Lineage(k)' \subseteq Lineage(k) \ {m}
    <3>1. GoesBack(Lineage(k) \ {m}, supersedes') /\ k \in Lineage(k) \ {m}
      BY <1>1, <1>2, LineageIsLeast, LineageGoesBack
    <3> QED
      BY <1>1, <3>1, LineageIsLeast, LineageIsLeastAfter
  <2>2. Lineage(k) \subseteq Lineage(k)' \ {m}
    <3>1. GoesBack(Lineage(k)' \ {m}, supersedes) /\ k \in Lineage(k)' \ {m}
      BY <1>1, <1>2, LineageIsLeastAfter
    <3> QED
      BY <1>1, <3>1, LineageIsLeast, LineageIsLeastAfter
  <2> QED
    BY <2>1, <2>2
<1>4. Lineage(m) = {m}
  <2>1. GoesBack({m}, supersedes)
    BY <1>1 DEF GoesBack
  <2> QED
    BY <2>1, LineageIsLeast
<1>5. CASE p = None
  <2>1. GoesBack({m}, supersedes')
    BY <1>1, <1>5 DEF GoesBack
  <2>2. Lineage(m)' = {m}
    BY <1>1, <2>1, LineageIsLeastAfter
  <2> QED
    BY <1>3, <1>4, <1>5, <2>2
<1>6. CASE p # None
  <2>1. p \in Memories /\ supersedes'[m] = p /\ Lineage(p)' = Lineage(p)
    BY <1>1, <1>3, <1>6
  <2>2. /\ GoesBack(Lineage(p)', supersedes') /\ p \in Lineage(p)' /\ Lineage(p)' \subseteq Memories
        /\ GoesBack(Lineage(m)', supersedes') /\ m \in Lineage(m)' /\ Lineage(m)' \subseteq Memories
    BY <1>1, <2>1, LineageIsLeastAfter
  <2>3. GoesBack({m} \cup Lineage(p)', supersedes')
    BY <2>1, <2>2 DEF GoesBack
  <2>4. Lineage(m)' \subseteq {m} \cup Lineage(p)'
    BY <1>1, <2>2, <2>3, LineageIsLeastAfter
  <2>5. p \in Lineage(m)'
    BY <1>6, <2>1, <2>2 DEF GoesBack
  <2>6. Lineage(p)' \subseteq Lineage(m)'
    BY <1>1, <2>1, <2>2, <2>5, LineageIsLeastAfter
  <2>7. Lineage(m)' = {m} \cup Lineage(p)
    BY <2>1, <2>2, <2>4, <2>6
  <2> QED
    BY <1>3, <1>4, <1>6, <2>7
<1> QED
  BY <1>5, <1>6

(* Every other step leaves the links alone, and who is active.             *)
LEMMA OthersKeepVersions ==
  ASSUME StoreInv, [StoreNext]_storeVars,
         ~ \E m \in Memories, p \in Memories \cup {None} : Approve(m, p)
  PROVE  /\ supersedes' = supersedes /\ embedJobs' = embedJobs
         /\ \A k \in Memories : \/ status'[k] = status[k]
                                \/ /\ status[k] \notin {"active", "superseded"}
                                   /\ status'[k] \notin {"active", "superseded"}
  BY DEF StoreInv, StoreTypeOK, StoreNext, storeVars, Create, RejectRow, RejectAudit, RejectLost,
         AddEvidence, Recur, RecurLost, Begin

LEMMA VersionsStep ==
  ASSUME StoreInv, CurrentVersion, [StoreNext]_storeVars
  PROVE  CurrentVersion'
<1>1. ASSUME NEW m \in Memories, NEW p \in Memories \cup {None}, Approve(m, p)
      PROVE  CurrentVersion'
  <2> SUFFICES ASSUME NEW k \in Memories, status'[k] \in {"active", "superseded"}
               PROVE  \E n \in Memories : status'[n] = "active" /\ k \in Lineage(n)'
    BY DEF CurrentVersion
  <2>1. /\ status[m] = "candidate" /\ m # p /\ (p # None => status[p] = "active")
        /\ \A n \in Memories : status'[n] = IF n = m THEN "active"
                                            ELSE IF n = p THEN "superseded" ELSE status[n]
    BY <1>1, ApproveLinks
  <2>2. /\ \A n \in Memories \ {m} : Lineage(n)' = Lineage(n)
        /\ Lineage(m)' = {m} \cup (IF p = None THEN {} ELSE Lineage(p))
    BY <1>1, ApproveLineage
  <2>3. CASE k = m
    BY <2>1, <2>2, <2>3
  <2>4. CASE k # m
    <3>1. status[k] \in {"active", "superseded"}
      <4>1. k = p => status[k] = "active"
        BY <2>1, NoneAssumption
      <4>2. k # p => status'[k] = status[k]
        BY <2>1, <2>4
      <4> QED
        BY <4>1, <4>2
    <3>2. PICK n \in Memories : status[n] = "active" /\ k \in Lineage(n)
      BY <3>1 DEF CurrentVersion
    <3>3. CASE n = p
      BY <2>1, <2>2, <3>2, <3>3, NoneAssumption
    <3>4. CASE n # p
      BY <2>1, <2>2, <3>2, <3>4
    <3> QED
      BY <3>3, <3>4
  <2> QED
    BY <2>3, <2>4
<1>2. CASE ~ \E m \in Memories, p \in Memories \cup {None} : Approve(m, p)
  <2>1. \A k \in Memories : Lineage(k)' = Lineage(k)
    BY <1>2, OthersKeepVersions DEF Lineage
  <2> QED
    BY <1>2, <2>1, OthersKeepVersions DEF CurrentVersion
<1> QED
  BY <1>1, <1>2

(* No fact is lost by supersession, for any number of memories             *)
(* (approve_memory).                                                       *)
THEOREM CurrentVersionCorrect == StoreSpec => []CurrentVersion
<1>1. StoreInit => CurrentVersion
  BY DEF StoreInit, CurrentVersion
<1>2. StoreInv /\ CurrentVersion /\ [StoreNext]_storeVars => CurrentVersion'
  BY VersionsStep
<1> QED
  BY <1>1, <1>2, StoreInvariant, PTL DEF StoreSpec

LEMMA SearchStep ==
  ASSUME StoreInv, [StoreNext]_storeVars
  PROVE  [\E m \in Memories, p \in Memories \cup {None} : Search!Approve(m, p)]_(Search!embedVars)
<1>1. ASSUME NEW m \in Memories, NEW p \in Memories \cup {None}, Approve(m, p)
      PROVE  Search!Approve(m, p)
  <2>1. /\ status[m] = "candidate" /\ m # p /\ (p # None => status[p] = "active")
        /\ \A n \in Memories : status'[n] = IF n = m THEN "active"
                                            ELSE IF n = p THEN "superseded" ELSE status[n]
    BY <1>1, ApproveLinks
  <2>2. Shown[m] = "absent" /\ (p # None => Shown[p] = "live")
    BY <2>1 DEF Shown
  <2>3. Shown' = [r \in {} \cup Memories |-> IF r = m THEN "live"
                                             ELSE IF r = p THEN "superseded" ELSE Shown[r]]
    BY <2>1 DEF Shown
  <2>4. [k \in Memories |-> Lineage(k)]'
          = [[k \in Memories |-> Lineage(k)] EXCEPT
               ![m] = @ \cup (IF p = None THEN {} ELSE [k \in Memories |-> Lineage(k)][p])]
    <3>1. /\ \A n \in Memories \ {m} : Lineage(n)' = Lineage(n)
          /\ Lineage(m) = {m}
          /\ Lineage(m)' = {m} \cup (IF p = None THEN {} ELSE Lineage(p))
      BY <1>1, ApproveLineage
    <3> QED
      BY <3>1
  <2>5. [k \in Memories |-> IF k \in embedJobs' THEN "queued" ELSE "none"]
          = [[k \in Memories |-> IF k \in embedJobs THEN "queued" ELSE "none"]
               EXCEPT ![m] = "queued"]
    BY <1>1 DEF Approve, Approved
  <2> QED
    BY <2>2, <2>3, <2>4, <2>5 DEF Search!Approve, Search!Rows
<1>2. CASE ~ \E m \in Memories, p \in Memories \cup {None} : Approve(m, p)
  <2>1. supersedes' = supersedes /\ embedJobs' = embedJobs /\ Shown' = Shown
    BY <1>2, OthersKeepVersions DEF Shown
  <2>2. [k \in Memories |-> Lineage(k)]' = [k \in Memories |-> Lineage(k)]
    BY <2>1 DEF Lineage
  <2> QED
    BY <2>1, <2>2 DEF Search!embedVars
<1> QED
  BY <1>1, <1>2

(* What the module Embedding takes an approval for is what an approval is  *)
(* (approve_memory against the rows that search and the worker see).       *)
THEOREM SearchSeesApprovalsCorrect == StoreSpec => SearchSeesApprovals
<1>1. StoreInit => Search!EmbedInit
  <2> SUFFICES ASSUME StoreInit
               PROVE  Search!EmbedInit
    OBVIOUS
  <2>1. \A m \in Memories : Lineage(m) = {m}
    <3> TAKE m \in Memories
    <3>1. GoesBack({m}, supersedes)
      BY DEF StoreInit, GoesBack
    <3> QED
      BY <3>1, LineageIsLeast
  <2> QED
    BY <2>1 DEF StoreInit, Search!EmbedInit, Search!Rows, Shown
<1>2. StoreInv /\ [StoreNext]_storeVars =>
        [\E m \in Memories, p \in Memories \cup {None} : Search!Approve(m, p)]_(Search!embedVars)
  BY SearchStep
<1> QED
  BY <1>1, <1>2, StoreInvariant, PTL DEF StoreSpec, SearchSeesApprovals
=============================================================================
