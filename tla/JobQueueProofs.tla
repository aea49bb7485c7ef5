--------------------------- MODULE JobQueueProofs ---------------------------
(***************************************************************************)
(* Proofs about JobQueue, for any set of workers and jobs and any timing.  *)
(***************************************************************************)
EXTENDS JobQueue, FiniteSetTheorems, TLAPS

-----------------------------------------------------------------------------
(* Backoff is a number of seconds: the table of powers is not left. *)
LEMMA BackoffType ==
  ASSUME NEW n \in Nat \ {0}
  PROVE  Backoff(n) \in Nat
<1> DEFINE i == IF n < 8 THEN n ELSE 8
<1>1. i \in 1..8
  OBVIOUS
<1>2. PowersOfTwo[i] \in Nat
  BY <1>1 DEF PowersOfTwo
<1> QED
  BY <1>2, TimesAssumption DEF Backoff

(* The attempt number a worker holds is a positive number. *)
LEMMA HeldType ==
  ASSUME TypeOK, NEW w \in Workers, NEW j \in Batch(w)
  PROVE  j \in Jobs /\ held[w][j] \in Nat \ {0}
  BY DEF TypeOK, Batch

(* What lease_jobs does to the rows keeps their types. *)
LEMMA LeaseRowsType ==
  ASSUME TypeOK, NEW S \in SUBSET Jobs, LeaseRows(S)
  PROVE  /\ status' \in [Jobs -> {"none", "pending", "running"} \cup Settled]
         /\ attempts' \in [Jobs -> Nat]
         /\ wait' \in [Jobs -> Nat]
         /\ lease' \in [Jobs -> Expired..LeaseTime]
<1>1. LeaseTime \in Expired..LeaseTime
  BY TimesAssumption DEF Expired
<1> QED
  BY <1>1 DEF TypeOK, LeaseRows

(* So do complete_job and fail_job. *)
LEMMA MarkType ==
  ASSUME TypeOK, NEW j \in Jobs, NEW n \in Nat \ {0},
         MarkDone(j) \/ MarkFailed(j, n)
  PROVE  /\ status' \in [Jobs -> {"none", "pending", "running"} \cup Settled]
         /\ attempts' \in [Jobs -> Nat]
         /\ wait' \in [Jobs -> Nat]
         /\ lease' \in [Jobs -> Expired..LeaseTime]
<1>1. Expired \in Expired..LeaseTime
  BY TimesAssumption DEF Expired
<1>2. CASE MarkDone(j)
  BY <1>1, <1>2 DEF TypeOK, MarkDone, Settled
<1>3. CASE MarkFailed(j, n)
  BY <1>1, <1>3, BackoffType DEF TypeOK, MarkFailed, Settled
<1> QED
  BY <1>2, <1>3

(* Turning to the next job keeps the types of the batch. *)
LEMMA DropType ==
  ASSUME TypeOK, NEW w \in Workers, NEW j \in Jobs, Drop(w, j)
  PROVE  held' \in [Workers -> [Jobs -> Nat]] /\ busy' \in [Workers -> 0..JobTime]
<1>1. busy' \in [Workers -> 0..JobTime]
  BY TimesAssumption DEF Drop, TypeOK
<1>2. [held[w] EXCEPT ![j] = 0] \in [Jobs -> Nat]
  BY DEF TypeOK
<1>3. held' \in [Workers -> [Jobs -> Nat]]
  BY <1>2 DEF Drop, TypeOK
<1> QED
  BY <1>1, <1>3

(* Initially, and after every step, the table, the batches and the bounds   *)
(* have their types.                                                       *)
LEMMA TypeInit == Init => TypeOK
  BY TimesAssumption, BoundsAssumption
  DEF Init, TypeOK, NoBatch, Expired, Settled

LEMMA TypeStep ==
  ASSUME TypeOK, [Next]_vars
  PROVE  TypeOK'
<1>1. ASSUME NEW j \in Jobs, Enqueue(j)
      PROVE  TypeOK'
  BY <1>1 DEF Enqueue, TypeOK, bounds
<1>2. ASSUME NEW w \in Workers, Lease(w)
      PROVE  TypeOK'
  <2>1. PICK S \in SUBSET Jobs :
           LeaseRows(S) /\ held' = [held EXCEPT ![w] =
                             [j \in Jobs |-> IF j \in S THEN attempts[j] + 1 ELSE 0]]
    BY <1>2 DEF Lease
  <2>2. held' \in [Workers -> [Jobs -> Nat]]
    BY <2>1 DEF TypeOK
  <2>3. busy' \in [Workers -> 0..JobTime]
    BY <1>2, TimesAssumption DEF Lease, TypeOK
  <2> QED
    BY <1>2, <2>1, <2>2, <2>3, LeaseRowsType DEF Lease, TypeOK, bounds
<1>3. ASSUME NEW w \in Workers, NEW j \in Jobs, Complete(w, j) \/ Fail(w, j)
      PROVE  TypeOK'
  <2>1. held[w][j] \in Nat \ {0}
    BY <1>3, HeldType DEF Complete, Fail
  <2>2. MarkDone(j) \/ MarkFailed(j, held[w][j])
    BY <1>3 DEF Complete, Fail
  <2>3. held' \in [Workers -> [Jobs -> Nat]] /\ busy' \in [Workers -> 0..JobTime]
    <3>1. Drop(w, j)
      BY <1>3 DEF Complete, Fail
    <3> QED
      BY <3>1, DropType
  <2> QED
    BY <1>3, <2>1, <2>2, <2>3, MarkType DEF Complete, Fail, TypeOK, bounds
<1>4. ASSUME NEW w \in Workers, Restart(w)
      PROVE  TypeOK'
  BY <1>4, TimesAssumption, BoundsAssumption DEF Restart, TypeOK, row, NoBatch
<1>5. ASSUME NEW w \in Workers, DbError(w)
      PROVE  TypeOK'
  <2>1. /\ status' \in [Jobs -> {"none", "pending", "running"} \cup Settled]
        /\ attempts' \in [Jobs -> Nat]
        /\ wait' \in [Jobs -> Nat]
        /\ lease' \in [Jobs -> Expired..LeaseTime]
    <3>1. CASE UNCHANGED row
      BY <3>1 DEF row, TypeOK
    <3>2. CASE \E S \in SUBSET Jobs : LeaseRows(S)
      BY <3>2, LeaseRowsType
    <3>3. CASE \E j \in Batch(w) : MarkDone(j) \/ MarkFailed(j, held[w][j])
      BY <3>3, HeldType, MarkType
    <3> QED
      BY <1>5, <3>1, <3>2, <3>3 DEF DbError
  <2> QED
    BY <1>5, <2>1, TimesAssumption, BoundsAssumption DEF DbError, TypeOK, NoBatch
<1>6. CASE Tick
  <2>1. busy' \in [Workers -> 0..JobTime]
    BY <1>6, TimesAssumption DEF Tick, TypeOK
  <2>2. wait' \in [Jobs -> Nat] /\ lease' \in [Jobs -> Expired..LeaseTime]
    BY <1>6, TimesAssumption DEF Tick, TypeOK, Expired
  <2> QED
    BY <1>6, <2>1, <2>2 DEF Tick, TypeOK, bounds
<1>7. CASE UNCHANGED vars
  BY <1>7 DEF vars, TypeOK
<1> QED
  BY <1>1, <1>2, <1>3, <1>4, <1>5, <1>6, <1>7 DEF Next

(* Type correctness of the table, the batches and the bounds.              *)
THEOREM TypeCorrect == Spec => []TypeOK
<1>1. TypeOK /\ [Next]_vars => TypeOK'
  BY TypeStep
<1> QED
  BY <1>1, TypeInit, PTL DEF Spec

-----------------------------------------------------------------------------
(* What the operations do to the batches. *)

(* Only w's own operations touch its batch. *)
LEMMA BatchFrame ==
  ASSUME NEW v \in Workers, held'[v] = held[v]
  PROVE  Batch(v)' = Batch(v)
  BY DEF Batch

(* After lease_jobs the batch is the set of rows picked. *)
LEMMA BatchAfterLease ==
  ASSUME TypeOK, NEW w \in Workers, NEW S \in SUBSET Jobs,
         held' = [held EXCEPT ![w] = [j \in Jobs |-> IF j \in S THEN attempts[j] + 1 ELSE 0]]
  PROVE  /\ Batch(w)' = S
         /\ \A j \in S : held'[w][j] = attempts[j] + 1
         /\ \A v \in Workers \ {w} : held'[v] = held[v] /\ Batch(v)' = Batch(v)
  BY DEF Batch, TypeOK

(* After a report it lacks the reported job. *)
LEMMA BatchAfterDrop ==
  ASSUME TypeOK, NEW w \in Workers, NEW j \in Jobs, Drop(w, j)
  PROVE  /\ Batch(w)' = Batch(w) \ {j}
         /\ \A k \in Batch(w) \ {j} : held'[w][k] = held[w][k]
         /\ \A v \in Workers \ {w} : held'[v] = held[v] /\ Batch(v)' = Batch(v)
         /\ busy'[w] = 0 /\ \A v \in Workers \ {w} : busy'[v] = busy[v]
<1>1. held'[w] = [held[w] EXCEPT ![j] = 0]
  BY DEF Drop, TypeOK
<1>2. \A v \in Workers \ {w} : held'[v] = held[v]
  BY DEF Drop, TypeOK
<1>3. \A k \in Jobs : held'[w][k] = IF k = j THEN 0 ELSE held[w][k]
  BY <1>1 DEF TypeOK
<1>4. Batch(w)' = Batch(w) \ {j}
  BY <1>3 DEF Batch
<1>5. \A k \in Batch(w) \ {j} : held'[w][k] = held[w][k]
  BY <1>3 DEF Batch
<1>6. \A v \in Workers \ {w} : Batch(v)' = Batch(v)
  BY <1>2, BatchFrame
<1>7. busy'[w] = 0 /\ \A v \in Workers \ {w} : busy'[v] = busy[v]
  BY DEF Drop, TypeOK
<1> QED
  BY <1>2, <1>4, <1>5, <1>6, <1>7

(* A worker that dies has no batch. *)
LEMMA BatchAfterLoss ==
  ASSUME TypeOK, NEW w \in Workers, held' = [held EXCEPT ![w] = NoBatch]
  PROVE  /\ Batch(w)' = {}
         /\ \A v \in Workers \ {w} : held'[v] = held[v] /\ Batch(v)' = Batch(v)
  BY DEF Batch, TypeOK, NoBatch

(* Batches are finite. *)
LEMMA BatchFinite ==
  ASSUME NEW w \in Workers
  PROVE  /\ IsFiniteSet(Batch(w))
         /\ Cardinality(Batch(w)) \in Nat
         /\ Batch(w) # {} => Cardinality(Batch(w)) >= 1
<1>1. IsFiniteSet(Batch(w))
  BY JobsAssumption, FS_Subset DEF Batch
<1> QED
  BY <1>1, FS_CardinalityType, FS_EmptySet

(* Arithmetic of the time a batch takes. *)
LEMMA BatchTime ==
  ASSUME NEW a \in Nat, NEW b \in Nat, NEW t \in Nat
  PROVE  /\ a * t \in Nat
         /\ a >= 1 => a * t >= t /\ (a - 1) * t = a * t - t
         /\ a <= b => a * t <= b * t
<1>1. a * t \in Nat /\ b * t \in Nat
  OBVIOUS
<1>2. ASSUME a >= 1 PROVE a * t >= t /\ (a - 1) * t = a * t - t
  <2>1. a - 1 \in Nat /\ (a - 1) * t \in Nat
    BY <1>2
  <2>2. (a - 1) * t = a * t - t
    BY <1>2
  <2> QED
    BY <2>1, <2>2
<1>3. ASSUME a <= b PROVE a * t <= b * t
  <2>1. b - a \in Nat /\ (b - a) * t \in Nat
    BY <1>3
  <2>2. (b - a) * t = b * t - a * t
    BY <1>3
  <2> QED
    BY <2>1, <2>2, <1>1
<1> QED
  BY <1>1, <1>2, <1>3

(* lease_jobs never picks a job that is in some worker's batch. *)
LEMMA LeaseExcludes ==
  ASSUME LeaseInv, Exclusive, NEW w \in Workers, Batch(w) = {},
         NEW S \in SUBSET Jobs, Picked(S), NEW v \in Workers
  PROVE  S \cap Batch(v) = {}
<1> SUFFICES ASSUME NEW j \in S, j \in Batch(v) PROVE FALSE
  OBVIOUS
<1>1. status[j] = "running" /\ lease[j] < 0
  BY DEF Picked, Leasable, LeaseInv, HeldIsCurrent
<1>2. CASE SafeTiming
  <2> DEFINE c == Cardinality(Batch(v))
  <2>1. lease[j] >= c * JobTime - busy[v]
    BY <1>2 DEF LeaseInv, LeaseCoversBatch
  <2>2. c \in Nat /\ c >= 1
    BY BatchFinite
  <2> HIDE DEF c
  <2>3. c * JobTime \in Nat /\ c * JobTime >= JobTime
    BY <2>2, BatchTime, TimesAssumption
  <2>4. busy[v] \in 0..JobTime /\ lease[j] \in Int
    BY DEF LeaseInv, TypeOK, Expired
  <2> QED
    BY <1>1, <2>1, <2>3, <2>4, TimesAssumption
<1>3. CASE \A x, y \in Workers : x = y
  BY <1>3
<1> QED
  BY <1>2, <1>3 DEF Exclusive

-----------------------------------------------------------------------------
(* Consecution of LeaseInv, one lemma per group of actions.  TypeOK' comes  *)
(* from TypeStep; here are the three other conjuncts.                       *)

(* lease_jobs: the picked rows are fresh, and nobody had them. *)
LEMMA LeaseKeepsInv ==
  ASSUME LeaseInv, Exclusive, TypeOK', NEW w \in Workers, Lease(w)
  PROVE  HeldIsCurrent' /\ SoleHolder' /\ LeaseCoversBatch'
<1>1. PICK S \in SUBSET Jobs :
         /\ S # {} /\ Picked(S) /\ LeaseRows(S)
         /\ held' = [held EXCEPT ![w] =
                       [j \in Jobs |-> IF j \in S THEN attempts[j] + 1 ELSE 0]]
  BY DEF Lease
<1>2. Batch(w) = {} /\ busy' = [busy EXCEPT ![w] = 0]
  BY DEF Lease
<1>3. /\ Batch(w)' = S
      /\ \A j \in S : held'[w][j] = attempts[j] + 1
      /\ \A v \in Workers \ {w} : held'[v] = held[v] /\ Batch(v)' = Batch(v)
  BY <1>1, BatchAfterLease DEF LeaseInv
<1>4. \A v \in Workers : S \cap Batch(v) = {}
  BY <1>1, <1>2, LeaseExcludes
<1>5. /\ \A j \in S : status'[j] = "running" /\ attempts'[j] = attempts[j] + 1 /\ lease'[j] = LeaseTime
      /\ \A j \in Jobs \ S : status'[j] = status[j] /\ attempts'[j] = attempts[j] /\ lease'[j] = lease[j]
  BY <1>1 DEF LeaseRows
<1>6. HeldIsCurrent'
  <2> SUFFICES ASSUME NEW v \in Workers, NEW j \in Batch(v)'
               PROVE  status'[j] = "running" /\ held'[v][j] = attempts'[j]
    BY DEF HeldIsCurrent
  <2>1. CASE v = w
    BY <2>1, <1>3, <1>5
  <2>2. CASE v # w
    <3>1. j \in Batch(v) /\ j \in Jobs \ S /\ held'[v][j] = held[v][j]
      BY <2>2, <1>3, <1>4 DEF Batch
    <3> QED
      BY <3>1, <1>5 DEF LeaseInv, HeldIsCurrent
  <2> QED
    BY <2>1, <2>2
<1>7. SoleHolder'
  BY <1>3, <1>4 DEF LeaseInv, SoleHolder
<1>8. LeaseCoversBatch'
  <2> SUFFICES ASSUME SafeTiming, NEW v \in Workers, NEW j \in Batch(v)'
               PROVE  lease'[j] >= Cardinality(Batch(v)') * JobTime - busy'[v]
    BY DEF LeaseCoversBatch, SafeTiming
  <2>1. CASE v = w
    <3>1. Cardinality(S) \in Nat /\ Cardinality(S) <= BatchSize
      BY <1>1, FS_Subset, FS_CardinalityType, JobsAssumption DEF Picked
    <3>2. Cardinality(S) * JobTime <= BatchSize * JobTime /\ Cardinality(S) * JobTime \in Nat
      BY <3>1, BatchTime, BatchSizeAssumption, TimesAssumption
    <3>3. BatchSize * JobTime \in Nat
      BY BatchTime, BatchSizeAssumption, TimesAssumption
    <3>4. busy'[w] = 0 /\ lease'[j] = LeaseTime /\ Batch(v)' = S
      BY <2>1, <1>2, <1>3, <1>5 DEF LeaseInv, TypeOK
    <3> QED
      BY <2>1, <3>2, <3>3, <3>4, TimesAssumption DEF SafeTiming
  <2>2. CASE v # w
    <3>1. j \in Batch(v) /\ j \in Jobs \ S /\ Batch(v)' = Batch(v)
      BY <2>2, <1>3, <1>4 DEF Batch
    <3>2. lease'[j] = lease[j] /\ busy'[v] = busy[v]
      BY <2>2, <3>1, <1>2, <1>5 DEF LeaseInv, TypeOK
    <3> QED
      BY <3>1, <3>2 DEF LeaseInv, LeaseCoversBatch
  <2> QED
    BY <2>1, <2>2
<1> QED
  BY <1>6, <1>7, <1>8

(* complete_job and fail_job: only the holder of j reports it, and the rest *)
(* of its batch is still covered.                                           *)
LEMMA ReportKeepsInv ==
  ASSUME LeaseInv, NEW w \in Workers, NEW j \in Batch(w), Drop(w, j),
         MarkDone(j) \/ MarkFailed(j, held[w][j])
  PROVE  HeldIsCurrent' /\ SoleHolder' /\ LeaseCoversBatch'
<1>0. j \in Jobs
  BY DEF Batch
<1>1. /\ Batch(w)' = Batch(w) \ {j}
      /\ \A k \in Batch(w) \ {j} : held'[w][k] = held[w][k]
      /\ \A v \in Workers \ {w} : held'[v] = held[v] /\ Batch(v)' = Batch(v)
      /\ busy'[w] = 0 /\ \A v \in Workers \ {w} : busy'[v] = busy[v]
  BY <1>0, BatchAfterDrop DEF LeaseInv
<1>2. \A k \in Jobs \ {j} : status'[k] = status[k] /\ attempts'[k] = attempts[k] /\ lease'[k] = lease[k]
  <2>1. CASE MarkDone(j)
    BY <2>1 DEF MarkDone, LeaseInv, TypeOK
  <2>2. CASE MarkFailed(j, held[w][j])
    BY <2>2 DEF MarkFailed, LeaseInv, TypeOK
  <2> QED
    BY <2>1, <2>2
<1>3. \A v \in Workers : Batch(v)' \subseteq Batch(v) /\ j \notin Batch(v)'
  BY <1>1 DEF LeaseInv, SoleHolder
<1>4. \A v \in Workers : \A k \in Batch(v)' :
         /\ k \in Jobs \ {j} /\ k \in Batch(v)
         /\ held'[v][k] = held[v][k]
  BY <1>1, <1>3 DEF Batch
<1>5. HeldIsCurrent'
  BY <1>2, <1>4 DEF LeaseInv, HeldIsCurrent
<1>6. SoleHolder'
  BY <1>4 DEF LeaseInv, SoleHolder
<1>7. LeaseCoversBatch'
  <2> SUFFICES ASSUME SafeTiming, NEW v \in Workers, NEW k \in Batch(v)'
               PROVE  lease'[k] >= Cardinality(Batch(v)') * JobTime - busy'[v]
    BY DEF LeaseCoversBatch, SafeTiming
  <2> DEFINE c == Cardinality(Batch(v))
  <2>1. /\ lease'[k] = lease[k] /\ lease[k] \in Int
        /\ lease[k] >= c * JobTime - busy[v]
    BY <1>2, <1>4 DEF LeaseInv, LeaseCoversBatch, TypeOK
  <2>2. CASE v # w
    BY <2>1, <2>2, <1>1
  <2>3. CASE v = w
    <3>1. Cardinality(Batch(v)') = c - 1 /\ c \in Nat /\ c >= 1
      BY <2>3, <1>1, BatchFinite, FS_RemoveElement
    <3> HIDE DEF c
    <3>2. (c - 1) * JobTime = c * JobTime - JobTime /\ c * JobTime \in Nat
      BY <3>1, BatchTime, TimesAssumption
    <3>3. busy[v] \in 0..JobTime /\ busy'[v] = 0
      BY <2>3, <1>1 DEF LeaseInv, TypeOK
    <3> QED
      BY <2>1, <3>1, <3>2, <3>3, TimesAssumption
  <2> QED
    BY <2>2, <2>3
<1> QED
  BY <1>5, <1>6, <1>7

(* A step that changes no batch but those of workers it empties, and no row *)
(* that is in a remaining batch, keeps the invariant.                       *)
LEMMA LossKeepsInv ==
  ASSUME LeaseInv, NEW w \in Workers,
         held' = [held EXCEPT ![w] = NoBatch], busy' = [busy EXCEPT ![w] = 0],
         \A v \in Workers \ {w} : \A j \in Batch(v) :
            status'[j] = status[j] /\ attempts'[j] = attempts[j] /\ lease'[j] = lease[j]
  PROVE  HeldIsCurrent' /\ SoleHolder' /\ LeaseCoversBatch'
<1>1. /\ Batch(w)' = {}
      /\ \A v \in Workers \ {w} : held'[v] = held[v] /\ Batch(v)' = Batch(v)
  BY BatchAfterLoss DEF LeaseInv
<1>2. \A v \in Workers \ {w} : busy'[v] = busy[v]
  BY DEF LeaseInv, TypeOK
<1>3. HeldIsCurrent'
  BY <1>1 DEF LeaseInv, HeldIsCurrent
<1>4. SoleHolder'
  BY <1>1 DEF LeaseInv, SoleHolder
<1>5. LeaseCoversBatch'
  <2> SUFFICES ASSUME SafeTiming, NEW v \in Workers, NEW j \in Batch(v)'
               PROVE  lease'[j] >= Cardinality(Batch(v)') * JobTime - busy'[v]
    BY DEF LeaseCoversBatch, SafeTiming
  <2>1. v \in Workers \ {w} /\ j \in Batch(v) /\ Batch(v)' = Batch(v)
    BY <1>1
  <2> QED
    BY <2>1, <1>2 DEF LeaseInv, LeaseCoversBatch
<1> QED
  BY <1>3, <1>4, <1>5

(* A restart loses the batch of one worker and touches no row. *)
LEMMA RestartKeepsInv ==
  ASSUME LeaseInv, NEW w \in Workers, Restart(w)
  PROVE  HeldIsCurrent' /\ SoleHolder' /\ LeaseCoversBatch'
  BY LossKeepsInv DEF Restart, row

(* A failing statement may have leased rows nobody has, or reported a job   *)
(* only its holder has; then the batch is lost.                             *)
LEMMA DbErrorKeepsInv ==
  ASSUME LeaseInv, Exclusive, NEW w \in Workers, DbError(w)
  PROVE  HeldIsCurrent' /\ SoleHolder' /\ LeaseCoversBatch'
<1> SUFFICES \A v \in Workers \ {w} : \A j \in Batch(v) :
       status'[j] = status[j] /\ attempts'[j] = attempts[j] /\ lease'[j] = lease[j]
  BY LossKeepsInv DEF DbError
<1>1. CASE UNCHANGED row
  BY <1>1 DEF row
<1>2. CASE Batch(w) = {} /\ \E S \in SUBSET Jobs : Picked(S) /\ LeaseRows(S)
  <2>1. PICK S \in SUBSET Jobs : Picked(S) /\ LeaseRows(S)
    BY <1>2
  <2>2. \A v \in Workers : S \cap Batch(v) = {}
    BY <1>2, <2>1, LeaseExcludes
  <2> QED
    BY <2>1, <2>2 DEF LeaseRows, Batch
<1>3. CASE \E j \in Batch(w) : MarkDone(j) \/ MarkFailed(j, held[w][j])
  <2>1. PICK j \in Batch(w) : MarkDone(j) \/ MarkFailed(j, held[w][j])
    BY <1>3
  <2>2. \A k \in Jobs \ {j} : status'[k] = status[k] /\ attempts'[k] = attempts[k] /\ lease'[k] = lease[k]
    <3>1. CASE MarkDone(j)
      BY <3>1 DEF MarkDone, LeaseInv, TypeOK
    <3>2. CASE MarkFailed(j, held[w][j])
      BY <3>2 DEF MarkFailed, LeaseInv, TypeOK
    <3> QED
      BY <2>1, <3>1, <3>2
  <2>3. \A v \in Workers \ {w} : j \notin Batch(v)
    BY DEF LeaseInv, SoleHolder
  <2> QED
    BY <2>2, <2>3 DEF Batch
<1> QED
  BY <1>1, <1>2, <1>3 DEF DbError

(* Time: what a lease loses, the worker has spent. *)
LEMMA TickKeepsInv ==
  ASSUME LeaseInv, Tick
  PROVE  HeldIsCurrent' /\ SoleHolder' /\ LeaseCoversBatch'
<1>1. \A v \in Workers : held'[v] = held[v] /\ Batch(v)' = Batch(v)
  BY BatchFrame DEF Tick
<1>2. HeldIsCurrent' /\ SoleHolder'
  BY <1>1 DEF LeaseInv, HeldIsCurrent, SoleHolder, Tick
<1>3. LeaseCoversBatch'
  <2> SUFFICES ASSUME SafeTiming, NEW v \in Workers, NEW j \in Batch(v)
               PROVE  lease'[j] >= Cardinality(Batch(v)) * JobTime - busy'[v]
    BY <1>1 DEF LeaseCoversBatch, SafeTiming
  <2> DEFINE c == Cardinality(Batch(v))
  <2>1. c \in Nat /\ c >= 1 /\ lease[j] >= c * JobTime - busy[v]
    BY BatchFinite DEF LeaseInv, LeaseCoversBatch
  <2>2. busy[v] \in 0..JobTime /\ busy[v] < JobTime /\ busy'[v] = busy[v] + 1
    BY DEF Tick, LeaseInv, TypeOK
  <2>3. j \in Jobs /\ lease[j] \in Expired..LeaseTime
    BY DEF LeaseInv, TypeOK, Batch
  <2> HIDE DEF c
  <2>4. c * JobTime >= JobTime /\ c * JobTime \in Nat
    BY <2>1, BatchTime, TimesAssumption
  <2>5. lease[j] >= 0
    BY <2>1, <2>2, <2>3, <2>4, TimesAssumption
  <2>6. lease'[j] = lease[j] - 1
    BY <2>3, <2>5 DEF Tick
  <2>7. lease'[j] >= c * JobTime - busy'[v]
    BY <2>1, <2>2, <2>3, <2>4, <2>6, TimesAssumption
  <2> QED
    BY <2>7 DEF c
<1> QED
  BY <1>2, <1>3

(* Every step keeps the lease invariant. *)
LEMMA LeaseInvStep ==
  ASSUME LeaseInv, Exclusive, [Next]_vars
  PROVE  LeaseInv'
<1>1. TypeOK'
  BY TypeStep DEF LeaseInv
<1>2. ASSUME NEW j \in Jobs, Enqueue(j)
      PROVE  HeldIsCurrent' /\ SoleHolder' /\ LeaseCoversBatch'
  <2>1. \A v \in Workers : held'[v] = held[v] /\ Batch(v)' = Batch(v)
    BY <1>2, BatchFrame DEF Enqueue
  <2>2. HeldIsCurrent'
    BY <1>2, <2>1 DEF Enqueue, LeaseInv, HeldIsCurrent, Batch
  <2>3. SoleHolder' /\ LeaseCoversBatch'
    BY <1>2, <2>1 DEF Enqueue, LeaseInv, SoleHolder, LeaseCoversBatch
  <2> QED
    BY <2>2, <2>3
<1>3. ASSUME NEW w \in Workers, NEW j \in Jobs, Complete(w, j) \/ Fail(w, j)
      PROVE  HeldIsCurrent' /\ SoleHolder' /\ LeaseCoversBatch'
  BY <1>3, ReportKeepsInv DEF Complete, Fail
<1>4. CASE UNCHANGED vars
  <2>1. \A v \in Workers : held'[v] = held[v] /\ Batch(v)' = Batch(v)
    BY <1>4, BatchFrame DEF vars
  <2> QED
    BY <1>1, <1>4, <2>1 DEF vars, LeaseInv, HeldIsCurrent, SoleHolder, LeaseCoversBatch
<1> QED
  BY <1>1, <1>2, <1>3, <1>4, LeaseKeepsInv, RestartKeepsInv, DbErrorKeepsInv, TickKeepsInv
  DEF Next, LeaseInv

(* The lease invariant holds from the start: no batch is out. *)
LEMMA LeaseInvInit == Init => LeaseInv
<1> SUFFICES ASSUME Init PROVE LeaseInv
  OBVIOUS
<1>1. \A w \in Workers : Batch(w) = {}
  BY DEF Init, Batch, NoBatch
<1> QED
  BY <1>1, TypeInit DEF LeaseInv, HeldIsCurrent, SoleHolder, LeaseCoversBatch

(* With safe timing, or one worker process, LeaseInv is an invariant ...   *)
THEOREM LeasesExclude ==
  ASSUME Exclusive
  PROVE  Spec => []LeaseInv
<1>1. LeaseInv /\ [Next]_vars => LeaseInv'
  BY LeaseInvStep
<1> QED
  BY <1>1, LeaseInvInit, PTL DEF Spec

(* ... hence two workers never have the same job in their batches.         *)
THEOREM SoleHolderCorrect ==
  ASSUME Exclusive
  PROVE  Spec => []SoleHolder
<1>1. LeaseInv => SoleHolder
  BY DEF LeaseInv
<1> QED
  BY <1>1, LeasesExclude, PTL

-----------------------------------------------------------------------------
(* Consequences of the lease invariant for single steps. *)

(* A row in a batch is live, and so is every row lease_jobs picks.         *)
LEMMA LiveRows ==
  ASSUME LeaseInv, NEW w \in Workers
  PROVE  /\ \A j \in Batch(w) : j \in Jobs /\ status[j] = "running"
         /\ \A S \in SUBSET Jobs : Picked(S) => \A j \in S : status[j] \in {"pending", "running"}
  BY DEF LeaseInv, HeldIsCurrent, Batch, Picked, Leasable

(* A report changes no other row, and the reported row to p.               *)
LEMMA MarkEffect ==
  ASSUME TypeOK, NEW j \in Jobs, NEW n \in Nat, MarkDone(j) \/ MarkFailed(j, n)
  PROVE  /\ attempts' = attempts
         /\ \E p \in Settled \cup {"pending"} : status' = [status EXCEPT ![j] = p]
  BY DEF MarkDone, MarkFailed, Settled

(* A settled row is nobody's and not leasable, so no step touches it.      *)
LEMMA SettledStep ==
  ASSUME LeaseInv, [Next]_vars, NEW j \in Jobs, status[j] \in Settled
  PROVE  status'[j] = status[j]
<1>0. TypeOK
  BY DEF LeaseInv
<1>1. ASSUME NEW w \in Workers, NEW k \in Batch(w), NEW n \in Nat,
             MarkDone(k) \/ MarkFailed(k, n)
      PROVE  status'[j] = status[j]
  <2>1. k \in Jobs /\ k # j
    BY LiveRows DEF Settled
  <2> QED
    BY <1>0, <1>1, <2>1, MarkEffect DEF TypeOK
<1>2. ASSUME NEW w \in Workers, NEW S \in SUBSET Jobs, Picked(S), LeaseRows(S)
      PROVE  status'[j] = status[j]
  <2>1. j \notin S
    BY <1>2, LiveRows DEF Settled
  <2> QED
    BY <1>2, <2>1 DEF LeaseRows
<1>3. ASSUME NEW k \in Jobs, Enqueue(k)
      PROVE  status'[j] = status[j]
  BY <1>0, <1>3 DEF Enqueue, TypeOK, Settled
<1>4. ASSUME NEW w \in Workers, Lease(w)
      PROVE  status'[j] = status[j]
  BY <1>4, <1>2 DEF Lease
<1>5. ASSUME NEW w \in Workers, NEW k \in Jobs, Complete(w, k) \/ Fail(w, k)
      PROVE  status'[j] = status[j]
  BY <1>5, <1>0, <1>1, HeldType DEF Complete, Fail
<1>6. ASSUME NEW w \in Workers, DbError(w)
      PROVE  status'[j] = status[j]
  <2>1. \A k \in Batch(w) : held[w][k] \in Nat
    BY <1>0, HeldType
  <2> QED
    BY <1>6, <2>1, <1>1, <1>2 DEF DbError, row
<1>7. ASSUME (\E w \in Workers : Restart(w)) \/ Tick \/ UNCHANGED vars
      PROVE  status'[j] = status[j]
  BY <1>7 DEF Restart, Tick, vars, row
<1> QED
  BY <1>3, <1>4, <1>5, <1>6, <1>7 DEF Next

(* Done and failed are final when leases exclude (complete_job, fail_job). *)
THEOREM TerminalStableCorrect ==
  ASSUME Exclusive
  PROVE  Spec => TerminalStable
<1>1. LeaseInv /\ [Next]_vars => [\A j \in Jobs : status[j] \in Settled => status'[j] = status[j]]_vars
  BY SettledStep
<1> QED
  BY <1>1, LeasesExclude, PTL DEF Spec, TerminalStable

(* A row under a running lease: lease_jobs passes it by, and the workers    *)
(* that may report it hold its current attempt.                            *)
LEMMA LeasedStep ==
  ASSUME LeaseInv, [Next]_vars, NEW j \in Jobs, status[j] = "running", lease[j] >= 0,
         \/ status'[j] # "running"
         \/ attempts'[j] # attempts[j]
  PROVE  \E w \in Workers : held[w][j] = attempts[j] /\ held'[w][j] = 0
<1>0. TypeOK
  BY DEF LeaseInv
<1>1. \A S \in SUBSET Jobs : ~(Picked(S) /\ LeaseRows(S))
  <2> SUFFICES ASSUME NEW S \in SUBSET Jobs, Picked(S), LeaseRows(S) PROVE FALSE
    OBVIOUS
  <2>1. lease[j] \in Int /\ j \notin S
    BY <1>0 DEF Picked, Leasable, TypeOK, Expired
  <2> QED
    BY <2>1 DEF LeaseRows
<1>2. ASSUME NEW w \in Workers, NEW k \in Batch(w),
             MarkDone(k) \/ MarkFailed(k, held[w][k]), held'[w][k] = 0
      PROVE  held[w][j] = attempts[j] /\ held'[w][j] = 0
  <2>1. k \in Jobs /\ held[w][k] \in Nat
    BY <1>0, HeldType
  <2>2. k = j
    BY <1>0, <1>2, <2>1, MarkEffect DEF TypeOK
  <2> QED
    BY <1>2, <2>2 DEF LeaseInv, HeldIsCurrent
<1>3. ASSUME NEW w \in Workers, NEW k \in Jobs, Complete(w, k) \/ Fail(w, k)
      PROVE  held[w][j] = attempts[j] /\ held'[w][j] = 0
  <2>1. held'[w][k] = 0
    BY <1>0, <1>3 DEF Complete, Fail, Drop, TypeOK
  <2> QED
    BY <1>2, <1>3, <2>1 DEF Complete, Fail
<1>4. ASSUME NEW w \in Workers, DbError(w)
      PROVE  held[w][j] = attempts[j] /\ held'[w][j] = 0
  <2>1. \A k \in Jobs : held'[w][k] = 0
    BY <1>0, <1>4 DEF DbError, NoBatch, TypeOK
  <2>2. PICK k \in Batch(w) : MarkDone(k) \/ MarkFailed(k, held[w][k])
    BY <1>1, <1>4 DEF DbError, row
  <2> QED
    BY <1>2, <2>1, <2>2 DEF Batch
<1>5. ~ \E w \in Workers : Lease(w)
  BY <1>1 DEF Lease
<1>6. ~ \E k \in Jobs : Enqueue(k)
  BY <1>0 DEF Enqueue, TypeOK
<1>7. ~ ((\E w \in Workers : Restart(w)) \/ Tick \/ UNCHANGED vars)
  BY DEF Restart, Tick, vars, row
<1> QED
  BY <1>3, <1>4, <1>5, <1>6, <1>7 DEF Next

(* While a lease lasts only its holder decides about the job.              *)
THEOREM LeaseRespectedCorrect ==
  ASSUME Exclusive
  PROVE  Spec => LeaseRespected
<1>1. LeaseInv /\ [Next]_vars =>
        [\A j \in Jobs :
           (/\ status[j] = "running" /\ lease[j] >= 0
            /\ status'[j] # "running" \/ attempts'[j] # attempts[j])
           => \E w \in Workers : held[w][j] = attempts[j] /\ held'[w][j] = 0]_vars
  BY LeasedStep
<1> QED
  BY <1>1, LeasesExclude, PTL DEF Spec, LeaseRespected

-----------------------------------------------------------------------------
(* Refinement of ExclusiveQueue. *)

(* Phase and Owns have the types of the abstract variables.                *)
LEMMA AbstractView ==
  ASSUME TypeOK
  PROVE  /\ \A j \in Jobs : Phase[j] = IF status[j] \in {"pending", "running"} THEN "open" ELSE status[j]
         /\ \A w \in Workers : Owns[w] = Batch(w)
         /\ Phase = [j \in Jobs |-> Phase[j]] /\ Owns = [w \in Workers |-> Owns[w]]
  BY DEF Phase, Owns

(* A report is seen as recording an outcome for a job the worker owns.     *)
LEMMA ReportIsRecord ==
  ASSUME LeaseInv, NEW w \in Workers, NEW j \in Batch(w), NEW n \in Nat,
         MarkDone(j) \/ MarkFailed(j, n)
  PROVE  \E p \in Settled \cup {"open"} : Abstract!Record(w, j, p)
<1>1. j \in Jobs /\ status[j] = "running"
  BY LiveRows
<1>2. PICK q \in Settled \cup {"pending"} : status' = [status EXCEPT ![j] = q]
  BY <1>1, MarkEffect DEF LeaseInv
<1> DEFINE p == IF q = "pending" THEN "open" ELSE q
<1>3. p \in Settled \cup {"open"}
  OBVIOUS
<1>4. Phase' = [Phase EXCEPT ![j] = p]
  BY <1>1, <1>2 DEF Phase, LeaseInv, TypeOK, Settled
<1>5. Phase[j] = "open" /\ j \in Owns[w]
  BY <1>1 DEF Phase, Owns
<1> QED
  BY <1>3, <1>4, <1>5 DEF Abstract!Record

(* Leasing rows is invisible in Phase: they were open and are open.        *)
LEMMA LeaseKeepsPhase ==
  ASSUME LeaseInv, NEW w \in Workers, NEW S \in SUBSET Jobs, Picked(S), LeaseRows(S)
  PROVE  Phase' = Phase /\ \A j \in S : Phase[j] = "open"
<1>1. \A j \in S : status[j] \in {"pending", "running"} /\ status'[j] = "running"
  BY LiveRows DEF LeaseRows
<1>2. \A j \in Jobs \ S : status'[j] = status[j]
  BY DEF LeaseRows
<1> QED
  BY <1>1, <1>2 DEF Phase

(* Emptying one batch is emptying what one worker owns.                    *)
LEMMA LossView ==
  ASSUME TypeOK, NEW w \in Workers, held' = [held EXCEPT ![w] = NoBatch]
  PROVE  Owns' = [Owns EXCEPT ![w] = {}]
  BY BatchAfterLoss DEF Owns

(* Every step of the queue is a step of the abstract queue, or invisible.  *)
LEMMA RefinementStep ==
  ASSUME LeaseInv, Exclusive, [Next]_vars
  PROVE  [Abstract!Next]_Abstract!vars
<1>0. TypeOK
  BY DEF LeaseInv
<1>1. ASSUME NEW j \in Jobs, Enqueue(j)
      PROVE  Abstract!Next
  <2>1. Phase' = [Phase EXCEPT ![j] = "open"] /\ Phase[j] = "none"
    BY <1>0, <1>1 DEF Enqueue, Phase, TypeOK
  <2>2. Owns' = Owns
    BY <1>1, BatchFrame DEF Enqueue, Owns
  <2> QED
    BY <2>1, <2>2 DEF Abstract!Next, Abstract!Add
<1>2. ASSUME NEW w \in Workers, Lease(w)
      PROVE  Abstract!Next
  <2>1. PICK S \in SUBSET Jobs :
           /\ Picked(S) /\ LeaseRows(S)
           /\ held' = [held EXCEPT ![w] =
                         [j \in Jobs |-> IF j \in S THEN attempts[j] + 1 ELSE 0]]
    BY <1>2 DEF Lease
  <2>2. Batch(w) = {}
    BY <1>2 DEF Lease
  <2>3. Phase' = Phase /\ \A j \in S : Phase[j] = "open"
    BY <2>1, LeaseKeepsPhase
  <2>4. S \cap UNION {Owns[v] : v \in Workers} = {}
    BY <2>1, <2>2, LeaseExcludes DEF Owns
  <2>5. Owns' = [Owns EXCEPT ![w] = S] /\ Owns[w] = {}
    <3>1. Batch(w)' = S /\ \A v \in Workers \ {w} : Batch(v)' = Batch(v)
      BY <1>0, <2>1, BatchAfterLease
    <3> QED
      BY <2>2, <3>1 DEF Owns
  <2> QED
    BY <2>3, <2>4, <2>5 DEF Abstract!Next, Abstract!Take, Abstract!Owned
<1>3. ASSUME NEW w \in Workers, NEW j \in Jobs, Complete(w, j) \/ Fail(w, j)
      PROVE  Abstract!Next
  <2>1. j \in Batch(w) /\ held[w][j] \in Nat /\ Drop(w, j)
    BY <1>0, <1>3, HeldType DEF Complete, Fail
  <2>2. PICK p \in Settled \cup {"open"} : Abstract!Record(w, j, p)
    <3>1. MarkDone(j) \/ MarkFailed(j, held[w][j])
      BY <1>3 DEF Complete, Fail
    <3> QED
      BY <2>1, <3>1, ReportIsRecord
  <2>3. Owns' = [Owns EXCEPT ![w] = @ \ {j}]
    BY <1>0, <2>1, BatchAfterDrop DEF Owns
  <2> QED
    BY <2>2, <2>3 DEF Abstract!Next, Abstract!Report, Settled, Abstract!Settled
<1>4. ASSUME NEW w \in Workers, Restart(w)
      PROVE  Abstract!Next
  <2>1. Phase' = Phase
    BY <1>4 DEF Restart, row, Phase
  <2>2. Owns' = [Owns EXCEPT ![w] = {}]
    BY <1>0, <1>4, LossView DEF Restart
  <2> QED
    BY <2>1, <2>2 DEF Abstract!Next, Abstract!Lose
<1>5. ASSUME NEW w \in Workers, DbError(w)
      PROVE  Abstract!Next
  <2>1. Owns' = [Owns EXCEPT ![w] = {}]
    BY <1>0, <1>5, LossView DEF DbError
  <2>2. \/ Phase' = Phase
        \/ \E j \in Jobs, p \in Settled \cup {"open"} : Abstract!Record(w, j, p)
    <3>1. CASE UNCHANGED row
      BY <3>1 DEF row, Phase
    <3>2. CASE \E S \in SUBSET Jobs : Picked(S) /\ LeaseRows(S)
      BY <3>2, LeaseKeepsPhase
    <3>3. CASE \E j \in Batch(w) : MarkDone(j) \/ MarkFailed(j, held[w][j])
      BY <1>0, <3>3, HeldType, ReportIsRecord
    <3> QED
      BY <1>5, <3>1, <3>2, <3>3 DEF DbError
  <2> QED
    BY <2>1, <2>2 DEF Abstract!Next, Abstract!Lose, Settled, Abstract!Settled
<1>6. ASSUME Tick \/ UNCHANGED vars
      PROVE  UNCHANGED Abstract!vars
  <2>1. status' = status /\ held' = held
    BY <1>6 DEF Tick, vars
  <2> QED
    BY <2>1, BatchFrame DEF Abstract!vars, Phase, Owns
<1> QED
  BY <1>1, <1>2, <1>3, <1>4, <1>5, <1>6 DEF Next

(* The queue with its leases implements exclusive ownership.               *)
THEOREM QueueImplementsExclusiveQueue ==
  ASSUME Exclusive
  PROVE  Spec => ImplementsExclusiveQueue
<1>1. Init => Abstract!Init
  BY DEF Init, Abstract!Init, Phase, Owns, Batch, NoBatch
<1>2. LeaseInv /\ [Next]_vars => [Abstract!Next]_Abstract!vars
  BY RefinementStep
<1> QED
  BY <1>1, <1>2, LeasesExclude, PTL DEF Spec, ImplementsExclusiveQueue, Abstract!Spec

-----------------------------------------------------------------------------
(* The contract is enough: whatever hands jobs out as ExclusiveQueue does, *)
(* with leases or otherwise, gives a job to one worker and settles it once. *)
LEMMA OwnersExclude ==
  ASSUME SoleHolder, [Abstract!Next]_Abstract!vars
  PROVE  SoleHolder'
<1>0. \A w \in Workers : Owns[w] = Batch(w) /\ Owns'[w] = Batch(w)'
  BY DEF Owns
<1>1. CASE Owns' = Owns
  BY <1>0, <1>1 DEF SoleHolder
<1>2. ASSUME NEW w \in Workers, NEW S, S \subseteq Batch(w), Owns' = [Owns EXCEPT ![w] = S]
      PROVE  SoleHolder'
  <2>1. \A v \in Workers : Batch(v)' \subseteq Batch(v)
    BY <1>0, <1>2 DEF Owns
  <2> QED
    BY <2>1 DEF SoleHolder
<1>3. ASSUME NEW w \in Workers, NEW S \in SUBSET Jobs, Abstract!Take(w, S)
      PROVE  SoleHolder'
  <2>1. Batch(w)' = S /\ \A v \in Workers \ {w} : Batch(v)' = Batch(v)
    BY <1>0, <1>3 DEF Abstract!Take, Owns
  <2>2. \A v \in Workers : S \cap Batch(v) = {}
    BY <1>0, <1>3 DEF Abstract!Take, Abstract!Owned
  <2> QED
    BY <2>1, <2>2 DEF SoleHolder
<1>4. ASSUME NEW w \in Workers, NEW j \in Jobs, NEW p, Abstract!Report(w, j, p)
      PROVE  SoleHolder'
  <2>1. Owns' = [Owns EXCEPT ![w] = Batch(w) \ {j}]
    BY <1>0, <1>4 DEF Abstract!Report
  <2> QED
    BY <1>2, <2>1
<1>5. ASSUME NEW w \in Workers, Abstract!Lose(w)
      PROVE  SoleHolder'
  <2>1. PICK S : S \subseteq Batch(w) /\ Owns' = [Owns EXCEPT ![w] = S]
    BY <1>5 DEF Abstract!Lose
  <2> QED
    BY <1>2, <2>1
<1>6. CASE (\E j \in Jobs : Abstract!Add(j)) \/ UNCHANGED Abstract!vars
  BY <1>1, <1>6 DEF Abstract!Add, Abstract!vars
<1> QED
  BY <1>1, <1>3, <1>4, <1>5, <1>6 DEF Abstract!Next

LEMMA SettledStays ==
  ASSUME [Abstract!Next]_Abstract!vars
  PROVE  [\A j \in Jobs : status[j] \in Settled => status'[j] = status[j]]_vars
<1>1. SUFFICES ASSUME NEW j \in Jobs, status[j] \in Settled
               PROVE  status'[j] = status[j]
  OBVIOUS
<1>2. Phase[j] = status[j] /\ Phase[j] \in Settled
  BY <1>1 DEF Phase, Settled
<1>3. Phase'[j] = Phase[j]
  <2>1. ASSUME NEW w \in Workers, NEW k \in Jobs, NEW p, Abstract!Record(w, k, p)
        PROVE  Phase'[j] = Phase[j]
    BY <1>2, <2>1 DEF Abstract!Record, Settled, Phase
  <2>2. ASSUME NEW k \in Jobs, Abstract!Add(k)
        PROVE  Phase'[j] = Phase[j]
    BY <1>2, <2>2 DEF Abstract!Add, Settled, Phase
  <2>3. CASE Phase' = Phase
    BY <2>3
  <2> QED
    BY <2>1, <2>2, <2>3
       DEF Abstract!Next, Abstract!Take, Abstract!Report, Abstract!Lose, Abstract!vars
<1>4. Phase'[j] = IF status'[j] \in {"pending", "running"} THEN "open" ELSE status'[j]
  BY DEF Phase
<1> QED
  BY <1>2, <1>3, <1>4 DEF Settled

(* The abstract contract alone excludes and settles for good (what the     *)
(* handlers of worker.rs may count on).                                    *)
THEOREM ContractExcludes == ImplementsExclusiveQueue => []SoleHolder /\ TerminalStable
<1>1. Abstract!Init => SoleHolder
  <2>1. \A w \in Workers : Owns[w] = Batch(w)
    BY DEF Owns
  <2> QED
    BY <2>1 DEF Abstract!Init, SoleHolder
<1>2. SoleHolder /\ [Abstract!Next]_Abstract!vars => SoleHolder'
  BY OwnersExclude
<1>3. [Abstract!Next]_Abstract!vars =>
        [\A j \in Jobs : status[j] \in Settled => status'[j] = status[j]]_vars
  BY SettledStays
<1> QED
  BY <1>1, <1>2, <1>3, PTL DEF ImplementsExclusiveQueue, Abstract!Spec, TerminalStable

-----------------------------------------------------------------------------
(* Attempt numbers, whatever the timing. *)

(* A step that hands out nothing and lowers no counter keeps FreshAttempt. *)
LEMMA ShrinkKeepsFresh ==
  ASSUME TypeOK, TypeOK', FreshAttempt,
         \A j \in Jobs : attempts'[j] >= attempts[j],
         \A w \in Workers : \A j \in Batch(w)' : j \in Batch(w) /\ held'[w][j] = held[w][j]
  PROVE  FreshAttempt'
<1> SUFFICES ASSUME NEW w \in Workers, NEW j \in Batch(w)'
             PROVE  /\ held'[w][j] <= attempts'[j]
                    /\ \A v \in Workers \ {w} : held'[v][j] # held'[w][j]
  BY DEF FreshAttempt
<1>1. j \in Jobs /\ j \in Batch(w) /\ held'[w][j] = held[w][j] /\ held'[w][j] > 0
  BY DEF Batch
<1>2. held'[w][j] <= attempts'[j]
  BY <1>1 DEF FreshAttempt, TypeOK
<1>3. ASSUME NEW v \in Workers \ {w}, held'[v][j] = held'[w][j]
      PROVE  FALSE
  <2>1. j \in Batch(v)'
    BY <1>1, <1>3 DEF Batch
  <2> QED
    BY <1>1, <1>3, <2>1 DEF FreshAttempt
<1> QED
  BY <1>2, <1>3

(* lease_jobs hands out a number above every number held so far.           *)
LEMMA LeaseKeepsFresh ==
  ASSUME TypeOK, TypeOK', FreshAttempt, NEW w \in Workers, Lease(w)
  PROVE  FreshAttempt'
<1>1. PICK S \in SUBSET Jobs :
         /\ LeaseRows(S)
         /\ held' = [held EXCEPT ![w] =
                       [j \in Jobs |-> IF j \in S THEN attempts[j] + 1 ELSE 0]]
  BY DEF Lease
<1>2. /\ Batch(w)' = S
      /\ \A j \in S : held'[w][j] = attempts[j] + 1
      /\ \A v \in Workers \ {w} : held'[v] = held[v] /\ Batch(v)' = Batch(v)
  BY <1>1, BatchAfterLease
<1>3. \A j \in Jobs : attempts'[j] = IF j \in S THEN attempts[j] + 1 ELSE attempts[j]
  BY <1>1 DEF LeaseRows
<1>4. \A v \in Workers, j \in Jobs : held[v][j] \in Nat /\ attempts[j] \in Nat /\ held[v][j] <= attempts[j]
  <2> SUFFICES ASSUME NEW v \in Workers, NEW j \in Jobs
               PROVE  held[v][j] \in Nat /\ attempts[j] \in Nat /\ held[v][j] <= attempts[j]
    OBVIOUS
  <2>1. held[v][j] \in Nat /\ attempts[j] \in Nat
    BY DEF TypeOK
  <2> QED
    BY <2>1 DEF FreshAttempt, Batch
<1> SUFFICES ASSUME NEW u \in Workers, NEW j \in Batch(u)'
             PROVE  /\ held'[u][j] <= attempts'[j]
                    /\ \A v \in Workers \ {u} : held'[v][j] # held'[u][j]
  BY DEF FreshAttempt
<1>5. j \in Jobs
  BY DEF Batch
<1>6. CASE u = w
  BY <1>2, <1>3, <1>4, <1>5, <1>6
<1>7. CASE u # w
  <2>1. j \in Batch(u) /\ held'[u][j] = held[u][j] /\ held[u][j] > 0
    BY <1>2, <1>7 DEF Batch
  <2>2. \A v \in Workers \ {u} : held[v][j] # held[u][j]
    BY <2>1 DEF FreshAttempt
  <2>3. held'[w][j] # held'[u][j]
    <3>1. held'[w][j] = IF j \in S THEN attempts[j] + 1 ELSE 0
      BY <1>1, <1>5 DEF TypeOK
    <3> QED
      BY <2>1, <3>1, <1>4, <1>5
  <2>4. \A v \in Workers \ {u, w} : held'[v][j] # held'[u][j]
    BY <1>2, <2>1, <2>2
  <2> QED
    BY <1>3, <1>4, <1>5, <2>1, <2>3, <2>4
<1> QED
  BY <1>6, <1>7

(* A row becomes failed only from a report of attempt MaxAttempts or later, *)
(* and its counter never goes back.                                         *)
LEMMA MarkKeepsCount ==
  ASSUME TypeOK, NoEarlyFailure, FreshAttempt, NEW w \in Workers, NEW j \in Batch(w),
         MarkDone(j) \/ MarkFailed(j, held[w][j])
  PROVE  NoEarlyFailure'
<1>1. j \in Jobs /\ held[w][j] \in Nat /\ held[w][j] <= attempts[j] /\ attempts[j] \in Nat
  BY HeldType DEF FreshAttempt, TypeOK
<1>2. CASE MarkDone(j)
  BY <1>1, <1>2 DEF MarkDone, NoEarlyFailure, TypeOK
<1>3. CASE MarkFailed(j, held[w][j])
  BY <1>1, <1>3, MaxAttemptsAssumption DEF MarkFailed, NoEarlyFailure, TypeOK
<1> QED
  BY <1>2, <1>3

LEMMA LeaseRowsKeepCount ==
  ASSUME TypeOK, NoEarlyFailure, NEW S \in SUBSET Jobs, LeaseRows(S)
  PROVE  NoEarlyFailure' /\ \A j \in Jobs : attempts'[j] >= attempts[j]
  BY MaxAttemptsAssumption DEF LeaseRows, NoEarlyFailure, TypeOK

AttemptInv == TypeOK /\ FreshAttempt /\ NoEarlyFailure

LEMMA AttemptInvStep ==
  ASSUME AttemptInv, [Next]_vars
  PROVE  AttemptInv'
<1>0. TypeOK /\ TypeOK'
  BY TypeStep DEF AttemptInv
<1>1. ASSUME NEW w \in Workers, Lease(w)
      PROVE  FreshAttempt' /\ NoEarlyFailure'
  <2>1. PICK S \in SUBSET Jobs : LeaseRows(S)
    BY <1>1 DEF Lease
  <2> QED
    BY <1>0, <1>1, <2>1, LeaseKeepsFresh, LeaseRowsKeepCount DEF AttemptInv
<1>2. ASSUME NEW w \in Workers, NEW j \in Jobs, Complete(w, j) \/ Fail(w, j)
      PROVE  FreshAttempt' /\ NoEarlyFailure'
  <2>1. j \in Batch(w) /\ Drop(w, j) /\ (MarkDone(j) \/ MarkFailed(j, held[w][j]))
    BY <1>2 DEF Complete, Fail
  <2>2. attempts' = attempts
    BY <2>1 DEF MarkDone, MarkFailed
  <2>3. \A v \in Workers : \A k \in Batch(v)' : k \in Batch(v) /\ held'[v][k] = held[v][k]
    BY <1>0, <2>1, BatchAfterDrop
  <2>4. FreshAttempt'
    BY <1>0, <2>2, <2>3, ShrinkKeepsFresh DEF AttemptInv, TypeOK
  <2> QED
    BY <1>0, <2>1, <2>4, MarkKeepsCount DEF AttemptInv
<1>3. ASSUME NEW w \in Workers, Restart(w) \/ DbError(w)
      PROVE  FreshAttempt' /\ NoEarlyFailure'
  <2>1. \A v \in Workers : \A k \in Batch(v)' : k \in Batch(v) /\ held'[v][k] = held[v][k]
    <3>1. held' = [held EXCEPT ![w] = NoBatch]
      BY <1>3 DEF Restart, DbError
    <3> QED
      BY <1>0, <3>1, BatchAfterLoss
  <2>2. NoEarlyFailure' /\ \A j \in Jobs : attempts'[j] >= attempts[j]
    <3>1. CASE UNCHANGED row
      BY <1>0, <3>1 DEF row, AttemptInv, NoEarlyFailure, TypeOK
    <3>2. CASE \E S \in SUBSET Jobs : LeaseRows(S)
      BY <1>0, <3>2, LeaseRowsKeepCount DEF AttemptInv
    <3>3. CASE \E j \in Batch(w) : MarkDone(j) \/ MarkFailed(j, held[w][j])
      <4>1. NoEarlyFailure'
        BY <1>0, <3>3, MarkKeepsCount DEF AttemptInv
      <4>2. attempts' = attempts
        BY <3>3 DEF MarkDone, MarkFailed
      <4> QED
        BY <1>0, <4>1, <4>2 DEF TypeOK
    <3> QED
      BY <1>3, <3>1, <3>2, <3>3 DEF Restart, DbError
  <2> QED
    BY <1>0, <2>1, <2>2, ShrinkKeepsFresh DEF AttemptInv
<1>4. ASSUME (\E j \in Jobs : Enqueue(j)) \/ Tick \/ UNCHANGED vars
      PROVE  FreshAttempt' /\ NoEarlyFailure'
  <2>1. held' = held /\ attempts' = attempts
    BY <1>4 DEF Enqueue, Tick, vars
  <2>2. \A v \in Workers : Batch(v)' = Batch(v)
    BY <2>1, BatchFrame
  <2>3. FreshAttempt'
    BY <1>0, <2>1, <2>2, ShrinkKeepsFresh DEF AttemptInv, TypeOK
  <2>4. \A j \in Jobs : status'[j] = "failed" => status[j] = "failed"
    BY <1>0, <1>4 DEF Enqueue, Tick, vars, TypeOK
  <2> QED
    BY <2>1, <2>3, <2>4 DEF AttemptInv, NoEarlyFailure
<1> QED
  BY <1>0, <1>1, <1>2, <1>3, <1>4 DEF Next, AttemptInv

LEMMA AttemptInvariant == Spec => []AttemptInv
<1>1. Init => AttemptInv
  <2> SUFFICES ASSUME Init PROVE AttemptInv
    OBVIOUS
  <2>1. \A w \in Workers : Batch(w) = {}
    BY DEF Init, Batch, NoBatch
  <2> QED
    BY <2>1, TypeInit DEF Init, AttemptInv, FreshAttempt, NoEarlyFailure
<1>2. AttemptInv /\ [Next]_vars => AttemptInv'
  BY AttemptInvStep
<1> QED
  BY <1>1, <1>2, PTL DEF Spec

(* No two workers hold the same attempt of a job, even when a lease ends    *)
(* under a working holder (lease_jobs).                                    *)
THEOREM FreshAttemptCorrect == Spec => []FreshAttempt
<1>1. AttemptInv => FreshAttempt
  BY DEF AttemptInv
<1> QED
  BY <1>1, AttemptInvariant, PTL

(* No job is given up before it had all of its attempts, whichever of its   *)
(* attempts is the one that reports (fail_job).                            *)
THEOREM NoEarlyFailureCorrect == Spec => []NoEarlyFailure
<1>1. AttemptInv => NoEarlyFailure
  BY DEF AttemptInv
<1> QED
  BY <1>1, AttemptInvariant, PTL

-----------------------------------------------------------------------------
(* Late reports, whatever the timing. *)

(* A job that was leased once is running for as long as it is in a batch.  *)
FirstAttempt == \A w \in Workers : \A j \in Batch(w) :
                  attempts[j] = 1 => status[j] = "running"
LateInv == AttemptInv /\ FirstAttempt

(* A step that takes nothing into a batch keeps FirstAttempt, if rows that  *)
(* stay in a batch stay running.                                           *)
LEMMA ShrinkKeepsFirst ==
  ASSUME TypeOK, TypeOK', FirstAttempt, attempts' = attempts,
         \A w \in Workers : \A j \in Batch(w)' :
           j \in Batch(w) /\ (status[j] = "running" /\ attempts[j] = 1 => status'[j] = "running")
  PROVE  FirstAttempt'
  BY DEF FirstAttempt

(* lease_jobs makes what it picks running, and counts. *)
LEMMA LeaseRowsKeepFirst ==
  ASSUME TypeOK, FirstAttempt, NEW w \in Workers, NEW S \in SUBSET Jobs, LeaseRows(S),
         \A v \in Workers : \A j \in Batch(v)' : j \in Batch(v) \/ j \in S
  PROVE  FirstAttempt'
<1> SUFFICES ASSUME NEW v \in Workers, NEW j \in Batch(v)', attempts'[j] = 1
             PROVE  status'[j] = "running"
  BY DEF FirstAttempt
<1>1. j \in Jobs
  BY DEF Batch
<1> QED
  BY <1>1 DEF LeaseRows, FirstAttempt

(* The holder of a first attempt is the only one. *)
LEMMA FirstHolder ==
  ASSUME LateInv, NEW v \in Workers, NEW w \in Workers,
         NEW j \in Batch(v), j \in Batch(w), attempts[j] = 1
  PROVE  v = w
<1>1. held[v][j] \in Nat \ {0} /\ held[w][j] \in Nat \ {0}
  BY HeldType DEF LateInv, AttemptInv
<1>2. held[v][j] <= 1 /\ held[w][j] <= 1 /\ (v # w => held[v][j] # held[w][j])
  BY DEF LateInv, AttemptInv, FreshAttempt
<1> QED
  BY <1>1, <1>2

(* A report touches a first attempt only when it is its holder's. *)
LEMMA ReportKeepsFirst ==
  ASSUME LateInv, TypeOK', NEW w \in Workers, NEW k \in Batch(w),
         MarkDone(k) \/ MarkFailed(k, held[w][k]),
         k \notin Batch(w)',
         \A v \in Workers : \A j \in Batch(v)' : j \in Batch(v)
  PROVE  FirstAttempt'
<1>0. TypeOK /\ FirstAttempt /\ k \in Jobs /\ held[w][k] \in Nat
  BY HeldType DEF LateInv, AttemptInv
<1>1. attempts' = attempts /\ \A j \in Jobs \ {k} : status'[j] = status[j]
  BY <1>0, MarkEffect DEF TypeOK
<1>2. ASSUME NEW v \in Workers, k \in Batch(v)', attempts[k] = 1
      PROVE  FALSE
  BY <1>2, FirstHolder
<1>3. \A v \in Workers : \A j \in Batch(v)' :
        j \in Batch(v) /\ (status[j] = "running" /\ attempts[j] = 1 => status'[j] = "running")
  BY <1>1, <1>2 DEF Batch
<1> QED
  BY <1>0, <1>1, <1>3, ShrinkKeepsFirst

LEMMA LateInvStep ==
  ASSUME LateInv, [Next]_vars
  PROVE  LateInv'
<1>0. AttemptInv /\ AttemptInv' /\ TypeOK /\ TypeOK' /\ FirstAttempt
  BY AttemptInvStep DEF LateInv, AttemptInv
<1>1. ASSUME NEW w \in Workers, Lease(w)
      PROVE  FirstAttempt'
  <2>1. PICK S \in SUBSET Jobs :
           /\ LeaseRows(S)
           /\ held' = [held EXCEPT ![w] =
                         [j \in Jobs |-> IF j \in S THEN attempts[j] + 1 ELSE 0]]
    BY <1>1 DEF Lease
  <2>2. \A v \in Workers : \A j \in Batch(v)' : j \in Batch(v) \/ j \in S
    BY <1>0, <2>1, BatchAfterLease
  <2> QED
    BY <1>0, <2>1, <2>2, LeaseRowsKeepFirst
<1>2. ASSUME NEW w \in Workers, NEW k \in Jobs, Complete(w, k) \/ Fail(w, k)
      PROVE  FirstAttempt'
  <2>1. k \in Batch(w) /\ Drop(w, k) /\ (MarkDone(k) \/ MarkFailed(k, held[w][k]))
    BY <1>2 DEF Complete, Fail
  <2>2. k \notin Batch(w)' /\ \A v \in Workers : \A j \in Batch(v)' : j \in Batch(v)
    BY <1>0, <2>1, BatchAfterDrop
  <2> QED
    BY <1>0, <2>1, <2>2, ReportKeepsFirst
<1>3. ASSUME NEW w \in Workers, Restart(w) \/ DbError(w)
      PROVE  FirstAttempt'
  <2>1. Batch(w)' = {} /\ \A v \in Workers : \A j \in Batch(v)' : j \in Batch(v)
    <3>1. held' = [held EXCEPT ![w] = NoBatch]
      BY <1>3 DEF Restart, DbError
    <3> QED
      BY <1>0, <3>1, BatchAfterLoss
  <2>2. CASE UNCHANGED row
    BY <1>0, <2>1, <2>2, ShrinkKeepsFirst DEF row
  <2>3. CASE \E S \in SUBSET Jobs : LeaseRows(S)
    BY <1>0, <2>1, <2>3, LeaseRowsKeepFirst
  <2>4. CASE \E k \in Batch(w) : MarkDone(k) \/ MarkFailed(k, held[w][k])
    BY <1>0, <2>1, <2>4, ReportKeepsFirst
  <2> QED
    BY <1>3, <2>2, <2>3, <2>4 DEF Restart, DbError
<1>4. ASSUME (\E j \in Jobs : Enqueue(j)) \/ Tick \/ UNCHANGED vars
      PROVE  FirstAttempt'
  <2>1. held' = held /\ attempts' = attempts
    BY <1>4 DEF Enqueue, Tick, vars
  <2>2. \A v \in Workers : Batch(v)' = Batch(v)
    BY <2>1, BatchFrame
  <2>3. \A j \in Jobs : status[j] = "running" => status'[j] = "running"
    BY <1>0, <1>4 DEF Enqueue, Tick, vars, TypeOK
  <2> QED
    BY <1>0, <2>1, <2>2, <2>3, ShrinkKeepsFirst DEF Batch
<1> QED
  BY <1>0, <1>1, <1>2, <1>3, <1>4 DEF Next, LateInv

(* What changes a settled row is a report, by a worker that was not the     *)
(* only one to lease it.                                                   *)
LEMMA ReopenStep ==
  ASSUME LateInv, [Next]_vars, NEW j \in Jobs, status[j] \in Settled, status'[j] # status[j]
  PROVE  /\ attempts[j] > 1
         /\ \E w \in Workers : held[w][j] > 0 /\ held'[w][j] = 0
<1>0. TypeOK /\ AttemptInv /\ FirstAttempt
  BY DEF LateInv, AttemptInv
<1>1. \A S \in SUBSET Jobs : ~(Picked(S) /\ LeaseRows(S))
  BY DEF Picked, Leasable, LeaseRows, Settled
<1>2. ASSUME NEW w \in Workers, NEW k \in Batch(w), MarkDone(k) \/ MarkFailed(k, held[w][k])
      PROVE  k = j /\ attempts[j] > 1 /\ held[w][j] > 0
  <2>1. k \in Jobs /\ held[w][k] \in Nat \ {0} /\ held[w][k] <= attempts[k] /\ attempts[k] \in Nat
    BY <1>0, HeldType DEF AttemptInv, FreshAttempt, TypeOK
  <2>2. k = j
    BY <1>0, <1>2, <2>1, MarkEffect DEF TypeOK
  <2>3. attempts[j] # 1
    BY <1>0, <2>2 DEF FirstAttempt, Settled
  <2> QED
    BY <2>1, <2>2, <2>3
<1>3. ASSUME NEW w \in Workers, NEW k \in Jobs, Complete(w, k) \/ Fail(w, k)
      PROVE  attempts[j] > 1 /\ held[w][j] > 0 /\ held'[w][j] = 0
  <2>1. held'[w][k] = 0
    BY <1>0, <1>3 DEF Complete, Fail, Drop, TypeOK
  <2> QED
    BY <1>2, <1>3, <2>1 DEF Complete, Fail
<1>4. ASSUME NEW w \in Workers, DbError(w)
      PROVE  attempts[j] > 1 /\ held[w][j] > 0 /\ held'[w][j] = 0
  <2>1. held'[w][j] = 0
    BY <1>0, <1>4 DEF DbError, NoBatch, TypeOK
  <2> QED
    BY <1>1, <1>2, <1>4, <2>1 DEF DbError, row
<1>5. ~ \E w \in Workers : Lease(w)
  BY <1>1 DEF Lease
<1>6. ~ \E k \in Jobs : Enqueue(k)
  BY <1>0 DEF Enqueue, TypeOK, Settled
<1>7. ~ ((\E w \in Workers : Restart(w)) \/ Tick \/ UNCHANGED vars)
  BY DEF Restart, Tick, vars, row
<1> QED
  BY <1>3, <1>4, <1>5, <1>6, <1>7 DEF Next

(* Without any assumption on timing, only the late report of a job that     *)
(* was taken over can change what was settled (complete_job, fail_job).    *)
THEOREM ReopenedAfterTakeoverCorrect == Spec => ReopenedAfterTakeover
<1>1. Init => LateInv
  <2> SUFFICES ASSUME Init PROVE LateInv
    OBVIOUS
  <2>1. \A w \in Workers : Batch(w) = {}
    BY DEF Init, Batch, NoBatch
  <2> QED
    BY <2>1, TypeInit DEF Init, LateInv, FirstAttempt, AttemptInv, FreshAttempt, NoEarlyFailure
<1>2. LateInv /\ [Next]_vars => LateInv'
  BY LateInvStep
<1>3. LateInv /\ [Next]_vars =>
        [\A j \in Jobs :
           status[j] \in Settled /\ status'[j] # status[j] =>
             /\ attempts[j] > 1
             /\ \E w \in Workers : held[w][j] > 0 /\ held'[w][j] = 0]_vars
  BY ReopenStep
<1> QED
  BY <1>1, <1>2, <1>3, PTL DEF Spec, ReopenedAfterTakeover

-----------------------------------------------------------------------------
(* The bound on attempts when leases exclude. *)

BudgetInv == LeaseInv /\ AttemptsBounded /\ AttemptLeft

(* lease_jobs takes rows that wait and spends one of their attempts.       *)
LEMMA LeasedWereWaiting ==
  ASSUME BudgetInv, Exclusive, NEW w \in Workers, Batch(w) = {},
         NEW S \in SUBSET Jobs, Picked(S), LeaseRows(S)
  PROVE  \A j \in Jobs : /\ attempts'[j] <= MaxAttempts + restarts + dbErrors
                         /\ j \in S => Waiting(j) /\ status'[j] = "running"
                         /\ j \notin S => attempts'[j] = attempts[j] /\ status'[j] = status[j]
<1> SUFFICES ASSUME NEW j \in Jobs
             PROVE  /\ attempts'[j] <= MaxAttempts + restarts + dbErrors
                    /\ j \in S => Waiting(j) /\ status'[j] = "running"
                    /\ j \notin S => attempts'[j] = attempts[j] /\ status'[j] = status[j]
  OBVIOUS
<1>1. j \in S => Waiting(j)
  BY LeaseExcludes, LiveRows DEF BudgetInv, Waiting
<1>2. attempts[j] \in Nat /\ restarts \in Nat /\ dbErrors \in Nat
  BY BoundsAssumption DEF BudgetInv, LeaseInv, TypeOK
<1> QED
  BY <1>1, <1>2, MaxAttemptsAssumption DEF LeaseRows, BudgetInv, AttemptsBounded, AttemptLeft

(* A death grants an attempt to every job, so that jobs it put back wait   *)
(* with one left.                                                          *)
LEMMA DeathKeepsBudget ==
  ASSUME BudgetInv, LeaseInv',
         \/ restarts' = restarts + 1 /\ dbErrors' = dbErrors
         \/ restarts' = restarts /\ dbErrors' = dbErrors + 1,
         \A j \in Jobs : attempts'[j] <= MaxAttempts + restarts + dbErrors
  PROVE  BudgetInv'
<1>1. restarts \in Nat /\ dbErrors \in Nat /\ \A j \in Jobs : attempts'[j] \in Nat
  BY BoundsAssumption DEF BudgetInv, LeaseInv, TypeOK
<1>2. \A j \in Jobs : attempts'[j] < MaxAttempts + restarts' + dbErrors'
  BY <1>1, MaxAttemptsAssumption
<1> QED
  BY <1>1, <1>2, MaxAttemptsAssumption DEF BudgetInv, AttemptsBounded, AttemptLeft

LEMMA BudgetStep ==
  ASSUME BudgetInv, Exclusive, [Next]_vars
  PROVE  BudgetInv'
<1>0. LeaseInv /\ LeaseInv' /\ TypeOK /\ restarts \in Nat /\ dbErrors \in Nat
  BY LeaseInvStep, BoundsAssumption DEF BudgetInv, LeaseInv, TypeOK
<1>1. ASSUME NEW w \in Workers, Lease(w)
      PROVE  AttemptsBounded' /\ AttemptLeft'
  <2>1. PICK S \in SUBSET Jobs :
           /\ Picked(S) /\ LeaseRows(S)
           /\ held' = [held EXCEPT ![w] =
                         [j \in Jobs |-> IF j \in S THEN attempts[j] + 1 ELSE 0]]
    BY <1>1 DEF Lease
  <2>2. Batch(w) = {} /\ restarts' = restarts /\ dbErrors' = dbErrors
    BY <1>1 DEF Lease, bounds
  <2>3. \A j \in Jobs : /\ attempts'[j] <= MaxAttempts + restarts + dbErrors
                        /\ j \in S => Waiting(j) /\ status'[j] = "running"
                        /\ j \notin S => attempts'[j] = attempts[j] /\ status'[j] = status[j]
    BY <2>1, <2>2, LeasedWereWaiting
  <2>4. Batch(w)' = S /\ \A v \in Workers \ {w} : Batch(v)' = Batch(v)
    BY <1>0, <2>1, BatchAfterLease
  <2>5. \A j \in Jobs : Waiting(j)' => j \notin S /\ Waiting(j)
    BY <2>2, <2>3, <2>4 DEF Waiting
  <2> QED
    BY <2>2, <2>3, <2>5 DEF BudgetInv, AttemptsBounded, AttemptLeft
<1>2. ASSUME NEW w \in Workers, NEW j \in Jobs, Complete(w, j) \/ Fail(w, j)
      PROVE  AttemptsBounded' /\ AttemptLeft'
  <2>1. /\ j \in Batch(w) /\ Drop(w, j) /\ (MarkDone(j) \/ MarkFailed(j, held[w][j]))
        /\ restarts' = restarts /\ dbErrors' = dbErrors
    BY <1>2 DEF Complete, Fail, bounds
  <2>2. attempts' = attempts /\ \A k \in Jobs \ {j} : status'[k] = status[k]
    BY <1>0, <2>1 DEF MarkDone, MarkFailed, TypeOK
  <2>3. \A k \in Jobs \ {j} : Waiting(k)' => Waiting(k)
    <3>1. \A v \in Workers : Batch(v) \subseteq Batch(v)' \cup {j}
      BY <1>0, <2>1, BatchAfterDrop
    <3> QED
      BY <2>2, <3>1 DEF Waiting
  <2>4. Waiting(j)' => attempts[j] < MaxAttempts
    <3>1. CASE MarkDone(j)
      BY <1>0, <3>1 DEF MarkDone, Waiting, TypeOK
    <3>2. CASE MarkFailed(j, held[w][j])
      <4>1. held[w][j] = attempts[j] /\ attempts[j] \in Nat
        BY <1>0, <2>1 DEF LeaseInv, HeldIsCurrent, TypeOK
      <4> QED
        BY <1>0, <3>2, <4>1, MaxAttemptsAssumption DEF MarkFailed, Waiting, TypeOK
    <3> QED
      BY <2>1, <3>1, <3>2
  <2>5. attempts[j] \in Nat
    BY <1>0 DEF TypeOK
  <2>6. AttemptsBounded'
    BY <2>1, <2>2 DEF BudgetInv, AttemptsBounded
  <2>7. AttemptLeft'
    BY <1>0, <2>1, <2>2, <2>3, <2>4, <2>5, MaxAttemptsAssumption DEF BudgetInv, AttemptLeft
  <2> QED
    BY <2>6, <2>7
<1>3. ASSUME NEW w \in Workers, Restart(w)
      PROVE  BudgetInv'
  BY <1>0, <1>3, DeathKeepsBudget DEF Restart, row, BudgetInv, AttemptsBounded
<1>4. ASSUME NEW w \in Workers, DbError(w)
      PROVE  BudgetInv'
  <2>1. \A j \in Jobs : attempts'[j] <= MaxAttempts + restarts + dbErrors
    <3>1. CASE attempts' = attempts
      BY <3>1 DEF BudgetInv, AttemptsBounded
    <3>2. CASE Batch(w) = {} /\ \E S \in SUBSET Jobs : Picked(S) /\ LeaseRows(S)
      BY <3>2, LeasedWereWaiting
    <3> QED
      BY <1>4, <3>1, <3>2 DEF DbError, row, MarkDone, MarkFailed
  <2> QED
    BY <1>0, <1>4, <2>1, DeathKeepsBudget DEF DbError
<1>5. ASSUME (\E j \in Jobs : Enqueue(j)) \/ Tick \/ UNCHANGED vars
      PROVE  AttemptsBounded' /\ AttemptLeft'
  <2>1. held' = held /\ attempts' = attempts /\ restarts' = restarts /\ dbErrors' = dbErrors
    BY <1>5 DEF Enqueue, Tick, vars, bounds
  <2>2. \A v \in Workers : Batch(v)' = Batch(v)
    BY <2>1, BatchFrame
  <2>3. \A j \in Jobs : status'[j] = status[j] \/ status[j] = "none"
    BY <1>0, <1>5 DEF Enqueue, Tick, vars, TypeOK
  <2>4. \A j \in Jobs : Waiting(j)' => Waiting(j)
    BY <2>2, <2>3 DEF Waiting
  <2> QED
    BY <2>1, <2>4 DEF BudgetInv, AttemptsBounded, AttemptLeft
<1> QED
  BY <1>0, <1>1, <1>2, <1>3, <1>4, <1>5 DEF Next, BudgetInv

(* A job is leased at most MaxAttempts times, plus once per worker death   *)
(* (lease_jobs has no cap of its own, fail_job has).                       *)
THEOREM AttemptsBoundedCorrect ==
  ASSUME Exclusive
  PROVE  Spec => []AttemptsBounded
<1>1. Init => BudgetInv
  BY LeaseInvInit, MaxAttemptsAssumption DEF Init, BudgetInv, AttemptsBounded, AttemptLeft
<1>2. BudgetInv /\ [Next]_vars => BudgetInv'
  BY BudgetStep
<1>3. BudgetInv => AttemptsBounded
  BY DEF BudgetInv
<1> QED
  BY <1>1, <1>2, <1>3, PTL DEF Spec
=============================================================================
