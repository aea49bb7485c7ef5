------------------------------ MODULE JobQueue ------------------------------
(***************************************************************************)
(* The jobs table of PostgreSQL and the background workers that drain it:  *)
(* Storage::lease_jobs, complete_job and fail_job (storage.rs) and the     *)
(* loop of services::worker::run.                                          *)
(*                                                                         *)
(* A worker is one process running worker::run: it leases a batch, works   *)
(* through it one job after the other, reports each outcome, and leases    *)
(* again only when the batch is exhausted.  Each of the three statements   *)
(* is one SQL statement and hence one step: SKIP LOCKED only skips rows    *)
(* another worker's statement is about to make unleasable, so concurrent   *)
(* statements behave as if one came after the other.                       *)
(*                                                                         *)
(* Time is the database's now().  available_at and lease_until are kept    *)
(* relative to it, as countdowns in the unit of the constants; the code's  *)
(* values (in seconds) are in the comments of the constants.               *)
(***************************************************************************)
EXTENDS Integers, FiniteSets

CONSTANTS
  Workers,      \* processes with PKOS_WORKER_ENABLED
  Jobs,         \* rows the program will ever insert into the table
  CreatedAt,    \* [Jobs -> Nat]: created_at; rows of one transaction tie
  BatchSize,    \* worker_batch_size                          (8)
  MaxAttempts,  \* fail_job: attempts >= 8 is terminal        (8)
  LeaseTime,    \* lease_until = now() + interval             (60)
  JobTime,      \* longest time a handler takes to be done    (45, extraction)
  BackoffCap,   \* LEAST(300, ...)                            (300)
  MaxRestarts,  \* bound: restarts of worker processes
  MaxDbErrors   \* bound: queue statements that return an error

ASSUME BatchSizeAssumption == BatchSize \in Nat \ {0}
ASSUME MaxAttemptsAssumption == MaxAttempts \in Nat \ {0}
ASSUME TimesAssumption == /\ LeaseTime \in Nat \ {0}
                          /\ JobTime \in Nat \ {0}
                          /\ BackoffCap \in Nat
ASSUME BoundsAssumption == MaxRestarts \in Nat /\ MaxDbErrors \in Nat
ASSUME JobsAssumption == IsFiniteSet(Jobs) /\ CreatedAt \in [Jobs -> Nat]

VARIABLES
  status,       \* status[j]; "none" until the row exists
  attempts,     \* attempts[j]: leases handed out
  wait,         \* wait[j]: available_at - now(), 0 once it is past
  lease,        \* lease[j]: lease_until - now(); negative when past or NULL
  held,         \* held[w][j]: JobRecord.attempts of a job in w's batch, else 0
  busy,         \* busy[w]: time w has spent on the job it is processing
  up,           \* up[w]: worker::run has not returned
  restarts, dbErrors

vars == <<status, attempts, wait, lease, held, busy, up, restarts, dbErrors>>

row == <<status, attempts, wait, lease>>
bounds == <<restarts, dbErrors>>

Settled == {"done", "failed"}
Expired == -1

NoBatch == [j \in Jobs |-> 0]
Batch(w) == {j \in Jobs : held[w][j] > 0}

TypeOK == /\ status \in [Jobs -> {"none", "pending", "running"} \cup Settled]
          /\ attempts \in [Jobs -> Nat]
          /\ wait \in [Jobs -> Nat]
          /\ lease \in [Jobs -> Expired..LeaseTime]
          /\ held \in [Workers -> [Jobs -> Nat]]
          /\ busy \in [Workers -> 0..JobTime]
          /\ up \in [Workers -> BOOLEAN]
          /\ restarts \in 0..MaxRestarts
          /\ dbErrors \in 0..MaxDbErrors

Init == /\ status = [j \in Jobs |-> "none"]
        /\ attempts = [j \in Jobs |-> 0]
        /\ wait = [j \in Jobs |-> 0]
        /\ lease = [j \in Jobs |-> Expired]
        /\ held = [w \in Workers |-> NoBatch]
        /\ busy = [w \in Workers |-> 0]
        /\ up = [w \in Workers |-> TRUE]
        /\ restarts = 0
        /\ dbErrors = 0

-----------------------------------------------------------------------------
(* INSERT INTO jobs with the column defaults, from ingest_source and       *)
(* approve_memory.                                                         *)
Enqueue(j) == /\ status[j] = "none"
              /\ status' = [status EXCEPT ![j] = "pending"]
              /\ UNCHANGED <<attempts, wait, lease, held, busy, up, bounds>>

(* Seeded faults in the WHERE clause below: the lease is not looked at; the *)
(* status is not looked at; a job left running is never taken over.        *)
LeasableUnderLease == {j \in Jobs : status[j] \in {"pending", "running"} /\ wait[j] = 0}
LeasableSettled == {j \in Jobs : status[j] # "none" /\ wait[j] = 0 /\ lease[j] < 0}
LeasablePending == {j \in Jobs : status[j] = "pending" /\ wait[j] = 0}

(* The rows the WHERE clause of lease_jobs accepts. *)
Leasable == {j \in Jobs : /\ status[j] \in {"pending", "running"}
                          /\ wait[j] = 0
                          /\ \/ status[j] = "pending"
                             \/ lease[j] < 0}

(* S is what ORDER BY created_at LIMIT BatchSize picks. *)
Picked(S) == /\ S \subseteq Leasable
             /\ Cardinality(S) <= BatchSize
             /\ Cardinality(S) < BatchSize => S = Leasable
             /\ \A j \in S, k \in Leasable \ S : CreatedAt[j] <= CreatedAt[k]

(* Seeded faults: attempts is not counted; lease_until is not set. *)
LeaseRowsUncounted(S) ==
  /\ status' = [j \in Jobs |-> IF j \in S THEN "running" ELSE status[j]]
  /\ lease' = [j \in Jobs |-> IF j \in S THEN LeaseTime ELSE lease[j]]
  /\ UNCHANGED <<attempts, wait>>
LeaseRowsUntimed(S) ==
  /\ status' = [j \in Jobs |-> IF j \in S THEN "running" ELSE status[j]]
  /\ attempts' = [j \in Jobs |-> IF j \in S THEN attempts[j] + 1 ELSE attempts[j]]
  /\ UNCHANGED <<lease, wait>>

(* UPDATE jobs SET status = 'running', ... for the picked rows. *)
LeaseRows(S) ==
  /\ status' = [j \in Jobs |-> IF j \in S THEN "running" ELSE status[j]]
  /\ attempts' = [j \in Jobs |-> IF j \in S THEN attempts[j] + 1 ELSE attempts[j]]
  /\ lease' = [j \in Jobs |-> IF j \in S THEN LeaseTime ELSE lease[j]]
  /\ UNCHANGED wait

(* One turn of the loop that finds work: the batch is in memory, with the  *)
(* attempt number each row had when it was leased.                         *)
Lease(w) == /\ up[w]
            /\ Batch(w) = {}
            /\ \E S \in SUBSET Jobs :
                 /\ S # {}
                 /\ Picked(S)
                 /\ LeaseRows(S)
                 /\ held' = [held EXCEPT ![w] =
                               [j \in Jobs |-> IF j \in S THEN attempts[j] + 1 ELSE 0]]
            /\ busy' = [busy EXCEPT ![w] = 0]
            /\ UNCHANGED <<up, bounds>>

(* complete_job: WHERE id = $1, whatever the row says by now. *)
MarkDone(j) == /\ status' = [status EXCEPT ![j] = "done"]
               /\ lease' = [lease EXCEPT ![j] = Expired]
               /\ UNCHANGED <<attempts, wait>>

(* (2 ^ LEAST(attempts, 8))::int, capped. *)
PowersOfTwo == <<2, 4, 8, 16, 32, 64, 128, 256>>
Backoff(n) == LET p == PowersOfTwo[IF n < 8 THEN n ELSE 8]
              IN  IF p < BackoffCap THEN p ELSE BackoffCap

(* Seeded faults in fail_job: one attempt too many, one too few. *)
MarkFailedLate(j, n) ==
  /\ status' = [status EXCEPT ![j] = IF n > MaxAttempts THEN "failed" ELSE "pending"]
  /\ lease' = [lease EXCEPT ![j] = Expired]
  /\ UNCHANGED <<attempts, wait>>
MarkFailedEarly(j, n) ==
  /\ status' = [status EXCEPT ![j] = IF n + 1 >= MaxAttempts THEN "failed" ELSE "pending"]
  /\ lease' = [lease EXCEPT ![j] = Expired]
  /\ UNCHANGED <<attempts, wait>>

(* fail_job: the attempt number n is the one the worker was handed. *)
MarkFailed(j, n) == /\ IF n >= MaxAttempts
                       THEN /\ status' = [status EXCEPT ![j] = "failed"]
                            /\ UNCHANGED wait
                       ELSE /\ status' = [status EXCEPT ![j] = "pending"]
                            /\ wait' = [wait EXCEPT ![j] = Backoff(n)]
                    /\ lease' = [lease EXCEPT ![j] = Expired]
                    /\ UNCHANGED attempts

(* Seeded fault: the reported job stays in the batch. *)
DropNothing(w, j) == /\ busy' = [busy EXCEPT ![w] = 0]
                     /\ UNCHANGED held

(* w turns to the next job of its batch. *)
Drop(w, j) == /\ held' = [held EXCEPT ![w][j] = 0]
              /\ busy' = [busy EXCEPT ![w] = 0]

(* The handler of j returned Ok, and the row says so. *)
Complete(w, j) == /\ up[w]
                  /\ j \in Batch(w)
                  /\ MarkDone(j)
                  /\ Drop(w, j)
                  /\ UNCHANGED <<up, bounds>>

(* The handler of j returned an error.  One that panics does not return:   *)
(* that is the end of run, as in DbError.                                  *)
Fail(w, j) == /\ up[w]
              /\ j \in Batch(w)
              /\ MarkFailed(j, held[w][j])
              /\ Drop(w, j)
              /\ UNCHANGED <<up, bounds>>

Report(w) == \E j \in Jobs : Complete(w, j) \/ Fail(w, j)

(* The process is killed and comes back: the batch is gone, the rows stay  *)
(* leased until their time is up.                                          *)
Restart(w) == /\ restarts < MaxRestarts
              /\ restarts' = restarts + 1
              /\ held' = [held EXCEPT ![w] = NoBatch]
              /\ busy' = [busy EXCEPT ![w] = 0]
              /\ up' = [up EXCEPT ![w] = TRUE]
              /\ UNCHANGED <<row, dbErrors>>

(* A statement of worker::run returns an error: `?` ends run, main logs    *)
(* "background worker stopped", the process lives on without a worker.     *)
(* The statement may or may not have taken effect before the connection    *)
(* was lost.  The first disjunct is also a panic in a handler, which       *)
(* unwinds run, with the same outcome.                                     *)
DbError(w) == /\ up[w]
              /\ dbErrors < MaxDbErrors
              /\ dbErrors' = dbErrors + 1
              /\ \/ UNCHANGED row
                 \/ /\ Batch(w) = {}
                    /\ \E S \in SUBSET Jobs : Picked(S) /\ LeaseRows(S)
                 \/ \E j \in Batch(w) : MarkDone(j) \/ MarkFailed(j, held[w][j])
              /\ held' = [held EXCEPT ![w] = NoBatch]
              /\ busy' = [busy EXCEPT ![w] = 0]
              /\ up' = [up EXCEPT ![w] = FALSE]
              /\ UNCHANGED restarts

(* A unit of time passes; no worker spends more than JobTime on a job. *)
Tick == /\ \A w \in Workers : Batch(w) # {} => busy[w] < JobTime
        /\ busy' = [w \in Workers |-> IF Batch(w) # {} THEN busy[w] + 1 ELSE busy[w]]
        /\ wait' = [j \in Jobs |-> IF wait[j] > 0 THEN wait[j] - 1 ELSE 0]
        /\ lease' = [j \in Jobs |-> IF lease[j] >= 0 THEN lease[j] - 1 ELSE Expired]
        /\ UNCHANGED <<status, attempts, held, up, bounds>>

Next == \/ \E j \in Jobs : Enqueue(j)
        \/ \E w \in Workers : Lease(w) \/ Restart(w) \/ DbError(w)
        \/ \E w \in Workers, j \in Jobs : Complete(w, j) \/ Fail(w, j)
        \/ Tick

Spec == Init /\ [][Next]_vars

(* The loop keeps turning while run has not returned; handlers end, since  *)
(* their calls of providers have timeouts and the database answers or      *)
(* errors; and time passes.                                                *)
Fairness == /\ WF_vars(Tick)
            /\ \A w \in Workers : WF_vars(Lease(w)) /\ WF_vars(Report(w))

FairSpec == Spec /\ Fairness

-----------------------------------------------------------------------------
(* The configuration leaves a worker the time to finish its whole batch    *)
(* before the lease of its last job ends.  The defaults (8 jobs, 60        *)
(* seconds, 45 seconds per extraction) do not.                             *)
SafeTiming == BatchSize * JobTime <= LeaseTime

(* With it, or with a single worker process, a lease excludes: a worker     *)
(* alone leases only after its batch is done.                              *)
Exclusive == SafeTiming \/ \A v, w \in Workers : v = w

(* A job is in the batch of one worker only: two workers never run the     *)
(* same extraction or embedding at the same time (lease_jobs, worker.rs).  *)
SoleHolder == \A v, w \in Workers : \A j \in Batch(v) \cap Batch(w) : v = w

(* The pair of a job and its attempt number names one lease: no two        *)
(* workers hold the same pair even when a lease expired under its holder   *)
(* (attempts = attempts + 1 in lease_jobs), and the row's counter is never *)
(* behind a number somebody holds.                                         *)
FreshAttempt ==
  \A w \in Workers : \A j \in Batch(w) :
    /\ held[w][j] <= attempts[j]
    /\ \A v \in Workers \ {w} : held[v][j] # held[w][j]

(* A job is leased again beyond MaxAttempts only when a worker died with   *)
(* it in its batch: fail_job's terminal state cuts every other retry off.  *)
AttemptsBounded == \A j \in Jobs : attempts[j] <= MaxAttempts + restarts + dbErrors

(* A row marked failed used up all of its attempts. *)
NoEarlyFailure == \A j \in Jobs : status[j] = "failed" => attempts[j] >= MaxAttempts

(* A job that was reported done, or given up, stays so: no late report of  *)
(* another worker brings it back (complete_job, fail_job).                 *)
TerminalStable ==
  [][\A j \in Jobs : status[j] \in Settled => status'[j] = status[j]]_vars

(* Even when leases end under their holders, a job that was done or given  *)
(* up changes again only by the report of a worker that still holds it, and *)
(* only after the row was taken over, that is, leased to somebody else      *)
(* while the first holder was late: nothing brings back a job that was      *)
(* leased once (lease_jobs, and the WHERE id = $1 of the reports).          *)
ReopenedAfterTakeover ==
  [][\A j \in Jobs :
       status[j] \in Settled /\ status'[j] # status[j] =>
         /\ attempts[j] > 1
         /\ \E w \in Workers : held[w][j] > 0 /\ held'[w][j] = 0]_vars

(* A row under a lease that has time left changes only by the report of    *)
(* the worker the current attempt was handed to.                           *)
LeaseRespected ==
  [][\A j \in Jobs :
       (/\ status[j] = "running" /\ lease[j] >= 0
        /\ status'[j] # "running" \/ attempts'[j] # attempts[j])
       => \E w \in Workers : held[w][j] = attempts[j] /\ held'[w][j] = 0]_vars

(* Every job that was enqueued is settled for good in the end: durable     *)
(* work survives restarts of the workers (README, "Durable async work").   *)
EventuallySettled ==
  \A j \in Jobs : (status[j] # "none") ~> [](status[j] \in Settled)

(* The invariant that makes a lease exclude: a job in a batch is running    *)
(* under the attempt number the worker was handed, nobody else has it, and *)
(* with safe timing its lease outlasts what the worker has left to do: the *)
(* jobs of its batch at JobTime each, less the time already spent.         *)
HeldIsCurrent == \A w \in Workers : \A j \in Batch(w) :
                   status[j] = "running" /\ held[w][j] = attempts[j]
LeaseCoversBatch ==
  SafeTiming => \A w \in Workers : \A j \in Batch(w) :
                  lease[j] >= Cardinality(Batch(w)) * JobTime - busy[w]
LeaseInv == TypeOK /\ HeldIsCurrent /\ SoleHolder /\ LeaseCoversBatch

(* Why attempts are bounded: a job that waits to be leased has an attempt   *)
(* left, and only the death of a worker grants one more.                    *)
Waiting(j) == \/ status[j] \in {"none", "pending"}
              \/ status[j] = "running" /\ \A w \in Workers : j \notin Batch(w)
AttemptLeft == \A j \in Jobs : Waiting(j) => attempts[j] < MaxAttempts + restarts + dbErrors

(* The abstract queue: both live states are "open", a batch is ownership.   *)
Phase == [j \in Jobs |-> IF status[j] \in {"pending", "running"} THEN "open" ELSE status[j]]
Owns == [w \in Workers |-> Batch(w)]

Abstract == INSTANCE ExclusiveQueue WITH phase <- Phase, owns <- Owns

(* Leases, attempts and timeouts add up to exclusive ownership: every step  *)
(* of the queue is a step of ExclusiveQueue (storage.rs, worker.rs).        *)
ImplementsExclusiveQueue == Abstract!Spec
=============================================================================
