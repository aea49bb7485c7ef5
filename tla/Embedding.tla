----------------------------- MODULE Embedding -----------------------------
(***************************************************************************)
(* The rows a search can find, chunks and memories, and the embed_chunk    *)
(* and embed_memory jobs that give them vectors (worker.rs: process,       *)
(* embedding.rs: embed).  A handler reads its row, calls the provider and  *)
(* writes the vector, three steps between which the row may change.        *)
(*                                                                         *)
(* A row is absent before it is ingested or approved; an active memory may *)
(* be superseded.  Contents never change, so a vector is there or not.     *)
(* From the job queue come retries, redelivery after a crash, and failure  *)
(* for good; one job is in one worker's hands at a time (SoleHolder), and  *)
(* any number of workers run.                                              *)
(***************************************************************************)
EXTENDS Integers

CONSTANTS
  Chunks, Memories,
  Configured,    \* an embedding provider is configured
  MaxAttempts,   \* attempts after which fail_job gives up, 8 in the code
  MaxFaults,     \* bound: errors and crashes that hit embedding jobs
  None

Rows == Chunks \cup Memories

ASSUME RowsAssumption == Chunks \cap Memories = {} /\ None \notin Rows
ASSUME ConfiguredAssumption == Configured \in BOOLEAN
ASSUME AttemptsAssumption == MaxAttempts \in Nat \ {0} /\ MaxFaults \in Nat

VARIABLES
  status,     \* status[r]
  lineage,    \* lineage[m]: m and the memories it supersedes, directly or not
  vector,     \* rows whose embedding is not NULL
  job,        \* job[r]: where the embedding job of r stands
  attempts,   \* jobs.attempts
  faults

embedVars == <<status, lineage, vector, job, attempts, faults>>

Running == {"load", "embed", "store", "report"}

EmbedTypeOK == /\ status \in [Rows -> {"absent", "live", "superseded"}]
               /\ lineage \in [Memories -> SUBSET Memories]
               /\ vector \subseteq Rows
               /\ job \in [Rows -> {"none", "queued", "done", "failed"} \cup Running]
               /\ attempts \in [Rows -> Nat]
               /\ faults \in 0..MaxFaults

EmbedInit == /\ status = [r \in Rows |-> "absent"]
             /\ lineage = [m \in Memories |-> {m}]
             /\ vector = {}
             /\ job = [r \in Rows |-> "none"]
             /\ attempts = [r \in Rows |-> 0]
             /\ faults = 0

-----------------------------------------------------------------------------
(* ingest_source commits the chunks of a source with their jobs. *)
Ingest(C) ==
  /\ C # {}
  /\ \A c \in C : status[c] = "absent"
  /\ status' = [r \in Rows |-> IF r \in C THEN "live" ELSE status[r]]
  /\ job' = [r \in Rows |-> IF r \in C THEN "queued" ELSE job[r]]
  /\ UNCHANGED <<lineage, vector, attempts, faults>>

(* Seeded fault: the old version goes, the new one stays a candidate. *)
ApproveHalf(m, p) ==
  /\ status[m] = "absent"
  /\ p # None => status[p] = "live"
  /\ status' = IF p = None THEN [status EXCEPT ![m] = "live"]
               ELSE [status EXCEPT ![p] = "superseded"]
  /\ lineage' = [lineage EXCEPT ![m] = @ \cup (IF p = None THEN {} ELSE lineage[p])]
  /\ job' = [job EXCEPT ![m] = "queued"]
  /\ UNCHANGED <<vector, attempts, faults>>

(* approve_memory commits: m becomes active in the place of p. *)
Approve(m, p) ==
  /\ status[m] = "absent"
  /\ p # None => status[p] = "live"
  /\ status' = [r \in Rows |-> IF r = m THEN "live"
                               ELSE IF r = p THEN "superseded" ELSE status[r]]
  /\ lineage' = [lineage EXCEPT ![m] = @ \cup (IF p = None THEN {} ELSE lineage[p])]
  /\ job' = [job EXCEPT ![m] = "queued"]
  /\ UNCHANGED <<vector, attempts, faults>>

Goto(r, step) == job' = [job EXCEPT ![r] = step]

Lease(r) == /\ job[r] = "queued"
            /\ Goto(r, "load")
            /\ attempts' = [attempts EXCEPT ![r] = @ + 1]
            /\ UNCHANGED <<status, lineage, vector, faults>>

(* Seeded fault: it gives up an attempt too early. *)
GiveUpEarly(r) == Goto(r, IF attempts[r] >= MaxAttempts - 1 THEN "failed" ELSE "queued")

(* fail_job *)
GiveUp(r) == Goto(r, IF attempts[r] >= MaxAttempts THEN "failed" ELSE "queued")

(* load_chunk_content, load_memory_statement: a memory that is no longer   *)
(* active is NotFound, and the job an error.                               *)
Load(r) == /\ job[r] = "load"
           /\ IF status[r] = "live" THEN Goto(r, "embed") ELSE GiveUp(r)
           /\ UNCHANGED <<status, lineage, vector, attempts, faults>>

(* Seeded fault: an answer of the provider is taken for none. *)
CallIgnored(r) == /\ job[r] = "embed"
                  /\ Goto(r, "report")
                  /\ UNCHANGED <<status, lineage, vector, attempts, faults>>

(* embed: without a provider there is no vector to store, and no error. *)
Call(r) == /\ job[r] = "embed"
           /\ Goto(r, IF Configured THEN "store" ELSE "report")
           /\ UNCHANGED <<status, lineage, vector, attempts, faults>>

(* set_chunk_embedding, set_memory_embedding, whatever the status is now. *)
Store(r) == /\ job[r] = "store"
            /\ vector' = vector \cup {r}
            /\ Goto(r, "report")
            /\ UNCHANGED <<status, lineage, attempts, faults>>

(* complete_job *)
Report(r) == /\ job[r] = "report"
             /\ Goto(r, "done")
             /\ UNCHANGED <<status, lineage, vector, attempts, faults>>

(* A statement or the provider returns an error, which goes to fail_job. *)
Fail(r) == /\ job[r] \in {"load", "embed", "store"}
           /\ job[r] = "embed" => Configured
           /\ faults < MaxFaults
           /\ faults' = faults + 1
           /\ GiveUp(r)
           /\ UNCHANGED <<status, lineage, vector, attempts>>

(* The worker dies; its lease expires and the job can be leased again. *)
Crash(r) == /\ job[r] \in Running
            /\ faults < MaxFaults
            /\ faults' = faults + 1
            /\ Goto(r, "queued")
            /\ UNCHANGED <<status, lineage, vector, attempts>>

Work(r) == Lease(r) \/ Load(r) \/ Call(r) \/ Store(r) \/ Report(r)

EmbedNext == \/ \E C \in SUBSET Chunks : Ingest(C)
             \/ \E m \in Memories, p \in Memories \cup {None} : Approve(m, p)
             \/ \E r \in Rows : Work(r) \/ Fail(r) \/ Crash(r)

-----------------------------------------------------------------------------
(* With a provider, a job that is reported done has left a vector, through *)
(* every redelivery (worker.rs: process).                                  *)
DoneIsEmbedded ==
  Configured => \A r \in Rows : job[r] \in {"report", "done"} => r \in vector

(* A row that is there is given up on only after as many errors and        *)
(* crashes as the code allows attempts: approval and ingestion queue the   *)
(* job in the transaction that makes the row visible, so no attempt is     *)
(* lost to a row that is not there yet.                                    *)
GivenUpAfterRetries ==
  \A r \in Rows : job[r] = "failed" /\ status[r] = "live" => faults >= MaxAttempts
=============================================================================
