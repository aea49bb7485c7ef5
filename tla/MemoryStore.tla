---------------------------- MODULE MemoryStore ----------------------------
(***************************************************************************)
(* The memories of one owner as the database keeps them: the rows of       *)
(* memories, memory_evidence and audit_log, and the embed_memory jobs that *)
(* approval queues.  The actions are the transactions and the autocommit   *)
(* statements of storage.rs and memory_extraction.rs that write them, each *)
(* one step, in any order any caller may issue them.  approve_memory locks *)
(* the row it approves (FOR UPDATE) and the row it supersedes (UPDATE ...  *)
(* WHERE status = 'active'), so it is one step although it is several      *)
(* statements.  reject_memory and reinforce_existing_memory are not        *)
(* transactions and take two steps.                                        *)
(*                                                                         *)
(* Times are kept as far as the code compares them: valid_from is unset,   *)
(* not after now() or after it.  confidence and importance are one score,  *)
(* which passes both promotion thresholds or does not.  The status         *)
(* 'disputed' of the schema is never written by the code.                  *)
(***************************************************************************)
EXTENDS Integers, FiniteSets

CONSTANTS
  Memories,     \* ids uuid v7 will ever produce
  Statements,   \* statements up to lower(btrim(...))
  Sources,      \* ingested sources
  Scores,       \* scores a caller may send
  Starts,       \* values of valid_from a caller may send
  Lossy,        \* TRUE: a caller may be cut off between two statements
  None

ASSUME NoneAssumption == None \notin Memories \cup Statements \cup Sources
ASSUME ScoresAssumption == Scores \subseteq {"low", "high"}
ASSUME StartsAssumption == Starts \subseteq {"null", "past", "future"}
ASSUME LossyAssumption == Lossy \in BOOLEAN
ASSUME SourcesAssumption == IsFiniteSet(Sources)

VARIABLES
  status, statement, score, validFrom, supersedes, recurrence,
  closed,       \* valid_until is set
  evidence,     \* evidence[m]: source_ids of memory_evidence
  audit,        \* audit[m]: lifecycle events in audit_log
  unaudited,    \* rejected, INSERT INTO audit_log still to come
  owed,         \* owed[m]: evidence rows whose recurrence_count + 1 is still to come
  embedJobs     \* memories with an embed_memory job

content == <<statement, score>>
storeVars == <<status, statement, score, validFrom, supersedes, recurrence,
               closed, evidence, audit, unaudited, owed, embedJobs>>

Statuses == {"candidate", "active", "superseded", "rejected"}
Rows == {m \in Memories : status[m] # "none"}

StoreTypeOK == /\ status \in [Memories -> {"none"} \cup Statuses]
               /\ statement \in [Memories -> Statements \cup {None}]
               /\ score \in [Memories -> {"low", "high"}]
               /\ validFrom \in [Memories -> {"null", "past", "future"}]
               /\ supersedes \in [Memories -> Memories \cup {None}]
               /\ recurrence \in [Memories -> Nat]
               /\ closed \in [Memories -> BOOLEAN]
               /\ evidence \in [Memories -> SUBSET Sources]
               /\ audit \in [Memories -> SUBSET {"created", "approved", "rejected"}]
               /\ unaudited \subseteq Memories
               /\ owed \in [Memories -> Nat]
               /\ embedJobs \subseteq Memories

StoreInit == /\ status = [m \in Memories |-> "none"]
             /\ statement = [m \in Memories |-> None]
             /\ score = [m \in Memories |-> "low"]
             /\ validFrom = [m \in Memories |-> "null"]
             /\ supersedes = [m \in Memories |-> None]
             /\ recurrence = [m \in Memories |-> 0]
             /\ closed = [m \in Memories |-> FALSE]
             /\ evidence = [m \in Memories |-> {}]
             /\ audit = [m \in Memories |-> {}]
             /\ unaudited = {}
             /\ owed = [m \in Memories |-> 0]
             /\ embedJobs = {}

-----------------------------------------------------------------------------
(* create_memory_candidate.  An empty list of sources, an unknown source   *)
(* or a repeated one is refused before anything is written.                *)
Create(m, s, c, start, E) ==
  /\ status[m] = "none"
  /\ E # {}
  /\ status' = [status EXCEPT ![m] = "candidate"]
  /\ statement' = [statement EXCEPT ![m] = s]
  /\ score' = [score EXCEPT ![m] = c]
  /\ validFrom' = [validFrom EXCEPT ![m] = start]
  /\ recurrence' = [recurrence EXCEPT ![m] = 1]
  /\ evidence' = [evidence EXCEPT ![m] = E]
  /\ audit' = [audit EXCEPT ![m] = {"created"}]
  /\ UNCHANGED <<supersedes, closed, unaudited, owed, embedJobs>>

(* Seeded faults: any row may be superseded; the CHECK constraint is gone;  *)
(* a memory may be approved whatever its status.                           *)
SupersedableAny(p) == validFrom[p] # "future" /\ status[p] # "none"
SupersedableUnchecked(p) == status[p] = "active"

(* p can be superseded: it is active, and valid_until = now() passes       *)
(* CHECK (valid_until >= valid_from).                                      *)
Supersedable(p) == status[p] = "active" /\ validFrom[p] # "future"

CandidateOnce(m) == status[m] # "none"

(* What approve_memory demands of the row it approves. *)
Candidate(m) == status[m] = "candidate"

(* approve_memory goes through: m is a candidate, p is none or supersedable. *)
Approvable(m, p) == Candidate(m) /\ (p # None => Supersedable(p))

(* The rows approve_memory(m, supersedes p) leaves behind. *)
Approved(m, p) ==
  /\ status' = [k \in Memories |-> IF k = m THEN "active"
                                   ELSE IF k = p THEN "superseded" ELSE status[k]]
  /\ closed' = [k \in Memories |-> closed[k] \/ k = p]
  /\ supersedes' = [supersedes EXCEPT ![m] = p]
  /\ validFrom' = [validFrom EXCEPT ![m] = IF @ = "null" THEN "past" ELSE @]
  /\ embedJobs' = embedJobs \cup {m}
  /\ audit' = [audit EXCEPT ![m] = @ \cup {"approved"}]
  /\ UNCHANGED <<content, recurrence, evidence, unaudited, owed>>

(* approve_memory(m, supersedes p), committed; when it is not Approvable   *)
(* the transaction rolls back and nothing changes.                         *)
Approve(m, p) == Approvable(m, p) /\ Approved(m, p)

(* reject_memory, first statement: UPDATE ... WHERE status = 'candidate'. *)
RejectRow(m) == /\ status[m] = "candidate"
                /\ status' = [status EXCEPT ![m] = "rejected"]
                /\ unaudited' = unaudited \cup {m}
                /\ UNCHANGED <<content, validFrom, supersedes, recurrence, closed,
                               evidence, audit, owed, embedJobs>>

(* reject_memory, second statement: the audit record. *)
RejectAudit(m) == /\ m \in unaudited
                  /\ unaudited' = unaudited \ {m}
                  /\ audit' = [audit EXCEPT ![m] = @ \cup {"rejected"}]
                  /\ UNCHANGED <<status, content, validFrom, supersedes, recurrence,
                                 closed, evidence, owed, embedJobs>>

(* The handler ends between the two: the request timeout of lib.rs drops   *)
(* it, the insert fails, or the process dies.                              *)
RejectLost(m) == /\ Lossy
                 /\ m \in unaudited
                 /\ unaudited' = unaudited \ {m}
                 /\ UNCHANGED <<status, content, validFrom, supersedes, recurrence,
                                closed, evidence, audit, owed, embedJobs>>

(* Seeded fault: a conflicting insert counts as inserted. *)
AddEvidenceAgain(m, s) ==
  /\ status[m] \in {"active", "superseded"}
  /\ evidence' = [evidence EXCEPT ![m] = @ \cup {s}]
  /\ owed' = [owed EXCEPT ![m] = (@ + 1) % 4]
  /\ UNCHANGED <<status, content, validFrom, supersedes, recurrence, closed,
                 audit, unaudited, embedJobs>>

(* reinforce_existing_memory, first statement, for a row the caller saw    *)
(* active before: INSERT ... ON CONFLICT DO NOTHING, whatever its status   *)
(* is by now.  AddEvidence is the case of one row inserted.                *)
AddEvidence(m, s) ==
  /\ status[m] \in {"active", "superseded"}
  /\ s \notin evidence[m]
  /\ evidence' = [evidence EXCEPT ![m] = @ \cup {s}]
  /\ owed' = [owed EXCEPT ![m] = @ + 1]
  /\ UNCHANGED <<status, content, validFrom, supersedes, recurrence, closed,
                 audit, unaudited, embedJobs>>

(* Seeded fault: the count goes up whatever the status. *)
RecurAnyStatus(m) ==
  /\ owed[m] > 0
  /\ owed' = [owed EXCEPT ![m] = @ - 1]
  /\ recurrence' = [recurrence EXCEPT ![m] = @ + 1]
  /\ UNCHANGED <<status, content, validFrom, supersedes, closed, evidence,
                 audit, unaudited, embedJobs>>

(* Seeded fault: the WHERE clause asks for a candidate. *)
RecurCandidate(m) ==
  /\ owed[m] > 0
  /\ owed' = [owed EXCEPT ![m] = @ - 1]
  /\ recurrence' = [recurrence EXCEPT ![m] = IF status[m] = "candidate" THEN @ + 1 ELSE @]
  /\ UNCHANGED <<status, content, validFrom, supersedes, closed, evidence,
                 audit, unaudited, embedJobs>>

(* Second statement: recurrence_count + 1 WHERE status = 'active'. *)
Recur(m) ==
  /\ owed[m] > 0
  /\ owed' = [owed EXCEPT ![m] = @ - 1]
  /\ recurrence' = [recurrence EXCEPT ![m] = IF status[m] = "active" THEN @ + 1 ELSE @]
  /\ UNCHANGED <<status, content, validFrom, supersedes, closed, evidence,
                 audit, unaudited, embedJobs>>

(* The worker dies, or the statement fails, between the two. *)
RecurLost(m) ==
  /\ Lossy
  /\ owed[m] > 0
  /\ owed' = [owed EXCEPT ![m] = @ - 1]
  /\ UNCHANGED <<status, content, validFrom, supersedes, recurrence, closed,
                 evidence, audit, unaudited, embedJobs>>

(* now() passes the valid_from of m. *)
Begin(m) ==
  /\ validFrom[m] = "future"
  /\ validFrom' = [validFrom EXCEPT ![m] = "past"]
  /\ UNCHANGED <<status, content, supersedes, recurrence, closed, evidence,
                 audit, unaudited, owed, embedJobs>>

StoreNext ==
  \/ \E m \in Memories, s \in Statements, c \in Scores, start \in Starts,
        E \in SUBSET Sources : Create(m, s, c, start, E)
  \/ \E m \in Memories, p \in Memories \cup {None} : Approve(m, p)
  \/ \E m \in Memories : RejectRow(m) \/ RejectAudit(m) \/ RejectLost(m)
  \/ \E m \in Memories, s \in Sources : AddEvidence(m, s)
  \/ \E m \in Memories : Recur(m) \/ RecurLost(m) \/ Begin(m)

StoreSpec == StoreInit /\ [][StoreNext]_storeVars

-----------------------------------------------------------------------------
(* A memory is superseded exactly when one other memory supersedes it, and *)
(* only memories that were approved supersede: concurrent approvals never  *)
(* give a fact two successors, or none (approve_memory).                   *)
Successors(p) == {m \in Memories : supersedes[m] = p}
OneSuccessor ==
  \A p \in Memories :
    /\ status[p] = "superseded" <=> Successors(p) # {}
    /\ \A m, n \in Successors(p) : m = n
    /\ \A m \in Successors(p) : status[m] \in {"active", "superseded"}

(* The history of a fact is a chain with a first version: no set of        *)
(* memories supersedes in a circle.                                        *)
HistoryHasOrigin ==
  \A S \in SUBSET Memories : S # {} => \E m \in S : supersedes[m] \notin S

(* valid_from and valid_until agree with the status: an active memory has  *)
(* begun a validity without end, a superseded one has a validity that      *)
(* ended after it began, and no other memory ever was valid.               *)
ValidityMatchesStatus ==
  \A m \in Memories :
    /\ closed[m] <=> status[m] = "superseded"
    /\ status[m] = "active" => validFrom[m] # "null"
    /\ status[m] = "superseded" => validFrom[m] = "past"

(* recurrence_count never counts a source twice, nor one that is not among *)
(* the evidence: counted and still to be counted together do not exceed    *)
(* the evidence (reinforce_existing_memory under redelivery).              *)
RecurrenceBacked ==
  \A m \in Rows : recurrence[m] + owed[m] <= Cardinality(evidence[m])

(* A row that does not exist yet has no evidence and owes no count. *)
NewRowEmpty ==
  \A m \in Memories : status[m] = "none" => owed[m] = 0 /\ evidence[m] = {}

(* What the store keeps, together inductive. *)
StoreInv == /\ StoreTypeOK
            /\ OneSuccessor
            /\ HistoryHasOrigin
            /\ ValidityMatchesStatus
            /\ RecurrenceBacked
            /\ NewRowEmpty

(* A rejection that is over is in the audit log (README: memory lifecycle  *)
(* changes emit audit records).                                            *)
RejectionAudited ==
  \A m \in Memories \ unaudited : status[m] = "rejected" => "rejected" \in audit[m]

(* History is kept: a superseded or rejected memory keeps its status, its  *)
(* place in the chain and its count, and evidence is never taken away      *)
(* (README, "Temporal history").                                           *)
HistoryKept ==
  [][\A m \in Memories :
       /\ evidence[m] \subseteq evidence'[m]
       /\ status[m] \in {"superseded", "rejected"} =>
            /\ status'[m] = status[m]
            /\ supersedes'[m] = supersedes[m]
            /\ recurrence'[m] = recurrence[m]]_storeVars

(* m and the memories that it supersedes, directly or not: what is in every *)
(* set that has m and goes on to the predecessor of each of its members.   *)
Lineage(m) ==
  {n \in Memories :
     \A S \in SUBSET Memories :
       (m \in S /\ \A k \in S : supersedes[k] # None => supersedes[k] \in S) => n \in S}

(* Supersession loses no fact: a memory that was ever active is active, or *)
(* one of the versions after it is (approve_memory).                       *)
CurrentVersion ==
  \A m \in Memories : status[m] \in {"active", "superseded"} =>
    \E n \in Memories : status[n] = "active" /\ m \in Lineage(n)

(* What a search sees of the store: rows that appear in the place of others *)
(* with their embedding jobs, in one step each, and nothing else that it   *)
(* could tell (approve_memory against Embedding!Approve).                  *)
Shown == [m \in Memories |-> IF status[m] = "active" THEN "live"
                             ELSE IF status[m] = "superseded" THEN "superseded" ELSE "absent"]
Search == INSTANCE Embedding
            WITH Chunks <- {}, Configured <- TRUE, MaxAttempts <- 1, MaxFaults <- 0,
                 status <- Shown,
                 lineage <- [m \in Memories |-> Lineage(m)],
                 job <- [m \in Memories |-> IF m \in embedJobs THEN "queued" ELSE "none"],
                 vector <- {},
                 attempts <- [m \in Memories |-> 0],
                 faults <- 0
SearchSeesApprovals ==
  /\ Search!EmbedInit
  /\ [][\E m \in Memories, p \in Memories \cup {None} : Search!Approve(m, p)]_(Search!embedVars)
=============================================================================
