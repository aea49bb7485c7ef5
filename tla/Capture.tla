------------------------------ MODULE Capture ------------------------------
(***************************************************************************)
(* Ingestion: POST /v1/captures and /v1/sources (capture.rs, sources.rs)   *)
(* into Storage::ingest_source, and the clients that deliver events over a *)
(* network that loses answers (the gateway of mcp/ among them).            *)
(*                                                                         *)
(* A request is followed from the moment it has a connection of the        *)
(* database pool: ingest_source runs a transaction, whose rows nobody else *)
(* sees until it commits; only the unique index on external_id looks at    *)
(* the uncommitted rows of others, and waits for their outcome.  Requests  *)
(* that the handlers refuse before that (400) leave no trace.              *)
(*                                                                         *)
(* A client delivers one event.  It may give up on a request (the gateway  *)
(* after 20 seconds) while the server works on it, and send it again, as   *)
(* the README expects of clients with a stable external_id.                *)
(***************************************************************************)
EXTENDS Integers, FiniteSets

CONSTANTS
  Clients,
  Key,          \* Key[c]: kind and external_id of c's event, or None without one
  Keys,
  Connections,  \* connections of the pool
  Ids,          \* source ids uuid v7 will ever produce
  Chunks,       \* number of chunks of an event's content
  Extracting,   \* memory_extraction_enabled
  MaxFaults,    \* bound: requests that clients or the server give up on
  None

ASSUME KeyAssumption == None \notin Keys /\ Key \in [Clients -> Keys \cup {None}]
ASSUME ChunksAssumption == Chunks \in Nat \ {0}
ASSUME ExtractingAssumption == Extracting \in BOOLEAN /\ MaxFaults \in Nat

(* The rows one ingestion inserts: the source, its chunks each with an     *)
(* embed_chunk job, its extract_memories job, its audit record.            *)
Sources == [id : Ids, client : Clients, chunks : 0..Chunks,
            extractJob : BOOLEAN, audited : BOOLEAN]

ASSUME NoneAssumption == None \notin Sources \cup Connections \cup Clients

VARIABLES
  answer,     \* answer[c]: what c was told, "none" before it was told anything
  conn,       \* conn[c]: the connection that serves c's current request
  pc,         \* pc[h]: the statement connection h runs next
  serving,    \* serving[h]: the client whose request h serves
  draft,      \* draft[h]: uncommitted rows of h's transaction
  sources,    \* committed rows
  faults

vars == <<answer, conn, pc, serving, draft, sources, faults>>

Statements == {"source", "chunks", "extract", "audit", "commit"}

TypeOK == /\ answer \in [Clients -> {"none", "failed", "stored", "conflict"}]
          /\ conn \in [Clients -> Connections \cup {None}]
          /\ pc \in [Connections -> Statements \cup {"idle", "stored", "conflict"}]
          /\ serving \in [Connections -> Clients \cup {None}]
          /\ draft \in [Connections -> Sources \cup {None}]
          /\ sources \subseteq Sources
          /\ faults \in 0..MaxFaults

Init == /\ answer = [c \in Clients |-> "none"]
        /\ conn = [c \in Clients |-> None]
        /\ pc = [h \in Connections |-> "idle"]
        /\ serving = [h \in Connections |-> None]
        /\ draft = [h \in Connections |-> None]
        /\ sources = {}
        /\ faults = 0

-----------------------------------------------------------------------------
(* c sends its event, for the first time or again after a failure.         *)
Send(c, h) == /\ answer[c] \in {"none", "failed"}
              /\ conn[c] = None
              /\ pc[h] = "idle"
              /\ conn' = [conn EXCEPT ![c] = h]
              /\ pc' = [pc EXCEPT ![h] = "source"]
              /\ serving' = [serving EXCEPT ![h] = c]
              /\ UNCHANGED <<answer, draft, sources, faults>>

(* The client's timeout.  The server need not notice.                      *)
GiveUp(c) == /\ conn[c] # None
             /\ faults < MaxFaults
             /\ faults' = faults + 1
             /\ conn' = [conn EXCEPT ![c] = None]
             /\ answer' = [answer EXCEPT ![c] = "failed"]
             /\ UNCHANGED <<pc, serving, draft, sources>>

(* Sources in the database, and in transactions other than h's, with a key. *)
Committed(k) == {s \in sources : Key[s.client] = k}
Open(h, k) == {g \in Connections \ {h} : draft[g] # None /\ Key[draft[g].client] = k}
FreshIds == {i \in Ids : /\ \A s \in sources : s.id # i
                         /\ \A h \in Connections : draft[h] # None => draft[h].id # i}

Draft(h, d) == draft' = [draft EXCEPT ![h] = d]
Goto(h, step) == /\ pc' = [pc EXCEPT ![h] = step]
                 /\ UNCHANGED <<answer, conn, serving, sources, faults>>

(* Seeded faults in InsertSource: a SELECT in place of the unique index;    *)
(* no waiting for the outcome of another transaction.                      *)
InsertSelected(h) ==
  LET k == Key[serving[h]] IN
  /\ pc[h] = "source"
  /\ \/ /\ k # None /\ Committed(k) # {}
        /\ Goto(h, "conflict")
        /\ UNCHANGED draft
     \/ /\ k = None \/ Committed(k) = {}
        /\ \E i \in FreshIds : Draft(h, [id |-> i, client |-> serving[h], chunks |-> 0,
                                         extractJob |-> FALSE, audited |-> FALSE])
        /\ Goto(h, "chunks")
InsertImpatient(h) ==
  LET k == Key[serving[h]] IN
  /\ pc[h] = "source"
  /\ \/ /\ k # None /\ Committed(k) \cup Open(h, k) # {}
        /\ Goto(h, "conflict")
        /\ UNCHANGED draft
     \/ /\ k = None \/ Committed(k) \cup Open(h, k) = {}
        /\ \E i \in FreshIds : Draft(h, [id |-> i, client |-> serving[h], chunks |-> 0,
                                         extractJob |-> FALSE, audited |-> FALSE])
        /\ Goto(h, "chunks")

(* INSERT INTO sources.  UNIQUE (owner_id, kind, external_id) does not     *)
(* apply to NULL; a committed row with the key is a conflict; an           *)
(* uncommitted one makes the statement wait.                               *)
InsertSource(h) ==
  LET k == Key[serving[h]] IN
  /\ pc[h] = "source"
  /\ \/ /\ k # None /\ Committed(k) # {}
        /\ Goto(h, "conflict")
        /\ UNCHANGED draft
     \/ /\ k = None \/ (Committed(k) = {} /\ Open(h, k) = {})
        /\ \E i \in FreshIds : Draft(h, [id |-> i, client |-> serving[h], chunks |-> 0,
                                         extractJob |-> FALSE, audited |-> FALSE])
        /\ Goto(h, "chunks")

(* One turn of the loop: a chunk and its embed_chunk job. *)
InsertChunk(h) == /\ pc[h] = "chunks"
                  /\ Draft(h, [draft[h] EXCEPT !.chunks = @ + 1])
                  /\ Goto(h, IF draft[h].chunks + 1 < Chunks THEN "chunks"
                             ELSE IF Extracting THEN "extract" ELSE "audit")

(* The extract_memories job. *)
Schedule(h) == /\ pc[h] = "extract"
               /\ Draft(h, [draft[h] EXCEPT !.extractJob = TRUE])
               /\ Goto(h, "audit")

(* The audit record "source.ingested". *)
Audit(h) == /\ pc[h] = "audit"
            /\ Draft(h, [draft[h] EXCEPT !.audited = TRUE])
            /\ Goto(h, "commit")

Commit(h) == /\ pc[h] = "commit"
             /\ sources' = sources \cup {draft[h]}
             /\ Draft(h, None)
             /\ pc' = [pc EXCEPT ![h] = "stored"]
             /\ UNCHANGED <<answer, conn, serving, faults>>

Release(h) == /\ pc' = [pc EXCEPT ![h] = "idle"]
              /\ serving' = [serving EXCEPT ![h] = None]

(* Seeded fault: the connection does not return to the pool. *)
AnswerLeaks(h) == /\ pc[h] \in {"stored", "conflict"}
                  /\ conn[serving[h]] = h
                  /\ answer' = [answer EXCEPT ![serving[h]] = pc[h]]
                  /\ conn' = [conn EXCEPT ![serving[h]] = None]
                  /\ UNCHANGED <<pc, serving, draft, sources, faults>>

(* The answer, 200 or 409, reaches the client unless it gave up.           *)
Answer(h) == /\ pc[h] \in {"stored", "conflict"}
             /\ Release(h)
             /\ IF conn[serving[h]] = h
                  THEN /\ answer' = [answer EXCEPT ![serving[h]] = pc[h]]
                       /\ conn' = [conn EXCEPT ![serving[h]] = None]
                  ELSE UNCHANGED <<answer, conn>>
             /\ UNCHANGED <<draft, sources, faults>>

(* The client of h, if it still waits, sees its request fail. *)
Fails(h) == /\ faults < MaxFaults
            /\ faults' = faults + 1
            /\ IF conn[serving[h]] = h
                 THEN /\ answer' = [answer EXCEPT ![serving[h]] = "failed"]
                      /\ conn' = [conn EXCEPT ![serving[h]] = None]
                 ELSE UNCHANGED <<answer, conn>>

(* Seeded fault: no transaction, what was inserted stays. *)
DropKeepsRows(h) == /\ pc[h] # "idle"
                    /\ Fails(h)
                    /\ Release(h)
                    /\ Draft(h, None)
                    /\ sources' = sources \cup ({draft[h]} \ {None})

(* Seeded fault: a COMMIT without an answer is tried again, from the start. *)
DropRetries(h) == \/ /\ pc[h] = "commit"
                     /\ faults < MaxFaults
                     /\ faults' = faults + 1
                     /\ sources' = sources \cup {draft[h]}
                     /\ Draft(h, None)
                     /\ pc' = [pc EXCEPT ![h] = "source"]
                     /\ UNCHANGED <<answer, conn, serving>>
                  \/ /\ pc[h] \notin {"idle", "commit"}
                     /\ Fails(h)
                     /\ Release(h)
                     /\ Draft(h, None)
                     /\ UNCHANGED sources

(* The handler ends early: a statement fails, the 30 seconds of the        *)
(* TimeoutLayer are over, the client disconnected, or the process died.    *)
(* The transaction rolls back, unless COMMIT was already under way.        *)
Drop(h) == /\ pc[h] # "idle"
           /\ Fails(h)
           /\ Release(h)
           /\ Draft(h, None)
           /\ \/ UNCHANGED sources
              \/ /\ pc[h] = "commit"
                 /\ sources' = sources \cup {draft[h]}

Work(h) == \/ InsertSource(h) \/ InsertChunk(h) \/ Schedule(h) \/ Audit(h)
           \/ Commit(h) \/ Answer(h)

Next == \/ \E c \in Clients, h \in Connections : Send(c, h)
        \/ \E c \in Clients : GiveUp(c)
        \/ \E h \in Connections : Work(h) \/ Drop(h)

Spec == Init /\ [][Next]_vars

(* The server goes on with every request it can go on with, and a client   *)
(* that was not answered tries again.                                      *)
Fairness == /\ \A h \in Connections : WF_vars(Work(h))
            /\ \A c \in Clients : WF_vars(\E h \in Connections : Send(c, h))

FairSpec == Spec /\ Fairness

-----------------------------------------------------------------------------
(* However often an event is delivered, and however its deliveries         *)
(* overlap, one source has its external_id (README: "makes repeated        *)
(* delivery idempotent").                                                  *)
OneSourcePerEvent ==
  \A s, t \in sources : (Key[s.client] # None /\ Key[s.client] = Key[t.client]) => s = t

(* A source is there with all of its chunks, its jobs and its audit record *)
(* or not at all, wherever its request was cut off (README: "the complete  *)
(* normalized capture is persisted").                                      *)
Whole(s) == s.chunks = Chunks /\ s.extractJob = Extracting /\ s.audited
WholeSources == \A s \in sources : Whole(s)

(* A client that was told that its event was stored, or was there before,  *)
(* can rely on it.                                                         *)
AnswerIsTrue ==
  \A c \in Clients :
    /\ answer[c] = "stored" => \E s \in sources : s.client = c
    /\ answer[c] = "conflict" => Key[c] # None /\ Committed(Key[c]) # {}

(* No delivery waits for ever on the unfinished insert of another: a client *)
(* that keeps trying is told in the end that its event is stored.          *)
EventuallyStored == \A c \in Clients : <>(answer[c] \in {"stored", "conflict"})

(* Seen without its statements, ingestion is atomic: every request takes   *)
(* effect at most once, at one instant before its answer, however requests *)
(* overlap, wait for each other and are cut off (Storage::ingest_source).  *)
Outcome == [h \in Connections |-> IF pc[h] \in Statements THEN "open" ELSE pc[h]]
Atomic == INSTANCE AtomicIngestion
            WITH Requests <- Connections, waits <- conn, outcome <- Outcome
ImplementsAtomicIngestion == Atomic!Spec
=============================================================================
