--------------------------- MODULE AtomicIngestion ---------------------------
(***************************************************************************)
(* What ingestion promises to the clients that deliver events: a request   *)
(* takes effect at one instant between being sent and being over, and at   *)
(* most once.  Then its source is there with everything that belongs to    *)
(* it, or the request is refused because another has the key.  The client  *)
(* is told that outcome, a failure that says nothing, or nothing at all.   *)
(* There are no statements, no transactions and no waiting here; Capture,  *)
(* which has all three, implements this module under Capture!Atomic.       *)
(***************************************************************************)
EXTENDS Integers

CONSTANTS Clients, Key, Requests, Ids, Chunks, Extracting, None

VARIABLES
  answer,     \* answer[c]: what c was told last
  waits,      \* waits[c]: the request c waits for
  serving,    \* serving[r]: the client that sent request r
  outcome,    \* outcome[r]: "idle", "open", "stored" or "conflict"
  sources

vars == <<answer, waits, serving, outcome, sources>>

Init == /\ answer = [c \in Clients |-> "none"]
        /\ waits = [c \in Clients |-> None]
        /\ serving = [r \in Requests |-> None]
        /\ outcome = [r \in Requests |-> "idle"]
        /\ sources = {}

Send(c, r) == /\ answer[c] \in {"none", "failed"}
              /\ waits[c] = None
              /\ outcome[r] = "idle"
              /\ waits' = [waits EXCEPT ![c] = r]
              /\ serving' = [serving EXCEPT ![r] = c]
              /\ outcome' = [outcome EXCEPT ![r] = "open"]
              /\ UNCHANGED <<answer, sources>>

GiveUp(c) == /\ waits[c] # None
             /\ waits' = [waits EXCEPT ![c] = None]
             /\ answer' = [answer EXCEPT ![c] = "failed"]
             /\ UNCHANGED <<serving, outcome, sources>>

Taken(k) == k # None /\ \E s \in sources : Key[s.client] = k

(* The source of c's event appears, whole. *)
Insert(c) == /\ ~Taken(Key[c])
             /\ \E i \in Ids :
                  /\ \A s \in sources : s.id # i
                  /\ sources' = sources \cup {[id |-> i, client |-> c, chunks |-> Chunks,
                                               extractJob |-> Extracting, audited |-> TRUE]}

(* The instant at which r takes effect. *)
TakeEffect(r) == /\ outcome[r] = "open"
                 /\ \/ /\ Insert(serving[r])
                       /\ outcome' = [outcome EXCEPT ![r] = "stored"]
                    \/ /\ Taken(Key[serving[r]])
                       /\ outcome' = [outcome EXCEPT ![r] = "conflict"]
                       /\ UNCHANGED sources
                 /\ UNCHANGED <<answer, waits, serving>>

(* r is over; its client is told a, if it still waits for r. *)
End(r, a) == /\ outcome' = [outcome EXCEPT ![r] = "idle"]
             /\ serving' = [serving EXCEPT ![r] = None]
             /\ IF waits[serving[r]] = r
                  THEN /\ answer' = [answer EXCEPT ![serving[r]] = a]
                       /\ waits' = [waits EXCEPT ![serving[r]] = None]
                  ELSE UNCHANGED <<answer, waits>>

Answer(r) == /\ outcome[r] \in {"stored", "conflict"}
             /\ End(r, outcome[r])
             /\ UNCHANGED sources

(* r fails, perhaps as it takes effect. *)
Fail(r) == /\ outcome[r] # "idle"
           /\ End(r, "failed")
           /\ UNCHANGED sources \/ (outcome[r] = "open" /\ Insert(serving[r]))

Next == \/ \E c \in Clients, r \in Requests : Send(c, r)
        \/ \E c \in Clients : GiveUp(c)
        \/ \E r \in Requests : TakeEffect(r) \/ Answer(r) \/ Fail(r)

Spec == Init /\ [][Next]_vars
=============================================================================
