--------------------------- MODULE KnowledgeGraph ---------------------------
(***************************************************************************)
(* Entities and relations with validity intervals (storage_graph.rs,       *)
(* api/graph.rs).  close_relation is a transaction of two statements, an   *)
(* UPDATE that locks its row and an audit record; get_entity_graph reads   *)
(* outgoing and incoming relations by two statements and no transaction.   *)
(* The two inserts are transactions nobody can see half of and whose       *)
(* checks cannot become false, since nothing is ever deleted: each is one  *)
(* step here.  Requests refused before they reach the database are left    *)
(* out, and so are names, aliases, confidence and evidence.                *)
(***************************************************************************)
EXTENDS Integers, FiniteSets

CONSTANTS
  Names,        \* entity_type and lower-cased canonical_name of entities
  Relations,    \* relation ids uuid v7 will ever produce
  Time,         \* instants
  Handlers,     \* connections that serve close_relation and get_entity_graph
  MaxRequests,  \* bound: requests they serve
  None          \* SQL NULL, no row, no request

ASSUME TimeAssumption == Time \subseteq Int /\ None \notin Time
ASSUME BoundAssumption == MaxRequests \in Nat

Bound == Time \cup {None}

(* CHECKs of the table: two entities, an interval that does not end before *)
(* it starts.                                                              *)
Rows == {r \in [subject : Names, object : Names, from : Bound, until : Bound] :
           /\ r.subject # r.object
           /\ r.from # None /\ r.until # None => r.from <= r.until}

Closing == [relation : Relations, until : Time]
Reading == [entity : Names, asOf : Time, historical : BOOLEAN]

ASSUME NoneAssumption == /\ None \notin Rows \cup Handlers \cup Closing \cup Reading
                         /\ Closing \cap Reading = {}

VARIABLES
  entities,   \* committed entities
  row,        \* row[r]: the committed row of relation r
  closings,   \* committed audit records "relation.closed"
  lock,       \* lock[r]: the transaction that has updated r's row
  pc, req,    \* per handler: next statement, request
  seen,       \* per handler: the relations its graph read has returned so far
  before,     \* per handler: the rows when its graph read began (history variable)
  requests

vars == <<entities, row, closings, lock, pc, req, seen, before, requests>>

TypeOK == /\ entities \subseteq Names
          /\ row \in [Relations -> Rows \cup {None}]
          /\ closings \subseteq Closing
          /\ lock \in [Relations -> Handlers \cup {None}]
          /\ pc \in [Handlers -> {"idle", "update", "audit", "commit", "closed", "conflict",
                                  "outgoing", "incoming", "read"}]
          /\ req \in [Handlers -> Closing \cup Reading \cup {None}]
          /\ seen \in [Handlers -> SUBSET Relations]
          /\ before \in [Handlers -> [Relations -> Rows \cup {None}]]
          /\ requests \in 0..MaxRequests

Init == /\ entities = {}
        /\ row = [r \in Relations |-> None]
        /\ closings = {}
        /\ lock = [r \in Relations |-> None]
        /\ pc = [h \in Handlers |-> "idle"]
        /\ req = [h \in Handlers |-> None]
        /\ seen = [h \in Handlers |-> {}]
        /\ before = [h \in Handlers |-> row]
        /\ requests = 0

-----------------------------------------------------------------------------
CreateEntity(n) == /\ n \notin entities    \* ON CONFLICT DO NOTHING, answered with 409
                   /\ entities' = entities \cup {n}
                   /\ UNCHANGED <<row, closings, lock, pc, req, seen, before, requests>>

CreateRelation(r, new) == /\ row[r] = None
                          /\ {new.subject, new.object} \subseteq entities
                          /\ row' = [row EXCEPT ![r] = new]
                          /\ UNCHANGED <<entities, closings, lock, pc, req, seen, before, requests>>

(* What a client asks for need not satisfy the CHECKs: the handler does.   *)
Posted == [subject : Names, object : Names, from : Bound, until : Bound]

PostRelation(r, new) == /\ new.subject # new.object
                        /\ new.from # None /\ new.until # None => new.from <= new.until
                        /\ CreateRelation(r, new)

Begin(h, request, step) == /\ pc[h] = "idle"
                           /\ requests < MaxRequests
                           /\ requests' = requests + 1
                           /\ req' = [req EXCEPT ![h] = request]
                           /\ pc' = [pc EXCEPT ![h] = step]
                           /\ UNCHANGED <<entities, row, closings, lock, seen>>

Goto(h, step) == /\ pc' = [pc EXCEPT ![h] = step]
                 /\ UNCHANGED <<entities, req, before, requests>>

-----------------------------------------------------------------------------
(* close_relation.  valid_until is the client's, or the handler's clock.   *)
CloseRelation(h, r, u) == /\ Begin(h, [relation |-> r, until |-> u], "update")
                          /\ UNCHANGED before

(* An interval contains its start and not its end; NULL is no bound.       *)
Started(x, t) == x.from # None => x.from <= t
Ended(x, t) == x.until # None /\ x.until <= t

(* Seeded fault in Closable: an end may be moved. *)
ClosableAgain(x, u) == x # None /\ Started(x, u)

Closable(x, u) == x # None /\ Started(x, u) /\ ~Ended(x, u)

(* Seeded fault in Update: a SELECT of the row before it is written. *)
UpdateUnlocked(h) ==
  LET r == req[h].relation IN
  /\ pc[h] = "update"
  /\ \/ /\ Closable(row[r], req[h].until)
        /\ lock' = [lock EXCEPT ![r] = h]
        /\ Goto(h, "audit")
     \/ /\ ~Closable(row[r], req[h].until)
        /\ Goto(h, "conflict")
        /\ UNCHANGED lock
  /\ UNCHANGED <<row, closings, seen>>

(* UPDATE ... WHERE ... RETURNING.  A row that does not match is left; one *)
(* that does is locked until the transaction ends, and whoever waited for  *)
(* the lock looks at the row again.                                        *)
Update(h) ==
  LET r == req[h].relation IN
  /\ pc[h] = "update"
  /\ \/ /\ Closable(row[r], req[h].until)
        /\ lock[r] = None
        /\ lock' = [lock EXCEPT ![r] = h]
        /\ Goto(h, "audit")
     \/ /\ ~Closable(row[r], req[h].until)
        /\ Goto(h, "conflict")
        /\ UNCHANGED lock
  /\ UNCHANGED <<row, closings, seen>>

Audit(h) == /\ pc[h] = "audit"
            /\ Goto(h, "commit")
            /\ UNCHANGED <<row, closings, lock, seen>>

(* The transaction of h becomes visible: the row's end and the audit record. *)
Publish(h) ==
  /\ row' = [row EXCEPT ![req[h].relation].until = req[h].until]
  /\ closings' = closings \cup {req[h]}

Unlock(h) == lock' = [r \in Relations |-> IF lock[r] = h THEN None ELSE lock[r]]

Commit(h) == /\ pc[h] = "commit"
             /\ Publish(h)
             /\ Unlock(h)
             /\ Goto(h, "closed")
             /\ UNCHANGED seen

-----------------------------------------------------------------------------
(* get_entity_graph.  get_entity comes first, and fails without the entity. *)
GetEntityGraph(h, e, t, all) ==
  /\ e \in entities
  /\ Begin(h, [entity |-> e, asOf |-> t, historical |-> all], "outgoing")
  /\ before' = [before EXCEPT ![h] = row]

(* Seeded fault: the end belongs to the interval. *)
ValidAtEnd(x, t) == Started(x, t) /\ (x.until # None => t <= x.until)

ValidAt(x, t) == Started(x, t) /\ ~Ended(x, t)

Matches(x, q) == /\ x # None
                 /\ q.entity \in {x.subject, x.object}
                 /\ q.historical \/ ValidAt(x, q.asOf)

Read(h, rels) == /\ seen' = [seen EXCEPT ![h] = @ \cup {r \in rels : Matches(row[r], req[h])}]
                 /\ UNCHANGED <<row, closings, lock>>

ReadOutgoing(h) ==
  /\ pc[h] = "outgoing"
  /\ Read(h, {r \in Relations : row[r] # None /\ row[r].subject = req[h].entity})
  /\ Goto(h, "incoming")

ReadIncoming(h) ==
  /\ pc[h] = "incoming"
  /\ Read(h, {r \in Relations : row[r] # None /\ row[r].object = req[h].entity})
  /\ Goto(h, "read")

-----------------------------------------------------------------------------
End(h) == /\ pc' = [pc EXCEPT ![h] = "idle"]
          /\ req' = [req EXCEPT ![h] = None]
          /\ seen' = [seen EXCEPT ![h] = {}]
          /\ before' = [before EXCEPT ![h] = [r \in Relations |-> None]]
          /\ UNCHANGED <<entities, requests>>

Answer(h) == /\ pc[h] \in {"closed", "conflict", "read"}
             /\ End(h)
             /\ UNCHANGED <<row, closings, lock>>

(* Seeded fault: no transaction. *)
DropKeepsUpdate(h) ==
  /\ pc[h] \notin {"idle", "closed", "conflict", "read"}
  /\ End(h)
  /\ Unlock(h)
  /\ row' = IF pc[h] \in {"audit", "commit"}
              THEN [row EXCEPT ![req[h].relation].until = req[h].until] ELSE row
  /\ UNCHANGED closings

(* The handler ends early, by an error of the database, the timeout of the *)
(* router or the client's disconnection, and its transaction rolls back    *)
(* unless COMMIT was under way.                                            *)
Drop(h) == /\ pc[h] \notin {"idle", "closed", "conflict", "read"}
           /\ End(h)
           /\ Unlock(h)
           /\ \/ UNCHANGED <<row, closings>>
              \/ pc[h] = "commit" /\ Publish(h)

Next == \/ \E n \in Names : CreateEntity(n)
        \/ \E r \in Relations, new \in Posted : PostRelation(r, new)
        \/ \E h \in Handlers :
             \/ \E r \in Relations, u \in Time : CloseRelation(h, r, u)
             \/ Update(h) \/ Audit(h) \/ Commit(h)
             \/ \E e \in Names, t \in Time, all \in BOOLEAN : GetEntityGraph(h, e, t, all)
             \/ ReadOutgoing(h) \/ ReadIncoming(h)
             \/ Answer(h) \/ Drop(h)

Spec == Init /\ [][Next]_vars

-----------------------------------------------------------------------------
(* However closes of a relation overlap, the earliest end that was audited *)
(* stands, and a client is told that it closed a relation only when it did *)
(* (storage_graph.rs close_relation: the row and its audit record agree).  *)
EarliestCloseStands ==
  /\ \A c \in closings : /\ row[c.relation] # None
                         /\ row[c.relation].until # None
                         /\ row[c.relation].until <= c.until
                         /\ [c EXCEPT !.until = row[c.relation].until] \in closings
  /\ \A h \in Handlers : pc[h] = "closed" => req[h] \in closings

(* What was known as of some instant does not change for the instants      *)
(* before a close, and no instant gets a relation back (README: closed     *)
(* relations "remain queryable instead of being destructively overwritten"). *)
PastKept ==
  [][\A r \in Relations, t \in Time :
       row[r] # None =>
         /\ row'[r] # None
         /\ ValidAt(row'[r], t) => ValidAt(row[r], t)
         /\ ValidAt(row[r], t) /\ ~ValidAt(row'[r], t) =>
              \E c \in closings' \ closings : c.relation = r /\ c.until <= t]_vars

(* A graph read, although its statements see different states, returns no  *)
(* relation that had ended by its instant when the read began, and misses  *)
(* none that was there then and still is (get_entity_graph).               *)
ReadIsCurrent ==
  \A h \in Handlers : pc[h] = "read" =>
    LET q == req[h] IN
    /\ \A r \in seen[h] :
         before[h][r] # None /\ ~q.historical => ~Ended(before[h][r], q.asOf)
    /\ \A r \in Relations :
         before[h][r] # None /\ Matches(row[r], q) => r \in seen[h]

(* Seen without its statements, every close takes effect at most once, at  *)
(* one instant, its end and its audit record together, however closes      *)
(* overlap, wait for each other and are cut off (close_relation).          *)
Running == {"update", "audit", "commit"}
Outcome == [h \in Handlers |-> IF pc[h] \in Running THEN "open"
                               ELSE IF pc[h] \in {"closed", "conflict"} THEN pc[h] ELSE "idle"]
Asked == [h \in Handlers |-> IF Outcome[h] = "idle" THEN None ELSE req[h]]
Atomic == INSTANCE AtomicGraph WITH asked <- Asked, outcome <- Outcome
ImplementsAtomicGraph == Atomic!Spec
=============================================================================
