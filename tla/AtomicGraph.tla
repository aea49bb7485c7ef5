----------------------------- MODULE AtomicGraph -----------------------------
(***************************************************************************)
(* What the graph promises to the clients that close relations: a close    *)
(* takes effect at one instant between being asked for and being over, and *)
(* at most once.  Then the relation has its end and the audit trail has    *)
(* the close, both at once, or it is refused because the relation cannot   *)
(* be closed at that time.  There are no statements and no locks here;     *)
(* KnowledgeGraph, which has both, implements this module under            *)
(* KnowledgeGraph!Atomic.                                                  *)
(***************************************************************************)
EXTENDS Integers

CONSTANTS Names, Rows, Relations, Time, Handlers, None

VARIABLES
  entities,
  row,        \* row[r]: relation r, None before it is created
  closings,   \* the audit trail: [relation, until]
  asked,      \* asked[h]: the close that handler h was asked for
  outcome     \* outcome[h]: "idle", "open", "closed" or "conflict"

vars == <<entities, row, closings, asked, outcome>>

Init == /\ entities = {}
        /\ row = [r \in Relations |-> None]
        /\ closings = {}
        /\ asked = [h \in Handlers |-> None]
        /\ outcome = [h \in Handlers |-> "idle"]

CreateEntity(n) == /\ n \notin entities
                   /\ entities' = entities \cup {n}
                   /\ UNCHANGED <<row, closings, asked, outcome>>

CreateRelation(r, x) == /\ row[r] = None
                        /\ {x.subject, x.object} \subseteq entities
                        /\ row' = [row EXCEPT ![r] = x]
                        /\ UNCHANGED <<entities, closings, asked, outcome>>

Ask(h, r, u) == /\ outcome[h] = "idle"
                /\ asked' = [asked EXCEPT ![h] = [relation |-> r, until |-> u]]
                /\ outcome' = [outcome EXCEPT ![h] = "open"]
                /\ UNCHANGED <<entities, row, closings>>

(* A relation that has started can be given an end, or an earlier one.     *)
Closable(x, u) == /\ x # None
                  /\ x.from # None => x.from <= u
                  /\ x.until # None => u < x.until

(* The end and its audit record, at once. *)
Close(c) == /\ Closable(row[c.relation], c.until)
            /\ row' = [row EXCEPT ![c.relation].until = c.until]
            /\ closings' = closings \cup {c}

(* The instant at which the close of h takes effect. *)
TakeEffect(h) == /\ outcome[h] = "open"
                 /\ \/ /\ Close(asked[h])
                       /\ outcome' = [outcome EXCEPT ![h] = "closed"]
                    \/ /\ ~Closable(row[asked[h].relation], asked[h].until)
                       /\ outcome' = [outcome EXCEPT ![h] = "conflict"]
                       /\ UNCHANGED <<row, closings>>
                 /\ UNCHANGED <<entities, asked>>

(* The request of h is over: answered, or failed, perhaps as it took effect. *)
Over(h) == /\ outcome[h] # "idle"
           /\ outcome' = [outcome EXCEPT ![h] = "idle"]
           /\ asked' = [asked EXCEPT ![h] = None]
           /\ UNCHANGED <<row, closings>> \/ (outcome[h] = "open" /\ Close(asked[h]))
           /\ UNCHANGED entities

Next == \/ \E n \in Names : CreateEntity(n)
        \/ \E r \in Relations, x \in Rows : CreateRelation(r, x)
        \/ \E h \in Handlers :
             \/ \E r \in Relations, u \in Time : Ask(h, r, u)
             \/ TakeEffect(h) \/ Over(h)

Spec == Init /\ [][Next]_vars
=============================================================================
