------------------------ MODULE KnowledgeGraphProofs ------------------------
(***************************************************************************)
(* Proofs about KnowledgeGraph: for any number of relations, handlers and  *)
(* instants, the earliest audited end of a relation stands, the past keeps *)
(* its answers, and graph reads are current.                               *)
(***************************************************************************)
EXTENDS KnowledgeGraph, TLAPS

Closers == {"update", "audit", "commit", "closed"}
Readers == {"outgoing", "incoming", "read"}

(* What a close has found: the row it locked is still closable by it.      *)
Locked(h) ==
  /\ pc[h] \in Closers => req[h] \in Closing
  /\ pc[h] \in {"audit", "commit"} => /\ lock[req[h].relation] = h
                                      /\ Closable(row[req[h].relation], req[h].until)
  /\ pc[h] = "closed" => req[h] \in closings

(* A row y is x or what closes made of it.                                 *)
Later(x, y) == x # None => /\ y # None
                           /\ y.subject = x.subject /\ y.object = x.object
                           /\ y.from = x.from
                           /\ x.until # None => y.until # None /\ y.until <= x.until

(* What a graph read has seen so far, against the rows when it began.       *)
Sound(h, r) == before[h][r] # None /\ ~req[h].historical => ~Ended(before[h][r], req[h].asOf)
Missed(h, r) == /\ before[h][r] # None
                /\ Matches(row[r], req[h])
                /\ r \notin seen[h]
ReadSoFar(h) ==
  /\ pc[h] \in Readers => /\ req[h] \in Reading
                          /\ \A r \in Relations : Later(before[h][r], row[r])
                          /\ \A r \in seen[h] : Sound(h, r)
  /\ pc[h] \notin {"incoming", "read"} => seen[h] = {}
  /\ pc[h] = "incoming" =>
       \A r \in Relations : Missed(h, r) => row[r].subject # req[h].entity
  /\ pc[h] = "read" => \A r \in Relations : ~Missed(h, r)

Earliest ==
  \A c \in closings : /\ row[c.relation] # None
                      /\ row[c.relation].until # None
                      /\ row[c.relation].until <= c.until
                      /\ [c EXCEPT !.until = row[c.relation].until] \in closings

GraphInv == /\ TypeOK
            /\ \A h \in Handlers : Locked(h) /\ ReadSoFar(h)
            /\ Earliest

-----------------------------------------------------------------------------
(* What Publish does to the rows.                                          *)
LEMMA PublishRow ==
  ASSUME GraphInv, NEW h \in Handlers, pc[h] \in {"audit", "commit"}, Publish(h)
  PROVE  LET r == req[h].relation IN
         /\ req[h] \in Closing /\ r \in Relations /\ req[h].until \in Time
         /\ row[r] \in Rows /\ row'[r] \in Rows
         /\ Closable(row[r], req[h].until)
         /\ row'[r].until = req[h].until /\ row'[r].from = row[r].from
         /\ row'[r].subject = row[r].subject /\ row'[r].object = row[r].object
         /\ \A k \in Relations \ {r} : row'[k] = row[k]
         /\ row' \in [Relations -> Rows \cup {None}]
         /\ closings' = closings \cup {req[h]}
<1> DEFINE r == req[h].relation
           u == req[h].until
<1>1. req[h] \in Closing /\ Closable(row[r], u)
  BY DEF GraphInv, Locked, Closers
<1>2. r \in Relations /\ u \in Time
  BY <1>1 DEF Closing
<1>3. row \in [Relations -> Rows \cup {None}]
  BY DEF GraphInv, TypeOK
<1>4. row[r] \in Rows
  BY <1>1, <1>2, <1>3 DEF Closable
<1>5. row' = [row EXCEPT ![r].until = u] /\ closings' = closings \cup {req[h]}
  BY DEF Publish
<1>6. row'[r] = [row[r] EXCEPT !.until = u] /\ \A k \in Relations \ {r} : row'[k] = row[k]
  BY <1>2, <1>3, <1>5
<1>7. /\ row'[r].until = u /\ row'[r].from = row[r].from
      /\ row'[r].subject = row[r].subject /\ row'[r].object = row[r].object
      /\ row'[r] \in [subject : Names, object : Names, from : Bound, until : Bound]
  BY <1>2, <1>4, <1>6 DEF Rows, Bound
<1>8. row'[r] \in Rows
  BY <1>1, <1>4, <1>7 DEF Rows, Closable, Started
<1>9. row' \in [Relations -> Rows \cup {None}]
  BY <1>2, <1>3, <1>5, <1>6, <1>8
<1> QED
  BY <1>1, <1>2, <1>4, <1>5, <1>6, <1>7, <1>8, <1>9

LEMMA PostedChecked ==
  ASSUME NEW r \in Relations, NEW new \in Posted, PostRelation(r, new)
  PROVE  new \in Rows /\ CreateRelation(r, new)
  BY DEF Posted, PostRelation, Rows

LEMMA TypeInit == Init => TypeOK
  BY BoundAssumption DEF Init, TypeOK

LEMMA TypeStep ==
  ASSUME GraphInv, [Next]_vars
  PROVE  TypeOK'
<1>0. TypeOK
  BY DEF GraphInv
<1> DEFINE Places == {"idle", "update", "audit", "commit", "closed", "conflict",
                      "outgoing", "incoming", "read"}
<1>1. ASSUME NEW n \in Names, CreateEntity(n)
      PROVE  TypeOK'
  BY <1>0, <1>1 DEF CreateEntity, TypeOK
<1>2. ASSUME NEW r \in Relations, NEW new \in Rows, CreateRelation(r, new)
      PROVE  TypeOK'
  BY <1>0, <1>2 DEF CreateRelation, TypeOK
<1>3. ASSUME NEW h \in Handlers, NEW request \in Closing \cup Reading, NEW step \in Places,
             Begin(h, request, step), before' \in [Handlers -> [Relations -> Rows \cup {None}]]
      PROVE  TypeOK'
  <2>1. requests' \in 0..MaxRequests
    BY <1>0, <1>3, BoundAssumption DEF Begin, TypeOK
  <2> QED
    BY <1>0, <1>3, <2>1 DEF Begin, TypeOK
<1>4. ASSUME NEW h \in Handlers, NEW r \in Relations, NEW u \in Time, CloseRelation(h, r, u)
      PROVE  TypeOK'
  <2>1. [relation |-> r, until |-> u] \in Closing
    BY DEF Closing
  <2> QED
    BY <1>0, <1>3, <1>4, <2>1 DEF CloseRelation, TypeOK
<1>5. ASSUME NEW h \in Handlers, Update(h)
      PROVE  TypeOK'
  <2>1. lock' \in [Relations -> Handlers \cup {None}]
    BY <1>0, <1>5 DEF Update, TypeOK
  <2> QED
    BY <1>0, <1>5, <2>1 DEF Update, Goto, TypeOK
<1>6. ASSUME NEW h \in Handlers, Audit(h)
      PROVE  TypeOK'
  BY <1>0, <1>6 DEF Audit, Goto, TypeOK
<1>7. ASSUME NEW h \in Handlers, Commit(h)
      PROVE  TypeOK'
  <2>1. row' \in [Relations -> Rows \cup {None}] /\ closings' \subseteq Closing
    BY <1>0, <1>7, PublishRow DEF Commit, TypeOK
  <2>2. lock' \in [Relations -> Handlers \cup {None}]
    BY <1>0, <1>7 DEF Commit, Unlock, TypeOK
  <2> QED
    BY <1>0, <1>7, <2>1, <2>2 DEF Commit, Goto, TypeOK
<1>8. ASSUME NEW h \in Handlers, NEW e \in Names, NEW t \in Time, NEW all \in BOOLEAN,
             GetEntityGraph(h, e, t, all)
      PROVE  TypeOK'
  <2>1. [entity |-> e, asOf |-> t, historical |-> all] \in Reading
    BY DEF Reading
  <2>2. before' \in [Handlers -> [Relations -> Rows \cup {None}]]
    BY <1>0, <1>8 DEF GetEntityGraph, TypeOK
  <2> QED
    BY <1>3, <1>8, <2>1, <2>2 DEF GetEntityGraph
<1>9. ASSUME NEW h \in Handlers, ReadOutgoing(h) \/ ReadIncoming(h)
      PROVE  TypeOK'
  <2>1. seen' \in [Handlers -> SUBSET Relations]
    BY <1>0, <1>9 DEF ReadOutgoing, ReadIncoming, Read, TypeOK
  <2> QED
    BY <1>0, <1>9, <2>1 DEF ReadOutgoing, ReadIncoming, Read, Goto, TypeOK
<1>10. ASSUME NEW h \in Handlers, Answer(h)
       PROVE  TypeOK'
  BY <1>0, <1>10 DEF Answer, End, TypeOK
<1>11. ASSUME NEW h \in Handlers, Drop(h)
       PROVE  TypeOK'
  <2>1. row' \in [Relations -> Rows \cup {None}] /\ closings' \subseteq Closing
    BY <1>0, <1>11, PublishRow DEF Drop, TypeOK
  <2>2. lock' \in [Relations -> Handlers \cup {None}]
    BY <1>0, <1>11 DEF Drop, Unlock, TypeOK
  <2> QED
    BY <1>0, <1>11, <2>1, <2>2 DEF Drop, End, TypeOK
<1>12. CASE UNCHANGED vars
  BY <1>0, <1>12 DEF vars, TypeOK
<1> QED
  BY <1>1, <1>2, <1>4, <1>5, <1>6, <1>7, <1>8, <1>9, <1>10, <1>11, <1>12, PostedChecked
     DEF Next

-----------------------------------------------------------------------------
(* Rows of the table only ever come to be or end earlier.                  *)
RowsLater == \A r \in Relations : Later(row[r], row'[r])

LEMMA LaterChains ==
  ASSUME NEW x \in Rows \cup {None}, NEW y \in Rows \cup {None}, NEW z \in Rows \cup {None},
         Later(x, y), Later(y, z)
  PROVE  Later(x, z)
<1>1. \A b \in Bound : b # None => b \in Int
  BY TimeAssumption DEF Bound
<1>2. \A b \in Rows : b.until \in Bound
  BY DEF Rows
<1> QED
  BY <1>1, <1>2, TimeAssumption DEF Later

LEMMA EndedEarlier ==
  ASSUME NEW x \in Rows, NEW y \in Rows, NEW u \in Time, Closable(x, u), y.until = u,
         y.from = x.from, y.subject = x.subject, y.object = x.object
  PROVE  Later(x, y)
<1>1. y # None /\ u # None /\ u \in Int
  BY TimeAssumption, NoneAssumption
<1>2. x.until # None => x.until \in Int
  BY TimeAssumption DEF Rows, Bound
<1>3. x.until # None => u <= x.until
  BY <1>1, <1>2 DEF Closable, Ended
<1> QED
  BY <1>1, <1>3 DEF Later

LEMMA PublishLater ==
  ASSUME GraphInv, NEW h \in Handlers, pc[h] \in {"audit", "commit"}, Publish(h)
  PROVE  RowsLater
<1>1. \A k \in Relations : row[k] \in Rows \cup {None}
  BY DEF GraphInv, TypeOK
<1>2. \A x \in Rows : x.until \in Bound
  BY DEF Rows
<1>3. ASSUME NEW k \in Relations, row'[k] = row[k]
      PROVE  Later(row[k], row'[k])
  <2>1. row[k] # None => row[k].until = None \/ row[k].until \in Int
    BY <1>1, <1>2, TimeAssumption DEF Bound
  <2> QED
    BY <1>3, <2>1 DEF Later
<1>4. Later(row[req[h].relation], row'[req[h].relation])
  BY PublishRow, EndedEarlier
<1> QED
  BY <1>3, <1>4, PublishRow DEF RowsLater

(* A relation that a graph read must not return, or need not, stays so.    *)
LEMMA LaterMatches ==
  ASSUME NEW x \in Rows, NEW y \in Rows, Later(x, y), NEW q \in Reading
  PROVE  /\ Matches(y, q) => Matches(x, q)
         /\ ~Ended(y, q.asOf) => ~Ended(x, q.asOf)
<1>1. /\ x # None /\ y # None /\ q.asOf \in Int
      /\ x.until = None \/ x.until \in Int
      /\ y.until = None \/ y.until \in Int
  BY NoneAssumption, TimeAssumption DEF Rows, Reading, Bound
<1>2. Ended(x, q.asOf) => Ended(y, q.asOf)
  BY <1>1 DEF Later, Ended
<1> QED
  BY <1>1, <1>2 DEF Later, Matches, ValidAt, Started

(* A read keeps what it knows while others change rows.                    *)
LEMMA ReadKept ==
  ASSUME GraphInv, TypeOK', NEW h \in Handlers, RowsLater,
         pc'[h] = pc[h], req'[h] = req[h], seen'[h] = seen[h], before'[h] = before[h]
  PROVE  ReadSoFar(h)'
<1> SUFFICES ASSUME pc[h] \in Readers
             PROVE  ReadSoFar(h)'
  BY DEF GraphInv, ReadSoFar, Readers
<1>1. /\ req[h] \in Reading
      /\ \A r \in Relations : /\ before[h][r] \in Rows \cup {None}
                              /\ row[r] \in Rows \cup {None} /\ row'[r] \in Rows \cup {None}
      /\ \A r \in Relations : Later(before[h][r], row[r]) /\ Later(row[r], row'[r])
      /\ \A r \in seen[h] : Sound(h, r)
  BY DEF GraphInv, TypeOK, ReadSoFar, RowsLater
<1>2. \A r \in Relations : Later(before[h][r], row'[r])
  BY <1>1, LaterChains
<1>3. ASSUME NEW r \in Relations, Missed(h, r)'
      PROVE  Missed(h, r) /\ row'[r].subject = row[r].subject
  <2>1. before[h][r] \in Rows /\ row[r] \in Rows /\ row'[r] \in Rows /\ Matches(row'[r], req[h])
    BY <1>1, <1>3 DEF Missed, Later, Matches
  <2> QED
    BY <1>1, <1>3, <2>1, LaterMatches, NoneAssumption DEF Missed, Later
<1>4. \A r \in seen[h] : Sound(h, r)'
  BY <1>1 DEF Sound
<1> QED
  BY <1>1, <1>2, <1>3, <1>4 DEF ReadSoFar, GraphInv, Readers

(* A close that holds the lock of its row meets it unchanged.              *)
LEMMA LockKept ==
  ASSUME GraphInv, NEW h \in Handlers, pc'[h] = pc[h], req'[h] = req[h],
         closings \subseteq closings',
         pc[h] \in {"audit", "commit"} => /\ lock'[req[h].relation] = lock[req[h].relation]
                                          /\ row'[req[h].relation] = row[req[h].relation]
  PROVE  Locked(h)'
  BY DEF GraphInv, Locked

(* The locks another handler releases, and the row it writes, are not those *)
(* of h.                                                                   *)
LEMMA PublishLocks ==
  ASSUME GraphInv, NEW g \in Handlers, NEW h \in Handlers, g # h, Unlock(g),
         pc[h] \in {"audit", "commit"},
         UNCHANGED row \/ (pc[g] \in {"audit", "commit"} /\ Publish(g))
  PROVE  /\ lock'[req[h].relation] = lock[req[h].relation]
         /\ row'[req[h].relation] = row[req[h].relation]
<1>1. lock[req[h].relation] = h /\ req[h].relation \in Relations
  BY DEF GraphInv, Locked, Closers, Closing
<1>2. lock'[req[h].relation] = h
  BY <1>1 DEF Unlock
<1>3. CASE UNCHANGED row
  BY <1>1, <1>2, <1>3
<1>4. CASE pc[g] \in {"audit", "commit"} /\ Publish(g)
  <2>1. req[g].relation # req[h].relation
    BY <1>1, <1>4 DEF GraphInv, Locked
  <2> QED
    BY <1>1, <1>2, <1>4, <2>1, PublishRow
<1> QED
  BY <1>3, <1>4

LEMMA OthersKeep ==
  ASSUME GraphInv, TypeOK', RowsLater, closings \subseteq closings', NEW g \in Handlers,
         \A h \in Handlers \ {g} :
           /\ pc'[h] = pc[h] /\ req'[h] = req[h] /\ seen'[h] = seen[h] /\ before'[h] = before[h]
           /\ pc[h] \in {"audit", "commit"} => /\ lock'[req[h].relation] = lock[req[h].relation]
                                               /\ row'[req[h].relation] = row[req[h].relation]
  PROVE  \A h \in Handlers \ {g} : Locked(h)' /\ ReadSoFar(h)'
  BY LockKept, ReadKept

LEMMA RowsStay ==
  ASSUME GraphInv, UNCHANGED row
  PROVE  RowsLater
<1> SUFFICES ASSUME NEW r \in Relations
             PROVE  Later(row[r], row[r])
  BY DEF RowsLater
<1>1. row[r] # None => row[r].until = None \/ row[r].until \in Int
  BY TimeAssumption DEF GraphInv, TypeOK, Rows, Bound
<1> QED
  BY <1>1 DEF Later

(* A close that goes through ends the relation before every earlier one.   *)
LEMMA CloseEarliest ==
  ASSUME row \in [Relations -> Rows \cup {None}], closings \subseteq Closing, Earliest,
         NEW c \in Closing, Closable(row[c.relation], c.until),
         row' = [row EXCEPT ![c.relation].until = c.until],
         closings' = closings \cup {c}
  PROVE  Earliest' /\ row' \in [Relations -> Rows \cup {None}]
<1> DEFINE r == c.relation
           u == c.until
<1>0. r \in Relations /\ u \in Time /\ u \in Int /\ u # None
  BY TimeAssumption DEF Closing
<1>1. row[r] \in Rows /\ row[r] # None
  BY <1>0 DEF Closable
<1>2. row'[r] = [row[r] EXCEPT !.until = u] /\ \A k \in Relations \ {r} : row'[k] = row[k]
  BY <1>0
<1>3. row'[r] \in Rows /\ row'[r].until = u /\ row'[r] # None
  <2>1. row[r].from # None => row[r].from <= u
    BY DEF Closable, Started
  <2>2. [row[r] EXCEPT !.until = u] \in Rows
    BY <1>0, <1>1, <2>1 DEF Rows, Bound
  <2> QED
    BY <1>1, <1>2, <2>2, NoneAssumption DEF Rows
<1>4. ASSUME NEW d \in closings', d.relation = r
      PROVE  u <= d.until /\ [d EXCEPT !.until = u] = c
  <2>1. d \in Closing /\ d.until \in Int
    BY TimeAssumption DEF Closing
  <2>2. [d EXCEPT !.until = u] = c
    BY <1>4, <2>1 DEF Closing
  <2>3. CASE d = c
    BY <1>0, <2>2, <2>3
  <2>4. CASE d \in closings
    <3>1. row[r].until # None /\ row[r].until <= d.until /\ row[r].until \in Int
      BY <1>1, <1>4, <2>4, TimeAssumption DEF Earliest, Rows, Bound
    <3> QED
      BY <1>0, <2>1, <2>2, <3>1 DEF Closable, Ended
  <2> QED
    BY <2>3, <2>4
<1>5. ASSUME NEW d \in closings'
      PROVE  /\ row'[d.relation] # None /\ row'[d.relation].until # None
             /\ row'[d.relation].until <= d.until
             /\ [d EXCEPT !.until = row'[d.relation].until] \in closings'
  <2>1. CASE d.relation = r
    BY <1>0, <1>3, <1>4, <2>1
  <2>2. CASE d.relation # r
    <3>1. d \in closings /\ d.relation \in Relations /\ row'[d.relation] = row[d.relation]
      BY <1>2, <2>2 DEF Closing
    <3>2. /\ row[d.relation] # None /\ row[d.relation].until # None
          /\ row[d.relation].until <= d.until
          /\ [d EXCEPT !.until = row[d.relation].until] \in closings'
      BY <3>1 DEF Earliest
    <3> QED
      BY <3>1, <3>2, Zenon
  <2> QED
    BY <2>1, <2>2
<1>6. row' \in [Relations -> Rows \cup {None}]
  BY <1>2, <1>3
<1> QED
  BY <1>5, <1>6 DEF Earliest

LEMMA PublishEarliest ==
  ASSUME GraphInv, NEW h \in Handlers, pc[h] \in {"audit", "commit"}, Publish(h)
  PROVE  Earliest'
<1>1. req[h] \in Closing /\ Closable(row[req[h].relation], req[h].until)
  BY PublishRow
<1> QED
  BY <1>1, CloseEarliest DEF Publish, GraphInv, TypeOK

-----------------------------------------------------------------------------
(* What a statement finds had not ended when the read began.               *)
LEMMA MatchesSound ==
  ASSUME GraphInv, NEW h \in Handlers, req[h] \in Reading, NEW r \in Relations,
         Later(before[h][r], row[r]), Matches(row[r], req[h])
  PROVE  Sound(h, r)
<1> SUFFICES ASSUME before[h][r] # None, ~req[h].historical
             PROVE  ~Ended(before[h][r], req[h].asOf)
  BY DEF Sound
<1>1. before[h][r] \in Rows /\ row[r] \in Rows
  BY DEF GraphInv, TypeOK, Later
<1>2. ~Ended(row[r], req[h].asOf)
  BY DEF Matches, ValidAt
<1> QED
  BY <1>1, <1>2, LaterMatches

LEMMA GraphInvInit == Init => GraphInv
  BY TypeInit DEF Init, GraphInv, Locked, ReadSoFar, Closers, Readers, Earliest

LEMMA GraphInvStep ==
  ASSUME GraphInv, [Next]_vars
  PROVE  GraphInv'
<1> DEFINE All == \A h \in Handlers : Locked(h) /\ ReadSoFar(h)
<1>t. TypeOK /\ TypeOK'
  BY TypeStep DEF GraphInv
<1>1. ASSUME NEW n \in Names, CreateEntity(n)
      PROVE  All' /\ Earliest'
  BY <1>t, <1>1, RowsStay, LockKept, ReadKept DEF CreateEntity, GraphInv, Earliest
<1>2. ASSUME NEW r \in Relations, NEW new \in Rows, CreateRelation(r, new)
      PROVE  All' /\ Earliest'
  <2>1. /\ row[r] = None /\ row'[r] # None
        /\ \A k \in Relations \ {r} : row'[k] = row[k]
    BY <1>t, <1>2, NoneAssumption DEF CreateRelation, TypeOK
  <2>2. RowsLater
    <3>1. ASSUME NEW k \in Relations \ {r}
          PROVE  Later(row[k], row'[k])
      <4>1. row[k] # None => row[k].until = None \/ row[k].until \in Int
        BY <1>t, TimeAssumption DEF TypeOK, Rows, Bound
      <4> QED
        BY <2>1, <4>1 DEF Later
    <3> QED
      BY <2>1, <3>1 DEF RowsLater, Later
  <2>3. ASSUME NEW h \in Handlers, pc[h] \in {"audit", "commit"}
        PROVE  row'[req[h].relation] = row[req[h].relation]
    BY <2>1, <2>3 DEF GraphInv, Locked, Closers, Closing, Closable
  <2>4. Earliest'
    BY <1>t, <1>2, <2>1 DEF CreateRelation, GraphInv, Earliest, TypeOK, Closing
  <2> QED
    BY <1>t, <1>2, <2>2, <2>3, <2>4, LockKept, ReadKept DEF CreateRelation
<1>3. ASSUME NEW h \in Handlers, NEW r \in Relations, NEW u \in Time, CloseRelation(h, r, u)
      PROVE  All' /\ Earliest'
  <2>1. Locked(h)' /\ ReadSoFar(h)'
    BY <1>t, <1>3 DEF CloseRelation, Begin, TypeOK, GraphInv, Locked, ReadSoFar, Closers, Readers, Closing
  <2> QED
    BY <1>t, <1>3, <2>1, RowsStay, OthersKeep DEF CloseRelation, Begin, TypeOK, GraphInv, Earliest
<1>4. ASSUME NEW h \in Handlers, Update(h)
      PROVE  All' /\ Earliest'
  <2>1. req[h] \in Closing /\ req[h].relation \in Relations
    BY <1>4 DEF Update, GraphInv, Locked, Closers, Closing
  <2>2. Locked(h)' /\ ReadSoFar(h)'
    <3>1. Locked(h)'
      BY <1>t, <1>4, <2>1 DEF Update, Goto, TypeOK, Locked, Closers
    <3>2. /\ pc'[h] \in {"audit", "conflict"} /\ seen'[h] = {}
      BY <1>t, <1>4 DEF Update, Goto, TypeOK, GraphInv, ReadSoFar
    <3> QED
      BY <3>1, <3>2 DEF ReadSoFar, Readers
  <2>3. ASSUME NEW g \in Handlers \ {h}, pc[g] \in {"audit", "commit"}
        PROVE  lock'[req[g].relation] = lock[req[g].relation]
    <3>1. lock[req[g].relation] = g /\ g # None /\ req[g].relation \in Relations
      BY <2>3, NoneAssumption DEF GraphInv, Locked, Closers, Closing
    <3>2. \/ UNCHANGED lock
          \/ lock' = [lock EXCEPT ![req[h].relation] = h] /\ lock[req[h].relation] = None
      BY <1>4 DEF Update
    <3> QED
      BY <1>t, <2>1, <3>1, <3>2 DEF TypeOK
  <2> QED
    BY <1>t, <1>4, <2>2, <2>3, RowsStay, OthersKeep DEF Update, Goto, TypeOK, GraphInv, Earliest
<1>5. ASSUME NEW h \in Handlers, Audit(h)
      PROVE  All' /\ Earliest'
  <2>1. Locked(h)' /\ ReadSoFar(h)'
    BY <1>t, <1>5 DEF Audit, Goto, TypeOK, GraphInv, Locked, ReadSoFar, Closers, Readers
  <2> QED
    BY <1>t, <1>5, <2>1, RowsStay, OthersKeep DEF Audit, Goto, TypeOK, GraphInv, Earliest
<1>6. ASSUME NEW h \in Handlers, Commit(h)
      PROVE  All' /\ Earliest'
  <2>1. Publish(h) /\ Unlock(h) /\ Goto(h, "closed") /\ UNCHANGED seen /\ pc[h] = "commit"
    BY <1>6 DEF Commit
  <2>2. RowsLater /\ Earliest' /\ req[h] \in closings' /\ req[h] \in Closing
    BY <2>1, PublishLater, PublishEarliest, PublishRow
  <2>3. Locked(h)' /\ ReadSoFar(h)'
    BY <1>t, <2>1, <2>2 DEF Goto, TypeOK, GraphInv, Locked, ReadSoFar, Closers, Readers
  <2>4. closings \subseteq closings'
    BY <2>1 DEF Publish
  <2>5. \A g \in Handlers \ {h} :
          /\ pc'[g] = pc[g] /\ req'[g] = req[g] /\ seen'[g] = seen[g] /\ before'[g] = before[g]
          /\ pc[g] \in {"audit", "commit"} => /\ lock'[req[g].relation] = lock[req[g].relation]
                                              /\ row'[req[g].relation] = row[req[g].relation]
    BY <1>t, <2>1, PublishLocks DEF Goto, TypeOK
  <2> QED
    BY <1>t, <2>2, <2>3, <2>4, <2>5, OthersKeep
<1>7. ASSUME NEW h \in Handlers, NEW e \in Names, NEW t \in Time, NEW all \in BOOLEAN,
             GetEntityGraph(h, e, t, all)
      PROVE  All' /\ Earliest'
  <2>1. /\ pc'[h] = "outgoing" /\ before'[h] = row /\ seen' = seen /\ row' = row
        /\ req'[h] = [entity |-> e, asOf |-> t, historical |-> all]
    BY <1>t, <1>7 DEF GetEntityGraph, Begin, TypeOK
  <2>2. req'[h] \in Reading
    BY <2>1 DEF Reading
  <2>3. seen[h] = {}
    BY <1>7 DEF GetEntityGraph, Begin, GraphInv, ReadSoFar
  <2>4. Locked(h)' /\ ReadSoFar(h)'
    BY <2>1, <2>2, <2>3, RowsStay DEF RowsLater, Locked, ReadSoFar, Closers, Readers
  <2> QED
    BY <1>t, <1>7, <2>4, RowsStay, OthersKeep DEF GetEntityGraph, Begin, TypeOK, GraphInv, Earliest
<1>8. ASSUME NEW h \in Handlers, ReadOutgoing(h)
      PROVE  All' /\ Earliest'
  <2> DEFINE found == {r \in Relations : row[r] # None /\ row[r].subject = req[h].entity}
  <2>1. /\ pc[h] = "outgoing" /\ pc'[h] = "incoming" /\ UNCHANGED <<row, req, before>>
        /\ seen'[h] = seen[h] \cup {r \in found : Matches(row[r], req[h])}
    BY <1>t, <1>8 DEF ReadOutgoing, Read, Goto, TypeOK
  <2>2. /\ req[h] \in Reading
        /\ \A r \in Relations : Later(before[h][r], row[r])
        /\ \A r \in seen[h] : Sound(h, r)
    BY <2>1 DEF GraphInv, ReadSoFar, Readers
  <2>3. \A r \in seen'[h] : Sound(h, r)
    BY <2>1, <2>2, MatchesSound
  <2>4. \A r \in Relations : Missed(h, r)' => row[r].subject # req[h].entity
    BY <2>1 DEF Missed, Matches
  <2>5. Locked(h)' /\ ReadSoFar(h)'
    BY <2>1, <2>2, <2>3, <2>4 DEF Locked, ReadSoFar, Closers, Readers, Sound
  <2> QED
    BY <1>t, <1>8, <2>5, RowsStay, OthersKeep DEF ReadOutgoing, Read, Goto, TypeOK, GraphInv, Earliest
<1>9. ASSUME NEW h \in Handlers, ReadIncoming(h)
      PROVE  All' /\ Earliest'
  <2> DEFINE found == {r \in Relations : row[r] # None /\ row[r].object = req[h].entity}
  <2>1. /\ pc[h] = "incoming" /\ pc'[h] = "read" /\ UNCHANGED <<row, req, before>>
        /\ seen'[h] = seen[h] \cup {r \in found : Matches(row[r], req[h])}
    BY <1>t, <1>9 DEF ReadIncoming, Read, Goto, TypeOK
  <2>2. /\ req[h] \in Reading
        /\ \A r \in Relations : Later(before[h][r], row[r])
        /\ \A r \in seen[h] : Sound(h, r)
        /\ \A r \in Relations : Missed(h, r) => row[r].subject # req[h].entity
    BY <2>1 DEF GraphInv, ReadSoFar, Readers
  <2>3. \A r \in seen'[h] : Sound(h, r)
    BY <2>1, <2>2, MatchesSound
  <2>4. \A r \in Relations : ~Missed(h, r)'
    BY <2>1, <2>2 DEF Missed, Matches
  <2>5. Locked(h)' /\ ReadSoFar(h)'
    BY <2>1, <2>2, <2>3, <2>4 DEF Locked, ReadSoFar, Closers, Readers, Sound
  <2> QED
    BY <1>t, <1>9, <2>5, RowsStay, OthersKeep DEF ReadIncoming, Read, Goto, TypeOK, GraphInv, Earliest
<1>10. ASSUME NEW h \in Handlers, End(h)
       PROVE  /\ Locked(h)' /\ ReadSoFar(h)'
              /\ \A g \in Handlers \ {h} : /\ pc'[g] = pc[g] /\ req'[g] = req[g]
                                           /\ seen'[g] = seen[g] /\ before'[g] = before[g]
  BY <1>t, <1>10 DEF End, TypeOK, Locked, ReadSoFar, Closers, Readers
<1>11. ASSUME NEW h \in Handlers, Answer(h)
       PROVE  All' /\ Earliest'
  BY <1>t, <1>10, <1>11, RowsStay, OthersKeep DEF Answer, GraphInv, Earliest
<1>12. ASSUME NEW h \in Handlers, Drop(h)
       PROVE  All' /\ Earliest'
  <2>1. End(h) /\ Unlock(h) /\ (UNCHANGED <<row, closings>> \/ (pc[h] = "commit" /\ Publish(h)))
    BY <1>12 DEF Drop
  <2>2. RowsLater /\ closings \subseteq closings' /\ Earliest'
    BY <2>1, RowsStay, PublishLater, PublishEarliest DEF Publish, GraphInv, Earliest
  <2>3. \A g \in Handlers \ {h} : pc[g] \in {"audit", "commit"} =>
          /\ lock'[req[g].relation] = lock[req[g].relation]
          /\ row'[req[g].relation] = row[req[g].relation]
    BY <2>1, PublishLocks
  <2> QED
    BY <1>t, <1>10, <2>1, <2>2, <2>3, OthersKeep
<1>13. CASE UNCHANGED vars
  BY <1>13, <1>t, RowsStay, LockKept, ReadKept DEF vars, GraphInv, Earliest
<1> QED
  BY <1>t, <1>1, <1>2, <1>3, <1>4, <1>5, <1>6, <1>7, <1>8, <1>9, <1>11, <1>12, <1>13,
     PostedChecked
     DEF Next, GraphInv

-----------------------------------------------------------------------------
LEMMA GraphInvariant == Spec => []GraphInv
<1>1. GraphInv /\ [Next]_vars => GraphInv'
  BY GraphInvStep
<1> QED
  BY GraphInvInit, <1>1, PTL DEF Spec

(* However closes overlap, the earliest audited end stands and only real   *)
(* closes are reported (close_relation).                                   *)
THEOREM EarliestCloseCorrect == Spec => []EarliestCloseStands
<1>1. GraphInv => EarliestCloseStands
  BY DEF GraphInv, Locked, Earliest, EarliestCloseStands
<1> QED
  BY <1>1, GraphInvariant, PTL

(* A graph read is current although its two statements see different       *)
(* states (get_entity_graph).                                              *)
THEOREM ReadsCorrect == Spec => []ReadIsCurrent
<1>1. GraphInv => ReadIsCurrent
  BY DEF GraphInv, ReadSoFar, Readers, Sound, Missed, ReadIsCurrent
<1> QED
  BY <1>1, GraphInvariant, PTL

(* No step changes what was known of the instants before a close, and none *)
(* gives an instant a relation back (close_relation, get_entity_graph).    *)
THEOREM PastKeptCorrect == Spec => PastKept
<1> DEFINE Kept == \A r \in Relations, t \in Time :
              row[r] # None =>
                /\ row'[r] # None
                /\ ValidAt(row'[r], t) => ValidAt(row[r], t)
                /\ ValidAt(row[r], t) /\ ~ValidAt(row'[r], t) =>
                     \E c \in closings' \ closings : c.relation = r /\ c.until <= t
<1>1. ASSUME GraphInv, NEW h \in Handlers, pc[h] \in {"audit", "commit"}, Publish(h)
      PROVE  Kept
  <2>1. LET q == req[h] IN
        /\ q \in Closing /\ q.relation \in Relations
        /\ row[q.relation] \in Rows /\ row'[q.relation] \in Rows
        /\ Closable(row[q.relation], q.until)
        /\ row'[q.relation].until = q.until /\ row'[q.relation].from = row[q.relation].from
        /\ \A k \in Relations \ {q.relation} : row'[k] = row[k]
        /\ closings' = closings \cup {q}
    BY <1>1, PublishRow
  <2>2. req[h].until \in Int /\ req[h].until # None /\ Time \subseteq Int
    BY <2>1, TimeAssumption DEF Closing
  <2>3. req[h] \notin closings
    <3>1. ASSUME req[h] \in closings
          PROVE  row[req[h].relation].until # None /\ row[req[h].relation].until <= req[h].until
      BY <1>1, <3>1 DEF GraphInv, Earliest
    <3> QED
      BY <2>1, <3>1 DEF Closable, Ended
  <2>4. ASSUME NEW t \in Time
        PROVE  /\ ValidAt(row'[req[h].relation], t) => ValidAt(row[req[h].relation], t)
               /\ ValidAt(row[req[h].relation], t) /\ ~ValidAt(row'[req[h].relation], t) =>
                    req[h].until <= t
    <3>1. row[req[h].relation].until = None \/ row[req[h].relation].until \in Int
      BY <2>1, TimeAssumption DEF Rows, Bound
    <3> QED
      BY <2>1, <2>2, <3>1 DEF Closable, ValidAt, Started, Ended
  <2> QED
    BY <2>1, <2>3, <2>4, NoneAssumption
<1>2. ASSUME GraphInv, [Next]_vars
      PROVE  Kept
  <2>1. CASE UNCHANGED row
    BY <2>1
  <2>2. ASSUME NEW r \in Relations, NEW new \in Rows, CreateRelation(r, new)
        PROVE  Kept
    <3>1. row[r] = None /\ \A k \in Relations \ {r} : row'[k] = row[k]
      BY <1>2, <2>2 DEF CreateRelation, GraphInv, TypeOK
    <3> QED
      BY <3>1
  <2>3. ASSUME NEW h \in Handlers, Commit(h) \/ Drop(h)
        PROVE  Kept
    BY <1>1, <1>2, <2>1, <2>3 DEF Commit, Drop
  <2> HIDE DEF Kept
  <2> QED
    BY <1>2, <2>1, <2>2, <2>3, PostedChecked DEF Next, vars, CreateEntity, CloseRelation, Begin, Update, Goto,
       Audit, GetEntityGraph, ReadOutgoing, ReadIncoming, Read, Answer
<1>3. GraphInv /\ [Next]_vars => [Kept]_vars
  BY <1>2
<1> QED
  BY GraphInvInit, GraphInvStep, <1>3, PTL DEF Spec, PastKept

-----------------------------------------------------------------------------
(* The graph, seen without its statements and locks, is AtomicGraph.       *)

(* SQL's WHERE clause, in terms of the order of instants.                  *)
LEMMA ClosableInOrder ==
  ASSUME NEW x \in Rows \cup {None}, NEW u \in Time
  PROVE  Atomic!Closable(x, u) <=> Closable(x, u)
<1>1. x # None => x.until \in Bound /\ x.from \in Bound
  BY DEF Rows
<1>2. u \in Int /\ \A b \in Bound : b # None => b \in Int
  BY TimeAssumption DEF Bound
<1> QED
  BY <1>1, <1>2 DEF Atomic!Closable, Closable, Started, Ended

(* What becomes visible at COMMIT is a close that was still possible.      *)
LEMMA PublishIsClose ==
  ASSUME GraphInv, NEW h \in Handlers, pc[h] \in {"audit", "commit"}, Publish(h)
  PROVE  Atomic!Close(Asked[h])
<1>1. Asked[h] = req[h]
  BY DEF Asked, Outcome, Running
<1>2. /\ req[h] \in Closing /\ req[h].relation \in Relations /\ req[h].until \in Time
      /\ row[req[h].relation] \in Rows /\ Closable(row[req[h].relation], req[h].until)
  BY PublishRow
<1>3. Atomic!Closable(row[req[h].relation], req[h].until)
  BY <1>2, ClosableInOrder
<1> QED
  BY <1>1, <1>3 DEF Publish, Atomic!Close

(* What a step of the program counter of h looks like from outside.        *)
Seen(l) == IF l \in Running THEN "open"
           ELSE IF l \in {"closed", "conflict"} THEN l ELSE "idle"

LEMMA SeenStep ==
  ASSUME TypeOK, NEW h \in Handlers, NEW l, pc' = [pc EXCEPT ![h] = l],
         req' = [req EXCEPT ![h] = req'[h]]
  PROVE  /\ Outcome[h] = Seen(pc[h]) /\ Asked[h] = IF Seen(pc[h]) = "idle" THEN None ELSE req[h]
         /\ Outcome' = [Outcome EXCEPT ![h] = Seen(l)]
         /\ Asked' = [Asked EXCEPT ![h] = IF Seen(l) = "idle" THEN None ELSE req'[h]]
<1>1. Outcome[h] = Seen(pc[h]) /\ Asked[h] = IF Seen(pc[h]) = "idle" THEN None ELSE req[h]
  BY DEF Outcome, Asked, Seen
<1>2. Outcome' = [Outcome EXCEPT ![h] = Seen(l)] /\ Outcome'[h] = Seen(l)
  BY DEF TypeOK, Outcome, Seen
<1>3. \A g \in Handlers \ {h} : Outcome'[g] = Outcome[g] /\ req'[g] = req[g]
  BY DEF TypeOK, Outcome
<1>4. Asked' = [Asked EXCEPT ![h] = IF Seen(l) = "idle" THEN None ELSE req'[h]]
  BY <1>2, <1>3 DEF Asked
<1> QED
  BY <1>1, <1>2, <1>4

(* Steps that change nothing there.                                        *)
LEMMA UnseenStep ==
  ASSUME TypeOK, NEW h \in Handlers, NEW l, pc' = [pc EXCEPT ![h] = l],
         req' = [req EXCEPT ![h] = req'[h]], Seen(l) = Seen(pc[h]),
         Seen(l) = "idle" \/ req'[h] = req[h]
  PROVE  UNCHANGED <<Outcome, Asked>>
<1>1. Outcome' = Outcome
  BY DEF TypeOK, Outcome, Seen
<1>2. \A g \in Handlers : Outcome[g] = "idle" \/ req'[g] = req[g]
  <2>1. Outcome[h] = Seen(l)
    BY DEF Outcome, Seen
  <2> QED
    BY <2>1 DEF TypeOK
<1> QED
  BY <1>1, <1>2 DEF Asked

LEMMA AtomicStep ==
  ASSUME GraphInv, TypeOK', [Next]_vars
  PROVE  [Atomic!Next]_Atomic!vars
<1>0. TypeOK
  BY DEF GraphInv
<1>1. ASSUME NEW n \in Names, CreateEntity(n)
      PROVE  Atomic!Next
  <2>1. Atomic!CreateEntity(n)
    BY <1>1 DEF CreateEntity, Atomic!CreateEntity, Asked, Outcome
  <2> QED
    BY <2>1 DEF Atomic!Next
<1>2. ASSUME NEW r \in Relations, NEW x \in Posted, PostRelation(r, x)
      PROVE  Atomic!Next
  <2>1. x \in Rows /\ CreateRelation(r, x)
    BY <1>2, PostedChecked
  <2>2. Atomic!CreateRelation(r, x)
    BY <2>1 DEF CreateRelation, Atomic!CreateRelation, Asked, Outcome
  <2> QED
    BY <2>1, <2>2 DEF Atomic!Next
<1>3. ASSUME NEW h \in Handlers, NEW r \in Relations, NEW u \in Time, CloseRelation(h, r, u)
      PROVE  Atomic!Next
  <2> DEFINE c == [relation |-> r, until |-> u]
  <2>1. /\ pc[h] = "idle" /\ pc' = [pc EXCEPT ![h] = "update"]
        /\ req' = [req EXCEPT ![h] = req'[h]] /\ req'[h] = c
        /\ UNCHANGED <<entities, row, closings>>
    BY <1>0, <1>3 DEF CloseRelation, Begin, TypeOK
  <2>2. Seen("update") = "open" /\ Seen("idle") = "idle"
    BY DEF Seen, Running
  <2>3. Outcome' = [Outcome EXCEPT ![h] = "open"] /\ Asked' = [Asked EXCEPT ![h] = c]
    <3>1. /\ Outcome' = [Outcome EXCEPT ![h] = Seen("update")]
          /\ Asked' = [Asked EXCEPT ![h] = IF Seen("update") = "idle" THEN None ELSE req'[h]]
      BY <1>0, <2>1, SeenStep
    <3> QED
      BY <2>1, <2>2, <3>1
  <2>4. Outcome[h] = "idle"
    BY <2>1 DEF Outcome, Running
  <2>5. Atomic!Ask(h, r, u)
    BY <2>1, <2>3, <2>4 DEF Atomic!Ask
  <2> QED
    BY <2>5 DEF Atomic!Next
<1>4. ASSUME NEW h \in Handlers, NEW l, Goto(h, l), pc[h] \in Running
      PROVE  /\ l \in Running => UNCHANGED <<entities, Outcome, Asked>>
             /\ l \in {"closed", "conflict"} => /\ UNCHANGED <<entities, Asked>>
                                               /\ Outcome' = [Outcome EXCEPT ![h] = l]
  <2>1. /\ pc' = [pc EXCEPT ![h] = l] /\ UNCHANGED <<entities, req>>
        /\ req' = [req EXCEPT ![h] = req'[h]]
    BY <1>0, <1>4 DEF Goto, TypeOK
  <2>2. Seen(pc[h]) = "open" /\ (l \in Running => Seen(l) = "open")
    BY <1>4 DEF Seen
  <2>3. l \in {"closed", "conflict"} => Seen(l) = l
    BY DEF Seen, Running
  <2>4. ASSUME l \in {"closed", "conflict"}
        PROVE  Asked' = Asked /\ Outcome' = [Outcome EXCEPT ![h] = l]
    <3>1. \A g \in Handlers : Outcome'[g] = "idle" <=> Outcome[g] = "idle"
      BY <1>0, <1>4, <2>1, <2>4 DEF Outcome, TypeOK, Running
    <3>2. Asked' = Asked
      BY <2>1, <3>1 DEF Asked
    <3>3. Outcome' = [Outcome EXCEPT ![h] = Seen(l)]
      BY <1>0, <2>1, SeenStep
    <3> QED
      BY <2>3, <2>4, <3>2, <3>3
  <2> QED
    BY <1>0, <2>1, <2>2, <2>4, UnseenStep
<1>5. ASSUME NEW h \in Handlers, Update(h)
      PROVE  [Atomic!Next]_Atomic!vars
  <2>1. pc[h] = "update" /\ Outcome[h] = "open" /\ Asked[h] = req[h]
        /\ UNCHANGED <<row, closings>>
    BY <1>5 DEF Update, Outcome, Asked, Running
  <2>2. CASE Goto(h, "audit")
    BY <1>4, <2>1, <2>2 DEF Running, Atomic!vars
  <2>3. CASE ~Closable(row[req[h].relation], req[h].until) /\ Goto(h, "conflict")
    <3>1. req[h] \in Closing
      BY <2>1 DEF GraphInv, Locked, Closers
    <3>2. ~Atomic!Closable(row[req[h].relation], req[h].until)
      BY <1>0, <2>3, <3>1, ClosableInOrder DEF Closing, TypeOK
    <3>3. UNCHANGED <<entities, Asked>> /\ Outcome' = [Outcome EXCEPT ![h] = "conflict"]
      BY <1>4, <2>1, <2>3 DEF Running
    <3>4. Atomic!TakeEffect(h)
      BY <2>1, <3>2, <3>3 DEF Atomic!TakeEffect
    <3> QED
      BY <3>4 DEF Atomic!Next
  <2> QED
    BY <1>5, <2>2, <2>3 DEF Update
<1>6. ASSUME NEW h \in Handlers, Audit(h)
      PROVE  UNCHANGED Atomic!vars
  <2>1. pc[h] \in Running /\ Goto(h, "commit") /\ UNCHANGED <<row, closings>>
    BY <1>6 DEF Audit, Running
  <2> QED
    BY <1>4, <2>1 DEF Running, Atomic!vars
<1>7. ASSUME NEW h \in Handlers, Commit(h)
      PROVE  Atomic!Next
  <2>1. Outcome[h] = "open" /\ pc[h] \in Running /\ Goto(h, "closed")
    BY <1>7 DEF Commit, Outcome, Running
  <2>2. UNCHANGED <<entities, Asked>> /\ Outcome' = [Outcome EXCEPT ![h] = "closed"]
    BY <1>4, <2>1 DEF Running
  <2>3. Atomic!Close(Asked[h])
    BY <1>7, PublishIsClose DEF Commit
  <2>4. Atomic!TakeEffect(h)
    BY <2>1, <2>2, <2>3 DEF Atomic!TakeEffect
  <2> QED
    BY <2>4 DEF Atomic!Next
<1>8. ASSUME NEW h \in Handlers, Answer(h) \/ Drop(h)
      PROVE  [Atomic!Next]_Atomic!vars
  <2>1. /\ UNCHANGED entities /\ pc' = [pc EXCEPT ![h] = "idle"]
        /\ req' = [req EXCEPT ![h] = req'[h]]
    BY <1>0, <1>8 DEF Answer, Drop, End, TypeOK
  <2>2. Seen("idle") = "idle" /\ Outcome[h] = Seen(pc[h])
    BY DEF Seen, Running, Outcome
  <2>3. UNCHANGED <<row, closings>> \/ (Outcome[h] = "open" /\ Atomic!Close(Asked[h]))
    <3>1. pc[h] = "commit" => Outcome[h] = "open"
      BY DEF Outcome, Running
    <3> QED
      BY <1>8, <3>1, PublishIsClose DEF Answer, Drop
  <2>4. CASE Outcome[h] # "idle"
    <3>1. Outcome' = [Outcome EXCEPT ![h] = "idle"] /\ Asked' = [Asked EXCEPT ![h] = None]
      BY <1>0, <2>1, <2>2, SeenStep
    <3> QED
      BY <2>1, <2>3, <2>4, <3>1 DEF Atomic!Over, Atomic!Next
  <2>5. CASE Outcome[h] = "idle"
    <3>1. UNCHANGED <<Outcome, Asked>>
      BY <1>0, <2>1, <2>2, <2>5, UnseenStep
    <3> QED
      BY <2>1, <2>3, <2>5, <3>1 DEF Atomic!vars
  <2> QED
    BY <2>4, <2>5
<1>9. ASSUME NEW h \in Handlers, NEW l, l \in {"outgoing", "incoming", "read"},
             pc[h] \in {"idle", "outgoing", "incoming"},
             pc' = [pc EXCEPT ![h] = l], req' = [req EXCEPT ![h] = req'[h]],
             UNCHANGED <<entities, row, closings>>
      PROVE  UNCHANGED Atomic!vars
  <2>1. Seen(l) = "idle" /\ Seen(pc[h]) = "idle"
    BY <1>9 DEF Seen, Running
  <2> QED
    BY <1>0, <1>9, <2>1, UnseenStep DEF Atomic!vars
<1>10. ASSUME NEW h \in Handlers, NEW e \in Names, NEW t \in Time, NEW all \in BOOLEAN,
              GetEntityGraph(h, e, t, all)
       PROVE  UNCHANGED Atomic!vars
  <2>1. /\ pc[h] = "idle" /\ pc' = [pc EXCEPT ![h] = "outgoing"]
        /\ req' = [req EXCEPT ![h] = req'[h]] /\ UNCHANGED <<entities, row, closings>>
    BY <1>0, <1>10 DEF GetEntityGraph, Begin, TypeOK
  <2> QED
    BY <1>9, <2>1
<1>11. ASSUME NEW h \in Handlers, ReadOutgoing(h) \/ ReadIncoming(h)
       PROVE  UNCHANGED Atomic!vars
  <2>1. PICK l \in {"incoming", "read"} : Goto(h, l)
    BY <1>11 DEF ReadOutgoing, ReadIncoming
  <2>2. pc[h] \in {"outgoing", "incoming"} /\ UNCHANGED <<row, closings>>
    BY <1>11 DEF ReadOutgoing, ReadIncoming, Read
  <2>3. UNCHANGED entities /\ pc' = [pc EXCEPT ![h] = l] /\ req' = [req EXCEPT ![h] = req'[h]]
    BY <1>0, <2>1 DEF Goto, TypeOK
  <2> QED
    BY <1>9, <2>2, <2>3
<1>12. CASE UNCHANGED vars
  BY <1>12 DEF vars, Asked, Outcome, Atomic!vars
<1> QED
  BY <1>1, <1>2, <1>3, <1>5, <1>6, <1>7, <1>8, <1>10, <1>11, <1>12 DEF Next

(* Every close takes effect at most once, at one instant, its end and its  *)
(* audit record together (storage_graph.rs close_relation).                *)
THEOREM ClosesAreAtomic == Spec => ImplementsAtomicGraph
<1>1. Init => Atomic!Init
  BY DEF Init, Atomic!Init, Outcome, Asked, Running
<1>2. GraphInv /\ GraphInv' /\ [Next]_vars => [Atomic!Next]_Atomic!vars
  BY AtomicStep DEF GraphInv
<1> QED
  BY <1>1, <1>2, GraphInvariant, PTL DEF Spec, ImplementsAtomicGraph, Atomic!Spec

-----------------------------------------------------------------------------
(* The contract is enough: whatever closes relations atomically keeps the  *)
(* earliest end, and tells the truth about closes.                         *)
CloseInv == /\ row \in [Relations -> Rows \cup {None}]
            /\ closings \subseteq Closing
            /\ \A h \in Handlers : /\ Outcome[h] # "idle" => Asked[h] \in Closing
                                   /\ Outcome[h] = "closed" => Asked[h] \in closings
            /\ Earliest

LEMMA CloseKeepsInv ==
  ASSUME CloseInv, NEW c \in Closing, Atomic!Close(c)
  PROVE  /\ row' \in [Relations -> Rows \cup {None}] /\ Earliest'
         /\ closings' = closings \cup {c} /\ closings' \subseteq Closing
<1>1. c.relation \in Relations /\ c.until \in Time
  BY DEF Closing
<1>2. Closable(row[c.relation], c.until)
  BY <1>1, ClosableInOrder DEF Atomic!Close, CloseInv
<1> QED
  BY <1>2, CloseEarliest DEF Atomic!Close, CloseInv

LEMMA CloseStep ==
  ASSUME CloseInv, [Atomic!Next]_Atomic!vars
  PROVE  CloseInv'
<1>1. ASSUME NEW r \in Relations, NEW x \in Rows, Atomic!CreateRelation(r, x)
      PROVE  CloseInv'
  <2>1. /\ row' \in [Relations -> Rows \cup {None}] /\ row[r] = None
        /\ \A k \in Relations \ {r} : row'[k] = row[k]
        /\ UNCHANGED <<closings, Outcome, Asked>>
    BY <1>1 DEF Atomic!CreateRelation, CloseInv
  <2>2. \A c \in closings : c.relation \in Relations \ {r}
    BY <2>1 DEF CloseInv, Earliest, Closing
  <2>3. Earliest'
    BY <2>1, <2>2 DEF CloseInv, Earliest
  <2> QED
    BY <2>1, <2>3 DEF CloseInv
<1>2. ASSUME NEW h \in Handlers, NEW r \in Relations, NEW u \in Time, Atomic!Ask(h, r, u)
      PROVE  CloseInv'
  <2>1. /\ UNCHANGED <<row, closings>> /\ Asked'[h] \in Closing /\ Outcome'[h] = "open"
        /\ \A g \in Handlers \ {h} : Asked'[g] = Asked[g] /\ Outcome'[g] = Outcome[g]
    <3>1. Asked = [g \in Handlers |-> Asked[g]] /\ Outcome = [g \in Handlers |-> Outcome[g]]
      BY DEF Asked, Outcome
    <3> QED
      BY <1>2, <3>1 DEF Atomic!Ask, Closing
  <2> QED
    BY <2>1 DEF CloseInv, Earliest
<1>3. ASSUME NEW h \in Handlers, Atomic!TakeEffect(h)
      PROVE  CloseInv'
  <2>1. /\ Asked' = Asked /\ Asked[h] \in Closing
        /\ Outcome'[h] = "conflict" \/ (Outcome'[h] = "closed" /\ Atomic!Close(Asked[h]))
        /\ \A g \in Handlers \ {h} : Outcome'[g] = Outcome[g]
    <3>1. Outcome = [g \in Handlers |-> Outcome[g]]
      BY DEF Outcome
    <3> QED
      BY <1>3, <3>1 DEF Atomic!TakeEffect, CloseInv
  <2>2. CASE Atomic!Close(Asked[h])
    BY <2>1, <2>2, CloseKeepsInv DEF CloseInv
  <2>3. CASE UNCHANGED <<row, closings>> /\ Outcome'[h] = "conflict"
    BY <2>1, <2>3 DEF CloseInv, Earliest
  <2> QED
    BY <1>3, <2>1, <2>2, <2>3 DEF Atomic!TakeEffect
<1>4. ASSUME NEW h \in Handlers, Atomic!Over(h)
      PROVE  CloseInv'
  <2>1. /\ Asked[h] \in Closing /\ Outcome'[h] = "idle"
        /\ \A g \in Handlers \ {h} : Asked'[g] = Asked[g] /\ Outcome'[g] = Outcome[g]
    <3>1. Asked = [g \in Handlers |-> Asked[g]] /\ Outcome = [g \in Handlers |-> Outcome[g]]
      BY DEF Asked, Outcome
    <3> QED
      BY <1>4, <3>1 DEF Atomic!Over, CloseInv
  <2>2. CASE Atomic!Close(Asked[h])
    BY <2>1, <2>2, CloseKeepsInv DEF CloseInv
  <2>3. CASE UNCHANGED <<row, closings>>
    BY <2>1, <2>3 DEF CloseInv, Earliest
  <2> QED
    BY <1>4, <2>2, <2>3 DEF Atomic!Over
<1>5. CASE UNCHANGED Atomic!vars \/ \E n \in Names : Atomic!CreateEntity(n)
  BY <1>5 DEF Atomic!vars, Atomic!CreateEntity, CloseInv, Earliest
<1> QED
  BY <1>1, <1>2, <1>3, <1>4, <1>5 DEF Atomic!Next

(* The abstract contract alone keeps the earliest audited end of every     *)
(* relation (what clients of close_relation may count on).                 *)
THEOREM AtomicClosesKeepEarliest == ImplementsAtomicGraph => []EarliestCloseStands
<1>1. Atomic!Init => CloseInv
  BY DEF Atomic!Init, CloseInv, Earliest
<1>2. CloseInv /\ [Atomic!Next]_Atomic!vars => CloseInv'
  BY CloseStep
<1>3. CloseInv => EarliestCloseStands
  <2>1. \A h \in Handlers : pc[h] = "closed" => Outcome[h] = "closed" /\ Asked[h] = req[h]
    BY DEF Outcome, Asked, Running
  <2> QED
    BY <2>1 DEF CloseInv, Earliest, EarliestCloseStands
<1> QED
  BY <1>1, <1>2, <1>3, PTL DEF ImplementsAtomicGraph, Atomic!Spec
=============================================================================
