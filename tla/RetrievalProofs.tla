-------------------------- MODULE RetrievalProofs --------------------------
(***************************************************************************)
(* Proofs about Embedding and Retrieval: for any number of rows, workers,  *)
(* attempts and faults, and any limits, embedding jobs leave vectors and   *)
(* give up only after retries, and a search returns only what was there    *)
(* and misses nothing that was.                                            *)
(***************************************************************************)
EXTENDS Retrieval, FiniteSetTheorems, TLAPS

(* What the rows and their jobs keep. *)
AbsentIdle == \A r \in Rows : status[r] = "absent" => job[r] = "none" /\ attempts[r] = 0
AttemptsUsed ==
  \A r \in Rows : status[r] = "live" =>
    attempts[r] <= IF job[r] \in Running \cup {"done"} THEN faults + 1 ELSE faults
ChunksStay == \A c \in Chunks : status[c] # "superseded"
(* Every memory that ever was active has one version that is. *)
HasCurrent ==
  \A m \in Memories :
    /\ m \in lineage[m]
    /\ status[m] # "absent" => \E n \in Versions(m) : status[n] = "live"

EmbedInv == /\ EmbedTypeOK
            /\ DoneIsEmbedded
            /\ GivenUpAfterRetries
            /\ AbsentIdle
            /\ AttemptsUsed
            /\ ChunksStay
            /\ HasCurrent

(* One row changes status as rows do. *)
Moves(r) == \/ status'[r] = status[r]
            \/ status[r] = "absent" /\ status'[r] = "live"
            \/ status[r] = "live" /\ status'[r] = "superseded"

-----------------------------------------------------------------------------
LEMMA IngestKeeps ==
  ASSUME EmbedInv, NEW C \in SUBSET Chunks, Ingest(C)
  PROVE  EmbedInv' /\ \A r \in Rows : Moves(r)
<1> USE RowsAssumption DEF EmbedInv, Rows
<1>1. \A r \in Rows : Moves(r)
  BY DEF EmbedTypeOK, Ingest, Moves
<1>2. EmbedTypeOK'
  BY DEF EmbedTypeOK, Ingest
<1>3. DoneIsEmbedded'
  BY DEF EmbedTypeOK, Ingest, DoneIsEmbedded
<1>4. GivenUpAfterRetries'
  BY DEF EmbedTypeOK, Ingest, GivenUpAfterRetries
<1>5. AbsentIdle'
  BY DEF EmbedTypeOK, Ingest, AbsentIdle
<1>6. AttemptsUsed'
  BY DEF EmbedTypeOK, Ingest, AbsentIdle, AttemptsUsed, Running
<1>7. ChunksStay'
  BY DEF EmbedTypeOK, Ingest, ChunksStay
<1>8. HasCurrent'
  BY DEF EmbedTypeOK, Ingest, HasCurrent, Versions
<1> QED BY <1>1, <1>2, <1>3, <1>4, <1>5, <1>6, <1>7, <1>8

LEMMA ApproveKeeps ==
  ASSUME EmbedInv, NEW m \in Memories, NEW p \in Memories \cup {None}, Approve(m, p)
  PROVE  EmbedInv' /\ \A r \in Rows : Moves(r)
<1> USE RowsAssumption DEF EmbedInv, Rows
<1>1. \A r \in Rows : Moves(r)
  BY DEF EmbedTypeOK, Approve, Moves
<1>2. EmbedTypeOK'
  BY DEF EmbedTypeOK, Approve
<1>3. DoneIsEmbedded'
  BY DEF EmbedTypeOK, Approve, DoneIsEmbedded
<1>4. GivenUpAfterRetries'
  BY DEF EmbedTypeOK, Approve, GivenUpAfterRetries
<1>5. AbsentIdle'
  BY DEF EmbedTypeOK, Approve, AbsentIdle
<1>6. AttemptsUsed'
  BY DEF EmbedTypeOK, Approve, AbsentIdle, AttemptsUsed, Running
<1>7. ChunksStay'
  BY DEF EmbedTypeOK, Approve, ChunksStay
<1>8. HasCurrent'
  <2> SUFFICES ASSUME NEW k \in Memories
               PROVE  /\ k \in lineage'[k]
                      /\ status'[k] # "absent" => \E n \in Memories : k \in lineage'[n]
                                                                 /\ status'[n] = "live"
    BY DEF HasCurrent, Versions
  <2>1. \A n \in Memories : lineage[n] \subseteq lineage'[n]
    BY DEF EmbedTypeOK, Approve
  <2>2. k \in lineage'[k]
    BY <2>1 DEF HasCurrent
  <2>3. status'[m] = "live" /\ status[m] = "absent"
    BY DEF EmbedTypeOK, Approve
  <2>4. CASE k = m
    BY <2>2, <2>3, <2>4
  <2>5. CASE k # m /\ status'[k] # "absent"
    <3>1. status[k] # "absent"
      BY <2>3, <2>5 DEF EmbedTypeOK, Approve
    <3>2. PICK n \in Memories : k \in lineage[n] /\ status[n] = "live"
      BY <3>1 DEF HasCurrent, Versions
    <3>3. CASE n = p
      <4>1. lineage'[m] = lineage[m] \cup lineage[p]
        BY <3>3 DEF EmbedTypeOK, Approve
      <4> QED BY <2>2, <2>3, <3>2, <3>3, <4>1
    <3>4. CASE n # p
      <4>1. status'[n] = "live"
        BY <3>2, <3>4 DEF EmbedTypeOK, Approve
      <4> QED BY <2>1, <2>2, <3>2, <4>1
    <3> QED BY <3>3, <3>4
  <2> QED BY <2>2, <2>4, <2>5
<1> QED BY <1>1, <1>2, <1>3, <1>4, <1>5, <1>6, <1>7, <1>8

(* A step of one job that does not touch statuses. *)
LEMMA JobKeeps ==
  ASSUME EmbedInv, NEW r \in Rows, Work(r) \/ Fail(r) \/ Crash(r)
  PROVE  EmbedInv' /\ \A k \in Rows : Moves(k)
<1> USE ConfiguredAssumption, AttemptsAssumption DEF EmbedInv
<1>1. status' = status /\ lineage' = lineage
  BY DEF Work, Lease, Load, Call, Store, Report, Fail, Crash
<1>2. /\ status[r] # "absent" /\ job[r] # "none"
      /\ \A k \in Rows \ {r} : job'[k] = job[k] /\ attempts'[k] = attempts[k]
      /\ vector \subseteq vector'
      /\ faults' >= faults
  BY DEF EmbedTypeOK, AbsentIdle, Running, Work, Lease, Load, Call, Store, Report, Fail, Crash,
         Goto, GiveUp
<1>3. EmbedTypeOK'
  <2>1. job' \in [Rows -> {"none", "queued", "done", "failed"} \cup Running]
    BY DEF EmbedTypeOK, Running, Work, Lease, Load, Call, Store, Report, Fail, Crash, Goto, GiveUp
  <2>2. attempts' \in [Rows -> Nat] /\ faults' \in 0..MaxFaults /\ vector' \subseteq Rows
    BY DEF EmbedTypeOK, Work, Lease, Load, Call, Store, Report, Fail, Crash
  <2> QED BY <1>1, <2>1, <2>2 DEF EmbedTypeOK
<1>4. DoneIsEmbedded'
  <2>1. Configured /\ job'[r] \in {"report", "done"} => r \in vector'
    BY DEF EmbedTypeOK, DoneIsEmbedded, Running, Work, Lease, Load, Call, Store, Report, Fail,
           Crash, Goto, GiveUp
  <2> QED BY <1>2, <2>1 DEF DoneIsEmbedded
<1>5. attempts'[r] <= (IF job'[r] \in Running \cup {"done"} THEN faults' + 1 ELSE faults')
      \/ status[r] # "live"
  BY DEF EmbedTypeOK, AttemptsUsed, Running, Work, Lease, Load, Call, Store, Report, Fail,
         Crash, Goto, GiveUp
<1>6. AttemptsUsed'
  <2> SUFFICES ASSUME NEW k \in Rows \ {r}, status[k] = "live"
               PROVE  attempts'[k] <= IF job'[k] \in Running \cup {"done"}
                                        THEN faults' + 1 ELSE faults'
    BY <1>1, <1>5 DEF AttemptsUsed
  <2> QED BY <1>2, <1>3 DEF AttemptsUsed, EmbedTypeOK
<1>7. status[r] = "live" /\ job'[r] = "failed" => faults' >= MaxAttempts
  <2> SUFFICES ASSUME status[r] = "live", job'[r] = "failed"
               PROVE  faults' >= MaxAttempts
    OBVIOUS
  <2>1. Fail(r)
    BY DEF EmbedTypeOK, Work, Lease, Load, Call, Store, Report, Crash, Goto
  <2>2. attempts[r] >= MaxAttempts /\ faults' = faults + 1 /\ job[r] \in Running
    BY <2>1 DEF EmbedTypeOK, Fail, GiveUp, Goto, Running
  <2> QED BY <2>2 DEF AttemptsUsed, EmbedTypeOK
<1>8. GivenUpAfterRetries'
  BY <1>1, <1>2, <1>3, <1>7 DEF GivenUpAfterRetries, EmbedTypeOK
<1>9. AbsentIdle'
  BY <1>1, <1>2 DEF AbsentIdle
<1>10. ChunksStay' /\ HasCurrent' /\ \A k \in Rows : Moves(k)
  BY <1>1 DEF ChunksStay, HasCurrent, Versions, Moves
<1> QED BY <1>3, <1>4, <1>6, <1>8, <1>9, <1>10

LEMMA EmbedKeeps ==
  ASSUME EmbedInv, EmbedNext \/ UNCHANGED embedVars
  PROVE  EmbedInv' /\ \A r \in Rows : Moves(r)
<1>1. CASE UNCHANGED embedVars
  BY <1>1 DEF embedVars, EmbedInv, EmbedTypeOK, DoneIsEmbedded, GivenUpAfterRetries, AbsentIdle,
              AttemptsUsed, ChunksStay, HasCurrent, Versions, Moves
<1>2. CASE EmbedNext
  BY <1>2, IngestKeeps, ApproveKeeps, JobKeeps DEF EmbedNext
<1> QED BY <1>1, <1>2

-----------------------------------------------------------------------------
(* Row r was there at some time since the search began. *)
Recent(r) == r \in Rows /\ before[r] # "superseded" /\ status[r] # "absent"

(* The rows have only moved forward since the search began. *)
Forward == \A r \in Rows : /\ before[r] # "absent" => status[r] # "absent"
                           /\ before[r] = "superseded" => status[r] = "superseded"

IsList(q, k) == /\ q \in Lists(Rows, Candidates)
                /\ Injective(q)
                /\ \A r \in Listed(q) : r \in OfKind(k) /\ Recent(r)

FullList(q) == DOMAIN q = 1..Candidates

(* What the lists so far have to hold. *)
LexicalDone(k) == IF k = "chunk" THEN \/ pc \in {"lexical", "fallback"} /\ kind = "memory"
                                      \/ pc \in {"embed", "dense", "merge"}
                  ELSE memories /\ pc \in {"embed", "dense", "merge"}
DenseDone(k) == IF k = "chunk" THEN \/ pc = "dense" /\ kind = "memory"
                                    \/ pc = "merge" /\ ~degraded
                ELSE memories /\ pc = "merge" /\ ~degraded
ChunksFound(q) == Sought(Chunks) \cap Matching \subseteq Listed(q)
MemoriesFound(q) == \A m \in Sought(Memories) :
                      Versions(m) \subseteq Matching => Versions(m) \cap Listed(q) # {}
NearFound(q, k) == \A r \in Sought(OfKind(k)) \cap embedded : status[r] = "live" => r \in Listed(q)

Control == /\ pc \in {"idle", "lexical", "fallback", "embed", "dense", "merge", "answered"}
           /\ kind \in Kinds /\ memories \in BOOLEAN /\ degraded \in BOOLEAN
           /\ kind = "memory" => memories /\ pc \in {"lexical", "fallback", "dense"}
           /\ pc = "fallback" => degraded
           /\ before \in [Rows -> {"absent", "live", "superseded"}]
           /\ embedded \subseteq vector
           /\ pc = "idle" => lexical = NoLists /\ dense = NoLists
           /\ pc # "answered" => hits = NoRows

ListsOK == /\ lexical \in [Kinds -> Lists(Rows, Candidates)]
           /\ dense \in [Kinds -> Lists(Rows, Candidates)]
           /\ \A k \in Kinds : IsList(lexical[k], k) /\ IsList(dense[k], k)
           /\ \A r \in Listed(hits) : Recent(r)
           /\ Forward

Covered ==
  /\ LexicalDone("chunk") => FullList(lexical["chunk"]) \/ ChunksFound(lexical["chunk"])
  /\ LexicalDone("memory") => FullList(lexical["memory"]) \/ MemoriesFound(lexical["memory"])
  /\ \A k \in Kinds : DenseDone(k) => FullList(dense[k]) \/ NearFound(dense[k], k)

SearchInv == EmbedInv /\ Control /\ ListsOK /\ Covered /\ MissesNothing

-----------------------------------------------------------------------------
(* The limits of search: no list is shorter than the answer unless its     *)
(* query has no more rows.                                                 *)
LEMMA Limits == Limit \in Nat /\ Candidates \in Nat /\ Limit <= Candidates
BY LimitAssumption DEF Limit, Candidates, Clamp

(* A list without repetitions is not longer than one that holds its rows.  *)
LEMMA NotLonger ==
  ASSUME NEW q, NEW l, NEW n \in Nat, NEW c \in Nat, DOMAIN q = 1..n, DOMAIN l = 1..c,
         Injective(l), Listed(l) \subseteq Listed(q)
  PROVE  c <= n
<1> SUFFICES ASSUME n < c
             PROVE  FALSE
  OBVIOUS
<1> DEFINE f == [i \in 1..c |-> CHOOSE j \in 1..n : q[j] = l[i]]
<1>1. \A i \in 1..c : f[i] \in 1..n /\ q[f[i]] = l[i]
  <2> TAKE i \in 1..c
  <2>1. \E j \in 1..n : q[j] = l[i]
    BY DEF Listed
  <2> QED BY <2>1
<1>2. f \in [1..c -> 1..n]
  BY <1>1
<1>3. /\ IsFiniteSet(1..c) /\ Cardinality(1..c) = c
      /\ IsFiniteSet(1..n) /\ Cardinality(1..n) = n
  BY FS_Interval
<1>4. \E i, j \in 1..c : i # j /\ f[i] = f[j]
  <2> HIDE DEF f
  <2> QED BY <1>2, <1>3, FS_PigeonHole
<1>5. PICK i, j \in 1..c : i # j /\ f[i] = f[j]
  BY <1>4
<1>6. l[i] = l[j]
  <2> HIDE DEF f
  <2> QED BY <1>1, <1>5
<1> QED BY <1>5, <1>6 DEF Injective

(* Rows move forward, so what was recent, and what was found, stays so.    *)
LEMMA RowsKeepSearch ==
  ASSUME SearchInv, EmbedNext \/ UNCHANGED embedVars, UNCHANGED searchVars
  PROVE  SearchInv'
<1> USE DEF SearchInv
<1>1. EmbedInv' /\ \A r \in Rows : Moves(r)
  BY EmbedKeeps
<1>2. /\ vector \subseteq vector'
      /\ \A m \in Memories : lineage[m] \subseteq lineage'[m]
  BY RowsAssumption DEF EmbedInv, EmbedTypeOK, EmbedNext, embedVars, Ingest, Approve, Work, Lease, Load,
     Call, Store, Report, Fail, Crash
<1>3. Control'
  BY <1>2 DEF Control, searchVars
<1>4. \A r : Recent(r) => Recent(r)'
  BY <1>1 DEF Recent, Moves, searchVars
<1>5. ListsOK'
  <2>1. \A k \in Kinds : IsList(lexical[k], k)' /\ IsList(dense[k], k)'
    BY <1>4 DEF ListsOK, IsList, searchVars, Listed, OfKind
  <2>2. Forward'
    BY <1>1 DEF ListsOK, Forward, Moves, searchVars
  <2> QED BY <1>4, <2>1, <2>2 DEF ListsOK, searchVars, Listed
<1>6. \A m \in Memories : Versions(m) \subseteq Versions(m)'
  BY <1>2 DEF Versions
<1>7. \A q : MemoriesFound(q) => MemoriesFound(q)'
  BY <1>6 DEF MemoriesFound, Sought, Matching, searchVars, Listed
<1>8. \A r \in Rows : before[r] = "live" /\ status'[r] = "live" => status[r] = "live"
  BY <1>1 DEF ListsOK, Forward, Moves
<1>9. \A k : OfKind(k) \subseteq Rows
  BY DEF OfKind, Rows
<1>10. \A q, k : NearFound(q, k) => NearFound(q, k)'
  BY <1>8, <1>9 DEF NearFound, Sought, searchVars, Listed, OfKind
<1>11. Covered'
  BY <1>7, <1>10 DEF Covered, LexicalDone, DenseDone, FullList, ChunksFound, Sought, Matching,
                    searchVars, Listed
<1>12. MissesNothing'
  BY <1>6, <1>8 DEF MissesNothing, Full, Sought, Matching, searchVars, Listed, Rows
<1> QED BY <1>1, <1>3, <1>5, <1>11, <1>12

-----------------------------------------------------------------------------
(* What a query returns. *)
LEMMA QueryResult ==
  ASSUME SearchInv, NEW k \in Kinds, NEW S \in SUBSET Visible(k),
         NEW q \in Rankings(S, Candidates)
  PROVE  /\ q \in Lists(Rows, Candidates)
         /\ IsList(q, k)
         /\ FullList(q) \/ Listed(q) = S
<1>1. S \subseteq Rows /\ \A r \in S : r \in OfKind(k) /\ Recent(r)
  BY DEF Visible, OfKind, Rows, Recent, SearchInv, ListsOK, Forward
<1>2. PICK n \in 0..Candidates : q \in [1..n -> S]
  BY DEF Rankings, Lists
<1>3. q \in [1..n -> Rows] /\ Listed(q) \subseteq S
  BY <1>1, <1>2 DEF Listed
<1>4. q \in Lists(Rows, Candidates)
  BY <1>3 DEF Lists
<1> QED BY <1>1, <1>3, <1>4 DEF IsList, Rankings, FullList

LEMMA EmptyList ==
  /\ Listed(NoRows) = {} /\ Injective(NoRows)
  /\ NoRows \in Lists(Rows, Candidates)
  /\ NoLists \in [Kinds -> Lists(Rows, Candidates)]
  /\ \A k \in Kinds : NoLists[k] = NoRows
<1>1. DOMAIN NoRows = {}
  BY DEF NoRows
<1>2. NoRows \in [1..0 -> Rows]
  BY DEF NoRows
<1>3. NoRows \in Lists(Rows, Candidates)
  BY <1>2, Limits DEF Lists
<1> QED BY <1>1, <1>3 DEF Listed, Injective, NoLists

LEMMA BeginKeeps ==
  ASSUME SearchInv, NEW include \in BOOLEAN, Begin(include)
  PROVE  SearchInv'
<1> USE DEF SearchInv, Begin
<1>1. EmbedInv'
  BY EmbedKeeps
<1>2. lexical = NoLists /\ dense = NoLists /\ hits = NoRows /\ kind = "chunk"
  BY DEF Control, Kinds
<1>3. Control'
  BY <1>2 DEF Control, EmbedInv, EmbedTypeOK, embedVars, Kinds
<1>4. /\ Listed(NoRows) = {} /\ Injective(NoRows)
      /\ NoRows \in Lists(Rows, Candidates)
      /\ NoLists \in [Kinds -> Lists(Rows, Candidates)]
      /\ \A k \in Kinds : NoLists[k] = NoRows
  BY EmptyList
<1>5. ListsOK'
  <2>1. lexical' = NoLists /\ dense' = NoLists /\ hits' = NoRows
    BY <1>2
  <2>2. \A k \in Kinds : IsList(NoRows, k)'
    BY <1>4 DEF IsList
  <2>3. Forward'
    BY DEF Forward, embedVars
  <2> QED BY <1>4, <2>1, <2>2, <2>3 DEF ListsOK
<1>6. Covered'
  BY <1>2 DEF Covered, LexicalDone, DenseDone
<1>7. MissesNothing'
  BY DEF MissesNothing
<1> QED BY <1>1, <1>3, <1>5, <1>6, <1>7

(* A complete list of what is visible and matches has what is sought.      *)
LEMMA LexicalFinds ==
  ASSUME SearchInv, NEW b, Matching \subseteq Matches[b], NEW q
  PROVE  /\ Listed(q) = Visible("chunk") \cap Matches[b] => ChunksFound(q)
         /\ Listed(q) = Visible("memory") \cap Matches[b] => MemoriesFound(q)
<1>1. ASSUME Listed(q) = Visible("chunk") \cap Matches[b]
      PROVE  ChunksFound(q)
  <2> SUFFICES ASSUME NEW c \in Chunks, before[c] = "live", c \in Matching
               PROVE  c \in Visible("chunk")
    BY <1>1 DEF ChunksFound, Sought
  <2>1. status[c] \in {"absent", "live", "superseded"} /\ status[c] # "superseded"
    BY DEF SearchInv, EmbedInv, EmbedTypeOK, ChunksStay, Rows
  <2>2. status[c] # "absent"
    BY DEF SearchInv, ListsOK, Forward, Rows
  <2> QED BY <2>1, <2>2 DEF Visible, OfKind
<1>2. ASSUME Listed(q) = Visible("memory") \cap Matches[b]
      PROVE  MemoriesFound(q)
  <2> SUFFICES ASSUME NEW m \in Memories, before[m] = "live", Versions(m) \subseteq Matching
               PROVE  Versions(m) \cap Listed(q) # {}
    BY DEF MemoriesFound, Sought
  <2>1. status[m] # "absent"
    BY DEF SearchInv, ListsOK, Forward, Rows
  <2>2. PICK n \in Versions(m) : status[n] = "live"
    BY <2>1 DEF SearchInv, EmbedInv, HasCurrent
  <2>3. n \in Visible("memory")
    BY <2>2 DEF Visible, OfKind, Versions
  <2> QED BY <1>2, <2>2, <2>3
<1> QED BY <1>1, <1>2

LEMMA LexicalKeeps ==
  ASSUME SearchInv, NEW b \in {"pgroonga", "ilike"}, pc \in {"lexical", "fallback"},
         Matching \subseteq Matches[b], Lexical(b)
  PROVE  SearchInv'
<1>1. /\ UNCHANGED <<embedVars, memories, hits, before, embedded, dense, degraded>>
      /\ \/ kind = "chunk" /\ memories /\ kind' = "memory" /\ pc' = "lexical"
         \/ ~(kind = "chunk" /\ memories) /\ kind' = "chunk" /\ pc' = "embed"
  BY DEF Lexical, NextQuery
<1>2. kind \in Kinds /\ lexical \in [Kinds -> Lists(Rows, Candidates)]
  BY DEF SearchInv, Control, ListsOK
<1>3. PICK q \in Rankings(Visible(kind) \cap Matches[b], Candidates) :
        lexical' = [lexical EXCEPT ![kind] = q]
  BY DEF Lexical
<1>4. /\ q \in Lists(Rows, Candidates)
      /\ IsList(q, kind)
      /\ FullList(q) \/ Listed(q) = Visible(kind) \cap Matches[b]
  BY <1>2, QueryResult
<1>5. EmbedInv'
  BY <1>1, EmbedKeeps DEF SearchInv
<1>6. Control'
  BY <1>1, <1>2 DEF SearchInv, Control, embedVars, Kinds
<1>7. \A r : Recent(r)' <=> Recent(r)
  BY <1>1 DEF Recent, embedVars
<1>8. ListsOK'
  <2>2. \A k \in Kinds : lexical'[k] = IF k = kind THEN q ELSE lexical[k]
    BY <1>2, <1>3
  <2>3. lexical' \in [Kinds -> Lists(Rows, Candidates)]
    BY <1>2, <1>3, <1>4
  <2>4. \A k \in Kinds : IsList(lexical[k], k) /\ IsList(dense[k], k)
    BY DEF SearchInv, ListsOK
  <2>5. \A k \in Kinds : IsList(lexical[k], k)' /\ IsList(dense[k], k)'
    BY <1>1, <1>4, <1>7, <2>2, <2>4 DEF IsList
  <2>6. Forward' /\ \A r \in Listed(hits') : Recent(r)'
    BY <1>1, <1>7 DEF SearchInv, ListsOK, Forward, embedVars
  <2> QED BY <1>1, <2>3, <2>5, <2>6 DEF SearchInv, ListsOK
<1>9. Covered'
  <2>1. \A l : ChunksFound(l)' <=> ChunksFound(l)
    BY <1>1 DEF ChunksFound, Sought, Matching
  <2>2. \A l : MemoriesFound(l)' <=> MemoriesFound(l)
    BY <1>1 DEF MemoriesFound, Sought, Matching, Versions, embedVars
  <2>3. \A k \in Kinds : ~DenseDone(k)'
    BY <1>1 DEF DenseDone
  <2>4. kind = "chunk" => /\ lexical'["chunk"] = q
                          /\ FullList(q) \/ ChunksFound(q)
                          /\ ~LexicalDone("memory")'
    BY <1>1, <1>2, <1>3, <1>4, LexicalFinds DEF LexicalDone, Kinds
  <2>5. kind = "memory" => /\ lexical'["memory"] = q
                           /\ FullList(q) \/ MemoriesFound(q)
                           /\ lexical'["chunk"] = lexical["chunk"]
                           /\ FullList(lexical["chunk"]) \/ ChunksFound(lexical["chunk"])
    BY <1>2, <1>3, <1>4, LexicalFinds DEF SearchInv, Covered, LexicalDone, Kinds
  <2> QED BY <1>2, <2>1, <2>2, <2>3, <2>4, <2>5 DEF Covered, FullList, Kinds
<1>10. MissesNothing'
  BY <1>1 DEF MissesNothing
<1> QED BY <1>5, <1>6, <1>8, <1>9, <1>10 DEF SearchInv

LEMMA DenseKeeps ==
  ASSUME SearchInv, DenseSearch
  PROVE  SearchInv'
<1>1. /\ UNCHANGED <<embedVars, memories, hits, before, embedded, lexical, degraded>>
      /\ pc = "dense"
      /\ \/ kind = "chunk" /\ memories /\ kind' = "memory" /\ pc' = "dense"
         \/ ~(kind = "chunk" /\ memories) /\ kind' = "chunk" /\ pc' = "merge"
  BY DEF DenseSearch, NextQuery
<1>2. kind \in Kinds /\ dense \in [Kinds -> Lists(Rows, Candidates)]
  BY DEF SearchInv, Control, ListsOK
<1>3. PICK q \in Rankings(Visible(kind) \cap vector, Candidates) :
        dense' = [dense EXCEPT ![kind] = q]
  BY DEF DenseSearch
<1>4. /\ q \in Lists(Rows, Candidates)
      /\ IsList(q, kind)
      /\ FullList(q) \/ Listed(q) = Visible(kind) \cap vector
  BY <1>2, QueryResult
<1>5. EmbedInv'
  BY <1>1, EmbedKeeps DEF SearchInv
<1>6. Control'
  BY <1>1, <1>2 DEF SearchInv, Control, embedVars, Kinds
<1>7. \A r : Recent(r)' <=> Recent(r)
  BY <1>1 DEF Recent, embedVars
<1>8. ListsOK'
  <2>1. \A k \in Kinds : dense'[k] = IF k = kind THEN q ELSE dense[k]
    BY <1>2, <1>3
  <2>2. dense' \in [Kinds -> Lists(Rows, Candidates)]
    BY <1>2, <1>3, <1>4
  <2>3. \A k \in Kinds : IsList(lexical[k], k) /\ IsList(dense[k], k)
    BY DEF SearchInv, ListsOK
  <2>4. \A k \in Kinds : IsList(lexical[k], k)' /\ IsList(dense[k], k)'
    BY <1>1, <1>4, <1>7, <2>1, <2>3 DEF IsList
  <2>5. Forward' /\ \A r \in Listed(hits') : Recent(r)'
    BY <1>1, <1>7 DEF SearchInv, ListsOK, Forward, embedVars
  <2> QED BY <1>1, <2>2, <2>4, <2>5 DEF SearchInv, ListsOK
<1>9. Covered'
  <2>1. \A l : ChunksFound(l)' <=> ChunksFound(l)
    BY <1>1 DEF ChunksFound, Sought, Matching
  <2>2. \A l : MemoriesFound(l)' <=> MemoriesFound(l)
    BY <1>1 DEF MemoriesFound, Sought, Matching, Versions, embedVars
  <2>3. \A l, k : NearFound(l, k)' <=> NearFound(l, k)
    BY <1>1 DEF NearFound, Sought, embedVars
  <2>4. \A k \in Kinds : LexicalDone(k)' <=> LexicalDone(k)
    BY <1>1 DEF LexicalDone, Kinds
  <2>5. FullList(q) \/ NearFound(q, kind)
    BY <1>4 DEF NearFound, Sought, Visible, SearchInv, Control
  <2>6. \A k \in Kinds : DenseDone(k)' =>
          \/ dense'[k] = q /\ k = kind
          \/ dense'[k] = dense[k] /\ DenseDone(k)
    BY <1>1, <1>2, <1>3 DEF DenseDone, Kinds
  <2>7. \A k \in Kinds : DenseDone(k)' => FullList(dense'[k]) \/ NearFound(dense'[k], k)
    BY <2>5, <2>6 DEF SearchInv, Covered
  <2>8. \A k \in Kinds : DenseDone(k)' => (FullList(dense[k]) \/ NearFound(dense[k], k))'
    BY <1>1, <2>3, <2>7 DEF FullList, NearFound, Sought, embedVars
  <2> QED BY <1>1, <2>1, <2>2, <2>4, <2>8 DEF SearchInv, Covered, FullList, Kinds
<1>10. MissesNothing'
  BY <1>1 DEF MissesNothing
<1> QED BY <1>5, <1>6, <1>8, <1>9, <1>10 DEF SearchInv

(* A backend or the provider fails, or the provider answers. *)
LEMMA FailureKeeps ==
  ASSUME SearchInv, FallBack \/ EmbedQuery
  PROVE  SearchInv'
<1>1. /\ UNCHANGED <<embedVars, kind, memories, lexical, dense, hits, before, embedded>>
      /\ \/ pc = "lexical" /\ pc' = "fallback" /\ degraded'
         \/ pc = "embed" /\ pc' = "dense" /\ degraded' = degraded
         \/ pc = "embed" /\ pc' = "merge" /\ degraded'
      /\ degraded' \in BOOLEAN
  BY DEF FallBack, EmbedQuery, SearchInv, Control
<1>2. EmbedInv'
  BY <1>1, EmbedKeeps DEF SearchInv
<1>3. Control'
  BY <1>1 DEF SearchInv, Control, embedVars
<1>4. ListsOK'
  BY <1>1 DEF SearchInv, ListsOK, IsList, Recent, Forward, embedVars
<1>5. Matching' \subseteq Matching
  BY <1>1, BackendAssumption DEF Matching, SearchInv, Control
<1>6. Covered'
  <2>1. \A l : ChunksFound(l) => ChunksFound(l)'
    BY <1>1, <1>5 DEF ChunksFound, Sought
  <2>2. \A l : MemoriesFound(l) => MemoriesFound(l)'
    BY <1>1, <1>5 DEF MemoriesFound, Sought, Versions, embedVars
  <2>3. \A k \in Kinds : LexicalDone(k)' => LexicalDone(k)
    BY <1>1 DEF LexicalDone, Kinds, SearchInv, Control
  <2>4. \A k \in Kinds : ~DenseDone(k)'
    BY <1>1 DEF DenseDone, Kinds, SearchInv, Control
  <2> QED BY <1>1, <2>1, <2>2, <2>3, <2>4 DEF SearchInv, Covered, FullList, Kinds
<1>7. MissesNothing'
  BY <1>1 DEF MissesNothing
<1> QED BY <1>2, <1>3, <1>4, <1>6, <1>7 DEF SearchInv

LEMMA SearchFailsKeeps ==
  ASSUME SearchInv, SearchFails
  PROVE  SearchInv'
<1>1. /\ UNCHANGED embedVars
      /\ pc' = "idle" /\ kind' = "chunk" /\ memories' = FALSE /\ degraded' = FALSE
      /\ lexical' = NoLists /\ dense' = NoLists /\ hits' = NoRows
      /\ before' = NothingYet /\ embedded' = {}
  BY DEF SearchFails, Return, SearchInv, Control
<1>2. EmbedInv'
  BY <1>1, EmbedKeeps DEF SearchInv
<1>3. Control'
  BY <1>1 DEF Control, Kinds, NothingYet
<1>4. ListsOK'
  BY <1>1, EmptyList DEF ListsOK, IsList, Forward, NothingYet
<1>5. Covered' /\ MissesNothing'
  BY <1>1 DEF Covered, LexicalDone, DenseDone, MissesNothing, Kinds
<1> QED BY <1>2, <1>3, <1>4, <1>5 DEF SearchInv

LEMMA MergeKeeps ==
  ASSUME SearchInv, Merge
  PROVE  SearchInv'
<1>1. /\ UNCHANGED <<embedVars, memories, degraded, before, embedded>>
      /\ pc = "merge" /\ pc' = "answered" /\ kind' = "chunk"
      /\ lexical' = NoLists /\ dense' = NoLists
      /\ hits' \in Rankings(Merged, Limit)
  BY DEF Merge, Return
<1>2. EmbedInv'
  BY <1>1, EmbedKeeps DEF SearchInv
<1>3. Control'
  BY <1>1 DEF SearchInv, Control, Kinds, embedVars
<1>4. \A r \in Merged : Recent(r)
  BY DEF Merged, SearchInv, ListsOK, IsList
<1>5. PICK n \in 0..Limit : hits' \in [1..n -> Merged]
  BY <1>1 DEF Rankings, Lists
<1>6. ListsOK'
  <2>1. \A r \in Listed(hits') : Recent(r)'
    BY <1>1, <1>4, <1>5 DEF Listed, Recent, embedVars
  <2>2. Forward'
    BY <1>1 DEF SearchInv, ListsOK, Forward, embedVars
  <2> QED BY <1>1, <2>1, <2>2, EmptyList DEF ListsOK, IsList
<1>7. Covered'
  BY <1>1 DEF Covered, LexicalDone, DenseDone, Kinds
<1>8. MissesNothing'
  <2> SUFFICES ASSUME ~Full'
               PROVE  MissesNothing'
    BY DEF MissesNothing
  <2>1. Listed(hits') = Merged /\ n < Limit
    BY <1>1, <1>5, Limits DEF Rankings, Full
  <2>2. \A k \in Kinds : Listed(lexical[k]) \subseteq Merged /\ Listed(dense[k]) \subseteq Merged
    BY DEF Merged
  <2>3. \A k \in Kinds : ~FullList(lexical[k]) /\ ~FullList(dense[k])
    <3> TAKE k \in Kinds
    <3>1. Injective(lexical[k]) /\ Injective(dense[k])
      BY DEF SearchInv, ListsOK, IsList
    <3>2. DOMAIN hits' = 1..n /\ n \in Nat /\ ~(Candidates <= n)
      BY <1>5, <2>1, Limits
    <3> QED BY <2>1, <2>2, <3>1, <3>2, Limits, NotLonger DEF FullList
  <2>4. ChunksFound(lexical["chunk"]) /\ (memories => MemoriesFound(lexical["memory"]))
    BY <1>1, <2>3 DEF SearchInv, Covered, LexicalDone, Kinds
  <2>5. ~degraded => /\ NearFound(dense["chunk"], "chunk")
                     /\ memories => NearFound(dense["memory"], "memory")
    BY <1>1, <2>3 DEF SearchInv, Covered, DenseDone, Kinds
  <2>6. Sought(Chunks) \cap Matching \subseteq Listed(hits')
    BY <2>1, <2>2, <2>4 DEF ChunksFound, Kinds
  <2>7. memories => \A m \in Sought(Memories) :
          Versions(m) \subseteq Matching => Versions(m) \cap Listed(hits') # {}
    BY <2>1, <2>2, <2>4 DEF MemoriesFound, Kinds
  <2>8. ~degraded => \A r \in Sought(IF memories THEN Rows ELSE Chunks) \cap embedded :
          status[r] = "live" => r \in Listed(hits')
    BY <2>1, <2>2, <2>5 DEF NearFound, Sought, OfKind, Rows, Kinds
  <2> QED BY <1>1, <2>6, <2>7, <2>8 DEF MissesNothing, Sought, Matching, Versions, embedVars
<1> QED BY <1>2, <1>3, <1>6, <1>7, <1>8 DEF SearchInv

-----------------------------------------------------------------------------
(* Multiplication by a positive number keeps the order.                    *)
LEMMA TimesMonotone ==
  ASSUME NEW m \in Nat \ {0}, NEW x \in Nat, NEW y \in Nat
  PROVE  /\ m * x \in Nat
         /\ x <= y => m * x <= m * y
         /\ x < y => m * x < m * y
         /\ x # 0 => m * x > 0
OBVIOUS

(* With both terms: smaller denominators make a greater sum.               *)
LEMMA SumOfTermsGrows ==
  ASSUME NEW a \in Nat \ {0}, NEW b \in Nat \ {0}, NEW c \in Nat, NEW d \in Nat,
         a <= c, b <= d, a < c \/ b < d
  PROVE  (a + b) * (c * d) > (c + d) * (a * b)
<1>1. a * b \in Nat \ {0} /\ c \in Nat \ {0} /\ d \in Nat \ {0}
  BY TimesMonotone
<1>2. a * c \in Nat \ {0} /\ b * d \in Nat \ {0}
  BY <1>1, TimesMonotone
<1>3. (a * c) * b <= (a * c) * d /\ (b < d => (a * c) * b < (a * c) * d)
  BY <1>1, <1>2, TimesMonotone
<1>4. (b * d) * a <= (b * d) * c /\ (a < c => (b * d) * a < (b * d) * c)
  BY <1>1, <1>2, TimesMonotone
<1>5. (a * c) * b + (b * d) * a < (a * c) * d + (b * d) * c
  <2>1. /\ (a * c) * b \in Int /\ (b * d) * a \in Int
        /\ (a * c) * d \in Int /\ (b * d) * c \in Int
    BY <1>1, <1>2
  <2> QED BY <1>3, <1>4, <2>1
<1>6. (a + b) * (c * d) = (a * c) * d + (b * d) * c
  BY <1>1
<1>7. (c + d) * (a * b) = (a * c) * b + (b * d) * a
  BY <1>1
<1> QED BY <1>5, <1>6, <1>7

(* With one term against two: the second term is a gain.                   *)
LEMMA SecondTermGrows ==
  ASSUME NEW a \in Nat \ {0}, NEW b \in Nat \ {0}, NEW d \in Nat, b <= d
  PROVE  (a + b) * d > a * b
<1>1. a * b <= a * d /\ b * d > 0 /\ a * b \in Nat /\ a * d \in Nat /\ b * d \in Nat
  BY TimesMonotone
<1>2. (a + b) * d = a * d + b * d
  OBVIOUS
<1> QED BY <1>1, <1>2

(* A place is 0 or a rank after 60.                                        *)
LEMMA PlaceIsRank ==
  ASSUME NEW list \in [Kinds -> Lists(Rows, Candidates)], NEW r \in Rows
  PROVE  /\ Place(list, r) \in Nat
         /\ r \in Listed(list[Kind(r)]) => Place(list, r) # 0
<1>1. Kind(r) \in Kinds
  BY DEF Kind, Kinds
<1>2. PICK n \in 0..Candidates : list[Kind(r)] \in [1..n -> Rows]
  BY <1>1 DEF Lists
<1>3. CASE r \in Listed(list[Kind(r)])
  <2>1. \E i \in DOMAIN list[Kind(r)] : list[Kind(r)][i] = r
    BY <1>3 DEF Listed
  <2>2. PICK i \in 1..n : i = CHOOSE x \in DOMAIN list[Kind(r)] : list[Kind(r)][x] = r
    BY <1>2, <2>1
  <2> QED BY <1>3, <2>2, Limits DEF Place
<1>4. CASE r \notin Listed(list[Kind(r)])
  BY <1>4 DEF Place
<1> QED BY <1>3, <1>4

(* A row that the lists agree to place above another has the higher score. *)
LEMMA AboveIsHigher ==
  ASSUME SearchInv, NEW r \in Merged, NEW s \in Merged, Above(r, s)
  PROVE  Higher(r, s)
<1> DEFINE a == Place(lexical, r)  b == Place(dense, r)
           c == Place(lexical, s)  d == Place(dense, s)
<1>1. \A x \in Merged : /\ x \in Rows
                        /\ \/ x \in Listed(lexical[Kind(x)])
                           \/ x \in Listed(dense[Kind(x)])
  BY RowsAssumption DEF SearchInv, ListsOK, IsList, Merged, Kinds, Kind, OfKind, Rows
<1>2. /\ a \in Nat /\ b \in Nat /\ c \in Nat /\ d \in Nat
      /\ a # 0 \/ b # 0
      /\ c # 0 \/ d # 0
  BY <1>1, PlaceIsRank DEF SearchInv, ListsOK
<1>3. /\ c # 0 => a \in 1..c
      /\ d # 0 => b \in 1..d
      /\ ~((a # 0 => c \in 1..a) /\ (b # 0 => d \in 1..b))
  BY DEF Above, AtLeast
<1>4. Higher(r, s) <=>
        LET x == IF a = 0 THEN <<1, b>> ELSE IF b = 0 THEN <<1, a>> ELSE <<a + b, a * b>>
            y == IF c = 0 THEN <<1, d>> ELSE IF d = 0 THEN <<1, c>> ELSE <<c + d, c * d>>
        IN  x[1] * y[2] > y[1] * x[2]
  BY DEF Higher, Score
<1> HIDE DEF a, b, c, d
<1>5. CASE c # 0 /\ d # 0
  <2>1. (a + b) * (c * d) > (c + d) * (a * b)
    BY <1>2, <1>3, <1>5, SumOfTermsGrows
  <2> QED BY <1>2, <1>3, <1>4, <1>5, <2>1
<1>6. CASE c = 0 /\ a # 0
  <2>1. (a + b) * d > a * b /\ d # 0 /\ b # 0
    BY <1>2, <1>3, <1>6, SecondTermGrows
  <2>2. a * b \in Int
    BY <1>2
  <2> QED BY <1>2, <1>4, <1>6, <2>1, <2>2
<1>7. CASE d = 0 /\ b # 0
  <2>1. (b + a) * c > b * a /\ c # 0 /\ a # 0
    BY <1>2, <1>3, <1>7, SecondTermGrows
  <2>2. a * b = b * a /\ a + b = b + a /\ a * b \in Int
    BY <1>2
  <2> QED BY <1>2, <1>4, <1>7, <2>1, <2>2
<1>8. CASE c = 0 /\ a = 0
  BY <1>2, <1>3, <1>4, <1>8
<1>9. CASE d = 0 /\ b = 0
  BY <1>2, <1>3, <1>4, <1>9
<1> QED BY <1>5, <1>6, <1>7, <1>8, <1>9

LEMMA NotHigherThanItself ==
  ASSUME SearchInv, NEW r \in Merged
  PROVE  ~Higher(r, r)
<1>1. r \in Rows
  BY DEF SearchInv, ListsOK, IsList, Merged, Recent
<1>2. Place(lexical, r) \in Nat /\ Place(dense, r) \in Nat
  BY <1>1, PlaceIsRank DEF SearchInv, ListsOK
<1>3. Score(r)[1] \in Int /\ Score(r)[2] \in Int
  BY <1>2 DEF Score
<1>4. Score(r)[1] * Score(r)[2] \in Int
  BY <1>3
<1> QED BY <1>4 DEF Higher

LEMMA MergeAgrees ==
  ASSUME SearchInv, Merge, NEW r \in Merged, NEW j \in DOMAIN hits', Above(r, hits'[j])
  PROVE  \E i \in 1..(j - 1) : hits'[i] = r
<1>1. PICK q \in Rankings(Merged, Limit) :
        /\ \A i, k \in DOMAIN q : i < k => ~Higher(q[k], q[i])
        /\ \A x \in Merged \ Listed(q), i \in DOMAIN q : ~Higher(x, q[i])
        /\ hits' = q
  BY DEF Merge
<1>2. PICK n \in Nat : q \in [1..n -> Merged]
  BY <1>1, Limits DEF Rankings, Lists
<1>3. j \in 1..n /\ q[j] \in Merged
  BY <1>1, <1>2
<1>4. Higher(r, q[j])
  BY <1>1, <1>3, AboveIsHigher
<1>5. PICK i \in 1..n : q[i] = r
  BY <1>1, <1>2, <1>3, <1>4 DEF Listed
<1>6. i # j
  BY <1>4, <1>5, NotHigherThanItself
<1>7. ~(j < i)
  BY <1>1, <1>2, <1>3, <1>4, <1>5
<1> QED BY <1>1, <1>3, <1>5, <1>6, <1>7

-----------------------------------------------------------------------------
LEMMA SearchInit == Init => SearchInv
<1> SUFFICES ASSUME Init
             PROVE  SearchInv
  OBVIOUS
<1>1. EmbedInv
  BY RowsAssumption, AttemptsAssumption
     DEF Init, EmbedInit, EmbedInv, EmbedTypeOK, DoneIsEmbedded, GivenUpAfterRetries, AbsentIdle,
         AttemptsUsed, ChunksStay, HasCurrent, Versions, Running, Rows
<1>2. Control
  BY DEF Init, Control, Kinds, NothingYet
<1>3. ListsOK
  BY EmptyList DEF Init, ListsOK, IsList, Forward, NothingYet
<1>4. Covered /\ MissesNothing
  BY DEF Init, Covered, LexicalDone, DenseDone, MissesNothing, Kinds
<1> QED BY <1>1, <1>2, <1>3, <1>4 DEF SearchInv

LEMMA SearchStep == SearchInv /\ [Next]_vars => SearchInv'
<1> SUFFICES ASSUME SearchInv, [Next]_vars
             PROVE  SearchInv'
  OBVIOUS
<1>1. CASE UNCHANGED vars
  BY <1>1, RowsKeepSearch DEF vars
<1>2. CASE EmbedNext /\ UNCHANGED searchVars
  BY <1>2, RowsKeepSearch
<1>3. ASSUME NEW include \in BOOLEAN, Begin(include)
      PROVE  SearchInv'
  BY <1>3, BeginKeeps
<1>4. CASE LexicalSearch
  <2>1. Matching \subseteq Matches[Backend]
    BY BackendAssumption DEF Matching
  <2> QED BY <1>4, <2>1, LexicalKeeps, BackendAssumption DEF LexicalSearch
<1>5. CASE LexicalAgain
  <2>1. Matching \subseteq Matches["ilike"]
    BY <1>5 DEF Matching, LexicalAgain, SearchInv, Control
  <2> QED BY <1>5, <2>1, LexicalKeeps DEF LexicalAgain
<1>6. CASE FallBack \/ EmbedQuery
  BY <1>6, FailureKeeps
<1>7. CASE DenseSearch
  BY <1>7, DenseKeeps
<1>8. CASE SearchFails
  BY <1>8, SearchFailsKeeps
<1>9. CASE Merge
  BY <1>9, MergeKeeps
<1> QED BY <1>1, <1>2, <1>3, <1>4, <1>5, <1>6, <1>7, <1>8, <1>9 DEF Next, SearchNext

(* Jobs that are done left vectors (worker.rs: process).                   *)
THEOREM DoneCorrect == Spec => []DoneIsEmbedded
<1>1. SearchInv => DoneIsEmbedded
  BY DEF SearchInv, EmbedInv
<1> QED BY <1>1, SearchInit, SearchStep, PTL DEF Spec

(* Rows are given up on after retries only (storage.rs: fail_job).         *)
THEOREM GivenUpCorrect == Spec => []GivenUpAfterRetries
<1>1. SearchInv => GivenUpAfterRetries
  BY DEF SearchInv, EmbedInv
<1> QED BY <1>1, SearchInit, SearchStep, PTL DEF Spec

(* Every hit was there at some time during the search (retrieval.rs).      *)
THEOREM HitsCorrect == Spec => []HitsWereLive
<1>1. SearchInv => HitsWereLive
  BY DEF SearchInv, ListsOK, Recent, HitsWereLive
<1> QED BY <1>1, SearchInit, SearchStep, PTL DEF Spec

(* A search whose answer is not full misses nothing (retrieval.rs).        *)
THEOREM NothingMissed == Spec => []MissesNothing
<1>1. SearchInv => MissesNothing
  BY DEF SearchInv
<1> QED BY <1>1, SearchInit, SearchStep, PTL DEF Spec

(* Rows that the lists agree on stand in the answer as the lists do        *)
(* (retrieval.rs: rrf_score and the sort in search).                       *)
THEOREM AgreementCorrect == Spec => AgreementDecides
<1>1. SearchInv /\ [Next]_vars =>
        [pc' = "answered" /\ pc # "answered" =>
           \A r \in Merged, j \in DOMAIN hits' :
             Above(r, hits'[j]) => \E i \in 1..(j - 1) : hits'[i] = r]_vars
  <2> SUFFICES ASSUME SearchInv, Next, pc' = "answered", pc # "answered",
                      NEW r \in Merged, NEW j \in DOMAIN hits', Above(r, hits'[j])
               PROVE  \E i \in 1..(j - 1) : hits'[i] = r
    OBVIOUS
  <2>1. Merge
    BY DEF Next, SearchNext, searchVars, Begin, LexicalSearch, FallBack, LexicalAgain, Lexical,
           NextQuery, EmbedQuery, DenseSearch, SearchFails
  <2> QED BY <2>1, MergeAgrees
<1> QED BY <1>1, SearchInit, SearchStep, PTL DEF Spec, AgreementDecides
=============================================================================
