----------------------------- MODULE Retrieval -----------------------------
(***************************************************************************)
(* A search (retrieval.rs: search) while rows are ingested, approved,      *)
(* superseded and embedded.  Each of its queries is a statement of its own *)
(* and sees the rows as they are then; there is no transaction around them.*)
(* Searches change nothing, so one of them stands for all; the record in   *)
(* retrieval_runs is left out, its failure being ignored.                  *)
(*                                                                         *)
(* A result list is a function from ranks, which begin at 1 here, to rows. *)
(* Contents never change, so what a backend matches is a constant.         *)
(***************************************************************************)
EXTENDS Embedding

CONSTANTS
  Backend,         \* lexical_backend, "pgroonga" or "ilike"
  Matches,         \* Matches[b]: rows whose content backend b matches
  ResultLimit,     \* limit of the request, or search_result_limit
  CandidateLimit   \* search_candidate_limit

ASSUME BackendAssumption == /\ Backend \in {"pgroonga", "ilike"}
                            /\ Matches \in [{"pgroonga", "ilike"} -> SUBSET Rows]
ASSUME LimitAssumption == ResultLimit \in Int /\ CandidateLimit \in Nat

Clamp(x, low, high) == IF x < low THEN low ELSE IF x > high THEN high ELSE x

Limit == Clamp(ResultLimit, 1, 50)

(* Seeded fault: candidates may be fewer than results. *)
CandidatesFew == Clamp(CandidateLimit, 1, 200)
Candidates == Clamp(CandidateLimit, Limit, 200)

Kinds == {"chunk", "memory"}
OfKind(k) == IF k = "chunk" THEN Chunks ELSE Memories
Kind(r) == IF r \in Chunks THEN "chunk" ELSE "memory"

VARIABLES
  pc,         \* the statement the search runs next
  kind,       \* which rows it is about
  memories,   \* request.include_memories
  lexical,    \* lexical[k], dense[k]: result lists so far
  dense,
  degraded,
  hits,       \* the answer
  before,     \* status when the search began; for the properties only
  embedded    \* vector when the search began; for the properties only

searchVars == <<pc, kind, memories, lexical, dense, degraded, hits, before, embedded>>
vars == <<embedVars, searchVars>>

Listed(q) == {q[i] : i \in DOMAIN q}
Injective(q) == \A i, j \in DOMAIN q : q[i] = q[j] => i = j

(* The first n rows of S, in some order; fewer only when S has fewer. *)
Lists(S, n) == UNION {[1..k -> S] : k \in 0..n}
Rankings(S, n) ==
  {q \in Lists(S, n) : Injective(q) /\ (Listed(q) = S \/ DOMAIN q = 1..n)}

NoRows == [i \in 1..0 |-> None]
NoLists == [k \in Kinds |-> NoRows]
NothingYet == [r \in Rows |-> "absent"]

TypeOK == /\ EmbedTypeOK
          /\ pc \in {"idle", "lexical", "fallback", "embed", "dense", "merge", "answered"}
          /\ kind \in Kinds
          /\ memories \in BOOLEAN
          /\ \A k \in Kinds : Listed(lexical[k]) \cup Listed(dense[k]) \subseteq OfKind(k)
          /\ degraded \in BOOLEAN
          /\ Listed(hits) \subseteq Rows
          /\ before \in [Rows -> {"absent", "live", "superseded"}]
          /\ embedded \subseteq vector

Init == /\ EmbedInit
        /\ pc = "idle"
        /\ kind = "chunk"
        /\ memories = FALSE
        /\ lexical = NoLists
        /\ dense = NoLists
        /\ degraded = FALSE
        /\ hits = NoRows
        /\ before = NothingYet
        /\ embedded = {}

-----------------------------------------------------------------------------
Begin(include) ==
  /\ pc = "idle"
  /\ pc' = "lexical"
  /\ memories' = include
  /\ before' = status
  /\ embedded' = vector
  /\ UNCHANGED <<kind, lexical, dense, degraded, hits, embedVars>>

(* Rows the queries look at: chunks, and memories with status 'active'. *)
Visible(k) == {r \in OfKind(k) : status[r] = "live"}

(* From the chunks to the memories, if the request includes them, or on.   *)
NextQuery(again, after) ==
  /\ \/ /\ kind = "chunk" /\ memories
        /\ kind' = "memory"
        /\ pc' = again
     \/ /\ ~(kind = "chunk" /\ memories)
        /\ kind' = "chunk"
        /\ pc' = after
  /\ UNCHANGED <<memories, hits, before, embedded, embedVars>>

(* search_chunks_lexical, search_memories_lexical with backend b. *)
Lexical(b) ==
  /\ \E q \in Rankings(Visible(kind) \cap Matches[b], Candidates) :
       lexical' = [lexical EXCEPT ![kind] = q]
  /\ NextQuery("lexical", "embed")
  /\ UNCHANGED <<dense, degraded>>

LexicalSearch == pc = "lexical" /\ Lexical(Backend)

(* Seeded fault: the caller is not told. *)
FallBackSilently == /\ pc = "lexical"
                    /\ Backend = "pgroonga"
                    /\ pc' = "fallback"
                    /\ UNCHANGED <<kind, memories, lexical, dense, degraded, hits,
                                   before, embedded, embedVars>>

(* PGroonga fails; the query is repeated with ILIKE. *)
FallBack == /\ pc = "lexical"
            /\ Backend = "pgroonga"
            /\ pc' = "fallback"
            /\ degraded' = TRUE
            /\ UNCHANGED <<kind, memories, lexical, dense, hits, before, embedded,
                           embedVars>>
LexicalAgain == pc = "fallback" /\ Lexical("ilike")

(* The provider gives the query a vector, or does not: an error, or none   *)
(* is configured.                                                          *)
EmbedQuery == /\ pc = "embed"
              /\ \/ /\ Configured
                    /\ pc' = "dense"
                    /\ UNCHANGED degraded
                 \/ /\ pc' = "merge"
                    /\ degraded' = TRUE
              /\ UNCHANGED <<kind, memories, lexical, dense, hits, before, embedded,
                             embedVars>>

(* Seeded fault: the status is not part of the dense queries. *)
DenseAny == /\ pc = "dense"
            /\ \E q \in Rankings(OfKind(kind) \cap vector, Candidates) :
                 dense' = [dense EXCEPT ![kind] = q]
            /\ NextQuery("dense", "merge")
            /\ UNCHANGED <<lexical, degraded>>

(* search_chunks_dense, search_memories_dense. *)
DenseSearch == /\ pc = "dense"
               /\ \E q \in Rankings(Visible(kind) \cap vector, Candidates) :
                    dense' = [dense EXCEPT ![kind] = q]
               /\ NextQuery("dense", "merge")
               /\ UNCHANGED <<lexical, degraded>>

(* The handler returns and its local variables are gone. *)
Return == /\ lexical' = NoLists
          /\ dense' = NoLists
          /\ kind' = "chunk"
          /\ UNCHANGED embedVars

(* Any other failed statement, the request timeout of lib.rs or a client   *)
(* that disconnects ends the search without an answer.                     *)
SearchFails == /\ pc \notin {"idle", "answered"}
               /\ pc' = "idle"
               /\ memories' = FALSE
               /\ degraded' = FALSE
               /\ before' = NothingYet
               /\ embedded' = {}
               /\ Return
               /\ UNCHANGED hits

(* Reciprocal rank fusion.  Place is the denominator of r's term in a list, *)
(* or 0; a score is a fraction.                                            *)
Place(list, r) ==
  IF r \in Listed(list[Kind(r)])
    THEN 60 + (CHOOSE i \in DOMAIN list[Kind(r)] : list[Kind(r)][i] = r)
    ELSE 0

(* Seeded fault: the dense score takes the place of the lexical one. *)
ScoreReplaced(r) == LET a == Place(lexical, r) b == Place(dense, r) IN
                    <<1, IF b = 0 THEN a ELSE b>>

Score(r) == LET a == Place(lexical, r) b == Place(dense, r) IN
            IF a = 0 THEN <<1, b>> ELSE IF b = 0 THEN <<1, a>> ELSE <<a + b, a * b>>
Higher(r, s) == LET x == Score(r) y == Score(s) IN x[1] * y[2] > y[1] * x[2]

Merged == UNION {Listed(lexical[k]) \cup Listed(dense[k]) : k \in Kinds}

(* Sort by score, equal ones in any order, and truncate. *)
Merge == /\ pc = "merge"
         /\ \E q \in Rankings(Merged, Limit) :
              /\ \A i, j \in DOMAIN q : i < j => ~Higher(q[j], q[i])
              /\ \A r \in Merged \ Listed(q), i \in DOMAIN q : ~Higher(r, q[i])
              /\ hits' = q
         /\ pc' = "answered"
         /\ Return
         /\ UNCHANGED <<memories, degraded, before, embedded>>

SearchNext == \/ \E include \in BOOLEAN : Begin(include)
              \/ LexicalSearch \/ FallBack \/ LexicalAgain
              \/ EmbedQuery \/ DenseSearch
              \/ SearchFails
              \/ Merge

Next == SearchNext \/ (EmbedNext /\ UNCHANGED searchVars)

Spec == Init /\ [][Next]_vars

-----------------------------------------------------------------------------
(* Every hit was there, and active if it is a memory, at some time during  *)
(* the search: nothing that was superseded before it began is returned,    *)
(* though late handlers still give such rows vectors, and nothing that was *)
(* never approved (README: "active-memory retrieval").                     *)
HitsWereLive ==
  \A r \in Listed(hits) : before[r] # "superseded" /\ status[r] # "absent"

Full == DOMAIN hits = 1..Limit

(* Versions of the memory m: itself and those that come after it. *)
Versions(m) == {n \in Memories : m \in lineage[n]}

(* What the lexical queries match for certain. *)
Matching == IF degraded THEN Matches["pgroonga"] \cap Matches["ilike"] ELSE Matches[Backend]

(* A search whose answer is not full misses nothing that was there when it *)
(* began.  A memory may be superseded while the search goes on: then some  *)
(* version of it is found.  Rows that had vectors are found unless the     *)
(* caller is told that the search was degraded.                            *)
Sought(S) == {r \in S : before[r] = "live"}
MissesNothing ==
  pc = "answered" /\ ~Full =>
    /\ Sought(Chunks) \cap Matching \subseteq Listed(hits)
    /\ memories => \A m \in Sought(Memories) :
         Versions(m) \subseteq Matching => Versions(m) \cap Listed(hits) # {}
    /\ ~degraded => \A r \in Sought(IF memories THEN Rows ELSE Chunks) \cap embedded :
         status[r] = "live" => r \in Listed(hits)

(* A row that no list ranks below another, and some list ranks above it,   *)
(* comes first in the answer (rrf_score).                                  *)
AtLeast(list, r, s) == Place(list, s) # 0 => Place(list, r) \in 1..Place(list, s)
Above(r, s) == /\ AtLeast(lexical, r, s) /\ AtLeast(dense, r, s)
               /\ ~(AtLeast(lexical, s, r) /\ AtLeast(dense, s, r))
AgreementDecides ==
  [][pc' = "answered" /\ pc # "answered" =>
       \A r \in Merged, j \in DOMAIN hits' :
         Above(r, hits'[j]) => \E i \in 1..(j - 1) : hits'[i] = r]_vars
=============================================================================
