---------------------------- MODULE CaptureProofs ----------------------------
(***************************************************************************)
(* Proofs about Capture: ingestion is atomic and keeps one source per      *)
(* external_id for any number of clients, connections, retries and losses. *)
(***************************************************************************)
EXTENDS Capture, TLAPS

HasDraft(h) == pc[h] \in {"chunks", "extract", "audit", "commit"}

(* What a connection has inserted when it is about to run its statement.   *)
Progress(h) ==
  /\ draft[h] # None <=> HasDraft(h)
  /\ pc[h] # "idle" => serving[h] \in Clients
  /\ draft[h] # None => draft[h].client = serving[h]
  /\ pc[h] = "chunks" => draft[h].chunks < Chunks /\ ~draft[h].extractJob
  /\ pc[h] = "extract" => draft[h].chunks = Chunks /\ Extracting
  /\ pc[h] = "audit" => draft[h].chunks = Chunks /\ (draft[h].extractJob <=> Extracting)
  /\ pc[h] = "commit" => Whole(draft[h])

(* What it is about to answer is true.                                     *)
Truthful(h) ==
  /\ pc[h] = "stored" => \E s \in sources : s.client = serving[h]
  /\ pc[h] = "conflict" => Key[serving[h]] # None /\ Committed(Key[serving[h]]) # {}

(* The unique index: an uncommitted source with a key excludes every other. *)
KeyGuarded ==
  \A h \in Connections : (draft[h] # None /\ Key[draft[h].client] # None) =>
    /\ Committed(Key[draft[h].client]) = {}
    /\ Open(h, Key[draft[h].client]) = {}

CaptureInv == /\ TypeOK
              /\ \A h \in Connections : Progress(h) /\ Truthful(h)
              /\ KeyGuarded
              /\ OneSourcePerEvent
              /\ WholeSources
              /\ AnswerIsTrue

-----------------------------------------------------------------------------
LEMMA CaptureTypeInit == Init => TypeOK
  BY ExtractingAssumption DEF Init, TypeOK, Statements

LEMMA CaptureTypeStep ==
  ASSUME TypeOK, \A h \in Connections : Progress(h), [Next]_vars
  PROVE  TypeOK'
<1> USE DEF TypeOK, Statements
<1>1. ASSUME NEW c \in Clients, NEW h \in Connections, Send(c, h)
      PROVE  TypeOK'
  BY <1>1 DEF Send
<1>2. ASSUME NEW c \in Clients, GiveUp(c)
      PROVE  TypeOK'
  <2>1. faults' \in 0..MaxFaults
    BY <1>2, ExtractingAssumption DEF GiveUp
  <2> QED
    BY <1>2, <2>1 DEF GiveUp
<1>3. ASSUME NEW h \in Connections, InsertSource(h)
      PROVE  TypeOK'
  <2>1. serving[h] \in Clients
    BY <1>3 DEF InsertSource, Progress
  <2>2. ASSUME NEW i \in FreshIds,
               Draft(h, [id |-> i, client |-> serving[h], chunks |-> 0,
                         extractJob |-> FALSE, audited |-> FALSE])
        PROVE  draft' \in [Connections -> Sources \cup {None}]
    BY <2>1, <2>2, ChunksAssumption DEF Draft, Sources, FreshIds
  <2>3. draft' \in [Connections -> Sources \cup {None}]
    BY <1>3, <2>2 DEF InsertSource
  <2> QED
    BY <1>3, <2>3 DEF InsertSource, Goto
<1>4. ASSUME NEW h \in Connections, InsertChunk(h)
      PROVE  TypeOK'
  <2>1. draft[h] \in Sources /\ draft[h].chunks < Chunks
    BY <1>4 DEF InsertChunk, Progress, HasDraft
  <2>2. [draft[h] EXCEPT !.chunks = @ + 1] \in Sources
    BY <2>1, ChunksAssumption DEF Sources
  <2> QED
    BY <1>4, <2>2 DEF InsertChunk, Draft, Goto
<1>5. ASSUME NEW h \in Connections, Schedule(h) \/ Audit(h)
      PROVE  TypeOK'
  <2>1. draft[h] \in Sources
    BY <1>5 DEF Schedule, Audit, Progress, HasDraft
  <2>2. /\ [draft[h] EXCEPT !.extractJob = TRUE] \in Sources
        /\ [draft[h] EXCEPT !.audited = TRUE] \in Sources
    BY <2>1 DEF Sources
  <2> QED
    BY <1>5, <2>2 DEF Schedule, Audit, Draft, Goto
<1>6. ASSUME NEW h \in Connections, Commit(h)
      PROVE  TypeOK'
  <2>1. draft[h] \in Sources
    BY <1>6 DEF Commit, Progress, HasDraft
  <2> QED
    BY <1>6, <2>1 DEF Commit, Draft
<1>7. ASSUME NEW h \in Connections, Answer(h)
      PROVE  TypeOK'
  BY <1>7 DEF Answer, Release
<1>8. ASSUME NEW h \in Connections, Drop(h)
      PROVE  TypeOK'
  <2>1. faults' \in 0..MaxFaults
    BY <1>8, ExtractingAssumption DEF Drop, Fails
  <2>2. sources' \subseteq Sources
    BY <1>8 DEF Drop, Progress, HasDraft
  <2>3. answer' \in [Clients -> {"none", "failed", "stored", "conflict"}]
        /\ conn' \in [Clients -> Connections \cup {None}]
    BY <1>8 DEF Drop, Fails
  <2> QED
    BY <1>8, <2>1, <2>2, <2>3 DEF Drop, Release, Draft
<1>9. CASE UNCHANGED vars
  BY <1>9 DEF vars
<1> QED
  BY <1>1, <1>2, <1>3, <1>4, <1>5, <1>6, <1>7, <1>8, <1>9 DEF Next, Work

-----------------------------------------------------------------------------
(* Rows are only ever added, so what was true of them stays true.          *)
LEMMA AnswersLast ==
  ASSUME CaptureInv, sources \subseteq sources'
  PROVE  /\ \A c \in Clients : answer'[c] = answer[c] =>
              /\ answer'[c] = "stored" => \E s \in sources' : s.client = c
              /\ answer'[c] = "conflict" => Key[c] # None /\ Committed(Key[c])' # {}
         /\ \A h \in Connections : (pc'[h] = pc[h] /\ serving'[h] = serving[h]) => Truthful(h)'
  BY DEF CaptureInv, AnswerIsTrue, Truthful, Committed

(* Steps that insert nothing new: they may end a transaction, not begin one. *)
LEMMA GuardKept ==
  ASSUME CaptureInv, sources' = sources,
         \A h \in Connections : draft'[h] # None =>
           draft[h] # None /\ draft'[h].client = draft[h].client
  PROVE  KeyGuarded' /\ OneSourcePerEvent' /\ WholeSources'
  BY DEF CaptureInv, KeyGuarded, OneSourcePerEvent, WholeSources, Whole, Committed, Open

(* A committed draft with a key is the first with that key.                *)
LEMMA CommitKeepsRows ==
  ASSUME CaptureInv, NEW h \in Connections, pc[h] = "commit",
         sources' = sources \cup {draft[h]}, Draft(h, None)
  PROVE  KeyGuarded' /\ OneSourcePerEvent' /\ WholeSources'
<1>1. draft[h] # None /\ Whole(draft[h])
  BY DEF CaptureInv, Progress, HasDraft
<1>2. draft' = [draft EXCEPT ![h] = None] /\ DOMAIN draft = Connections
  BY DEF Draft, CaptureInv, TypeOK
<1>3. WholeSources'
  BY <1>1 DEF WholeSources, Whole, CaptureInv
<1>4. OneSourcePerEvent'
  BY <1>1 DEF OneSourcePerEvent, KeyGuarded, Committed, CaptureInv
<1>5. ASSUME NEW g \in Connections, NEW k, draft'[g] # None,
             k = Key[draft'[g].client], k # None
      PROVE  Committed(k)' = {} /\ Open(g, k)' = {}
  <2>1. g # h /\ draft'[g] = draft[g]
    BY <1>2, <1>5
  <2>2. Committed(k) = {} /\ Open(g, k) = {}
    BY <2>1, <1>5 DEF CaptureInv, KeyGuarded
  <2>3. Key[draft[h].client] # k
    BY <1>1, <2>1, <2>2 DEF Open
  <2>4. Committed(k)' = {}
    BY <2>2, <2>3 DEF Committed
  <2>5. Open(g, k)' = {}
    BY <1>2, <2>2 DEF Open
  <2> QED
    BY <2>4, <2>5
<1>6. KeyGuarded'
  BY <1>5 DEF KeyGuarded, Committed, Open
<1> QED
  BY <1>3, <1>4, <1>6

-----------------------------------------------------------------------------
(* Statements of h leave the connections of other requests alone.          *)
LEMMA OthersKeepPlace ==
  ASSUME CaptureInv, NEW h \in Connections,
         \A g \in Connections \ {h} : /\ pc'[g] = pc[g] /\ serving'[g] = serving[g]
                                      /\ draft'[g] = draft[g]
  PROVE  \A g \in Connections \ {h} : Progress(g)'
  BY DEF CaptureInv, Progress, HasDraft, Whole

LEMMA InsertKeepsRows ==
  ASSUME CaptureInv, NEW h \in Connections, InsertSource(h)
  PROVE  KeyGuarded'
<1>1. CASE UNCHANGED draft
  BY <1>1, GuardKept DEF InsertSource, Goto
<1>2. CASE ~UNCHANGED draft
  <2> DEFINE new == Key[serving[h]]
  <2>1. /\ new # None => Committed(new) = {} /\ Open(h, new) = {}
        /\ \E i \in FreshIds : Draft(h, [id |-> i, client |-> serving[h], chunks |-> 0,
                                         extractJob |-> FALSE, audited |-> FALSE])
        /\ sources' = sources
    BY <1>2 DEF InsertSource, Goto
  <2>2. PICK i \in FreshIds :
          draft' = [draft EXCEPT ![h] = [id |-> i, client |-> serving[h], chunks |-> 0,
                                         extractJob |-> FALSE, audited |-> FALSE]]
    BY <2>1 DEF Draft
  <2>3. draft'[h].client = serving[h] /\ \A g \in Connections \ {h} : draft'[g] = draft[g]
    BY <2>2 DEF CaptureInv, TypeOK
  <2>4. ASSUME NEW g \in Connections, NEW k, draft'[g] # None,
               k = Key[draft'[g].client], k # None
        PROVE  Committed(k)' = {} /\ Open(g, k)' = {}
    <3>1. CASE g = h
      <4>1. k = new
        BY <2>3, <2>4, <3>1
      <4> QED
        BY <2>1, <2>3, <2>4, <3>1, <4>1 DEF Committed, Open
    <3>2. CASE g # h
      <4>1. Committed(k) = {} /\ Open(g, k) = {} /\ draft[g] # None /\ k = Key[draft[g].client]
        BY <2>3, <2>4, <3>2 DEF CaptureInv, KeyGuarded
      <4>2. k # new
        BY <2>1, <2>4, <3>2, <4>1 DEF Open
      <4> QED
        BY <2>1, <2>3, <3>2, <4>1, <4>2 DEF Committed, Open
    <3> QED
      BY <3>1, <3>2
  <2> QED
    BY <2>4 DEF KeyGuarded, Committed, Open
<1> QED
  BY <1>1, <1>2

-----------------------------------------------------------------------------
LEMMA CaptureInvInit == Init => CaptureInv
<1> SUFFICES ASSUME Init PROVE CaptureInv
  OBVIOUS
<1>1. TypeOK
  BY CaptureTypeInit
<1>2. \A h \in Connections : Progress(h) /\ Truthful(h)
  BY DEF Init, Progress, HasDraft, Truthful
<1>3. KeyGuarded /\ OneSourcePerEvent /\ WholeSources /\ AnswerIsTrue
  BY DEF Init, KeyGuarded, OneSourcePerEvent, WholeSources, AnswerIsTrue
<1> QED
  BY <1>1, <1>2, <1>3 DEF CaptureInv

LEMMA CaptureInvStep ==
  ASSUME CaptureInv, [Next]_vars
  PROVE  CaptureInv'
<1> DEFINE Places == \A h \in Connections : Progress(h) /\ Truthful(h)
           Rows == KeyGuarded /\ OneSourcePerEvent /\ WholeSources
<1>t. TypeOK'
  BY CaptureTypeStep DEF CaptureInv
<1>1. ASSUME NEW c \in Clients, NEW h \in Connections, Send(c, h)
      PROVE  Places' /\ Rows' /\ AnswerIsTrue'
  <2>1. Progress(h)' /\ Truthful(h)'
    BY <1>1 DEF Send, CaptureInv, TypeOK, Progress, HasDraft, Truthful
  <2>2. \A g \in Connections \ {h} : pc'[g] = pc[g] /\ serving'[g] = serving[g] /\ draft'[g] = draft[g]
    BY <1>1 DEF Send
  <2>3. Places' /\ AnswerIsTrue'
    BY <1>1, <2>1, <2>2, OthersKeepPlace, AnswersLast DEF Send, AnswerIsTrue
  <2> QED
    BY <1>1, <2>3, GuardKept DEF Send
<1>2. ASSUME NEW c \in Clients, GiveUp(c)
      PROVE  Places' /\ Rows' /\ AnswerIsTrue'
  <2>1. Places'
    BY <1>2 DEF GiveUp, CaptureInv, Progress, HasDraft, Whole, Truthful, Committed
  <2>2. AnswerIsTrue'
    BY <1>2 DEF GiveUp, CaptureInv, TypeOK, AnswerIsTrue, Committed
  <2> QED
    BY <1>2, <2>1, <2>2, GuardKept DEF GiveUp
<1>3. ASSUME NEW h \in Connections, InsertSource(h)
      PROVE  Places' /\ Rows' /\ AnswerIsTrue'
  <2>1. /\ UNCHANGED <<answer, serving, sources>>
        /\ \A g \in Connections \ {h} : pc'[g] = pc[g] /\ draft'[g] = draft[g]
    BY <1>3 DEF InsertSource, Goto, Draft, CaptureInv, TypeOK
  <2> DEFINE new(i) == [id |-> i, client |-> serving[h], chunks |-> 0,
                        extractJob |-> FALSE, audited |-> FALSE]
  <2>2. /\ pc' = [pc EXCEPT ![h] = pc'[h]] /\ pc[h] = "source"
        /\ \/ /\ pc'[h] = "conflict" /\ UNCHANGED draft
              /\ Key[serving[h]] # None /\ Committed(Key[serving[h]]) # {}
           \/ pc'[h] = "chunks" /\ \E i \in FreshIds : Draft(h, new(i))
    BY <1>3 DEF InsertSource, Goto, CaptureInv, TypeOK
  <2>8. Truthful(h)'
    BY <2>1, <2>2 DEF Truthful, Committed
  <2>3. ASSUME UNCHANGED draft, pc'[h] = "conflict"
        PROVE  Progress(h)'
    <3>1. draft[h] = None /\ serving[h] \in Clients
      BY <2>2 DEF CaptureInv, Progress, HasDraft
    <3> QED
      BY <2>1, <2>3, <3>1 DEF Progress, HasDraft, Whole
  <2>4. ASSUME pc'[h] = "chunks", \E i \in FreshIds : Draft(h, new(i))
        PROVE  Progress(h)'
    <3>1. PICK i \in FreshIds : draft' = [draft EXCEPT ![h] = new(i)]
      BY <2>4 DEF Draft
    <3>2. draft'[h] = new(i) /\ serving[h] \in Clients /\ i \in Ids
      BY <2>2, <3>1 DEF CaptureInv, TypeOK, Progress, FreshIds
    <3>3. draft'[h] \in Sources
      BY <3>2, ChunksAssumption DEF Sources
    <3>4. draft'[h] # None
      BY <3>3, NoneAssumption
    <3>5. draft'[h].chunks < Chunks /\ ~draft'[h].extractJob /\ draft'[h].client = serving[h]
      BY <3>2, ChunksAssumption
    <3>6. pc'[h] = "chunks" /\ serving' = serving /\ serving[h] \in Clients
      BY <2>1, <2>4, <3>2
    <3> HIDE DEF new
    <3> QED
      BY <3>4, <3>5, <3>6 DEF Progress, HasDraft, Whole
  <2>5. Progress(h)'
    BY <2>2, <2>3, <2>4
  <2>6. Places' /\ AnswerIsTrue'
    BY <2>1, <2>5, <2>8, OthersKeepPlace, AnswersLast DEF AnswerIsTrue
  <2>7. OneSourcePerEvent' /\ WholeSources'
    BY <2>1 DEF CaptureInv, OneSourcePerEvent, WholeSources, Whole
  <2> QED
    BY <1>3, <2>6, <2>7, InsertKeepsRows
<1>4. ASSUME NEW h \in Connections, InsertChunk(h) \/ Schedule(h) \/ Audit(h)
      PROVE  Places' /\ Rows' /\ AnswerIsTrue'
  <2>1. /\ UNCHANGED <<answer, serving, sources>>
        /\ \A g \in Connections \ {h} : pc'[g] = pc[g] /\ draft'[g] = draft[g]
        /\ draft[h] \in Sources /\ draft[h].client = serving[h] /\ Progress(h)
    BY <1>4 DEF InsertChunk, Schedule, Audit, Goto, Draft, CaptureInv, TypeOK, Progress, HasDraft
  <2>2. draft'[h] \in Sources /\ draft'[h].client = draft[h].client /\ Progress(h)'
    <3>1. CASE InsertChunk(h)
      <4>1. /\ draft'[h] = [draft[h] EXCEPT !.chunks = @ + 1]
            /\ pc'[h] = IF draft[h].chunks + 1 < Chunks THEN "chunks"
                        ELSE IF Extracting THEN "extract" ELSE "audit"
            /\ draft[h].chunks < Chunks /\ ~draft[h].extractJob
        BY <2>1, <3>1 DEF InsertChunk, Goto, Draft, CaptureInv, TypeOK, Progress
      <4>2. /\ draft'[h].chunks = draft[h].chunks + 1
            /\ draft'[h].chunks \in 0..Chunks
            /\ draft'[h].extractJob = draft[h].extractJob
            /\ draft'[h].client = draft[h].client
            /\ draft'[h] \in Sources
        BY <2>1, <4>1, ChunksAssumption DEF Sources
      <4>3. /\ pc'[h] = "chunks" => draft'[h].chunks < Chunks
            /\ pc'[h] # "chunks" => draft'[h].chunks = Chunks
        BY <2>1, <4>1, <4>2, ChunksAssumption DEF Sources
      <4>4. /\ pc'[h] \in {"chunks", "extract", "audit"}
            /\ pc'[h] = "extract" => Extracting
            /\ pc'[h] = "audit" => ~Extracting
        BY <4>1, <4>2, <4>3
      <4>5. draft'[h] # None /\ serving[h] \in Clients
        BY <4>2, <2>1, <3>1, NoneAssumption DEF InsertChunk, Progress
      <4>6. Progress(h)'
        BY <2>1, <4>1, <4>2, <4>3, <4>4, <4>5, Zenon DEF Progress, HasDraft
      <4> QED
        BY <4>2, <4>6
    <3>2. CASE Schedule(h)
      BY <2>1, <3>2, NoneAssumption DEF Schedule, Goto, Draft, CaptureInv, TypeOK, Progress, HasDraft, Sources
    <3>3. CASE Audit(h)
      <4>1. /\ draft'[h] = [draft[h] EXCEPT !.audited = TRUE] /\ pc'[h] = "commit"
            /\ draft[h].chunks = Chunks /\ (draft[h].extractJob <=> Extracting)
            /\ serving[h] \in Clients
        BY <2>1, <3>3 DEF Audit, Goto, Draft, CaptureInv, TypeOK, Progress
      <4>2. /\ draft'[h] \in Sources /\ draft'[h].audited /\ draft'[h].client = draft[h].client
            /\ draft'[h].chunks = Chunks /\ draft'[h].extractJob = draft[h].extractJob
        BY <2>1, <4>1 DEF Sources
      <4>3. Whole(draft'[h])
        BY <2>1, <4>1, <4>2, ExtractingAssumption DEF Whole, Sources
      <4>4. draft'[h] # None
        BY <4>2, NoneAssumption
      <4>5. Progress(h)'
        BY <2>1, <4>1, <4>2, <4>3, <4>4 DEF Progress, HasDraft, Whole
      <4> QED
        BY <4>2, <4>5
    <3> QED
      BY <1>4, <3>1, <3>2, <3>3
  <2>3. Truthful(h)'
    BY <2>2, NoneAssumption DEF Progress, HasDraft, Truthful
  <2>4. Places' /\ AnswerIsTrue'
    BY <2>1, <2>2, <2>3, OthersKeepPlace, AnswersLast DEF AnswerIsTrue
  <2>5. draft[h] # None
    BY <2>1, NoneAssumption
  <2> QED
    BY <2>1, <2>2, <2>4, <2>5, GuardKept
<1>5. ASSUME NEW h \in Connections, Commit(h)
      PROVE  Places' /\ Rows' /\ AnswerIsTrue'
  <2>1. /\ UNCHANGED <<answer, serving>> /\ sources' = sources \cup {draft[h]}
        /\ \A g \in Connections \ {h} : pc'[g] = pc[g] /\ draft'[g] = draft[g]
        /\ pc'[h] = "stored" /\ draft'[h] = None /\ draft[h].client = serving[h]
        /\ serving[h] \in Clients
    BY <1>5 DEF Commit, Draft, CaptureInv, TypeOK, Progress, HasDraft
  <2>2. Progress(h)' /\ Truthful(h)'
    BY <2>1 DEF Progress, HasDraft, Truthful
  <2>3. Places' /\ AnswerIsTrue'
    BY <2>1, <2>2, OthersKeepPlace, AnswersLast DEF AnswerIsTrue
  <2> QED
    BY <1>5, <2>3, CommitKeepsRows DEF Commit
<1>6. ASSUME NEW h \in Connections, Answer(h)
      PROVE  Places' /\ Rows' /\ AnswerIsTrue'
  <2>1. /\ UNCHANGED <<draft, sources>>
        /\ \A g \in Connections \ {h} : pc'[g] = pc[g] /\ serving'[g] = serving[g]
        /\ pc'[h] = "idle" /\ draft[h] = None
    BY <1>6 DEF Answer, Release, CaptureInv, TypeOK, Progress, HasDraft
  <2>2. Progress(h)' /\ Truthful(h)'
    BY <2>1 DEF Progress, HasDraft, Truthful
  <2>3. Places'
    BY <2>1, <2>2, OthersKeepPlace, AnswersLast
  <2>4. AnswerIsTrue'
    BY <1>6, <2>1 DEF Answer, CaptureInv, TypeOK, Truthful, AnswerIsTrue, Committed
  <2> QED
    BY <2>1, <2>3, <2>4, GuardKept
<1>7. ASSUME NEW h \in Connections, Drop(h)
      PROVE  Places' /\ Rows' /\ AnswerIsTrue'
  <2>1. /\ sources \subseteq sources'
        /\ \A g \in Connections \ {h} : /\ pc'[g] = pc[g] /\ serving'[g] = serving[g]
                                        /\ draft'[g] = draft[g]
        /\ pc'[h] = "idle" /\ draft'[h] = None
    BY <1>7 DEF Drop, Release, Draft, CaptureInv, TypeOK
  <2>2. Progress(h)' /\ Truthful(h)'
    BY <2>1 DEF Progress, HasDraft, Truthful
  <2>3. Places'
    BY <2>1, <2>2, OthersKeepPlace, AnswersLast
  <2>4. \A c \in Clients : answer'[c] = answer[c] \/ answer'[c] = "failed"
    BY <1>7 DEF Drop, Fails, CaptureInv, TypeOK
  <2>5. AnswerIsTrue'
    BY <2>1, <2>4, AnswersLast DEF AnswerIsTrue
  <2>6. CASE UNCHANGED sources
    BY <2>1, <2>3, <2>5, <2>6, GuardKept
  <2>7. CASE pc[h] = "commit" /\ sources' = sources \cup {draft[h]}
    BY <1>7, <2>3, <2>5, <2>7, CommitKeepsRows DEF Drop
  <2> QED
    BY <1>7, <2>6, <2>7 DEF Drop
<1>8. CASE UNCHANGED vars
  BY <1>8 DEF vars, CaptureInv, TypeOK, Progress, HasDraft, Whole, Truthful, KeyGuarded,
     Committed, Open, OneSourcePerEvent, WholeSources, AnswerIsTrue
<1> QED
  BY <1>t, <1>1, <1>2, <1>3, <1>4, <1>5, <1>6, <1>7, <1>8 DEF Next, Work, CaptureInv

-----------------------------------------------------------------------------
LEMMA CaptureInvariant == Spec => []CaptureInv
<1>1. Init => CaptureInv
  BY CaptureInvInit
<1>2. CaptureInv /\ [Next]_vars => CaptureInv'
  BY CaptureInvStep
<1> QED
  BY <1>1, <1>2, PTL DEF Spec

(* Whatever the number of clients, connections and faults: delivering an   *)
(* event repeatedly never stores it twice under its external_id            *)
(* (Storage::ingest_source) ...                                            *)
THEOREM OneSourceCorrect == Spec => []OneSourcePerEvent
<1>1. CaptureInv => OneSourcePerEvent
  BY DEF CaptureInv
<1> QED
  BY <1>1, CaptureInvariant, PTL

(* ... a source is stored whole, with all its chunks, jobs and its audit    *)
(* record, or not at all (Storage::ingest_source) ...                      *)
THEOREM WholeSourcesCorrect == Spec => []WholeSources
<1>1. CaptureInv => WholeSources
  BY DEF CaptureInv
<1> QED
  BY <1>1, CaptureInvariant, PTL

(* ... and an answer is only given when it is true (the handlers of         *)
(* captures and sources).                                                  *)
THEOREM AnswersCorrect == Spec => []AnswerIsTrue
<1>1. CaptureInv => AnswerIsTrue
  BY DEF CaptureInv
<1> QED
  BY <1>1, CaptureInvariant, PTL

-----------------------------------------------------------------------------
(* Refinement of AtomicIngestion. *)

(* An uncommitted row has an id of its own.                                *)
IdsDiffer ==
  \A h \in Connections : draft[h] # None =>
    /\ \A s \in sources : s.id # draft[h].id
    /\ \A g \in Connections \ {h} : draft[g] # None => draft[g].id # draft[h].id

(* Statements of the transaction on h keep the id of its row.              *)
LEMMA IdsKept ==
  ASSUME IdsDiffer, sources' = sources,
         \A h \in Connections : draft'[h] # None =>
           draft[h] # None /\ draft'[h].id = draft[h].id
  PROVE  IdsDiffer'
  BY DEF IdsDiffer

LEMMA IdsStep ==
  ASSUME CaptureInv, IdsDiffer, [Next]_vars
  PROVE  IdsDiffer'
<1> USE DEF CaptureInv, TypeOK
<1>1. CASE UNCHANGED <<draft, sources>>
  BY <1>1, IdsKept
<1>2. ASSUME NEW h \in Connections, InsertSource(h), ~UNCHANGED draft
      PROVE  IdsDiffer'
  <2>1. PICK i \in FreshIds :
          draft' = [draft EXCEPT ![h] = [id |-> i, client |-> serving[h], chunks |-> 0,
                                         extractJob |-> FALSE, audited |-> FALSE]]
    BY <1>2 DEF InsertSource, Draft
  <2>2. draft'[h].id = i /\ \A g \in Connections \ {h} : draft'[g] = draft[g]
    BY <2>1
  <2>3. sources' = sources
    BY <1>2 DEF InsertSource, Goto
  <2> QED
    BY <2>1, <2>2, <2>3 DEF IdsDiffer, FreshIds
<1>3. ASSUME NEW h \in Connections, InsertChunk(h) \/ Schedule(h) \/ Audit(h)
      PROVE  IdsDiffer'
  <2>1. draft[h] \in Sources /\ draft[h] # None
    BY <1>3, NoneAssumption DEF InsertChunk, Schedule, Audit, Progress, HasDraft
  <2>2. draft'[h].id = draft[h].id /\ \A g \in Connections \ {h} : draft'[g] = draft[g]
    BY <1>3, <2>1 DEF InsertChunk, Schedule, Audit, Draft, Sources
  <2>3. sources' = sources
    BY <1>3 DEF InsertChunk, Schedule, Audit, Goto
  <2> QED
    BY <2>1, <2>2, <2>3, IdsKept
<1>4. ASSUME NEW h \in Connections, Draft(h, None),
             UNCHANGED sources \/ (pc[h] = "commit" /\ sources' = sources \cup {draft[h]})
      PROVE  IdsDiffer'
  <2>1. draft'[h] = None /\ \A g \in Connections \ {h} : draft'[g] = draft[g]
    BY <1>4 DEF Draft
  <2>2. pc[h] = "commit" => draft[h] # None
    BY DEF Progress, HasDraft
  <2> QED
    BY <1>4, <2>1, <2>2 DEF IdsDiffer
<1>5. ASSUME NEW h \in Connections, Commit(h) \/ Drop(h)
      PROVE  IdsDiffer'
  BY <1>4, <1>5 DEF Commit, Drop
<1>6. CASE \/ UNCHANGED vars
           \/ \E c \in Clients, h \in Connections : Send(c, h)
           \/ \E c \in Clients : GiveUp(c)
           \/ \E h \in Connections : Answer(h)
  BY <1>1, <1>6 DEF vars, Send, GiveUp, Answer
<1> QED
  BY <1>1, <1>2, <1>3, <1>5, <1>6 DEF Next, Work, InsertSource, Goto

(* A key is taken, for the clients, when a committed row has it.           *)
LEMMA TakenIsCommitted ==
  ASSUME NEW k
  PROVE  Atomic!Taken(k) <=> k # None /\ Committed(k) # {}
  BY DEF Atomic!Taken, Committed

(* At COMMIT the source of the request appears, whole.                     *)
LEMMA CommitIsInsert ==
  ASSUME CaptureInv, IdsDiffer, NEW h \in Connections, pc[h] = "commit",
         sources' = sources \cup {draft[h]}
  PROVE  Atomic!Insert(serving[h])
<1>1. draft[h] \in Sources /\ draft[h] # None /\ draft[h].client = serving[h] /\ Whole(draft[h])
  BY DEF CaptureInv, TypeOK, Progress, HasDraft
<1>2. draft[h] = [id |-> draft[h].id, client |-> serving[h], chunks |-> Chunks,
                  extractJob |-> Extracting, audited |-> TRUE]
  BY <1>1 DEF Sources, Whole
<1>3. ~Atomic!Taken(Key[serving[h]])
  BY <1>1, TakenIsCommitted DEF CaptureInv, KeyGuarded
<1>4. draft[h].id \in Ids /\ \A s \in sources : s.id # draft[h].id
  BY <1>1 DEF IdsDiffer, Sources
<1> QED
  BY <1>2, <1>3, <1>4 DEF Atomic!Insert

(* What a step of the program counter of h looks like from outside.        *)
LEMMA OutcomeStep ==
  ASSUME TypeOK, NEW h \in Connections, NEW l, pc' = [pc EXCEPT ![h] = l]
  PROVE  Outcome' = [Outcome EXCEPT ![h] = IF l \in Statements THEN "open" ELSE l]
  BY DEF TypeOK, Outcome

(* Every step of ingestion is a step of the atomic one, or invisible.      *)
LEMMA AtomicStep ==
  ASSUME CaptureInv, IdsDiffer, [Next]_vars
  PROVE  [Atomic!Next]_Atomic!vars
<1>0. TypeOK
  BY DEF CaptureInv
<1>1. ASSUME NEW c \in Clients, NEW h \in Connections, Send(c, h)
      PROVE  Atomic!Next
  <2>1. Outcome' = [Outcome EXCEPT ![h] = "open"]
    BY <1>0, <1>1, OutcomeStep DEF Send, Statements
  <2>2. Outcome[h] = "idle"
    BY <1>1 DEF Send, Outcome, Statements
  <2> QED
    BY <1>1, <2>1, <2>2 DEF Send, Atomic!Next, Atomic!Send
<1>2. ASSUME NEW c \in Clients, GiveUp(c)
      PROVE  Atomic!Next
  BY <1>2 DEF GiveUp, Outcome, Atomic!Next, Atomic!GiveUp
<1>3. ASSUME NEW h \in Connections, InsertSource(h)
      PROVE  [Atomic!Next]_Atomic!vars
  <2>1. /\ pc[h] = "source" /\ Outcome[h] = "open"
        /\ UNCHANGED <<answer, conn, serving, sources>>
    BY <1>3 DEF InsertSource, Goto, Outcome, Statements
  <2>2. CASE /\ Key[serving[h]] # None /\ Committed(Key[serving[h]]) # {}
             /\ Goto(h, "conflict")
    <3>1. Outcome' = [Outcome EXCEPT ![h] = "conflict"]
      BY <1>0, <2>2, OutcomeStep DEF Goto, Statements
    <3>2. Atomic!TakeEffect(h)
      BY <2>1, <2>2, <3>1, TakenIsCommitted DEF Atomic!TakeEffect
    <3> QED
      BY <3>2 DEF Atomic!Next
  <2>3. CASE Goto(h, "chunks")
    <3>1. Outcome' = Outcome
      BY <1>0, <2>1, <2>3, OutcomeStep DEF Goto, Outcome, Statements, TypeOK
    <3> QED
      BY <2>1, <3>1 DEF Atomic!vars
  <2> QED
    BY <1>3, <2>2, <2>3 DEF InsertSource
<1>4. ASSUME NEW h \in Connections, InsertChunk(h) \/ Schedule(h) \/ Audit(h)
      PROVE  UNCHANGED Atomic!vars
  <2>1. PICK l \in Statements : Goto(h, l)
    BY <1>4 DEF InsertChunk, Schedule, Audit, Statements
  <2>2. Outcome[h] = "open"
    BY <1>4 DEF InsertChunk, Schedule, Audit, Outcome, Statements
  <2>3. Outcome' = Outcome
    BY <1>0, <2>1, <2>2, OutcomeStep DEF Goto, Outcome
  <2> QED
    BY <2>1, <2>3 DEF Goto, Atomic!vars
<1>5. ASSUME NEW h \in Connections, Commit(h)
      PROVE  Atomic!Next
  <2>1. Outcome[h] = "open" /\ Outcome' = [Outcome EXCEPT ![h] = "stored"]
    BY <1>0, <1>5, OutcomeStep DEF Commit, Outcome, Statements
  <2>2. Atomic!Insert(serving[h])
    BY <1>5, CommitIsInsert DEF Commit
  <2>3. Atomic!TakeEffect(h)
    BY <1>5, <2>1, <2>2 DEF Commit, Atomic!TakeEffect
  <2> QED
    BY <2>3 DEF Atomic!Next
<1>6. ASSUME NEW h \in Connections, Answer(h)
      PROVE  Atomic!Next
  <2>1. Outcome' = [Outcome EXCEPT ![h] = "idle"]
    BY <1>0, <1>6, OutcomeStep DEF Answer, Release, Statements
  <2>2. Outcome[h] = pc[h]
    BY <1>6 DEF Answer, Outcome, Statements
  <2>3. Atomic!Answer(h)
    BY <1>6, <2>1, <2>2 DEF Answer, Release, Atomic!Answer, Atomic!End
  <2> QED
    BY <2>3 DEF Atomic!Next
<1>7. ASSUME NEW h \in Connections, Drop(h)
      PROVE  Atomic!Next
  <2>1. Outcome' = [Outcome EXCEPT ![h] = "idle"]
    BY <1>0, <1>7, OutcomeStep DEF Drop, Release, Statements
  <2>2. Outcome[h] # "idle" /\ (pc[h] = "commit" => Outcome[h] = "open")
    BY <1>7 DEF Drop, Outcome, Statements
  <2>3. Atomic!End(h, "failed")
    BY <1>7, <2>1 DEF Drop, Fails, Release, Atomic!End
  <2>4. UNCHANGED sources \/ (Outcome[h] = "open" /\ Atomic!Insert(serving[h]))
    BY <1>7, <2>2, CommitIsInsert DEF Drop
  <2>5. Atomic!Fail(h)
    BY <2>2, <2>3, <2>4 DEF Atomic!Fail
  <2> QED
    BY <2>5 DEF Atomic!Next
<1>8. CASE UNCHANGED vars
  BY <1>8 DEF vars, Outcome, Atomic!vars
<1> QED
  BY <1>1, <1>2, <1>3, <1>4, <1>5, <1>6, <1>7, <1>8 DEF Next, Work

(* Every request takes effect at most once, at one instant, and its client *)
(* is told no other outcome (Storage::ingest_source).                      *)
THEOREM IngestionIsAtomic == Spec => ImplementsAtomicIngestion
<1>1. Init => Atomic!Init /\ IdsDiffer
  BY DEF Init, Atomic!Init, Outcome, Statements, IdsDiffer
<1>2. CaptureInv /\ IdsDiffer /\ [Next]_vars => IdsDiffer' /\ [Atomic!Next]_Atomic!vars
  BY IdsStep, AtomicStep
<1> QED
  BY <1>1, <1>2, CaptureInvariant, PTL DEF Spec, ImplementsAtomicIngestion, Atomic!Spec

-----------------------------------------------------------------------------
(* The contract is enough: whatever implements AtomicIngestion, by a       *)
(* transaction or otherwise, keeps the three promises.  What a request has *)
(* come to is true from the instant it took effect.                        *)
ContractInv ==
  /\ answer \in [Clients -> {"none", "failed", "stored", "conflict"}]
  /\ serving \in [Connections -> Clients \cup {None}]
  /\ Outcome \in [Connections -> {"idle", "open", "stored", "conflict"}]
  /\ sources \subseteq Sources
  /\ \A h \in Connections :
       /\ Outcome[h] # "idle" => serving[h] \in Clients
       /\ Outcome[h] = "stored" => \E s \in sources : s.client = serving[h]
       /\ Outcome[h] = "conflict" => Atomic!Taken(Key[serving[h]])
  /\ OneSourcePerEvent
  /\ WholeSources
  /\ AnswerIsTrue

(* An insert leaves what was there, and breaks no promise about sources.   *)
LEMMA InsertKeepsPromises ==
  ASSUME ContractInv, NEW c \in Clients, Atomic!Insert(c)
  PROVE  /\ sources \subseteq sources' /\ sources' \subseteq Sources
         /\ \E s \in sources' : s.client = c
         /\ OneSourcePerEvent' /\ WholeSources'
<1>1. PICK i \in Ids : sources' = sources \cup {[id |-> i, client |-> c, chunks |-> Chunks,
                                                extractJob |-> Extracting, audited |-> TRUE]}
  BY DEF Atomic!Insert
<1> DEFINE new == [id |-> i, client |-> c, chunks |-> Chunks,
                   extractJob |-> Extracting, audited |-> TRUE]
<1>2. /\ new \in Sources /\ new.client = c
      /\ new.chunks = Chunks /\ new.extractJob = Extracting /\ new.audited
  BY ChunksAssumption, ExtractingAssumption DEF Sources
<1>3. sources' = sources \cup {new}
  BY <1>1
<1> HIDE DEF new
<1>4. Key[c] # None => \A s \in sources : Key[s.client] # Key[c]
  BY DEF Atomic!Insert, Atomic!Taken
<1>5. OneSourcePerEvent'
  BY <1>2, <1>3, <1>4 DEF ContractInv, OneSourcePerEvent
<1>6. WholeSources'
  BY <1>2, <1>3 DEF ContractInv, WholeSources, Whole
<1> QED
  BY <1>2, <1>3, <1>5, <1>6 DEF ContractInv

(* Sources are never taken away, so what is true of them stays true.       *)
LEMMA TakenStays ==
  ASSUME sources \subseteq sources', NEW k, Atomic!Taken(k)
  PROVE  Atomic!Taken(k)'
  BY DEF Atomic!Taken

LEMMA AnswersStay ==
  ASSUME AnswerIsTrue, sources \subseteq sources', NEW c \in Clients,
         answer'[c] = answer[c] \/ answer'[c] = "failed"
  PROVE  /\ answer'[c] = "stored" => \E s \in sources' : s.client = c
         /\ answer'[c] = "conflict" => Key[c] # None /\ Committed(Key[c])' # {}
  BY DEF AnswerIsTrue, Committed

LEMMA ContractStep ==
  ASSUME ContractInv, [Atomic!Next]_Atomic!vars
  PROVE  ContractInv'
<1> DEFINE Rows == /\ sources \subseteq sources' /\ sources' \subseteq Sources
                   /\ OneSourcePerEvent' /\ WholeSources'
<1>0. UNCHANGED sources => Rows
  BY DEF ContractInv, OneSourcePerEvent, WholeSources, Whole
<1>1. ASSUME NEW c \in Clients, NEW h \in Connections, Atomic!Send(c, h)
      PROVE  ContractInv'
  <2>1. UNCHANGED <<answer, sources>>
    BY <1>1 DEF Atomic!Send
  <2>2. AnswerIsTrue'
    BY <2>1 DEF ContractInv, AnswerIsTrue, Committed
  <2>3. /\ serving' \in [Connections -> Clients \cup {None}]
        /\ Outcome' \in [Connections -> {"idle", "open", "stored", "conflict"}]
        /\ \A g \in Connections : g # h => serving'[g] = serving[g] /\ Outcome'[g] = Outcome[g]
        /\ serving'[h] = c /\ Outcome'[h] = "open"
    BY <1>1 DEF Atomic!Send, ContractInv
  <2> QED
    BY <1>0, <2>1, <2>2, <2>3, TakenStays DEF ContractInv
<1>2. ASSUME NEW c \in Clients, Atomic!GiveUp(c)
      PROVE  ContractInv'
  <2>1. UNCHANGED <<serving, Outcome, sources>>
    BY <1>2 DEF Atomic!GiveUp
  <2>2. /\ answer' \in [Clients -> {"none", "failed", "stored", "conflict"}]
        /\ \A d \in Clients : answer'[d] = answer[d] \/ answer'[d] = "failed"
    BY <1>2 DEF Atomic!GiveUp, ContractInv
  <2>3. AnswerIsTrue'
    BY <2>1, <2>2, AnswersStay DEF ContractInv, AnswerIsTrue
  <2> QED
    BY <1>0, <2>1, <2>2, <2>3, TakenStays DEF ContractInv
<1>3. ASSUME NEW h \in Connections, Atomic!TakeEffect(h)
      PROVE  ContractInv'
  <2>1. serving[h] \in Clients /\ UNCHANGED <<answer, serving>>
    BY <1>3 DEF Atomic!TakeEffect, ContractInv
  <2>2. Rows
    BY <1>0, <1>3, <2>1, InsertKeepsPromises DEF Atomic!TakeEffect
  <2>3. /\ Outcome' \in [Connections -> {"idle", "open", "stored", "conflict"}]
        /\ \A g \in Connections : g # h => Outcome'[g] = Outcome[g]
        /\ Outcome'[h] = "stored" => \E s \in sources' : s.client = serving[h]
        /\ Outcome'[h] = "conflict" => Atomic!Taken(Key[serving[h]])
    BY <1>3, <2>1, InsertKeepsPromises DEF Atomic!TakeEffect, ContractInv
  <2>4. AnswerIsTrue'
    BY <2>1, <2>2, AnswersStay DEF ContractInv, AnswerIsTrue
  <2> QED
    BY <2>1, <2>2, <2>3, <2>4, TakenStays DEF ContractInv
<1>4. ASSUME NEW h \in Connections, Atomic!Answer(h) \/ Atomic!Fail(h)
      PROVE  ContractInv'
  <2>1. PICK c \in Clients : c = serving[h]
    BY <1>4 DEF Atomic!Answer, Atomic!Fail, ContractInv
  <2>2. PICK a : /\ Atomic!End(h, a)
                 /\ a = "failed" \/ (a = Outcome[h] /\ a \in {"stored", "conflict"})
    BY <1>4 DEF Atomic!Answer, Atomic!Fail
  <2>3. Rows
    BY <1>0, <1>4, <2>1, InsertKeepsPromises DEF Atomic!Answer, Atomic!Fail
  <2>4. /\ answer' \in [Clients -> {"none", "failed", "stored", "conflict"}]
        /\ \A d \in Clients : d # c => answer'[d] = answer[d]
        /\ answer'[c] \in {answer[c], a}
    BY <2>1, <2>2 DEF Atomic!End, ContractInv
  <2>5. /\ serving' \in [Connections -> Clients \cup {None}]
        /\ Outcome' \in [Connections -> {"idle", "open", "stored", "conflict"}]
        /\ \A g \in Connections : g # h => serving'[g] = serving[g] /\ Outcome'[g] = Outcome[g]
        /\ Outcome'[h] = "idle"
    BY <2>2 DEF Atomic!End, ContractInv
  <2>6. /\ a = "stored" => \E s \in sources' : s.client = c
        /\ a = "conflict" => Key[c] # None /\ Committed(Key[c])' # {}
    <3>1. Outcome[h] = "stored" => \E s \in sources : s.client = c
      BY <2>1 DEF ContractInv
    <3>2. Outcome[h] = "conflict" => Key[c] # None /\ Committed(Key[c]) # {}
      BY <2>1, TakenIsCommitted DEF ContractInv
    <3> QED
      BY <2>2, <2>3, <3>1, <3>2 DEF Committed
  <2>7. ASSUME NEW d \in Clients
        PROVE  /\ answer'[d] = "stored" => \E s \in sources' : s.client = d
               /\ answer'[d] = "conflict" => Key[d] # None /\ Committed(Key[d])' # {}
    <3>1. CASE answer'[d] = answer[d]
      BY <2>3, <3>1, AnswersStay DEF ContractInv
    <3>2. CASE d = c /\ answer'[d] = a
      BY <2>6, <3>2
    <3> QED
      BY <2>4, <3>1, <3>2
  <2>8. AnswerIsTrue'
    BY <2>7 DEF AnswerIsTrue
  <2> QED
    BY <2>3, <2>4, <2>5, <2>8, TakenStays DEF ContractInv
<1>5. CASE UNCHANGED Atomic!vars
  BY <1>0, <1>5, TakenStays DEF Atomic!vars, ContractInv, AnswerIsTrue, Committed
<1> QED
  BY <1>1, <1>2, <1>3, <1>4, <1>5 DEF Atomic!Next

(* The abstract contract alone keeps one source per event, whole sources   *)
(* and true answers (what clients of ingest_source may count on).          *)
THEOREM ContractKeepsPromises ==
  ImplementsAtomicIngestion => [](OneSourcePerEvent /\ WholeSources /\ AnswerIsTrue)
<1>1. Atomic!Init => ContractInv
  BY DEF Atomic!Init, ContractInv, OneSourcePerEvent, WholeSources, AnswerIsTrue
<1>2. ContractInv /\ [Atomic!Next]_Atomic!vars => ContractInv'
  BY ContractStep
<1>3. ContractInv => OneSourcePerEvent /\ WholeSources /\ AnswerIsTrue
  BY DEF ContractInv
<1> QED
  BY <1>1, <1>2, <1>3, PTL DEF ImplementsAtomicIngestion, Atomic!Spec
=============================================================================
