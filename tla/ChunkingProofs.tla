--------------------------- MODULE ChunkingProofs ---------------------------
(***************************************************************************)
(* Proofs about Chunking: for every text and every choice of target and    *)
(* overlap, no phrase is lost, no chunk repeats another, and the number of *)
(* windows is bounded by the length of the text.                           *)
(***************************************************************************)
EXTENDS Chunking, SequenceTheorems, TLAPS

(* The last window and the next.  A window that was cut short left no      *)
(* sentence end behind it within its full length, which is what pushes the *)
(* window after it beyond that length.                                     *)
LastWindow ==
  /\ end <= Len(text)
  /\ windows = 0 => start = 0 /\ end = 0 /\ chunks = <<>>
  /\ windows = 0 /\ done => Blank(0, Len(text))
  /\ ~ done => start < Len(text)
  /\ windows > 0 => last < end
  /\ windows > 0 /\ done => end = Len(text)
  /\ windows > 0 /\ ~ done =>
       /\ end < Len(text)
       /\ start = end - overlap
       /\ start > last
       /\ \A i \in end + 1 .. Least(last + target, Len(text)) : ~ EndsSentence(i)

(* PhrasesWhole, as far as the windows have come. *)
PhrasesSoFar ==
  \A i \in 0 .. end - Phrase :
    \/ Blank(i, i + Phrase)
    \/ \E k \in DOMAIN chunks : chunks[k].from <= i /\ i + Phrase <= chunks[k].to

(* Every chunk is a window, none after the last. *)
ChunksSoFar == \A k \in DOMAIN chunks : chunks[k].from <= last /\ chunks[k].to <= end

(* Two windows, half a target. *)
Pace ==
  /\ windows > 0 => ((windows - 1) \div 2) * (Half + 1) <= last
  /\ ~ done => (windows \div 2) * (Half + 1) <= start

-----------------------------------------------------------------------------
LEMMA TextIsSequence ==
  ASSUME TypeOK
  PROVE  text \in Seq(Characters) /\ Len(text) \in Nat
  BY TextsAssumption DEF TypeOK

LEMMA HalfFact ==
  ASSUME TypeOK
  PROVE  /\ Half \in Nat /\ Half >= 1 /\ 2 * Half <= target /\ target <= 2 * Half + 1
         /\ overlap \in Nat /\ overlap <= Half
         /\ Phrase \in Nat /\ Phrase >= 1 /\ Phrase >= overlap /\ Phrase <= overlap + 1
         /\ overlap >= 1 => Phrase = overlap
  BY MinTargetAssumption DEF TypeOK, Half, Phrase, Greatest

(* What one turn of the loop does, from any state the loop can be in.      *)
LEMMA WindowFacts ==
  ASSUME TypeOK, LastWindow, NEW e \in start + 1 .. HardEnd, WindowEnd(e), ~ done
  PROVE  /\ e \in Nat /\ start < e /\ e <= start + target /\ e <= Len(text)
         /\ windows > 0 => e >= last + target + 1 \/ e = Len(text)
         /\ e < Len(text) => /\ e > start + Half
                             /\ NextStart(e) = e - overlap
                             /\ NextStart(e) > start
                             /\ NextStart(e) < Len(text)
                             /\ \A i \in e + 1 .. Least(start + target, Len(text)) : ~ EndsSentence(i)
<1>1. /\ HardEnd \in Nat /\ HardEnd <= Len(text) /\ HardEnd <= start + target
      /\ HardEnd < Len(text) => HardEnd = start + target
  BY TextIsSequence DEF HardEnd, Least, TypeOK
<1>2. e \in Nat /\ start < e /\ e <= start + target /\ e <= Len(text)
  BY <1>1, TextIsSequence DEF TypeOK
<1>3. e < Len(text) => e > start + Half /\ HardEnd < Len(text)
  BY <1>1, <1>2, HalfFact, TextIsSequence DEF WindowEnd, TypeOK
<1>4. e < Len(text) => /\ NextStart(e) = e - overlap
                       /\ NextStart(e) > start
                       /\ NextStart(e) < Len(text)
  BY <1>2, <1>3, HalfFact, TextIsSequence DEF NextStart, Greatest, TypeOK
<1>5. ASSUME e < Len(text)
      PROVE  \A i \in e + 1 .. Least(start + target, Len(text)) : ~ EndsSentence(i)
  <2>1. Least(start + target, Len(text)) = HardEnd
    BY DEF HardEnd
  <2> QED
    BY <2>1, <1>5, <1>1, <1>2, <1>3 DEF WindowEnd, TypeOK
<1>6. ASSUME windows > 0, e # Len(text)
      PROVE  e >= last + target + 1
  <2>1. /\ start >= end - Half /\ start > last /\ end \in Nat
        /\ HardEnd = start + target /\ HardEnd < Len(text)
        /\ Least(last + target, Len(text)) = last + target
    BY <1>1, <1>2, <1>3, <1>6, HalfFact, TextIsSequence DEF LastWindow, Least, TypeOK
  <2>2. CASE EndsSentence(e)
    <3>1. ~ (e \in end + 1 .. last + target)
      BY <2>1, <2>2, <1>6 DEF LastWindow
    <3> QED
      BY <3>1, <2>1, <1>2, <1>3, <1>6, HalfFact, TextIsSequence DEF TypeOK
  <2>3. CASE ~ EndsSentence(e)
    BY <2>1, <2>3 DEF WindowEnd, TypeOK
  <2> QED
    BY <2>2, <2>3
<1> QED
  BY <1>2, <1>3, <1>4, <1>5, <1>6

-----------------------------------------------------------------------------
LEMMA InitFacts ==
  Init => TypeOK /\ LastWindow /\ PhrasesSoFar /\ ChunksSoFar /\ Pace /\ NoChunkInAnother
<1> SUFFICES ASSUME Init
             PROVE  TypeOK /\ LastWindow /\ PhrasesSoFar /\ ChunksSoFar /\ Pace /\ NoChunkInAnother
  OBVIOUS
<1>1. TypeOK
  <2>1. PICK tc \in TargetChars, oc \in OverlapChars :
          target = Greatest(tc, MinTarget) /\ overlap = Clamped(oc, target)
    BY DEF Init
  <2>2. tc \in Nat /\ oc \in Nat /\ target \in Nat /\ target >= MinTarget
    BY <2>1, ParametersAssumption, MinTargetAssumption DEF Greatest
  <2>3. overlap \in 0 .. Half
    BY <2>1, <2>2 DEF Clamped, Least, Half
  <2>4. done \in BOOLEAN
    BY DEF Init, Blank
  <2> QED
    BY <2>2, <2>3, <2>4 DEF Init, TypeOK
<1>2. LastWindow
  <2>1. Len(text) = 0 => Blank(0, Len(text))
    BY TextIsSequence, <1>1 DEF Blank
  <2> QED
    BY <2>1, TextIsSequence, <1>1 DEF Init, LastWindow
<1>3. PhrasesSoFar
  BY HalfFact, <1>1 DEF Init, PhrasesSoFar
<1>4. Pace
  BY HalfFact, <1>1 DEF Init, Pace
<1> QED
  BY <1>1, <1>2, <1>3, <1>4 DEF Init, ChunksSoFar, NoChunkInAnother

(* One window keeps them all. *)
LEMMA WindowStep ==
  ASSUME TypeOK, LastWindow, PhrasesSoFar, ChunksSoFar, Pace, NoChunkInAnother, Window
  PROVE  TypeOK' /\ LastWindow' /\ PhrasesSoFar' /\ ChunksSoFar' /\ Pace' /\ NoChunkInAnother'
<1>0. PICK e \in start + 1 .. HardEnd : CutAt(e)
  BY Zenon DEF Window
<1>1. /\ WindowEnd(e)
      /\ chunks' = IF Blank(start, e) THEN chunks
                   ELSE Append(chunks, [from |-> start, to |-> e])
      /\ done' = (e >= Len(text) \/ NextStart(e) >= Len(text))
      /\ start' = IF done' THEN start ELSE NextStart(e)
      /\ last' = start
      /\ end' = e
  BY <1>0, Zenon DEF CutAt
<1>2. /\ ~ done /\ windows' = windows + 1
      /\ text' = text /\ target' = target /\ overlap' = overlap
      /\ Half' = Half /\ Phrase' = Phrase
  BY <1>0 DEF Window, CutAt, parameters, Half, Phrase
<1>3. /\ e \in Nat /\ start < e /\ e <= start + target /\ e <= Len(text)
      /\ windows > 0 => e >= last + target + 1 \/ e = Len(text)
      /\ e < Len(text) => /\ e > start + Half
                          /\ NextStart(e) = e - overlap
                          /\ NextStart(e) > start
                          /\ NextStart(e) < Len(text)
                          /\ \A i \in e + 1 .. Least(start + target, Len(text)) : ~ EndsSentence(i)
  BY <1>1, <1>2, WindowFacts
<1>4. /\ Len(text) \in Nat /\ start \in Nat /\ end \in Nat /\ last \in Nat
      /\ windows \in Nat /\ target \in Nat
  BY TextIsSequence DEF TypeOK
<1>5. /\ done' <=> e = Len(text)
      /\ ~ done' => start' = e - overlap
  <2>1. CASE e = Len(text)
    <3>0. e >= Len(text)
      BY <2>1, <1>4
    <3>1. done'
      BY <3>0, <1>1, Zenon
    <3> QED
      BY <2>1, <3>1
  <2>2. CASE e # Len(text)
    <3>1. e < Len(text) /\ NextStart(e) = e - overlap /\ ~ (NextStart(e) >= Len(text))
      BY <2>2, <1>3, <1>4, HalfFact
    <3>2. ~ (e >= Len(text))
      BY <2>2, <1>3, <1>4
    <3>3. ~ done'
      BY <3>1, <3>2, <1>1, Zenon
    <3> QED
      BY <2>2, <3>1, <3>3, <1>1
  <2> QED
    BY <2>1, <2>2
<1>6. /\ chunks \in Seq([from : Nat, to : Nat])
      /\ [from |-> start, to |-> e] \in [from : Nat, to : Nat]
      /\ chunks' \in Seq([from : Nat, to : Nat])
  <2>1. /\ chunks \in Seq([from : Nat, to : Nat])
        /\ [from |-> start, to |-> e] \in [from : Nat, to : Nat]
    BY <1>3, <1>4 DEF TypeOK
  <2>2. chunks' = chunks \/ chunks' = Append(chunks, [from |-> start, to |-> e])
    BY <1>1, Zenon
  <2>3. \A r \in [from : Nat, to : Nat] : Append(chunks, r) \in Seq([from : Nat, to : Nat])
    BY <2>1
  <2> QED
    BY <2>1, <2>2, <2>3, Zenon
<1>17. \A k \in DOMAIN chunks : chunks[k] \in [from : Nat, to : Nat]
  <2>1. DOMAIN chunks = 1 .. Len(chunks)
    BY <1>6
  <2> QED
    BY <2>1, <1>6, ElementOfSeq
<1>7. TypeOK'
  BY <1>1, <1>2, <1>3, <1>4, <1>5, <1>6, HalfFact DEF TypeOK
<1>8. LastWindow'
  <2>1. ~ done' => \A i \in e + 1 .. Least(start + target, Len(text)) : ~ EndsSentence(i)'
    BY <1>2, <1>3, <1>4, <1>5 DEF EndsSentence
  <2> QED
    BY <2>1, <1>1, <1>2, <1>3, <1>4, <1>5, HalfFact DEF LastWindow
<1>9. \A k \in DOMAIN chunks : k \in DOMAIN chunks' /\ chunks'[k] = chunks[k]
  BY <1>1, <1>6
<1>10. \A k \in DOMAIN chunks' : k \notin DOMAIN chunks =>
          /\ chunks'[k].from = start /\ chunks'[k].to = e
          /\ \A j \in DOMAIN chunks : j < k
  BY <1>1, <1>6
<1>11. windows > 0 => e > end /\ start > last
  BY <1>2, <1>3, <1>4, HalfFact DEF LastWindow
<1>12. windows = 0 => DOMAIN chunks = {} /\ end = 0 /\ start = 0
  BY DEF LastWindow
<1>13. PhrasesSoFar'
  <2> SUFFICES ASSUME NEW i \in 0 .. e - Phrase
               PROVE  \/ Blank(i, i + Phrase)
                      \/ \E k \in DOMAIN chunks' :
                            chunks'[k].from <= i /\ i + Phrase <= chunks'[k].to
    <3>1. \A i \in 0 .. e - Phrase : Blank(i, i + Phrase)' <=> Blank(i, i + Phrase)
      BY <1>2 DEF Blank
    <3> QED
      BY <3>1, <1>1, <1>2 DEF PhrasesSoFar
  <2>1. CASE i < start
    <3>1. i \in 0 .. end - Phrase
      BY <2>1, <1>2, <1>4, <1>12, HalfFact DEF LastWindow
    <3> QED
      BY <3>1, <1>9 DEF PhrasesSoFar
  <2>2. CASE i >= start /\ Blank(start, e)
    <3>1. \A j \in i + 1 .. i + Phrase : j \in start + 1 .. e
      BY <2>2, <1>3, <1>4, HalfFact
    <3> QED
      BY <3>1, <2>2 DEF Blank
  <2>3. CASE i >= start /\ ~ Blank(start, e)
    <3>1. /\ Len(chunks) + 1 \in DOMAIN chunks'
          /\ chunks'[Len(chunks) + 1] = [from |-> start, to |-> e]
      BY <2>3, <1>1 DEF TypeOK
    <3>2. i + Phrase <= e
      BY <1>3, HalfFact
    <3> QED
      BY <3>1, <3>2, <2>3
  <2> QED
    BY <2>1, <2>2, <2>3, <1>4
<1>14. ChunksSoFar'
  <2> SUFFICES ASSUME NEW k \in DOMAIN chunks'
               PROVE  chunks'[k].from <= start /\ chunks'[k].to <= e
    BY <1>1 DEF ChunksSoFar
  <2>1. CASE k \in DOMAIN chunks
    <3>1. chunks[k] \in [from : Nat, to : Nat] /\ chunks[k].from <= last /\ chunks[k].to <= end
      BY <2>1, <1>17, Zenon DEF ChunksSoFar
    <3>2. windows > 0
      BY <2>1, <1>4, <1>12
    <3> QED
      BY <2>1, <3>1, <3>2, <1>3, <1>4, <1>9, <1>11
  <2> QED
    BY <2>1, <1>3, <1>4, <1>10
<1>15. NoChunkInAnother'
  <2> SUFFICES ASSUME NEW j \in DOMAIN chunks', NEW k \in DOMAIN chunks', j < k
               PROVE  chunks'[j].from < chunks'[k].from /\ chunks'[j].to < chunks'[k].to
    BY DEF NoChunkInAnother
  <2>0. j \in Nat /\ k \in Nat
    BY <1>6
  <2>1. CASE k \in DOMAIN chunks
    <3>1. j \in DOMAIN chunks
      BY <2>1, <2>0, <1>6
    <3> QED
      BY <2>1, <3>1, <1>9 DEF NoChunkInAnother
  <2>2. CASE k \notin DOMAIN chunks
    <3>1. j \in DOMAIN chunks
      BY <2>2, <2>0, <1>1, <1>6
    <3>2. chunks[j] \in [from : Nat, to : Nat] /\ chunks[j].from <= last /\ chunks[j].to <= end
      BY <3>1, <1>17, Zenon DEF ChunksSoFar
    <3>3. windows > 0
      BY <3>1, <1>4, <1>12
    <3> QED
      BY <2>2, <3>1, <3>2, <3>3, <1>3, <1>4, <1>9, <1>10, <1>11
  <2> QED
    BY <2>1, <2>2
<1>16. Pace'
  <2>1. (windows \div 2) * (Half + 1) <= start
    BY <1>2 DEF Pace
  <2>2. ASSUME ~ done'
        PROVE  ((windows + 1) \div 2) * (Half + 1) <= start'
    <3>1. CASE windows % 2 = 0
      <4>1. (windows + 1) \div 2 = windows \div 2
        BY <3>1, <1>4
      <4>2. start' > start
        BY <2>2, <1>1, <1>3, <1>4, <1>5
      <4>3. start' \in Nat /\ (windows \div 2) * (Half + 1) \in Int
        BY <1>1, <1>4, <1>5, <1>3, HalfFact, <2>2
      <4> QED
        BY <2>1, <4>1, <4>2, <4>3, <1>4
    <3>2. CASE windows % 2 = 1
      <4>1. /\ (windows + 1) \div 2 = ((windows - 1) \div 2) + 1
            /\ (windows - 1) \div 2 \in Nat
            /\ windows > 0
        BY <3>2, <1>4
      <4>2. start' >= last + Half + 1
        BY <2>2, <4>1, <1>3, <1>4, <1>5, HalfFact
      <4> DEFINE a == (windows - 1) \div 2
      <4>3. a * (Half + 1) <= last
        BY <4>1 DEF Pace
      <4> HIDE DEF a
      <4>4. a \in Nat
        BY <4>1 DEF a
      <4>5. (a + 1) * (Half + 1) = a * (Half + 1) + (Half + 1) /\ a * (Half + 1) \in Nat
        BY <4>4, HalfFact
      <4>6. (a + 1) * (Half + 1) <= start'
        <5>1. start' \in Int
          BY <1>1, <1>3, <1>4, <1>5, HalfFact, <2>2
        <5> HIDE DEF a
        <5> QED
          BY <4>2, <4>3, <4>5, <5>1, <1>4, HalfFact
      <4> QED
        BY <4>1, <4>6 DEF a
    <3> QED
      BY <3>1, <3>2, <1>4
  <2> QED
    BY <2>1, <2>2, <1>1, <1>2, <1>4 DEF Pace
<1> QED
  BY <1>7, <1>8, <1>13, <1>14, <1>15, <1>16

LoopInv == TypeOK /\ LastWindow /\ PhrasesSoFar /\ ChunksSoFar /\ Pace /\ NoChunkInAnother

(* The loop invariant of chunk_text.                                       *)
THEOREM ChunkingInvariant == Spec => []LoopInv
<1>1. Init => LoopInv
  BY InitFacts DEF LoopInv
<1>2. LoopInv /\ [Next]_vars => LoopInv'
  <2> SUFFICES ASSUME LoopInv, [Next]_vars
               PROVE  LoopInv'
    OBVIOUS
  <2>1. CASE Window
    BY <2>1, WindowStep DEF LoopInv
  <2>2. CASE UNCHANGED vars
    BY <2>2 DEF vars, parameters, LoopInv, TypeOK, LastWindow, PhrasesSoFar, ChunksSoFar,
                Pace, NoChunkInAnother, Half, Phrase, Blank, EndsSentence, Least, Greatest
  <2> QED
    BY <2>1, <2>2 DEF Next, Return
<1> QED
  BY <1>1, <1>2, PTL DEF Spec

(* PhrasesWhole: for every text, target and overlap, a phrase no longer    *)
(* than the overlap stands whole in a chunk (chunk_text).                  *)
THEOREM NoPhraseLost == Spec => []PhrasesWhole
<1>1. LoopInv => PhrasesWhole
  <2> SUFFICES ASSUME LoopInv,
                      NEW i \in 0 .. (IF done THEN Len(text) ELSE end) - Phrase
               PROVE  \/ Blank(i, i + Phrase)
                      \/ \E k \in DOMAIN chunks :
                            chunks[k].from <= i /\ i + Phrase <= chunks[k].to
    BY DEF PhrasesWhole
  <2>1. CASE windows = 0 /\ done
    <3>1. \A j \in i + 1 .. i + Phrase : j \in 1 .. Len(text)
      BY <2>1, HalfFact, TextIsSequence DEF LoopInv
    <3> QED
      BY <2>1, <3>1 DEF LoopInv, LastWindow, Blank
  <2>2. CASE ~ (windows = 0 /\ done)
    BY <2>2 DEF LoopInv, LastWindow, PhrasesSoFar, TypeOK
  <2> QED
    BY <2>1, <2>2
<1> QED
  BY <1>1, ChunkingInvariant, PTL

(* FewWindows: the number of windows, and so of chunks and jobs, is bounded *)
(* by the length of the text, wherever its sentences end (chunk_text).     *)
THEOREM LoopDoesNotCrawl == Spec => []FewWindows
<1>1. LoopInv => FewWindows
  <2> SUFFICES ASSUME LoopInv, windows > 0
               PROVE  ((windows - 1) \div 2) * (Half + 1) < Len(text)
    BY DEF FewWindows
  <2>1. (windows - 1) \div 2 \in Nat /\ ((windows - 1) \div 2) * (Half + 1) \in Int
    BY HalfFact DEF LoopInv, TypeOK
  <2> QED
    BY <2>1, TextIsSequence DEF LoopInv, Pace, LastWindow, TypeOK
<1> QED
  BY <1>1, ChunkingInvariant, PTL

(* NoChunkInAnother: chunks start and end in the order of their positions, *)
(* so none repeats a part of another and nothing else (chunk_text).        *)
THEOREM ChunksAdvance == Spec => []NoChunkInAnother
<1>1. LoopInv => NoChunkInAnother
  BY DEF LoopInv
<1> QED
  BY <1>1, ChunkingInvariant, PTL
=============================================================================
