------------------------------ MODULE Chunking ------------------------------
(***************************************************************************)
(* chunk_text: the text of a source is cut into overlapping windows, and   *)
(* each window that is not blank becomes a chunk, which one embed_chunk    *)
(* job embeds.  A step is one turn of the loop.                            *)
(*                                                                         *)
(* Positions count characters from 0, as in the code: a window from s to e *)
(* holds text[s + 1] .. text[e].  A character is told by what the code     *)
(* asks of it: whether it ends a sentence and whether trim removes it.     *)
(***************************************************************************)
EXTENDS Integers, Sequences

CONSTANTS
  Texts,          \* texts a source may have
  TargetChars,    \* values of the parameter target_chars
  OverlapChars,   \* values of the parameter overlap_chars
  MinTarget       \* the least target; 128 in the code

Characters == {"letter", "blank", "newline", "dot"}

ASSUME TextsAssumption == Texts \subseteq Seq(Characters)
ASSUME ParametersAssumption == TargetChars \subseteq Nat /\ OverlapChars \subseteq Nat
ASSUME MinTargetAssumption == MinTarget \in Nat \ {0, 1}

VARIABLES
  text, target, overlap,
  start,          \* where the next window starts; the last one once done
  chunks,         \* the chunks so far, by position
  done,           \* the loop has ended
  last, end,      \* start and end of the last window
  windows         \* how many there were

parameters == <<text, target, overlap>>
vars == <<parameters, start, chunks, done, last, end, windows>>

Least(a, b) == IF a < b THEN a ELSE b
Greatest(a, b) == IF a < b THEN b ELSE a

Half == target \div 2
EndsSentence(i) == text[i] \in {"newline", "dot"}
Blank(from, to) == \A i \in from + 1 .. to : text[i] \in {"blank", "newline"}

(* Seeded fault: an overlap as long as the target, or longer. *)
AnyOverlap(oc, tc) == oc

(* overlap_chars.min(target / 2) *)
Clamped(oc, tc) == Least(oc, tc \div 2)

Init == \E tc \in TargetChars, oc \in OverlapChars :
          /\ text \in Texts
          /\ target = Greatest(tc, MinTarget)
          /\ overlap = Clamped(oc, target)
          /\ start = 0
          /\ chunks = <<>>
          /\ done = Blank(0, Len(text))
          /\ last = 0 /\ end = 0 /\ windows = 0

HardEnd == Least(start + target, Len(text))

(* Seeded fault: the first sentence end of the second half is taken.       *)
FirstSentenceEnd(e) ==
  \/ /\ HardEnd < Len(text)
     /\ e > start + Half /\ EndsSentence(e)
     /\ \A i \in start + Half + 1 .. e - 1 : ~ EndsSentence(i)
  \/ /\ e = HardEnd
     /\ HardEnd < Len(text) =>
          \A i \in start + Half + 1 .. HardEnd : ~ EndsSentence(i)

(* The window from start ends at e: after the last sentence end in its     *)
(* second half, or at full length when there is none or the text ends.     *)
WindowEnd(e) ==
  \/ /\ HardEnd < Len(text)
     /\ e > start + Half /\ EndsSentence(e)
     /\ \A i \in e + 1 .. HardEnd : ~ EndsSentence(i)
  \/ /\ e = HardEnd
     /\ HardEnd < Len(text) =>
          \A i \in start + Half + 1 .. HardEnd : ~ EndsSentence(i)

(* Seeded fault: the step does not know that a window was cut short.       *)
FixedStride(e) == start + target - overlap

(* Where the window after one that ends at e starts. *)
NextStart(e) == Greatest(e - overlap, start + 1)

(* The window from start to e, and what comes after it. *)
CutAt(e) ==
  /\ WindowEnd(e)
  /\ chunks' = IF Blank(start, e) THEN chunks
               ELSE Append(chunks, [from |-> start, to |-> e])
  /\ done' = (e >= Len(text) \/ NextStart(e) >= Len(text))
  /\ start' = IF done' THEN start ELSE NextStart(e)
  /\ last' = start
  /\ end' = e
  /\ windows' = windows + 1
  /\ UNCHANGED parameters

Window == ~ done /\ \E e \in start + 1 .. HardEnd : CutAt(e)

Return == done /\ UNCHANGED vars

Next == Window \/ Return

Spec == Init /\ [][Next]_vars

-----------------------------------------------------------------------------
TypeOK == /\ text \in Texts
          /\ target \in Nat /\ target >= MinTarget
          /\ overlap \in 0 .. Half
          /\ start \in Nat /\ last \in Nat /\ end \in Nat /\ windows \in Nat
          /\ chunks \in Seq([from : Nat, to : Nat])
          /\ done \in BOOLEAN

(* No phrase is lost at a boundary: whatever stands in the text read so    *)
(* far, in all of it at the end, up to the length of the overlap, stands   *)
(* unbroken in some chunk, unless it is blank.  In particular every        *)
(* character that is not blank is in a chunk (chunk_text with the cut at a *)
(* sentence end and the step back).                                        *)
Phrase == Greatest(overlap, 1)
PhrasesWhole ==
  \A i \in 0 .. (IF done THEN Len(text) ELSE end) - Phrase :
    \/ Blank(i, i + Phrase)
    \/ \E k \in DOMAIN chunks : chunks[k].from <= i /\ i + Phrase <= chunks[k].to

(* The loop does not crawl: every two windows move on by more than half a  *)
(* target, so a text never has more chunks, and embedding jobs, than       *)
(* its length allows, wherever its sentences end.                          *)
FewWindows == windows > 0 => ((windows - 1) \div 2) * (Half + 1) < Len(text)

(* No chunk repeats another: each starts and ends later than those before. *)
NoChunkInAnother ==
  \A j, k \in DOMAIN chunks :
    j < k => /\ chunks[j].from < chunks[k].from
             /\ chunks[j].to < chunks[k].to
=============================================================================
