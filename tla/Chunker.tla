------------------------------ MODULE Chunker ------------------------------
(***************************************************************************)
(* _slice_text (retrieval/chunking.py): cuts a document's text into        *)
(* overlapping chunks.  After " ".join(text.split()) all that matters of a *)
(* text is its length and where its single spaces are; positions count     *)
(* from 0 and a slice [start, end) excludes its end, as in Python.         *)
(***************************************************************************)
EXTENDS Integers

CONSTANTS
  MaxChars,       \* ChunkingConfig.max_chars
  OverlapChars,   \* ChunkingConfig.overlap_chars
  Texts           \* normalized texts

\* The bounds of the config's fields: ge=50 and ge=0, and nothing that relates them.
ASSUME ConfigAssumption == MaxChars \in Nat /\ MaxChars >= 50 /\ OverlapChars \in Nat

\* Spaces are single and lie between words.
ASSUME TextsAssumption ==
  \A t \in Texts :
    /\ t.len \in Nat
    /\ \A s \in t.spaces : s \in Nat /\ 0 < s /\ s < t.len - 1 /\ s + 1 \notin t.spaces

VARIABLES
  text,           \* the text being sliced
  start,          \* where the next slice begins
  segment,        \* the last slice appended to segments, which nothing reads before the end
  done

vars == <<text, start, segment, done>>

Slice == [from: Int, to: Int]
NoSlice == [from |-> -1, to |-> 0]          \* nothing has been appended

TypeOK ==
  /\ text \in Texts
  /\ start \in Nat
  /\ segment \in Slice
  /\ done \in BOOLEAN

Init ==
  /\ text \in Texts
  /\ start = 0
  /\ segment = NoSlice
  /\ done = FALSE

\* A slice without the spaces strip() takes off its ends.
Stripped(from, to) ==
  [from |-> IF from \in text.spaces THEN from + 1 ELSE from,
   to   |-> IF to - 1 \in text.spaces THEN to - 1 ELSE to]

\* Mutant: the overlap is added instead of taken back.
NextStart_SkipsAhead(end) == end + OverlapChars

\* Mutant: the overlap is taken back twice.
NextStart_TwiceTheOverlap(end) ==
  IF end - 2 * OverlapChars > 0 THEN end - 2 * OverlapChars ELSE 0

\* max(0, end - overlap_chars).
NextStart(end) == IF end - OverlapChars > 0 THEN end - OverlapChars ELSE 0

\* A text that fits is one chunk.
KeepWhole ==
  /\ ~done
  /\ text.len <= MaxChars
  /\ segment' = [from |-> 0, to |-> text.len]
  /\ done' = TRUE
  /\ UNCHANGED <<text, start>>

\* Mutant: the loop is not left at the end of the text.
CutRest_NoBreak ==
  /\ ~done
  /\ text.len > MaxChars
  /\ start + MaxChars >= text.len
  /\ segment' = Stripped(start, text.len)
  /\ start' = NextStart(text.len)
  /\ UNCHANGED <<text, done>>

\* The window reaches the end of the text.
CutRest ==
  /\ ~done
  /\ text.len > MaxChars
  /\ start + MaxChars >= text.len
  /\ segment' = Stripped(start, text.len)
  /\ done' = TRUE
  /\ UNCHANGED <<text, start>>

\* Mutant: the overlap is added on top of the window.
Breaks_OverlapOnTop == {s \in text.spaces : start < s /\ s < start + MaxChars + OverlapChars}

\* What rfind(" ", start, end) may find beyond start.
Breaks == {s \in text.spaces : start < s /\ s < start + MaxChars}

\* A window inside the text ends at its last space, or at full length without one.
WindowEnds ==
  IF Breaks = {} THEN {start + MaxChars} ELSE {b \in Breaks : \A s \in Breaks : s <= b}

CutWindow ==
  /\ ~done
  /\ text.len > MaxChars
  /\ start + MaxChars < text.len
  /\ \E end \in WindowEnds :
       /\ segment' = Stripped(start, end)
       /\ start' = NextStart(end)
  /\ UNCHANGED <<text, done>>

Next == KeepWhole \/ CutRest \/ CutWindow

Spec == Init /\ [][Next]_vars

\* The loop runs.
FairSpec == Spec /\ WF_vars(Next)

-----------------------------------------------------------------------------
(* Properties *)

\* Chunks are parts of the text that fit an index row: none is longer than max_chars, and
\* none is empty but that of the empty text, which is one empty chunk (chunking.py:67; the
\* ChunkRecord that is made of it refuses it, types.py:18).
ChunksFit ==
  segment # NoSlice =>
    /\ 0 <= segment.from /\ segment.to <= text.len
    /\ segment.to - segment.from <= MaxChars
    /\ IF text.len = 0 THEN segment.from = segment.to ELSE segment.from < segment.to

\* Nothing of a document is lost: between one chunk and the next only spaces fall out, and
\* the last chunk ends where the text ends.
NothingLost ==
  [][/\ \A p \in segment.to..(segment'.from - 1) : p \in text.spaces
     /\ done' => segment'.to = text.len]_vars

\* Each window begins beyond the one before it; otherwise the same window is cut forever.
StartAdvances == [][~done' => start' > start]_vars

\* Slicing a document ends ("split seeded documents into stable overlapping character
\* chunks", chunking.py:22).
SlicingEnds == <>done
=============================================================================
