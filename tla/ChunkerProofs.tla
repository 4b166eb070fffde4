--------------------------- MODULE ChunkerProofs ---------------------------
(***************************************************************************)
(* Proofs about Chunker, for every configuration the config class accepts  *)
(* and every set of normalized texts.                                      *)
(***************************************************************************)
EXTENDS Chunker, TLAPS

\* start stays inside the text, and only spaces lie between the last slice and it.
Progress ==
  /\ text \in Texts
  /\ start \in Nat
  /\ text.len > MaxChars => start < text.len
  /\ text.len <= MaxChars => start = 0
  /\ segment \in Slice
  /\ segment.to >= start - 1
  /\ \A p \in segment.to..(start - 1) : p \in text.spaces
  /\ done \in BOOLEAN

ChunkerInv == Progress /\ ChunksFit

\* Cutting at a space, or at full length when there is none.
LEMMA WindowEndsBounds ==
  ASSUME Progress, text.len > MaxChars, start + MaxChars < text.len, NEW end \in WindowEnds
  PROVE  /\ end \in Nat
         /\ start < end /\ end <= start + MaxChars
         /\ end \in text.spaces \/ end = start + MaxChars
BY ConfigAssumption, TextsAssumption DEF Progress, WindowEnds, Breaks

\* What strip() leaves of a window: a slice that fits and loses spaces only.
LEMMA StrippedSlice ==
  ASSUME Progress, NEW end \in Nat, start < end, end <= start + MaxChars, end <= text.len,
         end \in text.spaces \/ end = start + MaxChars \/ end = text.len
  PROVE  LET s == Stripped(start, end) IN
           /\ s \in Slice
           /\ 0 <= s.from /\ s.from < s.to /\ s.to <= end /\ s.to - s.from <= MaxChars
           /\ s.from = start \/ (s.from = start + 1 /\ start \in text.spaces)
           /\ s.to = end \/ (s.to = end - 1 /\ end - 1 \in text.spaces)
           /\ end = text.len => s.to = text.len
<1>1. /\ text.len \in Nat
      /\ \A s \in text.spaces : s \in Nat /\ 0 < s /\ s < text.len - 1 /\ s + 1 \notin text.spaces
  BY TextsAssumption DEF Progress
<1> QED
  BY <1>1, ConfigAssumption DEF Progress, Stripped, Slice

\* The invariant holds before the first slice.
LEMMA InitChunkerInv == Init => ChunkerInv
<1> SUFFICES ASSUME Init PROVE ChunkerInv
  OBVIOUS
<1>1. text \in Texts /\ start = 0 /\ segment = NoSlice /\ done = FALSE
  BY DEF Init
<1>2. text.len \in Nat /\ MaxChars \in Nat
  BY <1>1, ConfigAssumption, TextsAssumption
<1>3. segment \in Slice /\ segment.to = 0
  BY <1>1 DEF Slice, NoSlice
<1>4. \A p \in segment.to..(start - 1) : p \in text.spaces
  BY <1>1, <1>3
<1>5. /\ text.len > MaxChars => start < text.len
      /\ start \in Nat
      /\ segment.to >= start - 1
  BY <1>1, <1>2, <1>3, ConfigAssumption
<1>6. done \in BOOLEAN
  BY <1>1
<1> QED
  BY <1>1, <1>3, <1>4, <1>5, <1>6 DEF ChunkerInv, Progress, ChunksFit

\* Between the end of a slice and the next window there are only spaces.
LEMMA GapIsSpace ==
  ASSUME NEW S, NEW end \in Nat, NEW from \in Int, NEW next \in Nat, next <= end,
         from = end \/ (from = end - 1 /\ end - 1 \in S)
  PROVE  \A p \in from..(next - 1) : p \in S
<1> TAKE p \in from..(next - 1)
<1>1. p = end - 1 /\ from = end - 1
  OBVIOUS
<1> QED
  BY <1>1

\* What one step of the loop does, for an invariant and for two action properties.
LEMMA SliceStep ==
  ASSUME ChunkerInv, Next
  PROVE  /\ ChunkerInv'
         /\ \A p \in segment.to..(segment'.from - 1) : p \in text.spaces
         /\ done' => segment'.to = text.len
<1> USE DEF ChunkerInv
<1>1. text.len \in Nat
  BY TextsAssumption DEF Progress
<1>2. CASE KeepWhole
  BY <1>1, <1>2, ConfigAssumption DEF KeepWhole, Progress, ChunksFit, Slice, NoSlice
<1>3. CASE CutRest
  <2>1. /\ start < text.len /\ text.len <= start + MaxChars /\ text' = text
        /\ segment' = Stripped(start, text.len)
        /\ start' = start /\ done' = TRUE
    BY <1>3 DEF CutRest, Progress
  <2>2. /\ segment' \in Slice
        /\ 0 <= segment'.from /\ segment'.from < segment'.to /\ segment'.to <= text.len
        /\ segment'.to - segment'.from <= MaxChars
        /\ segment'.from = start \/ (segment'.from = start + 1 /\ start \in text.spaces)
        /\ segment'.to = text.len
    BY <1>1, <2>1, StrippedSlice
  <2> QED
    BY <1>1, <2>1, <2>2 DEF Progress, ChunksFit, Slice
<1>4. CASE CutWindow
  <2>1. PICK end \in WindowEnds :
          segment' = Stripped(start, end) /\ start' = NextStart(end)
    BY <1>4 DEF CutWindow
  <2>2. /\ text.len > MaxChars /\ start + MaxChars < text.len
        /\ text' = text /\ done' = done /\ ~done
    BY <1>4 DEF CutWindow
  <2>3. /\ end \in Nat /\ start < end /\ end <= start + MaxChars
        /\ end \in text.spaces \/ end = start + MaxChars
    BY <2>1, <2>2, WindowEndsBounds
  <2>4. /\ segment' \in Slice
        /\ 0 <= segment'.from /\ segment'.from < segment'.to /\ segment'.to <= text.len
        /\ segment'.to - segment'.from <= MaxChars
        /\ segment'.from = start \/ (segment'.from = start + 1 /\ start \in text.spaces)
        /\ segment'.to = end \/ (segment'.to = end - 1 /\ end - 1 \in text.spaces)
    BY <1>1, <2>1, <2>2, <2>3, StrippedSlice, ConfigAssumption DEF Progress
  <2>5. start' \in Nat /\ start' <= end
    BY <2>1, <2>3, ConfigAssumption DEF NextStart
  <2>6. \A p \in segment'.to..(start' - 1) : p \in text.spaces
    <3>1. segment'.to \in Int
      BY <2>4 DEF Slice
    <3> QED
      BY <2>3, <2>4, <2>5, <3>1, GapIsSpace
  <2>7. ChunkerInv'
    BY <1>1, <2>2, <2>3, <2>4, <2>5, <2>6, ConfigAssumption DEF Progress, ChunksFit, Slice
  <2>8. ASSUME NEW p \in segment.to..(segment'.from - 1) PROVE p \in text.spaces
    <3>1. segment.to \in Int /\ start \in Nat /\ segment'.from \in Int
      BY <2>4 DEF Progress, Slice
    <3>2. p \in Int /\ segment.to <= p /\ p <= segment'.from - 1
      BY <3>1
    <3>3. p \in segment.to..(start - 1) \/ (p = start /\ start \in text.spaces)
      BY <2>4, <3>1, <3>2
    <3> QED
      BY <3>3 DEF Progress
  <2> QED
    BY <2>2, <2>7, <2>8
<1> QED
  BY <1>2, <1>3, <1>4 DEF Next

\* The inductive invariant holds while _slice_text runs.
THEOREM ChunkerInvariant == Spec => []ChunkerInv
<1>1. ChunkerInv /\ UNCHANGED vars => ChunkerInv'
  BY DEF ChunkerInv, Progress, ChunksFit, vars
<1>2. ChunkerInv /\ [Next]_vars => ChunkerInv'
  BY <1>1, SliceStep
<1> QED
  BY <1>2, InitChunkerInv, PTL DEF Spec

\* No chunk is longer than max_chars or reaches out of the text, and only the chunk of the
\* empty text is empty.
THEOREM EveryChunkFits == Spec => []ChunksFit
<1>1. ChunkerInv => ChunksFit
  BY DEF ChunkerInv
<1> QED
  BY <1>1, ChunkerInvariant, PTL

\* Only spaces fall out between chunks, and the last one reaches the end of the text, for
\* every overlap, those not below max_chars included.
THEOREM ChunksCoverTheText == Spec => NothingLost
<1>1. ChunkerInv /\ [Next]_vars =>
        [/\ \A p \in segment.to..(segment'.from - 1) : p \in text.spaces
         /\ done' => segment'.to = text.len]_vars
  BY SliceStep
<1> QED
  BY <1>1, ChunkerInvariant, PTL DEF Spec, NothingLost

\* What a text must be like for the slicing to move on: wherever a window may begin, it has a
\* space beyond the overlap, or no space at all and room beyond the overlap.
SpacesBeyondOverlap ==
  \A t \in Texts : \A p \in Nat : p + MaxChars < t.len =>
    \/ \E s \in t.spaces : p + OverlapChars < s /\ s < p + MaxChars
    \/ OverlapChars < MaxChars /\ \A s \in t.spaces : ~(p < s /\ s < p + MaxChars)

\* On such texts every window begins beyond the one before it, so the loop cannot stall; the
\* run chunker_long_word shows that it can on others.
THEOREM SlicingAdvances ==
  ASSUME SpacesBeyondOverlap
  PROVE  Spec => StartAdvances
<1>1. ASSUME ChunkerInv, Next, ~done'
      PROVE  start' > start
  <2>1. text.len > MaxChars /\ start + MaxChars < text.len
    BY <1>1 DEF Next, KeepWhole, CutRest, CutWindow
  <2>2. PICK end \in WindowEnds : start' = NextStart(end)
    BY <1>1 DEF Next, KeepWhole, CutRest, CutWindow
  <2>3. end \in Nat /\ start \in Nat /\ text \in Texts
    BY <1>1, <2>1, WindowEndsBounds DEF ChunkerInv, Progress
  <2>4. end > start + OverlapChars
    BY <1>1, <2>1, <2>2, <2>3, TextsAssumption, ConfigAssumption
       DEF SpacesBeyondOverlap, WindowEnds, Breaks
  <2> QED
    BY <2>2, <2>3, <2>4, ConfigAssumption DEF NextStart
<1>2. ChunkerInv /\ [Next]_vars => [~done' => start' > start]_vars
  BY <1>1
<1> QED
  BY <1>2, ChunkerInvariant, PTL DEF Spec, StartAdvances

\* The configuration class also accepts an overlap_chars of max_chars or more (chunking.py:18),
\* and then no text that is longer than a chunk is ever sliced to its end.
THEOREM LargeOverlapNeverEnds ==
  ASSUME OverlapChars >= MaxChars
  PROVE  Spec => [](text.len > MaxChars => ~done)
<1> DEFINE Stuck == start = 0 /\ (text.len > MaxChars => ~done)
<1>1. Init => Stuck
  BY DEF Init
<1>2. ChunkerInv /\ Stuck /\ Next => Stuck'
  <2> SUFFICES ASSUME ChunkerInv, Stuck, Next PROVE Stuck'
    OBVIOUS
  <2>1. text.len \in Nat
    BY TextsAssumption DEF ChunkerInv, Progress
  <2>2. CASE KeepWhole
    BY <2>1, <2>2, ConfigAssumption DEF KeepWhole
  <2>3. CASE CutRest
    BY <2>1, <2>3, ConfigAssumption DEF CutRest
  <2>4. CASE CutWindow
    <3>1. PICK end \in WindowEnds : start' = NextStart(end) /\ text' = text /\ done' = done
      BY <2>4 DEF CutWindow
    <3>2. end \in Nat /\ end <= MaxChars
      BY <2>1, <2>4, <3>1, WindowEndsBounds, ConfigAssumption DEF CutWindow, ChunkerInv, Progress
    <3> QED
      BY <3>1, <3>2, ConfigAssumption DEF NextStart
  <2> QED
    BY <2>2, <2>3, <2>4 DEF Next
<1>3. Stuck /\ UNCHANGED vars => Stuck'
  BY DEF vars
<1>4. Stuck => (text.len > MaxChars => ~done)
  OBVIOUS
<1> QED
  BY <1>1, <1>2, <1>3, <1>4, ChunkerInvariant, PTL DEF Spec
=============================================================================
