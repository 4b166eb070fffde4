----------------------------- MODULE MCChunker -----------------------------
(***************************************************************************)
(* Chunker on texts given by the lengths of their words.                   *)
(***************************************************************************)
EXTENDS Chunker, SequencesExt

CONSTANTS WordLengths, MaxWords     \* up to MaxWords words of these lengths

\* The text whose words have these lengths: a space after every word but the last.
TextOf(words) ==
  LET EndOf(i) == FoldSeq(+, 0, SubSeq(words, 1, i)) + i - 1
  IN [len |-> EndOf(Len(words)), spaces |-> {EndOf(i) : i \in 1..(Len(words) - 1)}]

MCTexts ==
  {[len |-> 0, spaces |-> {}]}
    \cup {TextOf(words) : words \in UNION {[1..n -> WordLengths] : n \in 1..MaxWords}}
=============================================================================
