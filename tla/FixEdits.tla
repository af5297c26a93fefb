------------------------------ MODULE FixEdits ------------------------------
(***************************************************************************)
(* The edits of `xray fix` on one text, as fix.rs defines them.  A text is *)
(* a sequence of bytes; a byte in Continuation goes on with the character  *)
(* before it.  Offsets are those of the code: edit f replaces the bytes    *)
(* f.start_byte + 1 .. f.end_byte of a sequence that starts at 1.          *)
(***************************************************************************)
EXTENDS Integers, SequencesExt

CONSTANTS
  Byte,          \* the bytes a text is made of
  Continuation,  \* those that are not the first of a character
  MaxUsize       \* usize::MAX, beyond every offset into a text

ASSUME ByteAssumption == Continuation \subseteq Byte

ASSUME UsizeAssumption == MaxUsize \in Nat

\* A replacement is a &str: it does not begin inside a character.
StartsCharacter(text) == text # <<>> => text[1] \notin Continuation

Fix == [start_byte: Nat, end_byte: Nat, replacement: Seq(Byte)]

\* str::is_char_boundary
IsCharBoundary(text, at) ==
  \/ at = 0
  \/ at = Len(text)
  \/ at < Len(text) /\ text[at + 1] \notin Continuation

\* The edit lies below everything touched so far and inside the text.
InBounds(text, floor, f) ==
  f.end_byte <= floor /\ f.start_byte <= f.end_byte /\ f.end_byte <= Len(text)

\* Mutant: the start of an edit is not checked.
OnBoundariesAtEnd(text, f) == IsCharBoundary(text, f.end_byte)

OnBoundaries(text, f) ==
  IsCharBoundary(text, f.start_byte) /\ IsCharBoundary(text, f.end_byte)

Accepts(text, floor, f) == InBounds(text, floor, f) /\ OnBoundaries(text, f)

\* Mutant: the byte after the range is swallowed.
ReplaceRangeInclusive(text, f) ==
  SubSeq(text, 1, f.start_byte) \o f.replacement \o SubSeq(text, f.end_byte + 2, Len(text))

\* String::replace_range
ReplaceRange(text, f) ==
  SubSeq(text, 1, f.start_byte) \o f.replacement \o SubSeq(text, f.end_byte + 1, Len(text))

\* Mutant: earlier edits first.
BeforeAscending(fixes, i, j) ==
  LET f == fixes[i]
      g == fixes[j]
  IN  \/ f.start_byte < g.start_byte
      \/ f.start_byte = g.start_byte /\ f.end_byte > g.end_byte
      \/ f.start_byte = g.start_byte /\ f.end_byte = g.end_byte /\ i < j

\* The order of the sort: later edits first, of two that start together the
\* longer one first; the sort is stable.
Before(fixes, i, j) ==
  LET f == fixes[i]
      g == fixes[j]
  IN  \/ f.start_byte > g.start_byte
      \/ f.start_byte = g.start_byte /\ f.end_byte > g.end_byte
      \/ f.start_byte = g.start_byte /\ f.end_byte = g.end_byte /\ i < j

\* The indices of fixes in sorted order: the one element of this set.
Sorted(fixes) ==
  {q \in [1..Len(fixes) -> 1..Len(fixes)] :
     \A i, j \in 1..Len(fixes) : i < j => Before(fixes, q[i], q[j])}
=============================================================================
