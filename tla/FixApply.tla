------------------------------ MODULE FixApply ------------------------------
(***************************************************************************)
(* fix::apply: the loop over the sorted edits of one text, one action per  *)
(* turn.  The loop looks at the text as edited so far; what it promises is *)
(* about the text it was given.                                            *)
(***************************************************************************)
EXTENDS FixEdits

CONSTANTS
  Source,    \* the texts a file may hold
  FixLists   \* the edits its diagnostics may carry, in diagnostic order

ASSUME InputAssumption ==
  /\ Source \subseteq Seq(Byte)
  /\ FixLists \subseteq Seq(Fix)
  /\ \A s \in Source : Len(s) <= MaxUsize
  /\ \A l \in FixLists : \A i \in 1..Len(l) : StartsCharacter(l[i].replacement)

VARIABLES
  source,   \* the text the offsets index
  fixes,    \* the edits asked for
  queue,    \* their indices in the order they are tried
  next,     \* the turn of the loop
  out,      \* the text so far
  floor,    \* the lowest offset touched so far
  taken     \* the turns whose edit was applied

vars == <<source, fixes, queue, next, out, floor, taken>>

EditAt(k) == fixes[queue[k]]

TypeOK ==
  /\ source \in Source
  /\ fixes \in FixLists
  /\ queue \in [1..Len(fixes) -> 1..Len(fixes)]
  /\ next \in 1..(Len(fixes) + 1)
  /\ out \in Seq(Byte)
  /\ floor \in Nat
  /\ taken \subseteq 1..(next - 1)

Init ==
  /\ source \in Source
  /\ fixes \in FixLists
  /\ queue \in Sorted(fixes)
  /\ next = 1
  /\ out = source
  /\ floor = MaxUsize
  /\ taken = {}

Take ==
  /\ next <= Len(fixes)
  /\ Accepts(out, floor, EditAt(next))
  /\ out' = ReplaceRange(out, EditAt(next))
  /\ floor' = EditAt(next).start_byte
  /\ taken' = taken \cup {next}
  /\ next' = next + 1
  /\ UNCHANGED <<source, fixes, queue>>

Skip ==
  /\ next <= Len(fixes)
  /\ ~Accepts(out, floor, EditAt(next))
  /\ next' = next + 1
  /\ UNCHANGED <<source, fixes, queue, out, floor, taken>>

Next == Take \/ Skip

Spec == Init /\ [][Next]_vars

-----------------------------------------------------------------------------
(* Correctness.                                                            *)

\* Below the floor the text is still the original, so that the offsets of the
\* edits to come, which index the original, are right in it too.
PrefixUntouched ==
  \A i \in 1..Len(source) :
    i <= floor => i <= Len(out) /\ out[i] = source[i]

\* No byte of the original is rewritten by two edits.
EditsDisjoint ==
  \A j, k \in taken : j < k => EditAt(k).end_byte <= EditAt(j).start_byte

\* Every applied edit begins and ends at a character of the *original*, though
\* the code asks the edited text: replace_range can neither panic nor split a
\* character the file had.
EditsOnCharBoundaries ==
  \A k \in taken :
    /\ EditAt(k).end_byte <= Len(source)
    /\ IsCharBoundary(source, EditAt(k).start_byte)
    /\ IsCharBoundary(source, EditAt(k).end_byte)

\* The reference: what is inserted at offset g, and the byte after it unless
\* an applied edit covers it, for each g in turn.
InsertedAt(g) ==
  FlattenSeq([k \in 1..Len(fixes) |->
    LET l == Len(fixes) + 1 - k
    IN  IF l \in taken /\ EditAt(l).start_byte = g THEN EditAt(l).replacement ELSE <<>>])

KeptAfter(g) ==
  IF g = Len(source) \/ \E k \in taken : EditAt(k).start_byte <= g /\ g < EditAt(k).end_byte
  THEN <<>>
  ELSE <<source[g + 1]>>

\* The text so far is the original with the applied edits made all at once:
\* nothing outside them moves, disappears or changes.
SplicedExactly ==
  out = FlattenSeq([g \in 1..(Len(source) + 1) |-> InsertedAt(g - 1) \o KeptAfter(g - 1)])

Overlap(f, g) == f.start_byte < g.end_byte /\ g.start_byte < f.end_byte

WellPlaced(f) ==
  /\ f.start_byte <= f.end_byte
  /\ f.end_byte <= Len(source)
  /\ IsCharBoundary(source, f.start_byte)
  /\ IsCharBoundary(source, f.end_byte)

\* No edit is dropped in vain: one that is well placed in the original and was
\* passed over overlaps one that was applied.
SkippedOnlyForOverlap ==
  \A k \in 1..(next - 1) :
    (k \notin taken /\ WellPlaced(EditAt(k))) => \E j \in taken : Overlap(EditAt(j), EditAt(k))

\* The floor is the start of the last applied edit, a character of the original.
FloorIsMet ==
  IF taken = {} THEN out = source /\ floor = MaxUsize
  ELSE /\ floor <= Len(source)
       /\ floor <= Len(out)
       /\ IsCharBoundary(source, floor)
       /\ \A k \in taken : floor <= EditAt(k).start_byte

\* The inductive invariant behind EditsOnCharBoundaries.
IInv ==
  /\ TypeOK
  /\ PrefixUntouched
  /\ EditsDisjoint
  /\ EditsOnCharBoundaries
  /\ FloorIsMet

\* The one behind SkippedOnlyForOverlap: the edits are tried in order, and the
\* floor is the start of an applied one and a character of the text so far.
SkipIInv ==
  /\ IInv
  /\ queue \in Sorted(fixes)
  /\ taken # {} => /\ \E j \in taken : EditAt(j).start_byte = floor
                   /\ IsCharBoundary(out, floor)
  /\ \A k \in taken : EditAt(k).start_byte <= EditAt(k).end_byte
  /\ SkippedOnlyForOverlap
=============================================================================
