------------------------------- MODULE Chunks -------------------------------
(***************************************************************************)
(* What a literal chunk specification turns out to be (rules/chunks.rs).   *)
(* A specification is a dictionary, a sequence (a tuple or a list) or one  *)
(* integer, with its extents; anything else is of kind "other".  Extents   *)
(* are natural: `-1` is no integer literal.                                *)
(***************************************************************************)
EXTENDS Integers, Sequences, SequencesExt

CONSTANTS
  I64Max,               \* i64::MAX
  TrivialChunkElements  \* TRIVIAL_CHUNK_ELEMENTS

ASSUME WidthAssumption ==
  I64Max \in Nat /\ TrivialChunkElements \in Nat /\ TrivialChunkElements <= I64Max

NotLiteral == -1   \* literal_int's None: a variable, `-1`, a nested sequence, 10^30
Overflow == -1     \* checked_mul's None

\* Mutant: the multiplication wraps.
CheckedMulWrapping(product, n) == (product * n) % (I64Max + 1)

CheckedMul(product, n) ==
  IF product = Overflow \/ product * n > I64Max THEN Overflow ELSE product * n

\* Small for certain: every extent is known and the product fits.
TrivialProduct(extents) ==
  LET product == FoldLeft(CheckedMul, 1, extents)
  IN IF /\ extents # <<>> /\ NotLiteral \notin ToSet(extents)
        /\ product \in 0 .. TrivialChunkElements - 1
     THEN "trivial"
     ELSE "unknown"

\* A dictionary leaves the dimensions it does not name whole: its product says
\* nothing.
ClassifyChunkSpec(spec) ==
  IF spec.kind # "other" /\ 1 \in ToSet(spec.extents) THEN "singleton"
  ELSE IF spec.kind = "sequence" THEN TrivialProduct(spec.extents)
  ELSE "unknown"
=============================================================================
