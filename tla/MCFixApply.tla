----------------------------- MODULE MCFixApply -----------------------------
(***************************************************************************)
(* All lists of up to three edits over two texts of three bytes, one of    *)
(* which holds a two-byte character.  Offsets reach one past the text.     *)
(***************************************************************************)
EXTENDS FixApply

MCByte == {"x", "y", "lead", "cont", "n"}
MCContinuation == {"cont"}
MCSource == {<<"x", "lead", "cont">>, <<"x", "y">>}

MCFix == [start_byte: 0..3, end_byte: 0..4, replacement: {<<>>, <<"n", "n">>}]

MCFixLists == UNION {[1..n -> MCFix] : n \in 0..2} \cup
              [1..3 -> {f \in MCFix : f.start_byte <= f.end_byte /\ f.end_byte <= 3}]
=============================================================================
