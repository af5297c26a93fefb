------------------------------ MODULE MCWatch -------------------------------
(***************************************************************************)
(* A file below a directory that is watched and one that is watched itself.*)
(***************************************************************************)
EXTENDS Watch

MCRootOf == [f \in File |-> IF f = "b.py" THEN f ELSE "."]
=============================================================================
