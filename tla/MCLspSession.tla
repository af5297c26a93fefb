---------------------------- MODULE MCLspSession ----------------------------
(***************************************************************************)
(* A file, whose URI per_file_ignores matches and its path does not, and a *)
(* document that is no file.                                               *)
(***************************************************************************)
EXTENDS LspSession

MCFindings == [c \in Content |-> IF c = "good" THEN {} ELSE {"XR001"}]
MCIgnored == {<<"file", "uri">>}
=============================================================================
