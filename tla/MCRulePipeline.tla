--------------------------- MODULE MCRulePipeline ---------------------------
(***************************************************************************)
(* One call in a loop that up to three rules object to, another call on    *)
(* its line, and two findings on the next line, one of them made of one of *)
(* two scripts, of both or of none.                                        *)
(***************************************************************************)
EXTENDS RulePipeline

MCSeverityOf ==
  [r \in Rule |-> IF r \in {"XR005", "DK001", "DK002"} THEN "error"
                  ELSE IF r \in {"XR000"} THEN "hint" ELSE "warning"]

Found(rule, line, column) ==
  [rule |-> rule, line |-> line, column |-> column,
   severity |-> MCSeverityOf[rule], names |-> {}]

MCFires ==
  {[job \in Job |-> IF job \in blamed THEN found \cup {Found("JOB002", 2, 5)} ELSE found] :
     blamed \in SUBSET Script,
     found \in SUBSET {Found("XR005", 1, 5), Found("DK001", 1, 5), Found("DK002", 1, 5),
                      Found("DK001", 1, 9), Found("DK001", 2, 5)}}

NoOverride == [r \in Rule |-> None]
Plain == [disable |-> {}, ignores |-> {}, overrides |-> NoOverride, min |-> None, job |-> None]

MCConfig ==
  {Plain,
   [Plain EXCEPT !.disable = {"DK001"}],
   [Plain EXCEPT !.ignores = {"DK002"}, !.job = "other.sh"],
   [Plain EXCEPT !.ignores = {"*"}],
   [Plain EXCEPT !.overrides["XR005"] = "hint", !.min = "warning"]}

MCFlags ==
  {[disable |-> {}, min |-> None, job |-> None],
   [disable |-> {}, min |-> None, job |-> "run.sh"],
   [disable |-> {"DK002"}, min |-> "error", job |-> "run.sh"]}

MCComments ==
  {[l \in Line |-> IF l = 1 THEN ids ELSE {}] :
     ids \in SUBSET {"DK001", "JOB002", "XR000", UnknownId}}

MCFileLevel == {{}, {"DK002"}}
=============================================================================
