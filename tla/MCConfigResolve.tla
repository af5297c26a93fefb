-------------------------- MODULE MCConfigResolve --------------------------
(***************************************************************************)
(* Three files that may extend each other through relative references, one *)
(* of which leads through a link, and one to nothing.                      *)
(***************************************************************************)
EXTENDS ConfigResolve

MCUp == [d \in Dir |-> CASE d = "project" -> "home" [] d = "home" -> "root" [] d = "root" -> None]
MCConfigIn == [d \in Dir |-> IF d = "home" THEN "p1" ELSE None]

MCFileAt ==
  [p \in Path |-> CASE p = "p1" -> "f1" [] p = "p2" -> "f2" [] p = "p3" -> "f3"
                    [] p = "link" -> "f1" [] p = "missing" -> None]

MCJoin ==
  [x \in Path \X Ref |->
     IF x[2] = "next"
     THEN CASE x[1] = "p1" -> "p2" [] x[1] = "p2" -> "p3" [] x[1] = "p3" -> "link"
            [] x[1] = "link" -> "p3" [] x[1] = "missing" -> "missing"
     ELSE CASE x[1] = "p1" -> "p1" [] x[1] = "link" -> "p2" [] OTHER -> "missing"]

Nothing ==
  [extends |-> None, value |-> [k \in Leaf |-> None], disable |-> {},
   ignores |-> [g \in Glob |-> {}], typo |-> FALSE]

Contents ==
  {Nothing,
   [Nothing EXCEPT !.value["threshold"] = "3", !.disable = {"xr001"}],
   [Nothing EXCEPT !.value["threshold"] = "9", !.value["XR001"] = "error"],
   [Nothing EXCEPT !.typo = TRUE],
   [Nothing EXCEPT !.value["XR001"] = "hint", !.ignores["tests"] = {"DK001"}],
   [Nothing EXCEPT !.value["xr001"] = "error", !.ignores["tests"] = {"XR001"}]}

MCText ==
  [File -> {None} \cup {[c EXCEPT !.extends = r] : c \in Contents, r \in Ref \cup {None}}]

MCRuleOf == [id \in Id |-> IF id = "xr001" THEN "XR001" ELSE id]
=============================================================================
