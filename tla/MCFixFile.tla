----------------------------- MODULE MCFixFile ------------------------------
(***************************************************************************)
(* Two calls on lines with either ending, the first with every shape of    *)
(* argument list, calls nested in it included.                             *)
(***************************************************************************)
EXTENDS FixFile

\* nl ends the lines within the list.
ArgLists(nl) == {
  <<>>, <<"a">>, <<"a", ",">>, <<"a", ",", "a">>, <<"a", ",", "**kw">>,
  <<"a", ",", "chunks">>, <<"a", ",", "parallel=True", ",">>,
  <<"parallel=False">>, <<"a", ",", "dask=allowed">>,
  <<"a", ",", nl, "a", nl>>, <<"a", ",", nl, "a", ",", nl>>,
  <<"#", nl>>, <<"a", "#", nl>>, <<"a", "#,", nl>>, <<"a", ",", "#", nl>>,
  <<"a", "#latin1", nl>>,
  <<"open_mfdataset", "(", "a", ")">>, <<"matrix", "(", "a", ")", ",", "chunks">>}

Call(name, args) == <<name, "(">> \o args \o <<")">>

First(nl) ==
  {Call(name, args) \o <<nl>> :
     name \in {"open_dataset", "open_mfdataset", "from_array", "matrix", "math_sqrt",
               "applymap", "apply_ufunc"},
     args \in ArgLists(nl)}

Second(nl) == Call("open_mfdataset", <<"a">>) \o <<"#", nl>>

MCText == UNION {{f \o Second(n2) : f \in First(n1)} : n1, n2 \in Newline}

\* No comment before the end of an argument list.
MCPlainText == {t \in MCText : \A i \in 1..(Len(t) - 2) : t[i] \notin Comment}

All == {"XR001", "XR008", "XR009", "DK007", "NP004", "NP006", "NP007"}
MCRuleSets == {All, All \ {"XR008"}, {"XR008", "NP006"}}
MCAllRules == {All}

MCByte ==
  Newline \cup Comment \cup Written \cup DOMAIN NewName
    \cup {"open_dataset", "open_mfdataset", "from_array", "apply_ufunc", "(", ")", "a", "**kw",
          "parallel=False", "dask=allowed"}
MCContinuation == {}
=============================================================================
