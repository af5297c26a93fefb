----------------------------- MODULE MCNotebook -----------------------------
(***************************************************************************)
(* Small notebooks, in four families: cells that import, open and set up   *)
(* dask in every distribution; files whose names are bound in several      *)
(* ways; files that call functions of libraries; and chunk specifications. *)
(***************************************************************************)
EXTENDS Kernel

MCName   == {"xr", "pd", "dsu", "setup_dask_client", "concat", "open_group", "open_table",
             "x", "y"}
MCModule == {"xarray", "pandas", "numpy", "dask", "dask_setup", "cupy", "zarr", "h5py"}
\* g is defined inside f.
MCAbove  == [s \in {"top", "f", "g"} |->
               IF s = "g" THEN {"top", "f", "g"} ELSE {"top", s}]
MCAnything == Origin \cup {"other"}

Import(module, binding) == [form |-> "import", module |-> module, binding |-> binding]
From(module, binding)   == [form |-> "from", module |-> module, binding |-> binding]

Expr == [form |-> "opaque", called |-> FALSE, of |-> None, attr |-> None, right |-> None,
         keywords |-> {}, engine |-> None, path |-> None,
         chunks |-> {}, first |-> {}, dims |-> {}]
Bare(n)         == [Expr EXCEPT !.form = "bare", !.called = TRUE, !.of = n]
Method(n, m)    == [Expr EXCEPT !.form = "attribute", !.called = TRUE, !.of = n, !.attr = m]
Attribute(n, a) == [Expr EXCEPT !.form = "attribute", !.of = n, !.attr = a]
On(form, n)     == [Expr EXCEPT !.form = form, !.of = n]

Stmt == [does |-> "use", scope |-> "top", ancestors |-> <<>>, target |-> None, targets |-> {},
         value |-> Expr]
Use(s, v)       == [Stmt EXCEPT !.scope = s, !.value = v]
Assign(s, n, v) == [Stmt EXCEPT !.does = "assign", !.scope = s, !.target = n, !.value = v]
Unpack(s, ns)   == [Stmt EXCEPT !.does = "unpack", !.scope = s, !.targets = ns]
Augment(n, v)   == [Stmt EXCEPT !.does = "augment", !.target = n, !.value = v]

Cell(imps, setups, body) ==
  [imports |-> imps, setups |-> setups, body |-> body,
   params |-> [s \in {"top", "f", "g"} |-> {}]]

-----------------------------------------------------------------------------
(* Contexts.                                                               *)

Setup(form, of, attr, workload, positional, configured) ==
  [form |-> form, of |-> of, attr |-> attr, workload_type |-> workload,
   positional |-> positional, configured |-> configured]

SetupsOf == {
  {},
  {Setup("bare", "setup_dask_client", None, None, None, FALSE)},
  {Setup("bare", "setup_dask_client", None, None, "cpu", FALSE)},
  {Setup("attribute", "dsu", "DaskClientContext", "io", None, TRUE)},
  {Setup("attribute", "dsu", "DaskClientContext", None, None, TRUE)},
  {Setup("attribute", "dsu", "setup_interactive_cluster", None, None, FALSE),
   Setup("attribute", "dsu", "DaskSetupConfig", "gpu", None, FALSE)}}

ImportsOf == {
  <<>>, <<Import("xarray", "xr")>>, <<From("dask_setup", "setup_dask_client")>>,
  <<Import("dask_setup", "dsu"), Import("xarray", "xr")>>,
  <<Import("pandas", "xr"), Import("xarray", "xr")>>, <<Import("pandas", "xr")>>,
  <<From("dask_setup", "dsu"), Import("cupy", "y")>>}

Opens == {
  Method("xr", "open_mfdataset"), [Method("xr", "open_mfdataset") EXCEPT !.path = "zarr"],
  [Method("xr", "open_dataset") EXCEPT !.path = "nc", !.engine = "zarr"],
  [Method("xr", "open_dataset") EXCEPT !.path = "nc"]}

Contexts ==
  {<<Cell(i, s, <<>>), Cell(j, t, <<Use("top", open)>>)>> :
     i \in ImportsOf, s \in SetupsOf, j \in ImportsOf, t \in SetupsOf, open \in Opens}
  \cup {<<Cell(i, {}, <<>>), Cell(<<Import("xarray", "xr")>>, {}, <<Use("top", open)>>),
          Cell(j, t, <<>>)>> :
     i \in ImportsOf, j \in ImportsOf, t \in SetupsOf, open \in Opens}

-----------------------------------------------------------------------------
(* Bindings.                                                               *)

Sources(n) == {
  Assign("top", n, Method("xr", "open_dataset")), Assign("f", n, Method("pd", "read_csv")),
  Assign("top", n, [Expr EXCEPT !.form = "literal"]), Unpack("top", {n})}

Derived ==
  {Assign(s, "y", v) : s \in {"top", "f"},
     v \in {On("name", "x"), On("subscript", "x"), Attribute("x", "values"),
            Method("x", "to_numpy"), [On("binary", "x") EXCEPT !.right = "y"]}}

Uses ==
  {Use(s, v) : s \in {"top", "f"}, v \in {Attribute("y", "values"), Attribute("x", "values")}}
  \cup {Use("f", Method("x", "append")), Use("f", Method("x", "to_csv")),
        Use("top", On("math", "x")),
        [Use("top", On("subscript", "x")) EXCEPT !.does = "chain"],
        [Use("top", [On("subscript", "x") EXCEPT !.attr = "string"]) EXCEPT !.does = "chain"]}

Libraries == <<Import("xarray", "xr"), Import("pandas", "pd")>>

File(params, body) ==
  <<[Cell(Libraries, {}, body) EXCEPT !.params["f"] = params]>>

Files ==
  {File({}, <<s, d, u>>) : s \in Sources("x"), d \in Derived \cup Sources("x"), u \in Uses}
  \cup {File({"x"}, <<Assign("f", "y", Bare("dict")), Use("f", Attribute("x", "values"))>>),
        File({}, <<Assign("top", "x", Bare("dict")), Assign("f", "x", Bare("open_table")),
                   Use("g", Attribute("x", "values"))>>),
        File({}, <<Assign("top", "x", Method("pd", "read_csv")), Unpack("f", {"x"}),
                   Assign("g", "y", On("name", "x")), Use("g", Attribute("y", "values"))>>)}
  \cup {File({}, <<Assign("top", "x", Bare("dict")), Augment("x", Method("xr", "open_dataset")),
                   Use("top", Attribute("x", "values"))>>)}
  \cup {<<Cell(Libraries, {}, <<s>>), Cell(<<>>, {}, <<d, u>>)>> :
          s \in Sources("x"), d \in Derived, u \in Uses}

-----------------------------------------------------------------------------
(* Calls.                                                                  *)

In(kind, field) == [kind |-> kind, field |-> field]
Body     == In("for_statement", "body")
Iterable == <<In("for_in_clause", "right"), In("comprehension", "child")>>
Element  == In("comprehension", "body")

Loops == {
  <<Body>>, <<In("while_statement", "body")>>, <<Element>>, <<In("if_statement", "body"), Body>>,
  <<>>, <<In("for_statement", "right")>>, Iterable, Iterable \o Iterable,
  Iterable \o <<Element>>, Iterable \o <<Body>>,
  <<In("for_statement", "right"), In("while_statement", "body")>>}

Calls ==
  {[Use("top", v) EXCEPT !.ancestors = l] : l \in Loops,
     v \in {Method("xr", "concat"), Bare("concat"), Method("x", "merge"),
            Method("y", "concatenate")}}
  \cup {Use("top", Method("pd", "read_csv")), Use("top", Method("pd", "save")),
        Use("top", [Method("x", "open") EXCEPT !.keywords = {"**"}]),
        Use("top", Method("x", "open")), Use("top", Method("x", "open_array")),
        Use("top", Bare("open_group")), Use("top", Method("x", "File"))}

Callers ==
  {<<Cell(<<i>>, {}, <<>>), Cell(<<j, Import("xarray", "xr")>>, {}, <<call>>)>> :
     i \in {From("xarray", "concat"), Import("zarr", "x"), From("h5py", "x"), From("zarr", "open_group"),
            Import("numpy", "pd")},
     j \in {From("pandas", "concat"), From("dask", "y"), Import("pandas", "pd"),
            Import("xarray", "x")},
     call \in Calls}

-----------------------------------------------------------------------------
(* Chunks.                                                                 *)

Extent == {NotLiteral, 0, 1, 2, 8, 100}
Specs ==
  {[kind |-> "sequence", extents |-> e] :
     e \in {<<>>} \cup (Extent \X Extent) \cup (Extent \X Extent \X Extent)}
  \cup {[kind |-> k, extents |-> <<e>>] : k \in {"dictionary", "integer"}, e \in Extent}

ChunkCalls ==
  {[Method("x", m) EXCEPT !.first = {spec}] : m \in {"chunk", "rechunk"}, spec \in Specs}
  \cup {[Method("x", "chunk") EXCEPT !.dims = {spec}] : spec \in Specs}

Chunked ==
  {<<Cell(<<Import("xarray", "xr"), Import("dask", "y")>>, {}, <<Use("top", v)>>)>> :
     v \in ChunkCalls}

MCInput == Contexts \cup Files \cup Callers \cup Chunked

-----------------------------------------------------------------------------
(* The files that show where the tracker is silent without proof.          *)

Shadowed ==
  File({"x"}, <<Assign("top", "x", Method("pd", "read_csv")), Use("f", Attribute("x", "values"))>>)
MCSilentInput == {Shadowed}
=============================================================================
