----------------------------- MODULE FileRules -----------------------------
(***************************************************************************)
(* The rules whose answer depends on what a file imports or on what its    *)
(* names hold, each as a condition on one statement st.  The value of a    *)
(* statement is one operation on names; of the arguments of a call it has  *)
(* the keywords, the engine, the kind of file name and the chunks: those   *)
(* of `chunks=`, of the first argument, and of the other keywords.  Its    *)
(* ancestors are its way up the syntax tree.  The rules a configuration    *)
(* disables are left to RulePipeline.                                      *)
(***************************************************************************)
EXTENDS Bindings, Chunks

CONSTANT FlagMissingCompression  \* config.io.flag_missing_compression

ASSUME FlagAssumption == FlagMissingCompression \in BOOLEAN

-----------------------------------------------------------------------------
(* Rules about functions of a library.                                     *)

IsCallOf(ctx, st, module, function) ==
  /\ st.value.called
  /\ CallTerminalName(st.value) = function
  /\ CallModule(ctx, st.value) = module

\* A call that forwards `**kwargs` may be given any keyword.
KeywordArgPresentOrUnknown(st, keyword) == {keyword, "**"} \cap st.value.keywords # {}

\* One step up the syntax tree, from the field of the parent a node stands in.
\* What comes through the iterable of a comprehension passes by the next one.
Ascend(found, up) ==
  IF found = "inside" THEN found
  ELSE IF up.kind \in {"for_statement", "while_statement"} /\ up.field = "body" THEN "inside"
  ELSE IF up.kind = "for_in_clause" /\ up.field = "right" THEN "skip"
  ELSE IF up.kind = "comprehension" THEN IF found = "skip" THEN "outside" ELSE "inside"
  ELSE found

IsInsideLoop(st) == FoldLeft(Ascend, "outside", st.ancestors) = "inside"

XR007(ctx, st) == IsInsideLoop(st) /\ IsCallOf(ctx, st, "xarray", "concat")
XR010(ctx, st) == IsInsideLoop(st) /\ IsCallOf(ctx, st, "xarray", "merge")
DK009(ctx, st) == IsInsideLoop(st) /\ IsCallOf(ctx, st, "dask", "concatenate")

PD004(ctx, st) ==
  IsCallOf(ctx, st, "pandas", "read_csv") /\ ~KeywordArgPresentOrUnknown(st, "dtype")

IO001(ctx, st) == FlagMissingCompression /\ IsCallOf(ctx, st, "numpy", "save")

IO003(ctx, st) ==
  /\ \E f \in {"open", "open_array", "open_group"} : IsCallOf(ctx, st, "zarr", f)
  /\ ~KeywordArgPresentOrUnknown(st, "chunks")

IO005(ctx, st) ==
  IsCallOf(ctx, st, "h5py", "File") /\ ~KeywordArgPresentOrUnknown(st, "swmr")

-----------------------------------------------------------------------------
(* Rules about the object an operation is applied to.                      *)

Receiver(table, st) == Lookup(table, st.scope, st.value.of)

IsMethod(st, method) ==
  st.value.form = "attribute" /\ st.value.called /\ st.value.attr = method

XR002(table, st) ==
  /\ st.value.form = "attribute" /\ ~st.value.called /\ st.value.attr = "values"
  /\ Receiver(table, st) \notin {"Pandas", "Numpy", "Plain"}

PD002(table, st) == IsMethod(st, "append") /\ Receiver(table, st) = "Pandas"

\* `a[k][i] = v`: a string for k, or a receiver known to be a frame.
PD003(table, st) ==
  /\ st.does = "chain" /\ st.value.form = "subscript"
  /\ st.value.attr = "string" \/ Receiver(table, st) = "Pandas"

PD005(table, st) ==
  /\ IsMethod(st, "to_csv") /\ ~KeywordArgPresentOrUnknown(st, "index")
  /\ Receiver(table, st) \notin {"Plain", "Xarray"}

\* `math.sqrt(x)`, of an array or in a loop.
NP004(table, st) ==
  st.value.form = "math" /\ (IsInsideLoop(st) \/ IsArrayLike(Receiver(table, st)))

-----------------------------------------------------------------------------
(* Rules about NetCDF and dask_setup's topology.                           *)

\* An engine decides; else the file name, if it is told by its suffix; else
\* open_mfdataset means NetCDF.
IsNetcdfXarrayOpen(ctx, st) ==
  /\ \E f \in {"open_dataset", "open_mfdataset"} : IsCallOf(ctx, st, "xarray", f)
  /\ IF st.value.engine # None THEN st.value.engine \in {"netcdf4", "h5netcdf", "scipy"}
     ELSE \/ st.value.path = "nc"
          \/ st.value.path # "zarr" /\ CallTerminalName(st.value) = "open_mfdataset"

DK011(ctx, st) == DaskSetupUsesIo(ctx) /\ IsNetcdfXarrayOpen(ctx, st)

XR008(ctx, st) ==
  /\ st.value.called /\ CallTerminalName(st.value) = "open_mfdataset"
  /\ ~(DaskSetupUsesIo(ctx) /\ IsNetcdfXarrayOpen(ctx, st))
  /\ {"parallel=True", "**"} \cap st.value.keywords = {}

-----------------------------------------------------------------------------
(* Rules about chunk specifications.                                       *)

Pathological(spec) == ClassifyChunkSpec(spec) # "unknown"

\* The specifications a rule may report: at most the first of these is there.
RechunkSpecNode(v) == IF v.chunks # {} THEN v.chunks ELSE v.first

\* `.chunk(time=1)` gives one to each dimension, and only a 1 is reported.
ChunkSpecNode(v) ==
  IF v.chunks # {} \/ CallTerminalName(v) # "chunk" THEN v.chunks
  ELSE IF v.first # {} THEN v.first
  ELSE {spec \in v.dims : ClassifyChunkSpec(spec) = "singleton"}

DK010(st) ==
  IsMethod(st, "rechunk") /\ \E spec \in RechunkSpecNode(st.value) : Pathological(spec)

\* `open_*` unless it is another library's, and `.chunk()` whosever it is.
XR012(ctx, st) ==
  /\ st.value.called
  /\ \/ CallTerminalName(st.value) = "chunk"
     \/ /\ CallTerminalName(st.value) \in {"open_dataset", "open_mfdataset", "open_zarr"}
        /\ CallModule(ctx, st.value) \in {"xarray", None}
  /\ \E spec \in ChunkSpecNode(st.value) : Pathological(spec)

-----------------------------------------------------------------------------
(* The rules of a domain run where one of its libraries is imported.       *)

Fires(ctx, table, st) ==
  LET Rules(domain, holds) ==
        IF ctx.modules \cap domain # {} THEN {r \in DOMAIN holds : holds[r]} ELSE {}
  IN UNION {
       Rules({"xarray"},
         [XR002 |-> XR002(table, st), XR007 |-> XR007(ctx, st), XR008 |-> XR008(ctx, st),
          XR010 |-> XR010(ctx, st), XR012 |-> XR012(ctx, st)]),
       Rules({"dask", "dask_setup"},
         [DK009 |-> DK009(ctx, st), DK010 |-> DK010(st), DK011 |-> DK011(ctx, st)]),
       Rules({"numpy", "pandas"}, [NP004 |-> NP004(table, st)]),
       Rules({"pandas"},
         [PD002 |-> PD002(table, st), PD003 |-> PD003(table, st),
          PD004 |-> PD004(ctx, st), PD005 |-> PD005(table, st)]),
       Rules({"netCDF4", "zarr", "numpy", "h5py", "xarray"},
         [IO001 |-> IO001(ctx, st), IO003 |-> IO003(ctx, st), IO005 |-> IO005(ctx, st)])}
=============================================================================
