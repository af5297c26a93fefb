------------------------------ MODULE Imports ------------------------------
(***************************************************************************)
(* What a file imports, as parser.rs records it: the modules, the name     *)
(* each is called by, and the topology its dask_setup clients are given.   *)
(* Contexts of several cells are merged into one.                          *)
(***************************************************************************)
EXTENDS FiniteSets, FiniteSetsExt, Sequences, SequencesExt

CONSTANTS
  Name,       \* identifiers
  Module,     \* top-level modules
  GpuModule,  \* GPU_MODULES: those that only make sense on a GPU
  None

ASSUME ModulesAssumption == GpuModule \subseteq Module /\ None \notin Module \cup Name

-----------------------------------------------------------------------------
(* Topologies.  "unset" is below all others, "unknown" above.              *)

\* Mutant: the last call decides.
MergeWorkloadLast(left, right) == IF right = "unset" THEN left ELSE right

MergeWorkload(left, right) ==
  IF left = "unset" THEN right
  ELSE IF right \in {"unset", left} THEN left
  ELSE "unknown"

\* A literal names a topology; `auto`, a variable or an expression does not.
Resolved(argument) ==
  IF argument \in {"cpu", "io", "mixed", "gpu"} THEN argument ELSE "unknown"

-----------------------------------------------------------------------------
(* Contexts.  An import statement has a form, "import" or "from", a module *)
(* and the name it binds.                                                  *)

EmptyContext ==
  [modules |-> {}, gpu |-> FALSE, workload |-> "unset",
   aliases |-> [n \in Name |-> None], from_imports |-> [n \in Name |-> None]]

MarkByName(ctx, m) ==
  [ctx EXCEPT !.modules = @ \cup {m}, !.gpu = @ \/ m \in GpuModule]

\* Within one file a later import of a name replaces an earlier one.
ReadImport(ctx, imp) ==
  [MarkByName(ctx, imp.module) EXCEPT
     !.aliases[imp.binding] = IF imp.form = "import" THEN imp.module ELSE @,
     !.from_imports[imp.binding] = IF imp.form = "from" THEN imp.module ELSE @]

\* Mutant: a submodule that was imported by `from` is not found.
CallModuleByAlias(ctx, call) ==
  IF call.form = "attribute" THEN ctx.aliases[call.of] ELSE ctx.from_imports[call.of]

\* Which library a call belongs to: by the root of its receiver, or by its own
\* name when it has none.
CallModule(ctx, call) ==
  IF call.form = "attribute" /\ ctx.aliases[call.of] # None
  THEN ctx.aliases[call.of]
  ELSE ctx.from_imports[call.of]

CallTerminalName(call) == IF call.form = "attribute" THEN call.attr ELSE call.of

ExplicitWorkload(call) ==
  IF call.workload_type # None THEN Resolved(call.workload_type)
  ELSE IF CallTerminalName(call) = "setup_dask_client" /\ call.positional # None
       THEN Resolved(call.positional)
       ELSE None

\* The topology of one call: what it says; else unknown if something else
\* configures it; else the default of the helper, which for a client is "io".
Observed(call) ==
  LET name == CallTerminalName(call)
      Otherwise(default, configured) ==
        IF ExplicitWorkload(call) # None THEN ExplicitWorkload(call)
        ELSE IF configured THEN "unknown" ELSE default
  IN CASE name \in {"setup_dask_client", "DaskClientContext"} ->
            Otherwise("io", call.configured)
       [] name \in {"setup_pbs_cluster", "setup_slurm_cluster",
                    "setup_interactive_cluster"} ->
            Otherwise("cpu", call.configured \/ call.positional # None)
       [] OTHER -> "unset"

DetectDaskSetupUsage(ctx, setups) ==
  LET seen == {call \in setups : CallModule(ctx, call) = "dask_setup"}
  IN IF "dask_setup" \notin ctx.modules THEN ctx
     ELSE [ctx EXCEPT
             !.gpu = @ \/ \E call \in seen : ExplicitWorkload(call) = "gpu",
             !.workload = FoldSet(LAMBDA call, w : MergeWorkload(w, Observed(call)), @, seen)]

\* One file or one cell by itself: its imports in order, then its calls.
FromTree(imports, setups) ==
  DetectDaskSetupUsage(FoldLeft(ReadImport, EmptyContext, imports), setups)

DaskSetupUsesIo(ctx) == ctx.workload = "io"

\* Mutant: the last cell wins.
OrInsertOver(map, other) == [n \in Name |-> IF other[n] # None THEN other[n] ELSE map[n]]

\* A name keeps the first module it was merged with.
OrInsert(map, other) == [n \in Name |-> IF map[n] # None THEN map[n] ELSE other[n]]

MergeFrom(ctx, other) ==
  [modules |-> ctx.modules \cup other.modules,
   gpu |-> ctx.gpu \/ other.gpu,
   workload |-> MergeWorkload(ctx.workload, other.workload),
   aliases |-> OrInsert(ctx.aliases, other.aliases),
   from_imports |-> OrInsert(ctx.from_imports, other.from_imports)]
=============================================================================
