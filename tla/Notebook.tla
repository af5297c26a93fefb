------------------------------ MODULE Notebook ------------------------------
(***************************************************************************)
(* The cells of a notebook become parsed files that share one import       *)
(* context (notebook.rs); a plain file is a notebook of one cell.  A cell  *)
(* has its imports, its calls of dask_setup, its statements, and the       *)
(* parameters of its functions.  Cells parse in parallel and end in any    *)
(* order; the passes after that are sequential, one cell a turn.           *)
(***************************************************************************)
EXTENDS FileRules

CONSTANT Input   \* the notebooks, each a sequence of cells

IsSequence(s) == Len(s) \in Nat /\ DOMAIN s = 1 .. Len(s)

IsValue(v) ==
  /\ v.form \in {"name", "bare", "attribute", "subscript", "binary", "math", "literal", "opaque"}
  /\ v.called => v.form \in {"bare", "attribute"}
  /\ v.form = "bare" => v.of \in Name \cup BuiltinPlain
  /\ v.form \in {"name", "attribute", "subscript", "binary", "math"} => v.of \in Name
  /\ v.form \in {"literal", "opaque"} => v.of = None
  /\ v.form = "binary" => v.right \in Name
  /\ \A spec, other \in v.first : spec = other
  /\ \A spec \in v.first : spec.extents \in Seq(Nat \cup {NotLiteral})

\* A clause of a comprehension stands in a comprehension.
IsWayUp(ancestors) ==
  /\ ancestors \in Seq([kind : STRING, field : STRING])
  /\ \A k \in 1 .. Len(ancestors) - 1 :
       ancestors[k].kind = "for_in_clause" => ancestors[k + 1].kind = "comprehension"

IsStatement(st) ==
  /\ st.scope \in Scope /\ IsValue(st.value) /\ IsWayUp(st.ancestors)
  /\ st.does \in {"assign", "augment"} => st.target \in Name
  /\ st.targets \subseteq Name

IsCell(cell) ==
  /\ cell.imports \in Seq([form : {"import", "from"}, module : Module, binding : Name])
  /\ IsFiniteSet(cell.setups)
  /\ \A call \in cell.setups : call.form \in {"bare", "attribute"} /\ call.of \in Name
  /\ cell.params \in [Scope -> SUBSET Name]
  /\ IsSequence(cell.body) /\ \A i \in DOMAIN cell.body : IsStatement(cell.body[i])

\* What the grammar and the parser make of a notebook.
ASSUME InputAssumption ==
  \A notebook \in Input : IsSequence(notebook) /\ \A c \in DOMAIN notebook : IsCell(notebook[c])

VARIABLES
  cells,      \* the notebook
  phase,
  outcome,    \* of each cell: "pending", "parsed" or "skipped"
  imports,    \* ParsedFile.imports of each cell
  bindings,   \* ParsedFile.bindings of each cell
  turn,       \* the cell a pass has come to
  merged,     \* the context of the notebook
  imported    \* what it was before the second pass

analysis == <<cells, phase, outcome, imports, bindings, turn, merged, imported>>

Context ==
  [modules : SUBSET Module, gpu : BOOLEAN,
   workload : {"unset", "cpu", "io", "mixed", "gpu", "unknown"},
   aliases : [Name -> Module \cup {None}], from_imports : [Name -> Module \cup {None}]]

TypeOK ==
  /\ phase \in {"parsing", "merging", "rescanning", "ready"}
  /\ outcome \in [DOMAIN cells -> {"pending", "parsed", "skipped"}]
  /\ imports \in [DOMAIN cells -> Context]
  /\ bindings \in
       [DOMAIN cells -> [Scope -> [Name -> Origin \cup {"unknown", "unbound"}]]]
  /\ turn \in 1 .. Len(cells) + 1
  /\ merged \in Context /\ imported \in Context

Init ==
  /\ cells \in Input
  /\ phase = "parsing"
  /\ outcome = [c \in DOMAIN cells |-> "pending"]
  /\ imports = [c \in DOMAIN cells |-> EmptyContext]
  /\ bindings = [c \in DOMAIN cells |-> EmptyTable]
  /\ turn = 1
  /\ merged = EmptyContext /\ imported = EmptyContext

-----------------------------------------------------------------------------
\* The context of a cell by itself.
Own(c) == FromTree(cells[c].imports, cells[c].setups)

\* Bindings::build: one walk over the statements.
Build(ctx, body) == FoldLeft(LAMBDA table, st : Record(ctx, table, st), EmptyTable, body)

Parsed == {c \in DOMAIN cells : outcome[c] = "parsed"}

ParseSource(c) ==
  /\ phase = "parsing" /\ outcome[c] = "pending"
  /\ outcome' = [outcome EXCEPT ![c] = "parsed"]
  /\ imports' = [imports EXCEPT ![c] = Own(c)]
  /\ bindings' = [bindings EXCEPT ![c] = Build(Own(c), cells[c].body)]
  /\ UNCHANGED <<cells, phase, turn, merged, imported>>

\* A cell that does not parse is left out, with a warning.
Skip(c) ==
  /\ phase = "parsing" /\ outcome[c] = "pending"
  /\ outcome' = [outcome EXCEPT ![c] = "skipped"]
  /\ UNCHANGED <<cells, phase, imports, bindings, turn, merged, imported>>

\* The only cell that is left keeps the context it was parsed with.
Collect ==
  /\ phase = "parsing" /\ \A c \in DOMAIN cells : outcome[c] # "pending"
  /\ phase' = IF \E c, d \in Parsed : c # d THEN "merging" ELSE "ready"
  /\ UNCHANGED <<cells, outcome, imports, bindings, turn, merged, imported>>

MergeCell ==
  /\ phase = "merging" /\ turn \in DOMAIN cells
  /\ merged' = IF turn \in Parsed THEN MergeFrom(merged, imports[turn]) ELSE merged
  /\ turn' = turn + 1
  /\ UNCHANGED <<cells, phase, outcome, imports, bindings, imported>>

Freeze ==
  /\ phase = "merging" /\ turn \notin DOMAIN cells
  /\ phase' = "rescanning"
  /\ imported' = merged
  /\ turn' = 1
  /\ UNCHANGED <<cells, outcome, imports, bindings, merged>>

\* Mutant: the second pass knows only the imports of the cell itself.
RescanAlone ==
  /\ phase = "rescanning" /\ turn \in DOMAIN cells
  /\ merged' = IF turn \in Parsed
               THEN MergeFrom(merged, DetectDaskSetupUsage(imports[turn], cells[turn].setups))
               ELSE merged
  /\ turn' = turn + 1
  /\ UNCHANGED <<cells, phase, outcome, imports, bindings, imported>>

\* A call of dask_setup may stand in another cell than the import it needs.
Rescan ==
  /\ phase = "rescanning" /\ turn \in DOMAIN cells
  /\ merged' = IF turn \in Parsed
               THEN MergeFrom(merged, DetectDaskSetupUsage(imported, cells[turn].setups))
               ELSE merged
  /\ turn' = turn + 1
  /\ UNCHANGED <<cells, phase, outcome, imports, bindings, imported>>

\* Every cell gets the context, and its bindings are built anew with it.
Share ==
  /\ phase = "rescanning" /\ turn \notin DOMAIN cells
  /\ phase' = "ready"
  /\ imports' = [c \in DOMAIN cells |-> IF c \in Parsed THEN merged ELSE imports[c]]
  /\ bindings' = [c \in DOMAIN cells |->
                    IF c \in Parsed THEN Build(merged, cells[c].body) ELSE bindings[c]]
  /\ UNCHANGED <<cells, outcome, turn, merged, imported>>

ParseNotebook ==
  \/ \E c \in DOMAIN cells : ParseSource(c) \/ Skip(c)
  \/ Collect \/ MergeCell \/ Freeze \/ Rescan \/ Share

Spec == Init /\ [][ParseNotebook]_analysis

\* What the rules report of statement i of cell c, once the notebook is ready.
Findings(c, i) == Fires(imports[c], bindings[c], cells[c].body[i])

-----------------------------------------------------------------------------
(* Properties.                                                             *)

Ready == phase = "ready"

\* m is what the first of the parsed cells before k that says anything says, or
\* None if they all are silent.
FirstSaid(k, says, m) ==
  \/ m = None /\ \A c \in Parsed : c < k => says[c] = None
  \/ \E c \in Parsed : /\ c < k /\ says[c] = m /\ m # None
                       /\ \A d \in Parsed : d < c => says[d] = None

Aliases(n)     == [c \in DOMAIN cells |-> Own(c).aliases[n]]
FromImports(n) == [c \in DOMAIN cells |-> Own(c).from_imports[n]]

\* A context has, for every name, what the first of the cells before k says.
MeansWhatFirstSaid(ctx, k) ==
  \A n \in Name : /\ FirstSaid(k, Aliases(n), ctx.aliases[n])
                  /\ FirstSaid(k, FromImports(n), ctx.from_imports[n])

\* Whatever order the cells are parsed in, and whichever of them fail, a name
\* means for every cell what the first cell that imports it says: the merge
\* goes by the order of the cells and never overwrites (parser.rs:129).
FirstCellWins ==
  Ready /\ (\E c, d \in Parsed : c # d) =>
    \A c \in Parsed : MeansWhatFirstSaid(imports[c], Len(cells) + 1)

IsContext(ctx) ==
  /\ ctx = [modules |-> ctx.modules, gpu |-> ctx.gpu, workload |-> ctx.workload,
             aliases |-> ctx.aliases, from_imports |-> ctx.from_imports]
  /\ ctx.aliases = [n \in Name |-> ctx.aliases[n]]
  /\ ctx.from_imports = [n \in Name |-> ctx.from_imports[n]]

ControlOK ==
  /\ cells \in Input
  /\ phase \in {"parsing", "merging", "rescanning", "ready"}
  /\ outcome \in [DOMAIN cells -> {"pending", "parsed", "skipped"}]
  /\ imports = [c \in DOMAIN cells |-> imports[c]]
  /\ turn \in 1 .. Len(cells) + 1
  /\ IsContext(merged) /\ IsContext(imported)

\* Until they are shared, each parsed cell has its own context.
OwnUntilShared == phase # "ready" => \A c \in Parsed : imports[c] = Own(c)

\* The first pass has come as far as its turn; the second changes no names.
PassesInOrder ==
  /\ phase = "parsing" => turn = 1 /\ merged = EmptyContext
  /\ phase = "merging" => MeansWhatFirstSaid(merged, turn)
  /\ phase = "rescanning" =>
       MeansWhatFirstSaid(merged, Len(cells) + 1) /\ MeansWhatFirstSaid(imported, Len(cells) + 1)

\* FirstCellWins made inductive.
IInv == ControlOK /\ OwnUntilShared /\ PassesInOrder /\ FirstCellWins

NotebookImports ==
  FlattenSeq([c \in DOMAIN cells |-> IF c \in Parsed THEN cells[c].imports ELSE <<>>])

NotebookSetups == UNION {cells[c].setups : c \in Parsed}

\* No name is imported from two modules.
OneModulePerName ==
  \A imp, other \in ToSet(NotebookImports) :
    imp.binding = other.binding => imp.module = other.module

\* A notebook is one namespace: each of its cells is linted with the context of
\* the file that has the imports and calls of all of them, in whichever cells
\* and order these stand, if the cells agree on what names mean.
ReadsLikeAFile ==
  Ready /\ OneModulePerName =>
    \A c \in Parsed : imports[c] = FromTree(NotebookImports, NotebookSetups)

\* The calls that reach dask_setup, given these imports.
SeenBy(imps, setups) ==
  {s \in setups : \E imp \in imps :
     imp.module = "dask_setup" /\ imp.binding = s.of /\ (s.form = "bare" => imp.form = "from")}

\* What the clients of a notebook say of the topology, whichever cell imports
\* the helper they come from.
Topologies ==
  {Observed(call) : call \in SeenBy(ToSet(NotebookImports), NotebookSetups)} \ {"unset"}

\* XR008 and DK011 give opposite advice on one call: which of them an xarray
\* open of NetCDF files gets depends on all the cells.  DK011 needs every client
\* to be of topology io, and then XR008 must be quiet; when one of them is not,
\* or cannot be told, DK011 must be.
AdviceAgrees ==
  Ready /\ OneModulePerName =>
    \A c \in Parsed : \A i \in DOMAIN cells[c].body :
      LET netcdf == IsNetcdfXarrayOpen(imports[c], cells[c].body[i])
      IN /\ "DK011" \in Findings(c, i) <=> (netcdf /\ Topologies = {"io"})
         /\ "DK011" \in Findings(c, i) => "XR008" \notin Findings(c, i)

TrueProduct(extents) == FoldLeft(LAMBDA p, n : p * n, 1, extents)

\* A sequence of chunk extents given to chunk() or rechunk() is reported if one
\* of them is 1 or their product is known and small, and not otherwise: a product
\* that overflows, or has an extent nobody knows, never looks small.
ChunksAreJudged ==
  Ready =>
    \A c \in Parsed : \A i \in DOMAIN cells[c].body :
      LET st == cells[c].body[i]
          v  == st.value
      IN {"xarray", "dask"} \subseteq imports[c].modules /\ v.chunks = {}
           /\ (IsMethod(st, "chunk") \/ IsMethod(st, "rechunk")) =>
         \A spec \in v.first :
           LET literal == spec.extents # <<>> /\ NotLiteral \notin ToSet(spec.extents)
               small   == literal /\ TrueProduct(spec.extents) < TrivialChunkElements
               told    == {"XR012", "DK010"} \cap Findings(c, i) # {}
           IN spec.kind = "sequence" =>
                /\ told => 1 \in ToSet(spec.extents) \/ small
                /\ 1 \in ToSet(spec.extents) \/ (small /\ 0 \notin ToSet(spec.extents))
                     => told
=============================================================================
