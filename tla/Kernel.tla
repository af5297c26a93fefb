------------------------------- MODULE Kernel -------------------------------
(***************************************************************************)
(* The Python a notebook stands for, run against what xray says of it.     *)
(* Statements are taken in any order and any number of times and functions *)
(* are called with anything: xray does not follow control flow or calls.   *)
(* A name holds None while it is unbound, a module, one of the kinds of    *)
(* objects the tracker has an Origin for, or something "other".            *)
(***************************************************************************)
EXTENDS Notebook

CONSTANT Anything   \* what an expression nobody can judge, or an argument, may be

\* A module is no object of another kind, and None is nothing at all.
ASSUME AnythingAssumption ==
  /\ Origin \subseteq Anything /\ Anything \cap Module = {}
  /\ None \notin Anything \cup BuiltinPlain /\ OriginForModule(None) = "unknown"

VARIABLES
  memory,     \* of the globals and of the locals of each function
  evaluated   \* the statement evaluated last and what its receiver was

vars == <<analysis, memory, evaluated>>

Globals == <<0, Root>>
Frame   == {Globals} \cup ((DOMAIN cells) \X (Scope \ {Root}))

KernelInit ==
  /\ Init
  /\ memory = [f \in Frame |-> [n \in Name |-> None]]
  /\ evaluated = None

-----------------------------------------------------------------------------
Statements == UNION {{<<c, i>> : i \in DOMAIN cells[c].body} : c \in DOMAIN cells}
At(p)      == cells[p[1]].body[p[2]]

Binds(st) ==
  CASE st.does \in {"assign", "augment"} -> {st.target}
    [] st.does = "unpack" -> st.targets
    [] OTHER -> {}

\* A name is local to a function that has it as a parameter or binds it.
LocalNames(c, s) ==
  cells[c].params[s] \cup UNION {Binds(At(p)) : p \in {q \in Statements : q[1] = c /\ At(q).scope = s}}

Home(c, s, n) ==
  LET homes == {t \in Above[s] \ {Root} : n \in LocalNames(c, t)}
  IN IF homes = {} THEN Globals
     ELSE <<c, CHOOSE t \in homes : homes \subseteq Above[t]>>

Held(c, s, n) == memory[Home(c, s, n)][n]

\* A function of a library gives an object of that library.
LibraryResult(m) ==
  IF OriginForModule(m) = "unknown" THEN Anything ELSE {OriginForModule(m)}

OfEither(kinds) ==
  IF \E k \in kinds : IsArrayLike(k) THEN {k \in kinds : IsArrayLike(k)} ELSE Anything

\* What the value of a statement may turn out to be, its receiver being `held`.
Values(v, held, right) ==
  CASE v.form = "literal" \/ (v.form = "bare" /\ v.of \in BuiltinPlain) -> {"Plain"}
    [] v.form = "name" -> {held}
    [] v.form \in {"bare", "attribute"} /\ v.called /\ held \in Module -> LibraryResult(held)
    [] v.form = "attribute" /\ v.called /\ held \in Origin -> {OfMethod(held, v.attr)}
    [] v.form = "attribute" /\ ~v.called /\ held \in Origin -> {OfAttribute(held, v.attr)}
    [] v.form = "subscript" /\ IsArrayLike(held) -> {held}
    [] v.form = "binary" -> OfEither({held, right})
    [] OTHER -> Anything

Assigned(c, s, names, kinds) ==
  \E given \in [names -> kinds] :
    memory' = [f \in Frame |-> [n \in Name |->
                 IF n \in names /\ f = Home(c, s, n) THEN given[n] ELSE memory[f][n]]]

\* A builtin is always there.
Reads(v) == ({v.of, v.right} \cap Name) \ BuiltinPlain

\* What `import m as n` binds is no function.
MayBeCalled(n) ==
  \A imp \in ToSet(NotebookImports) : imp.binding = n =>
    \E other \in ToSet(NotebookImports) : other.binding = n /\ other.form = "from"

\* A name that is read must be bound; `x += e` reads x too.
Execute(c, i) ==
  LET st    == cells[c].body[i]
      v     == st.value
      held  == IF v.of \in Reads(v) THEN Held(c, st.scope, v.of) ELSE None
      right == IF v.right \in Reads(v) THEN Held(c, st.scope, v.right) ELSE None
  IN /\ Ready /\ c \in Parsed
     /\ \A n \in Reads(v) : Held(c, st.scope, n) # None
     /\ v.form = "bare" => MayBeCalled(v.of)
     /\ \/ st.does = "assign" /\ Assigned(c, st.scope, {st.target}, Values(v, held, right))
        \/ st.does = "unpack" /\ Assigned(c, st.scope, st.targets, Anything)
        \/ st.does = "augment" /\ Held(c, st.scope, st.target) # None
             /\ \E k \in Values(v, held, right) :
                  Assigned(c, st.scope, {st.target},
                           OfEither({Held(c, st.scope, st.target), k}))
        \/ st.does \in {"use", "chain"} /\ UNCHANGED memory
     /\ evaluated' = [cell |-> c, at |-> i, held |-> held]
     /\ UNCHANGED analysis

RunImport(c, i) ==
  /\ Ready /\ c \in Parsed
  /\ memory' = [memory EXCEPT ![Globals][cells[c].imports[i].binding] = cells[c].imports[i].module]
  /\ evaluated' = None
  /\ UNCHANGED analysis

Call(c, s) ==
  /\ Ready /\ c \in Parsed
  /\ \E args \in [cells[c].params[s] -> Anything] :
       memory' = [memory EXCEPT ![<<c, s>>] =
                    [n \in Name |-> IF n \in DOMAIN args THEN args[n] ELSE None]]
  /\ evaluated' = None
  /\ UNCHANGED analysis

Next ==
  \/ ParseNotebook /\ UNCHANGED <<memory, evaluated>>
  \/ \E c \in DOMAIN cells :
       \/ \E i \in DOMAIN cells[c].body : Execute(c, i)
       \/ \E i \in DOMAIN cells[c].imports : RunImport(c, i)
       \/ \E s \in Scope \ {Root} : Call(c, s)

KernelSpec == KernelInit /\ [][Next]_vars

-----------------------------------------------------------------------------
(* What the tracker is known not to see.                                   *)

AllImports == ToSet(NotebookImports)
Imported   == {imp.binding : imp \in AllImports}
Assigns    == {p \in Statements : Binds(At(p)) # {}}

\* `x += e` is not recorded as binding x.
NoAugmented == \A p \in Statements : At(p).does # "augment"

\* Parameters are not recorded at all: the tracker takes one for what its name
\* means outside, and a name bound to something unknown for the module it may
\* also be the alias of.  A builtin is taken for itself.
NothingShadowed ==
  LET Given == Imported \cup BuiltinPlain
  IN /\ Imported \cap BuiltinPlain = {}
     /\ \A c \in DOMAIN cells, s \in Scope \ {Root} :
          \A n \in cells[c].params[s] :
            n \notin Given /\ \A p \in Assigns : n \notin Binds(At(p))
     /\ \A p \in Assigns : Binds(At(p)) \cap Given = {}

\* What a name was assigned from is not judged again when that is bound later.
SettledFirst ==
  \A p, q \in Assigns :
    p[1] = q[1] /\ p[2] < q[2] => Reads(At(p).value) \cap Binds(At(q)) = {}

\* Nor is it known which operand of two decides.
OperandsAreKnown ==
  \A p \in Statements :
    At(p).value.form = "binary" =>
      LET Kind(n) == Lookup(bindings[p[1]], At(p).scope, n)
          kinds == {Kind(At(p).value.of), Kind(At(p).value.right)}
      IN "unknown" \notin kinds /\ Cardinality({k \in kinds : IsArrayLike(k)}) < 2

\* The tracker sees one cell at a time.
OneCellPerName ==
  \A p, q \in Assigns :
    p[1] # q[1] /\ At(p).scope = Root /\ At(q).scope = Root => Binds(At(p)) \cap Binds(At(q)) = {}

WithinLimits ==
  OneModulePerName /\ NoAugmented /\ NothingShadowed /\ SettledFirst /\ OneCellPerName
    /\ OperandsAreKnown

-----------------------------------------------------------------------------
(* Properties.                                                             *)

KernelTypeOK ==
  /\ memory \in [Frame -> [Name -> Anything \cup Module \cup {None}]]
  /\ evaluated # None =>
       evaluated.at \in DOMAIN cells[evaluated.cell].body /\ evaluated.cell \in Parsed

\* Within these limits a name the tracker has an origin for holds an object of
\* that kind whenever it is bound, by whichever statements, in whatever order:
\* conflicting assignments, unpacking and shadowing degrade (bindings.rs:161).
ClaimsAreTrue ==
  Ready /\ WithinLimits =>
    \A c \in Parsed, s \in Scope, n \in Name :
      bindings[c][s][n] \in Origin =>
        memory[Home(c, s, n)][n] \in {None, bindings[c][s][n]}

\* A statement is evaluated once for each turn of the loops it is in the body of
\* and for each element of the comprehensions it is not the iterable of.
Repeats(st) ==
  \E k \in DOMAIN st.ancestors :
    LET up == st.ancestors[k]
    IN \/ up.kind \in {"for_statement", "while_statement"} /\ up.field = "body"
       \/ /\ up.kind = "comprehension"
          /\ k > 1 => st.ancestors[k - 1] # [kind |-> "for_in_clause", field |-> "right"]

\* The rules that judge a receiver, against what the receiver was when the
\* statement was evaluated: those that report unless it is provably something
\* else never miss the object they are about, and those that report only what
\* they know never report anything else (xarray.rs:228, pandas.rs:128).
ReceiversAreJudged ==
  evaluated # None /\ WithinLimits =>
    LET c     == evaluated.cell
        st    == At(<<c, evaluated.at>>)
        told  == Findings(c, evaluated.at)
        Is(k) == evaluated.held = k
        HasLibrary(m) == m \in imports[c].modules
    IN /\ HasLibrary("xarray") /\ st.value.attr = "values" /\ st.value.form = "attribute"
            /\ ~st.value.called /\ Is("Xarray") => "XR002" \in told
       /\ HasLibrary("pandas") /\ IsMethod(st, "to_csv") /\ Is("Pandas")
            /\ {"index", "**"} \cap st.value.keywords = {} => "PD005" \in told
       /\ "PD002" \in told => Is("Pandas")
       /\ "PD003" \in told => st.value.attr = "string" \/ Is("Pandas")
       /\ "NP004" \in told => Repeats(st) \/ evaluated.held \in Origin \ {"Plain"}

\* The same without any limits, as the code has it: silent only when the
\* receiver is provably something else.
SilentOnlyWhenProvable ==
  evaluated # None =>
    LET c  == evaluated.cell
        st == At(<<c, evaluated.at>>)
    IN "xarray" \in imports[c].modules /\ st.value.form = "attribute" /\ ~st.value.called
         /\ st.value.attr = "values" /\ evaluated.held = "Xarray"
       => "XR002" \in Findings(c, evaluated.at)

\* A rule about functions of a library reports the calls that reach that
\* library, from whichever cell it is imported and by whatever name, and no
\* others; those about loops, the calls that are evaluated repeatedly.
CallsReachTheirLibrary ==
  evaluated # None /\ WithinLimits =>
    LET c    == evaluated.cell
        st   == At(<<c, evaluated.at>>)
        told == Findings(c, evaluated.at)
        Reaches(m, f) == st.value.called /\ CallTerminalName(st.value) = f /\ evaluated.held = m
        Lacks(k) == {k, "**"} \cap st.value.keywords = {}
    IN st.value.of \in Imported \cup {None} =>
       /\ "XR007" \in told <=> (Repeats(st) /\ Reaches("xarray", "concat"))
       /\ "XR010" \in told <=> (Repeats(st) /\ Reaches("xarray", "merge"))
       /\ "DK009" \in told <=> (Repeats(st) /\ Reaches("dask", "concatenate"))
       /\ "PD004" \in told <=> (Reaches("pandas", "read_csv") /\ Lacks("dtype"))
       /\ "IO001" \in told <=> (FlagMissingCompression /\ Reaches("numpy", "save"))
       /\ "IO003" \in told <=>
            /\ \E f \in {"open", "open_array", "open_group"} : Reaches("zarr", f)
            /\ Lacks("chunks")
       /\ "IO005" \in told <=> (Reaches("h5py", "File") /\ Lacks("swmr"))
=============================================================================
