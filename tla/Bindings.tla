------------------------------ MODULE Bindings ------------------------------
(***************************************************************************)
(* The binding tracker (bindings.rs): what the names of each scope of a    *)
(* file were assigned from.  A table holds for each scope and name an      *)
(* origin, "unknown", or "unbound".                                        *)
(***************************************************************************)
EXTENDS Imports

CONSTANTS
  Scope,   \* a file's top level and its functions
  Root,    \* the top level
  Above    \* each scope with the scopes around it

ASSUME ScopesAssumption ==
  /\ Root \in Scope
  /\ Above \in [Scope -> SUBSET Scope]
  /\ \A s \in Scope : Root \in Above[s] /\ s \in Above[s]
  /\ \A s, t \in Scope : s \in Above[t] /\ t \in Above[s] => s = t
  /\ \A s \in Scope : \A some \in SUBSET Above[s] :   \* of some of them one is innermost
       some # {} => \E t \in some : some \subseteq Above[t]

Origin == {"Xarray", "Dask", "Pandas", "Numpy", "Plain"}

IsArrayLike(o) == o \in Origin \ {"Plain"}

BuiltinPlain == {"dict", "list", "set", "tuple", "str", "int", "float", "bool",
                 "len", "sorted", "range", "open", "zip", "enumerate"}

OriginForModule(m) ==
  CASE m = "xarray" -> "Xarray"
    [] m = "dask" -> "Dask"
    [] m = "pandas" -> "Pandas"
    [] m = "numpy" -> "Numpy"
    [] OTHER -> "unknown"

-----------------------------------------------------------------------------
(* What becomes of an origin under an operation.                           *)

OfAttribute(o, attr) == IF attr = "values" /\ IsArrayLike(o) THEN "Numpy" ELSE o

OfSubscript(o) == IF o = "Plain" THEN "unknown" ELSE o

OfBinary(left, right) ==
  IF IsArrayLike(left) THEN left ELSE IF IsArrayLike(right) THEN right ELSE "unknown"

OfMethod(o, method) ==
  IF o = "unknown" THEN o
  ELSE IF method \in {"to_numpy", "__array__"} \/ (method = "compute" /\ o = "Dask") THEN "Numpy"
  ELSE o

-----------------------------------------------------------------------------
(* Tables.                                                                 *)

EmptyTable == [s \in Scope |-> [n \in Name |-> "unbound"]]

\* Mutant: a name bound to something unknown falls through to an outer one.
LookupKnown(table, s, n) ==
  LET holders == {t \in Above[s] : table[t][n] \in Origin}
  IN IF holders = {} THEN "unknown"
     ELSE table[CHOOSE t \in holders : holders \subseteq Above[t]][n]

\* The nearest scope that has the name answers, be it with "unknown".
Lookup(table, s, n) ==
  LET holders == {t \in Above[s] : table[t][n] # "unbound"}
  IN IF holders = {} THEN "unknown"
     ELSE table[CHOOSE t \in holders : holders \subseteq Above[t]][n]

\* A call on a module by its alias; else a method of the object the name holds.
ClassifyCall(ctx, table, s, e) ==
  IF e.form = "bare"
  THEN IF e.of \in BuiltinPlain THEN "Plain" ELSE OriginForModule(ctx.from_imports[e.of])
  ELSE IF ctx.aliases[e.of] # None /\ Lookup(table, s, e.of) = "unknown"
       THEN OriginForModule(ctx.aliases[e.of])
       ELSE OfMethod(Lookup(table, s, e.of), e.attr)

Classify(ctx, table, s, e) ==
  CASE e.form = "name" -> Lookup(table, s, e.of)
    [] e.form \in {"bare", "attribute"} /\ e.called -> ClassifyCall(ctx, table, s, e)
    [] e.form = "attribute" /\ ~e.called -> OfAttribute(Lookup(table, s, e.of), e.attr)
    [] e.form = "subscript" -> OfSubscript(Lookup(table, s, e.of))
    [] e.form = "binary" -> OfBinary(Lookup(table, s, e.of), Lookup(table, s, e.right))
    [] e.form = "literal" -> "Plain"
    [] OTHER -> "unknown"

\* Mutant: the last assignment wins.
BindLast(table, s, n, o) == [table EXCEPT ![s][n] = o]

\* A name bound from different origins is "unknown" for good.
Bind(table, s, n, o) ==
  [table EXCEPT ![s][n] = IF @ \in {"unbound", o} THEN o ELSE "unknown"]

BindUnknown(table, s, names) ==
  [table EXCEPT ![s] = [n \in Name |-> IF n \in names THEN "unknown" ELSE @[n]]]

\* One statement of the walk.  An assignment to a name and `with ... as` bind
\* what their value is; unpacking and `for` bind names to they know not what;
\* other statements bind nothing, `x += ...` and `x["k"] = ...` among them.
Record(ctx, table, stmt) ==
  CASE stmt.does = "assign" ->
         Bind(table, stmt.scope, stmt.target, Classify(ctx, table, stmt.scope, stmt.value))
    [] stmt.does = "unpack" -> BindUnknown(table, stmt.scope, stmt.targets)
    [] OTHER -> table
=============================================================================
