--------------------------- MODULE ConfigResolve ---------------------------
(***************************************************************************)
(* How a run gets its configuration: find_config_file, the recursion of    *)
(* from_file_inner along `extends`, the merge as it unwinds, and           *)
(* normalise.                                                              *)
(***************************************************************************)
EXTENDS Integers, Sequences

CONSTANTS
  Dir, Up, ConfigIn,  \* directories, the parent of each, the xray.toml in it
  Path, Join,         \* paths, and where a reference in a file at a path leads
  File, FileAt,       \* files, and the one that a path canonicalises to
  Text,               \* the contents the files may have: [File -> Doc \cup {None}]
  Ref,                \* what `extends` may say
  Key, Value,         \* the keys that a child overrides, wherever in a table
  Glob,               \* the keys of [per_file_ignores]
  Id, Rule, RuleOf,   \* rule ids as written, and the rule each means in upper case
  None

\* [severity_overrides] is a table like the others, keyed by rule ids.
Leaf == Key \cup Id

\* A TOML document by its leaves; `typo` if it has a key that no section knows.
Doc ==
  [extends : Ref \cup {None}, value : [Leaf -> Value \cup {None}],
   disable : SUBSET Id, ignores : [Glob -> SUBSET Id], typo : BOOLEAN]

ASSUME ConfigAssumption ==
  /\ Up \in [Dir -> Dir \cup {None}] /\ ConfigIn \in [Dir -> Path \cup {None}]
  /\ Join \in [Path \X Ref -> Path] /\ FileAt \in [Path -> File \cup {None}]
  /\ Text \subseteq [File -> Doc \cup {None}]
  /\ RuleOf \in [Id -> Rule]
  /\ None \notin Dir /\ None \notin Path /\ None \notin File /\ None \notin Ref
  /\ None \notin Value /\ None \notin Doc
  /\ Key \cap Id = {}

VARIABLES
  text,    \* the files; None for one that cannot be read or parsed
  phase,   \* "finding", "reading", "merging", "loaded", "default", "failed"
  dir,     \* where find_config_file looks
  path,    \* the file to be read next
  seen,    \* the canonical paths of the chain
  docs,    \* the document of each frame of from_file_inner
  level,   \* the frame that merges next
  merged,  \* what the frame below returned
  config   \* the effective configuration

vars == <<text, phase, dir, path, seen, docs, level, merged, config>>

Config ==
  [value : [Key -> Value \cup {None}], disable : SUBSET Rule,
   ignores : [Glob -> SUBSET Rule], severity : [Rule -> Value \cup {None}]]

Defaults ==
  [value |-> [k \in Key |-> None], disable |-> {}, ignores |-> [g \in Glob |-> {}],
   severity |-> [r \in Rule |-> None]]

TypeOK ==
  /\ text \in Text
  /\ phase \in {"finding", "reading", "merging", "loaded", "default", "failed"}
  /\ dir \in Dir \cup {None} /\ path \in Path \cup {None}
  /\ seen \in Seq(File) /\ docs \in Seq(Doc)
  /\ level \in Nat
  /\ merged \in Doc \cup {None}
  /\ config \in Config

-----------------------------------------------------------------------------
(* merge_config_values, and Config::normalise.                             *)

\* Mutant: the parent is merged over the child.
Under(parent, child) == IF parent # None THEN parent ELSE child

\* A key the child has, in whichever table, is the child's.
Over(parent, child) == IF child # None THEN child ELSE parent

\* Mutant: an array of the child takes the place of its parent's.
MergeReplacing(parent, child) ==
  [child EXCEPT
     !.value = [k \in Leaf |-> Over(parent.value[k], child.value[k])],
     !.typo = @ \/ parent.typo]

\* Mutant: what a parent has too much is forgotten.
MergeKnown(parent, child) ==
  [child EXCEPT
     !.value = [k \in Leaf |-> Over(parent.value[k], child.value[k])],
     !.disable = @ \cup parent.disable,
     !.ignores = [g \in Glob |-> child.ignores[g] \cup parent.ignores[g]]]

Merge(parent, child) ==
  [child EXCEPT
     !.value = [k \in Leaf |-> Over(parent.value[k], child.value[k])],
     !.disable = @ \cup parent.disable,
     !.ignores = [g \in Glob |-> child.ignores[g] \cup parent.ignores[g]],
     !.typo = @ \/ parent.typo]

Rules(ids) == {RuleOf[id] : id \in ids}

Spellings(doc, rule) == {id \in Id : RuleOf[id] = rule /\ doc.value[id] # None}

\* Two spellings of one id meet in the drained map in an order of its own.
Severities(doc) ==
  {s \in [Rule -> Value \cup {None}] :
     \A r \in Rule : IF Spellings(doc, r) = {} THEN s[r] = None
                     ELSE \E id \in Spellings(doc, r) : s[r] = doc.value[id]}

Normalised(doc) ==
  {[value |-> [k \in Key |-> doc.value[k]], disable |-> Rules(doc.disable),
    ignores |-> [g \in Glob |-> Rules(doc.ignores[g])], severity |-> s] :
     s \in Severities(doc)}

-----------------------------------------------------------------------------
\* With --config there is nothing to find.
Init ==
  /\ text \in Text
  /\ \/ phase = "finding" /\ dir \in Dir \cup {None} /\ path = None
     \/ phase = "reading" /\ dir = None /\ path \in Path
  /\ seen = <<>> /\ docs = <<>>
  /\ level = 0 /\ merged = None
  /\ config = Defaults

\* Mutant: at the root the search goes on.
FindFromRoot ==
  /\ phase = "finding"
  /\ \/ /\ dir # None /\ ConfigIn[dir] # None
        /\ path' = ConfigIn[dir] /\ phase' = "reading" /\ dir' = dir
     \/ /\ dir # None /\ ConfigIn[dir] = None
        /\ dir' = Over(dir, Up[dir])
        /\ UNCHANGED <<path, phase>>
  /\ UNCHANGED <<text, seen, docs, level, merged, config>>

Find ==
  /\ phase = "finding"
  /\ \/ /\ dir # None /\ ConfigIn[dir] # None
        /\ path' = ConfigIn[dir] /\ phase' = "reading" /\ dir' = dir
     \/ /\ dir # None /\ ConfigIn[dir] = None
        /\ dir' = Up[dir]
        /\ UNCHANGED <<path, phase>>
     \/ /\ dir = None
        /\ phase' = "default"
        /\ UNCHANGED <<dir, path>>
  /\ UNCHANGED <<text, seen, docs, level, merged, config>>

Seen(file) == \E i \in DOMAIN seen : seen[i] = file

\* A cycle, or a file that is not there, cannot be read or cannot be parsed.
Fail ==
  /\ phase = "reading"
  /\ \/ FileAt[path] = None
     \/ FileAt[path] # None /\ (Seen(FileAt[path]) \/ text[FileAt[path]] = None)
  /\ phase' = "failed"
  /\ UNCHANGED <<text, dir, path, seen, docs, level, merged, config>>

Read ==
  /\ phase = "reading"
  /\ LET file == FileAt[path]
         doc == text[file]
     IN  /\ file # None /\ ~Seen(file) /\ doc # None
         /\ seen' = Append(seen, file)
         /\ docs' = Append(docs, doc)
         /\ \/ /\ doc.extends # None
               /\ path' = Join[path, doc.extends]
               /\ UNCHANGED <<phase, level, merged>>
            \/ /\ doc.extends = None
               /\ phase' = "merging" /\ level' = Len(docs) /\ merged' = doc
               /\ UNCHANGED path
  /\ UNCHANGED <<text, dir, config>>

MergeFrame ==
  /\ phase = "merging" /\ level > 0
  /\ merged' = Merge(merged, docs[level])
  /\ level' = level - 1
  /\ UNCHANGED <<text, phase, dir, path, seen, docs, config>>

\* The merged document becomes a Config, which denies unknown keys.
Deserialise ==
  /\ phase = "merging" /\ level = 0
  /\ IF merged.typo THEN phase' = "failed" /\ UNCHANGED config
     ELSE phase' = "loaded" /\ config' \in Normalised(merged)
  /\ UNCHANGED <<text, dir, path, seen, docs, level, merged>>

Next == Find \/ Fail \/ Read \/ MergeFrame \/ Deserialise

Spec == Init /\ [][Next]_vars /\ WF_vars(Next)

-----------------------------------------------------------------------------
(* Correctness.                                                            *)

Chain == DOMAIN docs

\* v is what the first document above frame i that has the key k says, or None if
\* none of them has it.
Nearest(i, k, v) ==
  \/ v = None /\ \A j \in Chain : j > i => docs[j].value[k] = None
  \/ \E j \in Chain :
       /\ j > i /\ v = docs[j].value[k] /\ v # None
       /\ \A l \in Chain : i < l /\ l < j => docs[l].value[k] = None

\* What all the documents above frame i disable, and what they ignore in a glob.
Disabled(i) == UNION {docs[j].disable : j \in {l \in Chain : l > i}}
IgnoredIn(i, g) == UNION {docs[j].ignores[g] : j \in {l \in Chain : l > i}}

\* "Local keys override inherited ones", through every table and however far up.
ChildWins == phase = "loaded" => \A k \in Key : Nearest(0, k, config.value[k])

\* The same for severities, where the chain spells a rule in one way; where it does
\* not, the severity is one of those it gives the rule.
SpelledInChain(r) ==
  {id \in Id : RuleOf[id] = r /\ \E j \in Chain : docs[j].value[id] # None}

SeverityIsNearest ==
  phase = "loaded" =>
    \A r \in Rule :
      /\ SpelledInChain(r) = {} => config.severity[r] = None
      /\ \A id \in Id : SpelledInChain(r) = {id} => Nearest(0, id, config.severity[r])
      /\ SpelledInChain(r) # {} =>
           \E id \in SpelledInChain(r), j \in Chain :
             config.severity[r] # None /\ config.severity[r] = docs[j].value[id]

\* "Extending a profile never silently drops its rules": what any file of the chain
\* disables or ignores, in either case, stays so.
ListsUnite ==
  phase = "loaded" =>
    /\ config.disable = Rules(Disabled(0))
    /\ \A g \in Glob : config.ignores[g] = Rules(IgnoredIn(0, g))

\* A mistyped key fails the load, in whichever file of the chain it is.
TyposAreErrors == phase = "loaded" => \A j \in Chain : ~docs[j].typo

\* No file is read twice, so that every load ends.
NoFileTwice == \A i, j \in DOMAIN seen : seen[i] = seen[j] => i = j

\* Every load ends: with a configuration, the defaults or an error.
Loads == <>(phase \in {"loaded", "default", "failed"})

\* The inductive invariant: what has been merged is right for the frames above level.
MergedIsRight ==
  /\ \A k \in Leaf : Nearest(level, k, merged.value[k])
  /\ merged.disable = Disabled(level)
  /\ \A g \in Glob : merged.ignores[g] = IgnoredIn(level, g)
  /\ merged.typo <=> \E j \in Chain : j > level /\ docs[j].typo

IInv ==
  /\ TypeOK
  /\ NoFileTwice
  /\ phase \in {"finding", "reading"} => level = 0 /\ merged = None
  /\ phase = "reading" => path \in Path
  /\ phase = "merging" => level < Len(docs) /\ merged # None /\ MergedIsRight
  /\ ChildWins /\ SeverityIsNearest /\ ListsUnite /\ TyposAreErrors
=============================================================================
