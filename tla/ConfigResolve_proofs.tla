----------------------- MODULE ConfigResolve_proofs -----------------------
(***************************************************************************)
(* What a configuration is made of, for every graph of files and contents. *)
(***************************************************************************)
EXTENDS ConfigResolve, TLAPS

LEMMA DocFields ==
  ASSUME NEW d \in Doc
  PROVE  /\ d.extends \in Ref \cup {None} /\ d.value \in [Leaf -> Value \cup {None}]
         /\ d.disable \in SUBSET Id /\ d.ignores \in [Glob -> SUBSET Id]
         /\ d.typo \in BOOLEAN
  BY DEF Doc

LEMMA MergeFields ==
  ASSUME NEW p \in Doc, NEW c \in Doc
  PROVE  /\ Merge(p, c) \in Doc
         /\ \A k \in Leaf : Merge(p, c).value[k] = Over(p.value[k], c.value[k])
         /\ Merge(p, c).disable = c.disable \cup p.disable
         /\ \A g \in Glob : Merge(p, c).ignores[g] = c.ignores[g] \cup p.ignores[g]
         /\ Merge(p, c).typo <=> (c.typo \/ p.typo)
<1>1. \A k \in Leaf : Over(p.value[k], c.value[k]) \in Value \cup {None}
  BY DocFields DEF Over
<1>2. \A g \in Glob : c.ignores[g] \cup p.ignores[g] \in SUBSET Id
  BY DocFields
<1> QED BY <1>1, <1>2, DocFields DEF Merge, Doc

-----------------------------------------------------------------------------
(* One more frame.                                                         *)

LEMMA NearestBelow ==
  ASSUME docs \in Seq(Doc), level \in 1..Len(docs), NEW k \in Leaf, NEW v,
         Nearest(level, k, v)
  PROVE  Nearest(level - 1, k, Over(v, docs[level].value[k]))
<1>1. Chain = 1..Len(docs)
  BY DEF Chain
<1>2. CASE docs[level].value[k] # None
  BY <1>1, <1>2 DEF Nearest, Over
<1>3. CASE docs[level].value[k] = None
  <2>1. Over(v, docs[level].value[k]) = v
    BY <1>3 DEF Over
  <2>2. \A l \in Chain : l > level - 1 <=> l > level \/ l = level
    BY <1>1
  <2> QED BY <1>1, <1>3, <2>1, <2>2 DEF Nearest
<1> QED BY <1>2, <1>3

LEMMA DisabledBelow ==
  ASSUME docs \in Seq(Doc), level \in 1..Len(docs)
  PROVE  /\ Disabled(level - 1) = docs[level].disable \cup Disabled(level)
         /\ \A g \in Glob : IgnoredIn(level - 1, g) = docs[level].ignores[g] \cup IgnoredIn(level, g)
<1>1. {l \in Chain : l > level - 1} = {level} \cup {l \in Chain : l > level}
  BY DEF Chain
<1> QED BY <1>1 DEF Disabled, IgnoredIn

-----------------------------------------------------------------------------
(* The whole chain becomes the configuration.                              *)

\* A spelling that the chain has is one that the merged document has.
LEMMA SpellingsMerged ==
  ASSUME MergedIsRight, level = 0, docs \in Seq(Doc), NEW r \in Rule
  PROVE  /\ Spellings(merged, r) = SpelledInChain(r)
         /\ \A id \in Id : Nearest(0, id, merged.value[id])
<1>1. \A id \in Id : Nearest(0, id, merged.value[id])
  BY DEF MergedIsRight, Leaf
<1>2. ASSUME NEW id \in Id
      PROVE  merged.value[id] # None <=> \E j \in Chain : docs[j].value[id] # None
  BY <1>1, <1>2 DEF Nearest, Chain
<1> QED BY <1>1, <1>2 DEF Spellings, SpelledInChain

LEMMA LoadedIsRight ==
  ASSUME TypeOK, merged \in Doc, MergedIsRight, level = 0, ~merged.typo,
         NEW c \in Normalised(merged)
  PROVE  /\ c \in Config
         /\ \A k \in Key : Nearest(0, k, c.value[k])
         /\ c.disable = Rules(Disabled(0))
         /\ \A g \in Glob : c.ignores[g] = Rules(IgnoredIn(0, g))
         /\ \A j \in Chain : ~docs[j].typo
         /\ c.severity \in Severities(merged)
<1>1. PICK s \in Severities(merged) :
        c = [value |-> [k \in Key |-> merged.value[k]], disable |-> Rules(merged.disable),
             ignores |-> [g \in Glob |-> Rules(merged.ignores[g])], severity |-> s]
  BY DEF Normalised
<1>2. c.value = [k \in Key |-> merged.value[k]] /\ c.disable = Rules(merged.disable)
      /\ c.ignores = [g \in Glob |-> Rules(merged.ignores[g])] /\ c.severity = s
  BY <1>1
<1>3. /\ \A k \in Key : merged.value[k] \in Value \cup {None}
      /\ merged.disable \subseteq Id /\ \A g \in Glob : merged.ignores[g] \subseteq Id
  BY DocFields DEF Leaf
<1>4. /\ Rules(merged.disable) \subseteq Rule
      /\ \A g \in Glob : Rules(merged.ignores[g]) \subseteq Rule
  BY <1>3, ConfigAssumption DEF Rules
<1>5. s \in [Rule -> Value \cup {None}]
  BY DEF Severities
<1>6. c \in Config
  BY <1>1, <1>3, <1>4, <1>5 DEF Config
<1>7. \A k \in Key : Nearest(0, k, c.value[k])
  BY <1>2 DEF MergedIsRight, Leaf
<1>8. \A j \in Chain : ~docs[j].typo
  BY DEF MergedIsRight, Chain, TypeOK
<1> QED BY <1>2, <1>6, <1>7, <1>8 DEF MergedIsRight

\* Whatever the order in which two spellings are drained.
LEMMA SeverityFromChain ==
  ASSUME TypeOK, MergedIsRight, level = 0, NEW s \in Severities(merged), NEW r \in Rule
  PROVE  /\ SpelledInChain(r) = {} => s[r] = None
         /\ \A id \in Id : SpelledInChain(r) = {id} => Nearest(0, id, s[r])
         /\ SpelledInChain(r) # {} =>
              \E id \in SpelledInChain(r), j \in Chain : s[r] # None /\ s[r] = docs[j].value[id]
<1>1. Spellings(merged, r) = SpelledInChain(r) /\ \A id \in Id : Nearest(0, id, merged.value[id])
  BY SpellingsMerged DEF TypeOK
<1>2. IF SpelledInChain(r) = {} THEN s[r] = None
      ELSE \E id \in SpelledInChain(r) : s[r] = merged.value[id] /\ s[r] # None
  BY <1>1 DEF Severities, Spellings
<1>3. ASSUME NEW id \in SpelledInChain(r), s[r] = merged.value[id], s[r] # None
      PROVE  \E j \in Chain : s[r] = docs[j].value[id]
  BY <1>1, <1>3 DEF Nearest, SpelledInChain
<1> QED BY <1>1, <1>2, <1>3

-----------------------------------------------------------------------------
(* The invariant.                                                          *)

LEMMA InitIsRight == ASSUME Init PROVE IInv
<1>1. Defaults \in Config
  BY DEF Defaults, Config
<1>2. <<>> \in Seq(File) /\ <<>> \in Seq(Doc) /\ 0 \in Nat /\ DOMAIN <<>> = {}
  OBVIOUS
<1>3. TypeOK
  BY <1>1, <1>2 DEF Init, TypeOK
<1>4. NoFileTwice
  BY DEF Init, NoFileTwice
<1> QED
  BY <1>3, <1>4 DEF Init, IInv, ChildWins, SeverityIsNearest, ListsUnite, TyposAreErrors

LEMMA FindKeeps == ASSUME IInv, Find PROVE IInv'
<1>1. TypeOK'
  BY ConfigAssumption DEF IInv, TypeOK, Find
<1>2. NoFileTwice'
  BY DEF IInv, NoFileTwice, Find
<1>3. phase' = "reading" => path' \in Path
  BY ConfigAssumption DEF IInv, TypeOK, Find
<1>4. phase = "finding" /\ phase' \in {"finding", "reading", "default"}
      /\ UNCHANGED <<level, merged>>
  BY DEF Find
<1> QED
  BY <1>1, <1>2, <1>3, <1>4
     DEF IInv, ChildWins, SeverityIsNearest, ListsUnite, TyposAreErrors

LEMMA FailKeeps == ASSUME IInv, Fail PROVE IInv'
<1>1. TypeOK'
  BY DEF IInv, TypeOK, Fail
<1>2. NoFileTwice'
  BY DEF IInv, NoFileTwice, Fail
<1> QED
  BY <1>1, <1>2 DEF Fail, IInv, ChildWins, SeverityIsNearest, ListsUnite, TyposAreErrors

LEMMA ReadKeeps == ASSUME IInv, Read PROVE IInv'
<1> DEFINE file == FileAt[path]
           doc == text[file]
<1>1. /\ phase = "reading" /\ file # None /\ ~Seen(file) /\ doc # None
      /\ seen' = Append(seen, file) /\ docs' = Append(docs, doc)
      /\ text' = text /\ dir' = dir /\ config' = config
  BY DEF Read
<1>2. \/ doc.extends # None /\ path' = Join[path, doc.extends]
         /\ UNCHANGED <<phase, level, merged>>
      \/ doc.extends = None /\ phase' = "merging" /\ level' = Len(docs) /\ merged' = doc
         /\ path' = path
  BY DEF Read
<1>3. path \in Path /\ file \in File
  BY <1>1, ConfigAssumption DEF IInv
<1>4. doc \in Doc
  <2>1. text \in [File -> Doc \cup {None}]
    BY ConfigAssumption DEF IInv, TypeOK
  <2> QED BY <1>1, <1>3, <2>1
<1>5. seen \in Seq(File) /\ docs \in Seq(Doc) /\ Len(docs) \in Nat
  BY DEF IInv, TypeOK
<1>6. NoFileTwice'
  <2>1. seen' \in Seq(File) /\ DOMAIN seen' = DOMAIN seen \cup {Len(seen) + 1}
        /\ seen'[Len(seen) + 1] = file /\ \A i \in DOMAIN seen : seen'[i] = seen[i]
    BY <1>1, <1>3, <1>5
  <2>2. \A i \in DOMAIN seen : seen[i] # file
    BY <1>1 DEF Seen
  <2> QED BY <2>1, <2>2 DEF NoFileTwice, IInv
<1>7. docs' \in Seq(Doc) /\ Len(docs') = Len(docs) + 1 /\ docs'[Len(docs) + 1] = doc
  BY <1>1, <1>4, <1>5
<1> HIDE DEF file, doc
<1>8. TypeOK' /\ path' \in Path
  <2>1. seen' \in Seq(File)
    BY <1>1, <1>3, <1>5
  <2>2. doc.extends # None => path' \in Path
    <3> SUFFICES ASSUME doc.extends # None PROVE path' \in Path
      OBVIOUS
    <3>1. doc.extends \in Ref
      BY <1>4, DocFields
    <3>2. path' = Join[path, doc.extends]
      BY <1>2
    <3>3. <<path, doc.extends>> \in Path \X Ref /\ Join \in [Path \X Ref -> Path]
      BY <1>3, <3>1, ConfigAssumption
    <3> QED BY <3>2, <3>3
  <2>3. path' \in Path /\ level' \in Nat /\ merged' \in Doc \cup {None}
        /\ phase' \in {"reading", "merging"}
    BY <1>1, <1>2, <1>3, <1>4, <1>5, <2>2 DEF IInv, TypeOK
  <2> QED BY <1>1, <1>7, <2>1, <2>3 DEF IInv, TypeOK
<1>9. phase' = "merging" => level' < Len(docs') /\ merged' # None /\ MergedIsRight'
  <2> SUFFICES ASSUME phase' = "merging"
               PROVE  level' < Len(docs') /\ merged' # None /\ MergedIsRight'
    OBVIOUS
  <2>1. level' = Len(docs) /\ merged' = doc
    BY <1>1, <1>2
  <2>2. Chain' = 1..(Len(docs) + 1)
    BY <1>5, <1>7 DEF Chain
  <2>3. {l \in Chain' : l > Len(docs)} = {Len(docs) + 1}
    BY <1>5, <2>2
  <2>4. \A k \in Leaf : Nearest(level, k, merged.value[k])'
    BY <1>5, <1>7, <2>1, <2>2 DEF Nearest
  <2>5. merged'.disable = Disabled(level)' /\ \A g \in Glob : merged'.ignores[g] = IgnoredIn(level, g)'
    BY <1>7, <2>1, <2>3 DEF Disabled, IgnoredIn
  <2>6. merged'.typo <=> \E j \in Chain' : j > level' /\ docs'[j].typo
    BY <1>5, <1>7, <2>1, <2>2
  <2>7. level' < Len(docs')
    BY <1>5, <1>7, <2>1
  <2> QED BY <1>4, <2>1, <2>4, <2>5, <2>6, <2>7, ConfigAssumption DEF MergedIsRight
<1>10. phase' \in {"reading", "merging"} /\ (phase' = "reading" => level' = 0 /\ merged' = None)
  BY <1>1, <1>2 DEF IInv
<1> QED
  BY <1>6, <1>8, <1>9, <1>10
     DEF IInv, ChildWins, SeverityIsNearest, ListsUnite, TyposAreErrors

LEMMA MergeKeeps == ASSUME IInv, MergeFrame PROVE IInv'
<1>1. /\ level \in 1..Len(docs) /\ docs \in Seq(Doc) /\ merged \in Doc /\ docs[level] \in Doc
      /\ MergedIsRight /\ merged' = Merge(merged, docs[level])
      /\ level' = level - 1 /\ level' \in Nat /\ level' < Len(docs)
  BY DEF MergeFrame, IInv, TypeOK
<1>2. UNCHANGED <<text, phase, dir, path, seen, docs, config>> /\ phase = "merging"
  BY DEF MergeFrame
<1>3. merged' \in Doc
  BY <1>1, MergeFields
<1>4. MergedIsRight'
  <2>1. \A k \in Leaf : Nearest(level - 1, k, merged'.value[k])
    <3> TAKE k \in Leaf
    <3>1. Nearest(level, k, merged.value[k])
      BY <1>1 DEF MergedIsRight
    <3>2. Nearest(level - 1, k, Over(merged.value[k], docs[level].value[k]))
      BY <1>1, <3>1, NearestBelow
    <3>3. merged'.value[k] = Over(merged.value[k], docs[level].value[k])
      BY <1>1, MergeFields
    <3> QED BY <3>2, <3>3
  <2>2. /\ merged'.disable = Disabled(level - 1)
        /\ \A g \in Glob : merged'.ignores[g] = IgnoredIn(level - 1, g)
    <3>1. /\ merged.disable = Disabled(level)
          /\ \A g \in Glob : merged.ignores[g] = IgnoredIn(level, g)
      BY <1>1 DEF MergedIsRight
    <3>2. /\ merged'.disable = docs[level].disable \cup merged.disable
          /\ \A g \in Glob : merged'.ignores[g] = docs[level].ignores[g] \cup merged.ignores[g]
      BY <1>1, MergeFields
    <3>3. /\ Disabled(level - 1) = docs[level].disable \cup Disabled(level)
          /\ \A g \in Glob : IgnoredIn(level - 1, g) = docs[level].ignores[g] \cup IgnoredIn(level, g)
      BY <1>1, DisabledBelow
    <3> QED BY <3>1, <3>2, <3>3
  <2>3. merged'.typo <=> \E j \in Chain : j > level - 1 /\ docs[j].typo
    <3>1. \A j \in Chain : j > level - 1 <=> j > level \/ j = level
      BY <1>1 DEF Chain
    <3>2. level \in Chain
      BY <1>1 DEF Chain
    <3>3. merged'.typo <=> (docs[level].typo \/ merged.typo)
      BY <1>1, MergeFields
    <3> QED BY <1>1, <3>1, <3>2, <3>3 DEF MergedIsRight
  <2> QED
    BY <1>1, <1>2, <2>1, <2>2, <2>3 DEF MergedIsRight, Nearest, Disabled, IgnoredIn, Chain
<1>5. TypeOK' /\ NoFileTwice'
  BY <1>1, <1>2, <1>3 DEF IInv, TypeOK, NoFileTwice
<1>6. merged' # None
  BY <1>3, ConfigAssumption
<1> QED
  BY <1>1, <1>2, <1>4, <1>5, <1>6
     DEF IInv, ChildWins, SeverityIsNearest, ListsUnite, TyposAreErrors

LEMMA DeserialiseKeeps == ASSUME IInv, Deserialise PROVE IInv'
<1>1. /\ phase = "merging" /\ level = 0 /\ merged \in Doc /\ MergedIsRight /\ TypeOK
      /\ UNCHANGED <<text, dir, path, seen, docs, level, merged>>
  BY DEF Deserialise, IInv, TypeOK
<1>2. NoFileTwice'
  BY <1>1 DEF IInv, NoFileTwice
<1>3. CASE phase' = "failed" /\ config' = config
  <2>1. TypeOK'
    BY <1>1, <1>3 DEF TypeOK
  <2> QED
    BY <1>2, <1>3, <2>1 DEF IInv, ChildWins, SeverityIsNearest, ListsUnite, TyposAreErrors
<1>4. CASE ~merged.typo /\ phase' = "loaded" /\ config' \in Normalised(merged)
  <2>1. /\ config' \in Config
        /\ \A k \in Key : Nearest(0, k, config'.value[k])
        /\ config'.disable = Rules(Disabled(0))
        /\ \A g \in Glob : config'.ignores[g] = Rules(IgnoredIn(0, g))
        /\ \A j \in Chain : ~docs[j].typo
        /\ config'.severity \in Severities(merged)
    BY <1>1, <1>4, LoadedIsRight
  <2>2. TypeOK'
    BY <1>1, <1>4, <2>1 DEF TypeOK
  <2>3. ChildWins'
    BY <1>1, <2>1 DEF ChildWins, Nearest, Chain
  <2>4. ListsUnite'
    BY <1>1, <2>1 DEF ListsUnite, Disabled, IgnoredIn, Chain, Rules
  <2>5. TyposAreErrors'
    BY <1>1, <2>1 DEF TyposAreErrors, Chain
  <2>6. SeverityIsNearest'
    <3>1. \A r \in Rule :
            /\ SpelledInChain(r) = {} => config'.severity[r] = None
            /\ \A id \in Id : SpelledInChain(r) = {id} => Nearest(0, id, config'.severity[r])
            /\ SpelledInChain(r) # {} =>
                 \E id \in SpelledInChain(r), j \in Chain :
                   config'.severity[r] # None /\ config'.severity[r] = docs[j].value[id]
      BY <1>1, <2>1, SeverityFromChain
    <3> QED BY <1>1, <3>1 DEF SeverityIsNearest, SpelledInChain, Nearest, Chain
  <2> QED BY <1>2, <1>4, <2>2, <2>3, <2>4, <2>5, <2>6 DEF IInv
<1> QED BY <1>1, <1>3, <1>4 DEF Deserialise

\* Whatever files extend whatever, a configuration is what their chain says, and no
\* file is in the chain twice.
THEOREM ChainInvariant == Spec => []IInv
<1>1. Init => IInv
  BY InitIsRight
<1>2. IInv /\ [Next]_vars => IInv'
  <2> SUFFICES ASSUME IInv, [Next]_vars PROVE IInv'
    OBVIOUS
  <2>1. CASE UNCHANGED vars
    BY <2>1 DEF vars, IInv, TypeOK, NoFileTwice, MergedIsRight, Nearest, Disabled, IgnoredIn,
       Chain, ChildWins, SeverityIsNearest, SpelledInChain, ListsUnite, TyposAreErrors
  <2> QED
    BY <2>1, FindKeeps, FailKeeps, ReadKeeps, MergeKeeps, DeserialiseKeeps DEF Next
<1> QED BY <1>1, <1>2, PTL DEF Spec

\* The file nearest to the project that has a key decides it.
THEOREM ChildAlwaysWins == Spec => []ChildWins
<1>1. IInv => ChildWins
  BY DEF IInv
<1> QED BY <1>1, ChainInvariant, PTL

\* So it is with severities, as far as a rule is spelled in one way.
THEOREM SeveritiesAreNearest == Spec => []SeverityIsNearest
<1>1. IInv => SeverityIsNearest
  BY DEF IInv
<1> QED BY <1>1, ChainInvariant, PTL

\* No file of the chain loses what it disables or ignores.
THEOREM ListsAlwaysUnite == Spec => []ListsUnite
<1>1. IInv => ListsUnite
  BY DEF IInv
<1> QED BY <1>1, ChainInvariant, PTL

\* A configuration has no unknown key in any file of its chain.
THEOREM TyposNeverLoad == Spec => []TyposAreErrors
<1>1. IInv => TyposAreErrors
  BY DEF IInv
<1> QED BY <1>1, ChainInvariant, PTL
=============================================================================
