---------------------------- MODULE ResultsCache ----------------------------
(***************************************************************************)
(* The values of the persistent results cache, `.xray-cache`, and the      *)
(* operations of `Cache` on them.  A file's stamp is its (mtime, size)     *)
(* pair, the only thing the cache ever compares; it is opaque here.        *)
(*                                                                         *)
(* HashMap<String, CacheEntry> is a function on Path with None for a       *)
(* missing key.                                                            *)
(***************************************************************************)
EXTENDS LintWorld

CONSTANTS
  Stamp,   \* the (mtime, size) pairs a file may have
  Torn     \* a cache file that does not parse: empty, cut short or mixed

File  == [content: Content, stamp: Stamp]
Entry == [stamp: Stamp, raw: SUBSET Rule, gpu: BOOLEAN]

EntryMap  == [Path -> Entry \cup {None}]
NoEntries == [p \in Path |-> None]

\* A well-formed cache file.
Doc == [fingerprint: Key, entries: EntryMap]

ASSUME CacheSentinels ==
  /\ None \notin File
  /\ None \notin Entry
  /\ None \notin Doc
  /\ Torn \notin Doc
  /\ Torn # None

\* Mutant: the fingerprint is not compared.
LoadAnyFingerprint(store, key) ==
  IF store \notin {None, Torn} THEN store.entries ELSE NoEntries

\* The entries a run starts from: those of a readable, well-formed file that
\* was written under this run's fingerprint, and none otherwise.
Load(store, key) ==
  IF store \notin {None, Torn} /\ store.fingerprint = key
  THEN store.entries
  ELSE NoEntries

\* file_stamp: None when the file cannot be stat'd.
StampOf(disk, p) == IF disk[p] = None THEN None ELSE disk[p].stamp

\* `get` answers from the entry whose stamp is the file's present one.
IsHit(loaded, disk, p) ==
  /\ loaded[p] # None
  /\ disk[p] # None
  /\ loaded[p].stamp = StampOf(disk, p)

\* Mutant: an entry does not remember the file's GPU import.
HitAnswerSansImports(loaded, p) == [raw |-> loaded[p].raw, gpu |-> FALSE]

HitAnswer(loaded, p) == [raw |-> loaded[p].raw, gpu |-> loaded[p].gpu]

\* `insert` records raw findings under the stamp the file has at that moment,
\* and nothing for a file that is gone.
Insert(fresh, disk, p, ans) ==
  IF disk[p] = None THEN fresh
  ELSE [fresh EXCEPT ![p] = [stamp |-> StampOf(disk, p),
                             raw |-> ans.raw, gpu |-> ans.gpu]]

\* Mutant: the loaded entries of every other path are kept.
SavedEntriesUnpruned(fresh, keep, loaded) ==
  [p \in Path |-> IF fresh[p] # None THEN fresh[p] ELSE loaded[p]]

\* What `save` writes: this run's fresh entries, then the loaded entries of
\* the paths that hit; every other path is pruned.
SavedEntries(fresh, keep, loaded) ==
  [p \in Path |-> IF fresh[p] # None THEN fresh[p]
                  ELSE IF p \in keep THEN loaded[p]
                  ELSE None]

SavedDoc(key, fresh, keep, loaded) ==
  [fingerprint |-> key, entries |-> SavedEntries(fresh, keep, loaded)]
=============================================================================
