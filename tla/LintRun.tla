------------------------------ MODULE LintRun ------------------------------
(***************************************************************************)
(* `xray` as it runs: processes that load `.xray-cache`, answer for their  *)
(* files in parallel (from the cache or by reading and checking the file), *)
(* write the cache back and report, while editors write the source files,  *)
(* other xray processes share the cache file, `xray clean` removes it and  *)
(* any process may be killed between two steps.                            *)
(***************************************************************************)
EXTENDS ResultsCache

CONSTANTS
  Run,             \* the xray processes that may run at the same time
  EditsRace,       \* may a file be written between a run's read and its write-back?
  StampsCollide    \* may a write give a file a (mtime, size) it had before?

ASSUME EnvironmentAssumption ==
  /\ EditsRace \in BOOLEAN
  /\ StampsCollide \in BOOLEAN

VARIABLES
  disk,     \* the source tree: a content and a stamp per existing file
  store,    \* the file `.xray-cache`: None, Torn or a Doc
  pc,       \* where each process is in runner::run
  task,     \* its arguments, or None when it is not running
  loaded,   \* Cache.loaded
  missed,   \* the files the cache had no answer for
  answer,   \* per file, what the worker returned, or None
  todo,     \* the files the serial write-back loop has still to visit
  fresh,    \* Cache.fresh
  keep,     \* Cache.keep
  report,   \* what the run printed and exits with, or None
  used,     \* history: the stamps each file has had
  suspect   \* history: the stamps a file got by a racing or stamp-reusing write

runVars  == <<pc, task, loaded, missed, answer, todo, fresh, keep, report>>
treeVars == <<disk, used, suspect>>
vars     == <<disk, store, pc, task, loaded, missed, answer, todo, fresh, keep,
              report, used, suspect>>

Phase == {"idle", "linting", "writing", "saving", "unlinked", "closing", "reported"}

TypeOK ==
  /\ disk \in [Path -> File \cup {None}]
  /\ store \in Doc \cup {None, Torn}
  /\ pc \in [Run -> Phase]
  /\ task \in [Run -> Task \cup {None}]
  /\ loaded \in [Run -> EntryMap]
  /\ missed \in [Run -> SUBSET Path]
  /\ answer \in [Run -> [Path -> Answer \cup {None, Failed}]]
  /\ todo \in [Run -> SUBSET Path]
  /\ fresh \in [Run -> EntryMap]
  /\ keep \in [Run -> SUBSET Path]
  /\ report \in [Run -> RunReport \cup {None}]
  /\ used \in [Path -> SUBSET Stamp]
  /\ suspect \in [Path -> SUBSET Stamp]

Init ==
  /\ disk \in [Path -> File \cup {None}]
  /\ store = None
  /\ pc = [r \in Run |-> "idle"]
  /\ task = [r \in Run |-> None]
  /\ loaded = [r \in Run |-> NoEntries]
  /\ missed = [r \in Run |-> {}]
  /\ answer = [r \in Run |-> NoAnswers]
  /\ todo = [r \in Run |-> {}]
  /\ fresh = [r \in Run |-> NoEntries]
  /\ keep = [r \in Run |-> {}]
  /\ report = [r \in Run |-> None]
  /\ used = [p \in Path |-> IF disk[p] = None THEN {} ELSE {disk[p].stamp}]
  /\ suspect = [p \in Path |-> {}]

-----------------------------------------------------------------------------
(* One process, in the order of runner::run.                               *)

\* The outcome of p is raw rule output that `insert` is still to record.
Cacheable(r, p) ==
  /\ p \in missed[r]
  /\ p \notin Notebook
  /\ answer[r][p] \notin {None, Failed}
  /\ ~task[r].no_cache

\* Paths and job script resolved, the cache loaded unless --no-cache.
Start(r, s, inv, ps) ==
  /\ pc[r] = "idle"
  /\ \A p \in ps : disk[p] # None
  /\ pc' = [pc EXCEPT ![r] = "linting"]
  /\ task' = [task EXCEPT ![r] =
                [setting |-> s, paths |-> ps, hide |-> inv.hide,
                 gate |-> inv.gate, no_cache |-> inv.no_cache]]
  /\ loaded' = [loaded EXCEPT ![r] =
                  IF inv.no_cache THEN NoEntries ELSE Load(store, KeyOf[s])]
  /\ todo' = [todo EXCEPT ![r] = ps]
  /\ UNCHANGED <<disk, store, missed, answer, fresh, keep, report, used, suspect>>

Pending(r, p) ==
  /\ pc[r] = "linting"
  /\ p \in task[r].paths
  /\ answer[r][p] = None
  /\ p \notin missed[r]

ServedFromCache(r, p) == p \notin Notebook /\ IsHit(loaded[r], disk, p)

\* A worker stats the file and answers from the cache, reading nothing.
Hit(r, p) ==
  /\ Pending(r, p)
  /\ ServedFromCache(r, p)
  /\ answer' = [answer EXCEPT ![r][p] = HitAnswer(loaded[r], p)]
  /\ UNCHANGED <<disk, store, pc, task, loaded, missed, todo, fresh, keep, report,
                 used, suspect>>

Miss(r, p) ==
  /\ Pending(r, p)
  /\ ~ServedFromCache(r, p)
  /\ missed' = [missed EXCEPT ![r] = @ \cup {p}]
  /\ UNCHANGED <<disk, store, pc, task, loaded, answer, todo, fresh, keep, report,
                 used, suspect>>

\* The worker reads the file, which may have changed since the stat, and
\* checks what it read.
ReadAndCheck(r, p) ==
  /\ pc[r] = "linting"
  /\ p \in missed[r]
  /\ answer[r][p] = None
  /\ answer' = [answer EXCEPT ![r][p] =
                  Lint(p, IF disk[p] = None THEN None ELSE disk[p].content,
                       task[r].setting)]
  /\ UNCHANGED <<disk, store, pc, task, loaded, missed, todo, fresh, keep, report,
                 used, suspect>>

\* collect(): every worker is done.
Collect(r) ==
  /\ pc[r] = "linting"
  /\ \A p \in task[r].paths : answer[r][p] # None
  /\ pc' = [pc EXCEPT ![r] = IF task[r].no_cache THEN "closing" ELSE "writing"]
  /\ UNCHANGED <<disk, store, task, loaded, missed, answer, todo, fresh, keep, report,
                 used, suspect>>

\* Mutant: what the filters left of the findings is cached.
WriteBackFiltered(r, p) ==
  /\ pc[r] = "writing"
  /\ p \in todo[r]
  /\ todo' = [todo EXCEPT ![r] = @ \ {p}]
  /\ fresh' = [fresh EXCEPT ![r] =
                 IF Cacheable(r, p)
                 THEN Insert(@, disk, p, [answer[r][p] EXCEPT !.raw = @ \ task[r].hide])
                 ELSE @]
  /\ keep' = [keep EXCEPT ![r] = IF p \notin missed[r] THEN @ \cup {p} ELSE @]
  /\ UNCHANGED <<disk, store, pc, task, loaded, missed, answer, report, used, suspect>>

\* One turn of the write-back loop: store a re-checked file's findings, carry
\* a hit over, pass by notebooks and files that failed.
WriteBack(r, p) ==
  /\ pc[r] = "writing"
  /\ p \in todo[r]
  /\ todo' = [todo EXCEPT ![r] = @ \ {p}]
  /\ fresh' = [fresh EXCEPT ![r] =
                 IF Cacheable(r, p) THEN Insert(@, disk, p, answer[r][p]) ELSE @]
  /\ keep' = [keep EXCEPT ![r] = IF p \notin missed[r] THEN @ \cup {p} ELSE @]
  /\ UNCHANGED <<disk, store, pc, task, loaded, missed, answer, report, used, suspect>>

\* File::create truncates the file before a byte is written.
OpenStore(r) ==
  /\ pc[r] = "writing"
  /\ todo[r] = {}
  /\ store' = Torn
  /\ pc' = [pc EXCEPT ![r] = "saving"]
  /\ UNCHANGED <<disk, task, loaded, missed, answer, todo, fresh, keep, report,
                 used, suspect>>

\* The directory is not writable: reported, and otherwise ignored.
CannotOpenStore(r) ==
  /\ pc[r] = "writing"
  /\ todo[r] = {}
  /\ pc' = [pc EXCEPT ![r] = "closing"]
  /\ UNCHANGED <<disk, store, task, loaded, missed, answer, todo, fresh, keep, report,
                 used, suspect>>

\* BufWriter spills a part of the document.
Spill(r) ==
  /\ pc[r] = "saving"
  /\ store' = Torn
  /\ UNCHANGED <<disk, runVars, used, suspect>>

\* The last byte is flushed.  Torn when the write fails, or when a longer
\* document another process wrote meanwhile shows behind this one's end.
Flush(r) ==
  /\ pc[r] = "saving"
  /\ store' \in {SavedDoc(KeyOf[task[r].setting], fresh[r], keep[r], loaded[r]), Torn}
  /\ pc' = [pc EXCEPT ![r] = "closing"]
  /\ UNCHANGED <<disk, task, loaded, missed, answer, todo, fresh, keep, report,
                 used, suspect>>

\* The file was removed while open: what is flushed has no name any more.
FlushUnlinked(r) ==
  /\ pc[r] = "unlinked"
  /\ pc' = [pc EXCEPT ![r] = "closing"]
  /\ UNCHANGED <<disk, store, task, loaded, missed, answer, todo, fresh, keep, report,
                 used, suspect>>

\* JOB004, the filters, the output and the exit code.
Report(r) ==
  /\ pc[r] = "closing"
  /\ report' = [report EXCEPT ![r] = ReportOf(task[r], answer[r])]
  /\ pc' = [pc EXCEPT ![r] = "reported"]
  /\ UNCHANGED <<disk, store, task, loaded, missed, answer, todo, fresh, keep,
                 used, suspect>>

\* The process exits after its report, or is killed before; its memory goes.
Leave(r) ==
  /\ pc[r] # "idle"
  /\ pc' = [pc EXCEPT ![r] = "idle"]
  /\ task' = [task EXCEPT ![r] = None]
  /\ loaded' = [loaded EXCEPT ![r] = NoEntries]
  /\ missed' = [missed EXCEPT ![r] = {}]
  /\ answer' = [answer EXCEPT ![r] = NoAnswers]
  /\ todo' = [todo EXCEPT ![r] = {}]
  /\ fresh' = [fresh EXCEPT ![r] = NoEntries]
  /\ keep' = [keep EXCEPT ![r] = {}]
  /\ report' = [report EXCEPT ![r] = None]
  /\ UNCHANGED <<disk, store, used, suspect>>

-----------------------------------------------------------------------------
(* The world around the processes.                                         *)

\* Some run has checked p and has not yet stamped what it found.
Exposed(p) == \E r \in Run : p \in todo[r] /\ Cacheable(r, p)

\* A file is created, written or replaced by a rename; its new stamp may be
\* older than the last one (`mv`, `cp -p`, a checkout).
Edit(p, c, st) ==
  /\ EditsRace \/ ~Exposed(p)
  /\ StampsCollide \/ st \notin used[p]
  /\ disk' = [disk EXCEPT ![p] = [content |-> c, stamp |-> st]]
  /\ used' = [used EXCEPT ![p] = @ \cup {st}]
  /\ suspect' = [suspect EXCEPT ![p] =
                   IF Exposed(p) \/ st \in used[p] THEN @ \cup {st} ELSE @]
  /\ UNCHANGED <<store, runVars>>

Delete(p) ==
  /\ disk[p] # None
  /\ disk' = [disk EXCEPT ![p] = None]
  /\ UNCHANGED <<store, runVars, used, suspect>>

\* `xray clean`: the file is unlinked, also under a process that is writing it.
Clean ==
  /\ store # None
  /\ store' = None
  /\ pc' = [r \in Run |-> IF pc[r] = "saving" THEN "unlinked" ELSE pc[r]]
  /\ UNCHANGED <<treeVars, task, loaded, missed, answer, todo, fresh, keep, report>>

RunStep(r) ==
  \/ \E s \in Setting, inv \in Invocation, ps \in SUBSET Path : Start(r, s, inv, ps)
  \/ \E p \in Path : Hit(r, p) \/ Miss(r, p) \/ ReadAndCheck(r, p) \/ WriteBack(r, p)
  \/ Collect(r)
  \/ OpenStore(r)
  \/ CannotOpenStore(r)
  \/ Spill(r)
  \/ Flush(r)
  \/ FlushUnlinked(r)
  \/ Report(r)
  \/ Leave(r)

EnvStep ==
  \/ \E p \in Path : Delete(p)
  \/ \E p \in Path, c \in Content, st \in Stamp : Edit(p, c, st)
  \/ Clean

Next == EnvStep \/ \E r \in Run : RunStep(r)

Spec == Init /\ [][Next]_vars

-----------------------------------------------------------------------------
(* Correctness.                                                            *)

\* An entry that would be served for the file as it is now must be what
\* linting the file now would give, under every setting the entry is valid
\* for; the writes the (mtime, size) heuristic cannot see are set apart.
SoundFor(entries, key) ==
  \A p \in Path, s \in Setting :
    (/\ IsHit(entries, disk, p)
     /\ disk[p].stamp \notin suspect[p]
     /\ KeyOf[s] = key)
    => HitAnswer(entries, p) = Lint(p, disk[p].content, s)

\* The cache file never holds an answer that is wrong for the file it names,
\* except under a stamp that a racing or stamp-reusing write gave the file:
\* `save`, `insert` and `record_hit` of any number of interleaved and killed
\* runs with different settings keep it so.
StoreIsSound ==
  store \notin {None, Torn} => SoundFor(store.entries, store.fingerprint)

\* The same of what each running process holds in memory, so that neither a
\* hit nor a later save can be wrong.
MemoryIsSound ==
  \A r \in Run : pc[r] # "idle" =>
    /\ SoundFor(loaded[r], KeyOf[task[r].setting])
    /\ SoundFor(fresh[r], KeyOf[task[r].setting])

\* A save prunes: whatever was in the file before, it then holds entries only
\* for paths this run linted, never for a notebook or a file that failed.
SavePrunes ==
  [][\A r \in Run :
       (pc[r] = "saving" /\ pc'[r] = "closing" /\ store' \notin {None, Torn})
       => \A p \in Path : store'.entries[p] # None =>
            p \in Linted(task[r], answer[r]) \ Notebook]_vars

\* With no racing and no stamp-reusing writes, the cache is invisible: the
\* runs behave as runs that read and check every file (module Linter).
Promise == INSTANCE Linter WITH
  source <- [p \in Path |-> IF disk[p] = None THEN None ELSE disk[p].content]

ImplementsLinter == Promise!Spec

-----------------------------------------------------------------------------
(* The inductive invariant behind StoreIsSound, MemoryIsSound, SavePrunes  *)
(* and ImplementsLinter.                                                   *)

\* The control: what a process holds in each phase.
RunShape ==
  \A r \in Run :
    /\ pc[r] = "idle" <=> task[r] = None
    /\ pc[r] = "idle" =>
         /\ loaded[r] = NoEntries
         /\ fresh[r] = NoEntries
         /\ answer[r] = NoAnswers
         /\ missed[r] = {}
         /\ todo[r] = {}
         /\ keep[r] = {}
    /\ pc[r] # "reported" => report[r] = None
    /\ pc[r] = "linting" =>
         /\ todo[r] = task[r].paths
         /\ fresh[r] = NoEntries
         /\ keep[r] = {}
    /\ pc[r] # "idle" =>
         /\ missed[r] \subseteq task[r].paths
         /\ todo[r] \subseteq task[r].paths
    /\ pc[r] \notin {"idle", "linting"} =>
         \A p \in task[r].paths : answer[r][p] # None

\* A file answered without a miss was a hit; what a save will write comes
\* from files this run linted.
SavesOwnPaths ==
  \A r \in Run, p \in Path : pc[r] # "idle" =>
    /\ (answer[r][p] # None /\ p \notin missed[r]) =>
         answer[r][p] # Failed /\ p \notin Notebook
    /\ (fresh[r][p] # None \/ p \in keep[r]) =>
         p \in Linted(task[r], answer[r]) \ Notebook

\* Every stamp in sight is one the file has had.
StampsUsed ==
  \A p \in Path :
    /\ disk[p] # None => disk[p].stamp \in used[p]
    /\ (store \notin {None, Torn} /\ store.entries[p] # None)
         => store.entries[p].stamp \in used[p]
    /\ \A r \in Run :
         /\ loaded[r][p] # None => loaded[r][p].stamp \in used[p]
         /\ fresh[r][p] # None => fresh[r][p].stamp \in used[p]

\* A fresh answer still awaiting its stamp is right for the file as it is,
\* unless the file was written meanwhile.
ReadsStayCurrent ==
  \A r \in Run, p \in Path :
    (/\ p \in todo[r]
     /\ Cacheable(r, p)
     /\ disk[p] # None
     /\ disk[p].stamp \notin suspect[p])
    => answer[r][p] = Lint(p, disk[p].content, task[r].setting)

NothingSuspect ==
  (~EditsRace /\ ~StampsCollide) => \A p \in Path : suspect[p] = {}

IInv ==
  /\ TypeOK
  /\ RunShape
  /\ SavesOwnPaths
  /\ StampsUsed
  /\ ReadsStayCurrent
  /\ NothingSuspect
  /\ StoreIsSound
  /\ MemoryIsSound

-----------------------------------------------------------------------------
(* What documents say of these runs and the code does not do.              *)

\* cache.rs: "Cached diagnostics for `path`, if the file is unchanged since
\* they were recorded" - a hit serves what linting the file as it is now
\* would find, as long as no write reuses a stamp.
HitsServeCurrentFindings ==
  [][\A r \in Run, p \in Path :
       (answer[r][p] = None /\ answer'[r][p] # None /\ p \notin missed[r])
       => answer'[r][p] = Lint(p, disk[p].content, task[r].setting)]_vars
=============================================================================
