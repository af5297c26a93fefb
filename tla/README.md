# A TLA+ model of xray

`xray` (this repository) lints scientific Python for HPC mistakes. This
directory holds TLA+ modules that model it, TLC configurations that check the
models on small instances, and theorems about them checked by TLAPS.

    tlc -workers 2 -config LintRunAlone.cfg MCLintRun.tla
    tlapm LintRun_proofs.tla

## 1. The system

Source paths are relative to `src/src/`.

| Component | State | Operations | Talks to |
|---|---|---|---|
| **Lint runner** `runner.rs`, `main.rs`, `diagnostic.rs` | one process's arguments, one outcome per file, exit code | `run`: resolve paths, load the cache, lint the files in parallel (rayon), write the cache back serially, JOB004, filter, print, exit | everything below |
| **Results cache** `cache.rs` | the file `.xray-cache` (fingerprint + entries keyed by path), `loaded`, `fresh`, `keep` | `load`, `get`, `insert`, `record_hit`, `save`; `xray clean` removes the file | the runner; other xray processes through the file |
| **Fix engine** `fix.rs`, `runner::run_fix` | none between files | `apply` selects and splices edits, `restore_line_endings`, rewrite each file in place | the source tree, against editors |
| **Watch mode** `watch.rs` | pending paths, time of the last event, an event channel | initial lint, register watches, debounce loop, re-lint through `run` | the OS watcher (thread), the runner and its cache |
| **Language server** `lsp.rs` | open documents by URI, shutdown flag, configuration | read framed messages, didOpen/didChange/didSave/didClose, publish diagnostics | the editor, over stdio |
| **Configuration** `config.rs` | none after loading | find, follow `extends`, merge, normalise, validate | all of the above |
| **Rule pipeline** `rules/mod.rs` | none | run every domain, per-file ignores, suppressions, stale suppressions (XR000), redundancy | parser, rules |
| **Parser, import context** `parser.rs` | the import context: modules, aliases, `from` imports, topology of the `dask_setup` clients | parse, read imports, detect clients, merge, resolve calls | notebooks, binding tracker, rules |
| **Notebooks** `notebook.rs` | one context and one table of bindings per cell, the merged context | parse cells in parallel, drop those that fail, merge twice, share | parser, binding tracker |
| **Binding tracker** `bindings.rs` | scopes of bindings | one walk over the assignments; look up, classify | import context, rules |
| **Chunk sizes** `rules/chunks.rs` | none | classify a literal specification | XR012, DK010 |
| **Job scripts, JOB rules** `job.rs`, `rules/job.rs` | none | parse `#SBATCH`/`#PBS`, compare with the Python | runner, cache fingerprint |
| **Domain rules** `rules/*.rs` | none | syntax queries on one file, with its imports and bindings | pipeline |
| **Path resolution** `runner.rs`, `ignore.rs`, `diff.rs` | none | globs, excludes, `.xrayignore`, `--diff` | runner, fix, watch |
| `explain.rs`, `init.rs`, `doctor.rs`, `cli.rs` | none | static text, one-shot I/O | - |

### Where it is hard

* **Stale answers.** A cached answer is valid for a content, but is keyed on a
  stamp, (mtime, size), taken at a different moment than the content was read.
  Editors write at any moment, in any order with the steps of a run.
* **Shared file, no lock.** Any number of xray processes with different
  settings read, truncate and write `.xray-cache`; any of them may be killed
  or fail to write; `xray clean` unlinks it under them.
* **Run-wide facts.** JOB004 depends on every file of a run, including the
  files served from the cache and those that failed.
* **Filters.** `--disable` and `--min-severity` belong to an invocation, the
  cache to all of them.
* **Events.** Watch mode must re-lint what changed, whatever the order of
  events and lints; the language server must publish for the text it was last
  sent.
* **Order of cells.** The cells of a notebook end parsing in any order, share
  one context, and a call may need an import of a later cell.
* **What a name holds.** Rules are silent or speak by what a name was assigned
  from, in a language where statements run in another order than they stand in
  and anyone may pass anything.
* **Edits.** `xray fix` splices overlapping, touching and empty ranges, and
  rewrites a file that an editor may have saved meanwhile.

### What makes each component correct

* Cache: an entry that would be served is what linting the file would give; a
  save forgets what its run did not lint; the cache is invisible.
* Runner: the report is what reading and checking every file would give.
* Fix: accepted edits do not overlap, everything outside them is kept, the
  result is Python and a second run has nothing to do.
* Watch: after the last edit, the latest content is eventually linted.
* Language server: the last published diagnostics are those of the last text.
* Notebook: it reads like one file with the imports and calls of all its cells.
* Binding tracker: a name it has an origin for holds such an object; a rule that
  is silent about a receiver has proof.
* Chunk sizes: small means known and small.
* Configuration: a child's key wins, disables accumulate, cycles are rejected.
* Pipeline: a finding is reported unless something that applies to it says not
  to, and a suppression is stale exactly when it suppressed nothing.

## 2. Modules

| Module | Role |
|---|---|
| `LintWorld` | constants, assumptions, and the pure functions between contents, answers and reports |
| `Linter` | the promise: runs that answer for each file from its present content, no cache |
| `ResultsCache` | the values of `.xray-cache` and the operations of `Cache` on them |
| `LintRun` | the processes, the cache file and the world around them; its properties; the refinement of `Linter` |
| `MCLintRun` | small instances for TLC |
| `LintRun_proofs` | the theorems about `LintRun` |
| `FixEdits` | one edit on one text: bounds, character boundaries, splicing, the order edits are tried in |
| `FixApply` | the loop of `fix::apply`, one action per turn, on texts of bytes |
| `FixFile` | `xray fix` on one file, run after run, on texts of Python tokens |
| `Fix_proofs` | the theorems about `FixApply` and `FixFile` |
| `Watch` | `xray --watch`: initial lint, registration, debounce loop and re-lints, against editors and the event backend |
| `Watch_proofs` | the theorems about `Watch` |
| `RulePipeline` | from the findings of the checks in one file to a report: disables, ignores, comments, redundancy, XR000, filters |
| `RulePipeline_proofs` | the theorems about `RulePipeline` |
| `LspSession` | `xray lsp`: the server's loop and both its pipes, against an editor and other programs |
| `LspSession_proofs` | the theorems about `LspSession` |
| `ConfigResolve` | from the working directory or `--config` to an effective configuration |
| `ConfigResolve_proofs` | the theorems about `ConfigResolve` |
| `JobCheck` | the submission script: its choice, its directives, the JOB rules on one file, and the job's part of the fingerprint |
| `JobCheck_proofs` | the theorems about `JobCheck` |
| `Imports` | the import context and its operations: reading, detection of clients, merging, resolution of calls |
| `Bindings` | the table of the binding tracker: recording, lookup, classification |
| `Chunks` | literal chunk specifications, with the width of their integers |
| `FileRules` | the sixteen rules that ask imports, bindings, loops, topology or chunks, each as a condition on one statement |
| `Notebook` | `parse_notebook`: cells parsed in parallel, two merging passes, shared context and bindings; a plain file is a notebook of one cell |
| `Kernel` | the Python that a notebook stands for, run against what the tracker and the rules say of it |
| `Notebook_proofs` | the theorems about `Notebook` and `Kernel` |
| `MCFixApply`, `MCFixFile`, `MCWatch`, `MCRulePipeline`, `MCLspSession`, `MCConfigResolve`, `MCJobCheck`, `MCNotebook` | small instances for TLC |

### LintRun and the code

| Action | Code |
|---|---|
| `Start` | `run` up to the parallel pass: paths and job script resolved, `Cache::load` unless `--no-cache` |
| `Hit` / `Miss` | a worker's `Cache::get`: stat, compare, answer from the entry or go on |
| `ReadAndCheck` | `parse_file` + `run_all_with_job`, or the notebook path; a file that cannot be read drops out |
| `Collect` | the end of `par_iter().collect()` |
| `WriteBack` | one turn of the serial loop: `insert` (which stats again) or `record_hit` |
| `OpenStore`, `Spill`, `Flush`, `FlushUnlinked`, `CannotOpenStore` | `save`: truncate, write in pieces, flush; the same to an unlinked file; no permission |
| `Report` | JOB004, filters, output, exit code |
| `Leave` | exit after the report, or a kill at any point |
| `Edit`, `Delete` | other programs on the source tree |
| `Clean` | `xray clean`, also while another process has the file open |

Variables `disk` and `store` are the shared state (source tree, cache file);
`pc`, `task`, `loaded`, `missed`, `answer`, `todo`, `fresh`, `keep`, `report`
are per process and named after the fields of `Cache` and the locals of `run`.
`used` and `suspect` are history: the stamps a file has had, and those it got
by a write the cache cannot see.

Abstractions:

* A content, a stamp, a setting and a fingerprint are opaque values. A stamp
  need not grow: `mv`, `cp -p` and checkouts install older ones. A file that
  exists and cannot be read, or a notebook that is no JSON, holds a content in
  `Unreadable`: it can be stat'd and a cached answer for it is served, but
  linting it fails. `chmod` is an `Edit` to or from such a content that keeps the
  stamp. The rules are
  the constant function `Findings`; severities and the filters on them become
  a set of hidden rules and a set of gating rules per invocation.
* Workers of one process interleave file by file: `Hit`, `Miss` and
  `ReadAndCheck` of different files come in any order, which includes every
  order rayon can schedule. A file's stat and its read are separate steps.
* `save` is not atomic. While a process writes, the file is `Torn`: empty, cut
  short, or, with two writers, mixed. A flush leaves a whole document or
  `Torn`, never a well-formed mixture of two documents: two writers start at
  offset 0 of the same file, and the model assumes that what their pieces leave
  is one of the documents or does not parse. (A mixture that parses would need
  both documents to reach a boundary between entries at the offset where a
  piece ends.)
* `WriteBack` visits the files of a run in any order, the code in path order.
* What the fingerprint must separate is an assumption on `KeyOf`
  (`FingerprintIsComplete`): settings with the same key give the same findings
  for every content. `JobCheck` derives the job script's share of it
  (`FingerprintSeparates`); the configuration's share stays assumed. JOB004
  quotes a directive's line, which is not in the fingerprint, and is never cached.
* Rejection of an entry with an unknown rule id does not occur: the version
  and the number of rules are in the fingerprint.

### FixApply, FixFile and the code

`FixApply` is `fix::apply`: `Init` sorts the edits, `Take` and `Skip` are the
two outcomes of a turn. `source` is the text the offsets index, `out`, `floor`
the locals of the loop, `next` its turn, and `taken`, history, the turns whose
edit was applied. The counters `applied` and `skipped_overlapping` are
`Cardinality(taken)` and the rest of the turns.

`FixFile` has one action, `RunFix`, one run over one file: `Decoded` and
`Normalised` are the reading, `Fixes` the seven fixable rules after the
filters, `Apply` the loop of `FixApply` as a fold, `RestoreLineEndings` the
writing. A run writes nothing with `--dry-run` or where the file cannot be
opened. A text is never longer than `MaxUsize`, where the loop's first floor is.
`raw` is the file on disk, `original` what it was before the first
run, `settled` the rules whose edits have been written.

A text is there a sequence of tokens, and a token is one value: a call's name
with its receiver, a keyword argument with its value, a comment. Calls, their
extent and their arguments are what tree-sitter reports for valid Python.
NP004, NP006 and NP007 replace the name of a call; the conditions under which
NP004 and XR008 are reported at all (an array argument, the `dask_setup` io
mode) are facts about a file that the tokens and the rule sets stand for.
`Parses` is the part of Python's grammar that an edit can break: a call is
closed, commas between arguments, no keyword twice, no positional argument after
a keyword.
A file that no longer parses is not rerun.

### Watch and the code

| Action | Code |
|---|---|
| `Init` | `collect_watch_paths`, and the expansion the initial `runner::run` makes of them |
| `LintFile` | one file of a lint: `Cache::get`, or read and check |
| `FinishLint` | the end of `runner::run`: write-back, `save`, printing |
| `Register` | creating the watcher and registering each root; `bail!` when none could be |
| `Receive` | `recv_timeout` returns an event: collect it and go on, or flush |
| `Timeout` | `recv_timeout` gives up: flush |
| `Interrupt` | Ctrl-C |
| `Save`, `Replace`, `Delete` | editors: in place or a new file, by rename, and removal; each tells the channel where a watch covers the file |

`chan` is the mpsc channel, filled by the backend's thread; `pending` the
`HashSet` of that name; `todo` and `answer` are the lint under way, `entry` the
results cache, `shown` what was last printed of each file.

Abstractions. A file's version stands for its content, its findings and its
stamp, so that two contents never share a stamp (`LintRun` covers that they
may). A lint looks at each file in one step, the stat and the read together,
and writes back in one step; saves of other processes are left to `LintRun`.
`last_event` is not a clock: after an event that is collected the window has
just begun, so no flush; after any other, and only then, it may or may not have
passed; a timeout is as long as the window, so it has. An event reaches the
channel as soon as the edit is made, and no event is lost. The files are those
that no exclude or ignore pattern matches.

### RulePipeline and the code

`RunAll` is `run_all_with_job` in the order of its body: `Checked` and
`NotIgnored` (disables, `[per_file_ignores]`), `Suppressed` and `Used`
(comments), `DropRedundant`, `StaleSuppressions`. `Reported` adds the filters
of a run (`apply_filters`, the same on a fresh file and on a cache hit),
`Published` those of the language server. The actions are a developer's: `Lint`
runs xray, `Suppress` writes the `disable=` comment for a finding of the last
report, `FollowAdvice` removes what an XR000 finding of it calls stale. A run has
the script of `--job`, or else the one `[job].script` names (`JobScript`); the
server has none.

Abstractions. A report is a set: its order, and two findings that differ in
nothing but wording, are left out. What the rules would find with nothing
disabled is the variable `fires`, the import gates with it, since neither
depends on comments or on the keys modelled here. It gives a set for each
submission script and one for no script, which differ in the findings of the JOB
rules only, as no other rule reads the script (`PipelineAssumption`). `config.job` is
what `[job].script` leads to; how the glob is resolved, and what is wrong with a glob
that matches nothing, is in `JobCheck`. The JOB rules that see one
file report at the path of that file (`check_run`'s JOB004 is in `LintRun`), so
the comparison of paths in `mod.rs:156` is always equal. In a notebook the
pipeline runs once per cell, with the cell's comments.

### LspSession and the code

| Action | Code |
|---|---|
| `Handle` | one turn of `run_lsp`'s loop up to the answer: a frame read, a document linted from the text sent (`didOpen`) or from the file (`didSave`) |
| `Write` | `write_message`: waits for room in the pipe; a closed pipe is ignored |
| `EndOfInput` | `read_message` at the end of stdin |
| `Open`, `Save`, `Close`, `Ask`, `Noise`, `Exit`, `Receive`, `Vanish` | the editor |
| `Touch` | other programs on the files |

`reply` is what the server is writing, `told` and `saved` are history: what the
editor last told of a document. A frame is what `read_message` and the `match`
tell apart: a document notification, a request that is served or not, `exit`, a
frame that is skipped (a body that is not JSON, a notification that is not
served) and one after which `read_message` gives up (no Content-Length, no
UTF-8). The editor keeps to the protocol: it opens a document once before it saves or
closes it, numbers its requests, sends nothing after `exit`. A content that does
not parse has no findings. `Ignored` says which spelling of a document
`[per_file_ignores]` matches, since the server lints an opened text under its
URI and a saved file under its path. Positions (`utf16_column`) are left out.

### ConfigResolve and the code

| Action | Code |
|---|---|
| `Init` | `load_config`: `--config`, or the search from the working directory |
| `Find` | one turn of `find_config_file`: the `xray.toml` here, the parent directory, or none |
| `Read` | a frame of `from_file_inner` on the way down: not seen before, read, parsed, `extends` followed |
| `Fail` | the frame's errors: a cycle, a file that cannot be read or parsed |
| `MergeFrame` | the frame on the way up: `merge_config_values(parent, child)` |
| `Deserialise` | the end of `from_file`: the merged document becomes a `Config`, or not, and `normalise` |

`docs` are the locals `child` of the frames, `level` the frame that merges next,
`merged` what the one below returned; the lower frames' documents stay in `docs`
so that the properties can speak of them.

Abstractions. A document is its leaves: those of the tables
(`value`, which `[severity_overrides]` is among, keyed by ids), the two lists
that unite, and whether it has an unknown key, wherever. Every value has the type
its key wants; one that has not is an error at `Deserialise`, unless a child
overrides it. The files do not change during a load. `validate` only warns.

### JobCheck and the code

| Action | Code |
|---|---|
| `Resolve` | `resolve_job_script`: `--job`, or the first match in the order of names, or no job; the file is read |
| `Turn` | one turn of the loops of `parse_job_source`, `parse_sbatch`, `parse_pbs` and of `parse_thread_env` (`Take`) |
| `Finish` | the end of `parse_job_source`: memory per core (`Total`) |
| `Rerun` | the next `runner::run`, with the script or the choice of it edited, or neither |

`check` is `JobRules::check` on one file, `fingerprint` the `job=` part of
`cache.rs`. Both are functions of `job`, so the properties apply them to every file
of the instance once the job is parsed; `earlier` is the job of the run before.

Abstractions. A script is the sequence of the turns its lines cause: an option
and the word read there as its value (`-c 4 --mem 2G` is a turn each, and so is
each item of a PBS list), a shell line that assigns a variable, or a line without
either. Two turns may be on one line; `line` is the number of the turn,
which orders directives as lines do. What a word means is up to the constants
`Count` and `Bytes` (`parse::<usize>`, `parse_size`), `GpuGres`, `GpuQueue` and
`ThreadVar`, which no property needs to know. A file is the calls that the
queries of `rules/job.rs` match, with their literal arguments. A finding is its
rule, its place and what its message quotes. The `|`, `:` and `Debug` quotes that
join the parts of a fingerprint are a tuple here. The configuration is the same in
both runs; its disables are in `RulePipeline`.

### Notebook, Kernel and the code

| Action | Code |
|---|---|
| `Init` | `parse_notebook` has extracted its code cells |
| `ParseSource` / `Skip` | `par_iter` over the cells: `parse_source`, with the cell's own context and bindings, or a cell that does not parse |
| `Collect` | the end of the parallel pass; a single cell left keeps what it has |
| `MergeCell`, `Freeze` | the first loop of `merge_from`, and the clone of its result |
| `Rescan` | a turn of the second loop: `detect_dask_setup_usage` of a cell under the names of all |
| `Share` | the context goes to every cell, and `Bindings::build` runs again with it |
| `Execute`, `RunImport`, `Call` | Python, not xray: a statement, an import, a call of a function of the notebook |

`imports` and `bindings` are the fields of each cell's `ParsedFile`, `outcome` says
which cells have one, `merged` and `imported` are the locals of those names, `turn`
the cell a loop is at. `Findings` is what the rules of `FileRules` report of a
statement, under the import gates of `Fires`; `FlagMissingCompression` is
`[io].flag_missing_compression`, the one key of a configuration besides the disables
that decides whether one of these rules speaks. `memory` is what the names of the
running Python hold, by global scope and by function, and `evaluated` the
statement evaluated last with its receiver.

Abstractions. A cell is its imports, in order; its calls that `dask_setup` might
own; its statements in the order of the walk, each with its scope; and the parameters
of its functions. A statement binds names or none, and its value is one operation on
names (`x`, `x.a`, `x.f()`, `f()`, `x[k]`, `x + y`, a literal, anything else); nested
expressions, of which `Classify` is the recursion, are left out. `with ... as` binds as
an assignment does, `for` as an unpacking. A call has of its arguments what a rule asks.
`.chunk(time=1)` passes one specification as `dims`. `Above` gives a scope those
around it. `Ascend` is a turn of `is_inside_loop`'s climb. NumPy names stand for
their own aliases. The extraction of a cell's source, magics and shell lines are
textual and left out.

`Kernel` runs statements in any order and any number of times, since the tracker
follows neither control flow nor calls: loops, branches, calls of functions and
reruns of cells are among those orders. A statement needs the names it reads to be
bound. It assumes of Python and the libraries that a function of a library gives
an object of that library (`LibraryResult`), that attributes, subscripts and methods
do what `OfAttribute`, `OfMethod` and so on say, and that an operator on two arrays
gives an object of either's kind; whatever else there is gives `Anything`.
A builtin is always there and, within the limits, itself; a name that only
`import m as n` binds holds a module, which nobody calls (`MayBeCalled`).

`WithinLimits` is what the properties about the running Python are conditional on. It
names what the tracker does not see, and each part of it is needed: no augmented
assignment (`NoAugmented`), no parameter or local that shadows an import or a variable
(`NothingShadowed`), no value taken of a name before a later statement gives it another
(`SettledFirst`), no operator on an operand it does not know (`OperandsAreKnown`), no
name assigned in two cells (`OneCellPerName`), no name imported from two modules
(`OneModulePerName`). The instance of `silence` is outside of them.

## 3. What is checked

`\*` marks runs where TLC is expected to find a violation.

| Run | Instance | Shows |
|---|---|---|
| `alone` | 1 process, a source file and a notebook, 2 contents and one that cannot be read, 2 stamps, 3 settings under 2 fingerprints, 3 command lines (plain, with a hidden rule, `--no-cache`) | `StoreIsSound`; `MemoryIsSound`; `SavePrunes`; `LintRun` implements `Linter` |
| `stale` \* | 1 process, edits race, stamps are never reused | a hit serves findings of an older content |
| `fix_apply` | every list of up to two edits, in bounds or not, and every list of three in bounds, over a text with a two-byte character and one without | the result is the original with the applied edits made at once (`SplicedExactly`); no edit splits a character; none is dropped unless it overlaps an applied one |
| `fix_file` | 2 runs, 3 rule sets; a call of each of 7 names with each of 18 argument lists, nested calls and comments included, followed by a second call; both line endings | plain calls stay Python; a rule is done after one run, whatever ran in between; no shipped edit is ever skipped; a UTF-8 file with one kind of line ending keeps every other token |
| `fix_twice` \* | all rules, no comments | two keywords inserted with no comma between them |
| `watch` | 2 files, one below the directory watched and one watched by itself, edited up to twice each, at any moment after the registration; without the cache, or with it and no edit during a lint | no change is forgotten (`NothingForgotten`); once the edits stop the screen is up to date (`CatchesUp`) |
| `pipeline` | every subset of five findings (three rules at one call, one of them again elsewhere on its line and on the next), with a finding of a JOB rule under each subset of two scripts, 5 configurations, one of which names a script, 3 command lines with and without `--job`, 32 sets of comments to begin with | no call is lost to redundancy (`EveryCallIsReported`) and none reported twice; stale comments can be removed, silencing is precise; the server differs from a run without flags by what comes of the script that `xray.toml` names, and by nothing else (`ServerAgrees`) |
| `lsp` | a file and a document that is none, 2 contents and an unreadable file, up to 4 frames from the editor, pipes that hold 2 | the screen shows what was last told (`ShownIsCurrent`); requests are answered once; every frame reaches the screen (`Refreshed`); the server ends with its editor (`ServerEnds`) |
| `config` | 3 files, each absent, empty or with one of 5 contents, extending any other or itself, under a second spelling or a file that does not exist; 3 nested directories, or `--config` | the nearest file wins (`ChildWins`, `SeverityIsNearest`); lists unite; unknown keys are errors; every load ends (`Loads`) |
| `job` | 2 scripts under one glob or `--job`, readable or not; 48 texts of up to 3 turns: cores, memory and memory per core of both schedulers, repeated, in any order, unreadable, thread variables, `--exclusive`, GPUs; 5 files; 2 runs | requests are read (`RequestIsRead`); nothing unsaid is spoken of (`SilenceInvariant`); jobs with one fingerprint find the same (`FingerprintSeparates`) |
| `notebook` | 10,915 notebooks of 1 to 3 cells, in four families: imports, clients and opens in every distribution over cells; a name bound in two of several ways, derived from and used, with nested functions, in one cell or two; calls of library functions under 11 kinds of ancestors; 265 chunk specifications | a name means what the first cell says (`FirstCellWins`); a notebook reads like a file (`ReadsLikeAFile`); XR008 and DK011 never contradict (`AdviceAgrees`); chunks are judged by their product (`ChunksAreJudged`); what the tracker claims is so (`ClaimsAreTrue`); rules about receivers neither miss nor invent (`ReceiversAreJudged`); rules about functions report the calls that reach them (`CallsReachTheirLibrary`) |
| `silence` \* | a parameter named like a data frame of the file | XR002 is silent on an xarray object |

In `LintRun` two constants say what the world may do. `EditsRace = FALSE` means a file is
not written between a run's check of it and the `insert` that stamps the
result; writes at every other moment are still there, between the stat and the
read, during the save, after a hit. `StampsCollide = FALSE` means no write
gives a file a (mtime, size) it had before, which is what `cache.rs` documents
as the limit of its heuristic. Where both are `FALSE` the cache is invisible
(`ImplementsLinter`). Where they are `TRUE`, `suspect` collects the stamps
such writes gave, and `StoreIsSound` and `MemoryIsSound` say that nothing else
goes wrong: no wrong answer ever appears under another stamp, another file or
another fingerprint. TLC checks that of one process in a world that behaves; of any
number of processes, in a world that does not, it is proved (`StoreSoundness`,
`MemorySoundness`).

Bounds. Two stamps per file let a file be written twice and, with collisions,
return to its first stamp, which is the shortest history in which a stale entry
can be served. Two contents differ both in findings and in the GPU import, so
a stale answer is visible in each. That interleaved processes harm neither the
store nor each other's memory, and that the cache is invisible to them too, is
proved (`StoreSoundness`, `MemorySoundness`, `CacheIsInvisible`); `alone` checks it
of one process after another. Deadlock is checked in these
runs: a process can always leave and start again. There is no counter to bound.

Offsets in `fix_apply` reach one past the text, so that each comparison of
the loop is met on both sides. Three edits are enough for an edit to lie
between, touch or overlap two others; the reference `SplicedExactly` is computed
gap by gap from the original and knows nothing of the order of the loop. The
loops and runs of the fix modules end, so their deadlock is not checked. In
`fix_file` the second run sees all the first one wrote; a third could find no
more, since `SettledRulesAreIdle` is checked for all rules written so far.
`PlainCallsStayPython` excepts files with two kinds of call (`PlainCalls`): one whose
last comment hides how its list ends (`EndIsInSight`), and an `open_mfdataset()` that
lacks both keywords and ends in no argument (`RoomForOne`), of which `fix_twice` shows
what becomes. Each file has only parentheses that follow a name (`CallAssumption`):
those that group and those that call the result of a call are left out of the texts.

`watch` needs two files for a batch to hold more than one and for a root to be
refused while the other is not, and two edits of
each for an event to come while the file is pending, in the lint, and printed.
The edits are bounded by `MaxVersion` and the deletions with them: a deleted
file comes back only by a save. `CatchesUp` is about what holds after the last
edit, so the bound is no restriction of it. The watch run does not check
deadlock: the program may be stopped, and waits for ever where nothing is
edited.

The findings of `pipeline` are those where rules meet: a chain of two
supersessions (XR005, DK001, DK002), the same rule at another column, and a
rule that only runs with a job script, and finds something with one, with the
other, with both or with neither. Comments and configurations are chosen
so that each filter hides something another one would otherwise have to. Its
state is bounded by the file's; a developer can always lint again, and deadlock
is checked.

In `lsp` four frames open, save, close and reopen a document, or put a request
before, between and after `shutdown` and another; with pipes of two both fill
up, so that the server waits for the editor and the editor for the server. The
file of the instance is matched by `[per_file_ignores]` by its URI and not by its
path, so that an opened and a saved text are told apart. `MaxFrames` bounds the
editor, `PipeSize` the pipes. Deadlock is checked, although other programs may
always write a file: `Refreshed` and `ServerEnds` are what says that nobody
waits for ever.

The files of `config` make chains of three, so that a key is inherited past a file
that leaves it out, and every cycle among them, one of which closes through a
link. A load is finite, so there is nothing to bound and deadlock is not checked.

Three turns let `job` say memory, memory per core and cores in an order that
decides which is the total; pairs repeat an option with another value, or with one
that cannot be read. `MaxInt = 3` makes a product saturate. Two runs are what a
fingerprint compares. They end, so deadlock is not checked.

In `notebook` a cell fails or parses in every order with the others, so that every
distribution of an import, a client and an open over two cells meets every way of
parsing them; three cells put one between. Contexts conflict over one alias, over
the topology, and over a name that one cell imports `from` a module and another as a
module. `I64Max = 127` lets two extents of 100 overflow, and three of them wrap
back to something small; `TrivialChunkElements = 64` is met exactly by 8 x 8. A name
with two assignments, one of them in a function, is where a table can go wrong, and a
third statement derives from it; all the orders in which Python can run three
statements are explored. A notebook's state is finite; its Python may run out of
statements it can run, so deadlock is not checked.

Fairness. The lint, fix, pipeline, job and notebook runs assume none: a run may be
killed at any point, and a developer need not go on, so they promise nothing that must
eventually happen. The watch run assumes
`WF_vars(Watcher)`: the loop is one thread that never waits for anything but its
channel, and for that no longer than the window, so that one of its steps
happens as long as one is enabled. Which one is the scheduler's and the clock's
choice. Nothing is assumed of the editors, nor of Ctrl-C. The `lsp` run assumes
`WF_vars(Server)`, for the same reason, a server waiting only for its pipes, and
`WF_vars(Receive)`, that an editor which is up reads what it is sent; without it
the pipe stays full and so does the server. It need not send anything. The
`config` run assumes `WF_vars(Next)`: a load is one function that waits for nobody.

### Disagreements found

Three runs, `stale`, `fix_twice` and `silence`, each end in a counterexample to what
the repository says of itself.

* **`stale`** `Cache::insert` (`cache.rs:213`) stamps findings with the stamp the
  file has at write-back, after all workers are done; `parse_file` read it long
  before. A save in between binds old findings to the new content until the
  file is written again. `cache.rs:185-186` promises "Cached diagnostics for
  `path`, if the file is unchanged since they were recorded". In watch mode it
  is certain to bite: the save that races a lint causes a second lint, which
  finds the old findings under the new stamp. The `watch` run and its theorems
  therefore leave running lints alone when they use the cache.
* **`fix_twice`** XR001 and XR008 each insert a keyword at the end of the same
  `open_mfdataset` call (`rules/xarray.rs:197,467`) with the separator of the
  call as it was. `xr.open_mfdataset()` becomes
  `xr.open_mfdataset(parallel=Truechunks="auto")` and `xr.open_mfdataset(f,)`
  `xr.open_mfdataset(f, parallel=True chunks="auto")`: not Python, where
  `CHANGELOG.md:315` says the result is asserted to parse.
* **`silence`** `Bindings::walk` leaves the parameters of a function unrecorded
  (`bindings.rs:90-92`), and `lookup` (`bindings.rs:191-201`) then falls through to an
  outer variable of the same name: after `x = pd.read_csv(p)`, `def f(x): return
  x.values` gets no XR002 although `f` may be given a Dataset. `rules/xarray.rs:230-233`
  names a function parameter as the example of a receiver that must not silence
  the rule, and `bindings.rs:51-53` says that an unknown binding shadows.

The models follow the code, and the properties of the passing runs are worded
around it, where code and text differ in smaller ways:

* the initial lint (`watch.rs:37`) is over before any root is registered
  (`watch.rs:59-78`); a file saved after the lint has read it and before that has no
  event, where `watch.rs:3-5` and `:31-32` promise a re-lint on every save. With
  `EarlyEdits = TRUE` in `Watch.cfg` TLC finds `CatchesUp` violated. Registering
  first would close the gap: the channel keeps the events.
* the tracker does not record `x += e` as an assignment to `x`, keeps what it derived
  from a name when the name is assigned again, takes an array for the kind of the one
  operand of an operator that it knows, and takes a name of unknown origin for the
  module it is also the alias of (`bindings.rs:78-159,263-275,305-330`); each may make
  a claim that does not hold (`WithinLimits` leaves them out).
* `netcdf_handles` (`rules/io.rs:276-335`) visits statements last first, so
  `temps = nc["t2m"]` after `nc = Dataset(...)`, the example of its comment
  (`rules/io.rs:301`), is never recognised.
* `is_inside_loop` (`parser.rs:558-607`) takes the iterable of any `for` of a
  comprehension for one that is evaluated once, which is so for the first only
  (`Repeats` follows it in this).
* `cli.rs:116-117` says that with `--no-cache` the cache "is still rewritten
  afterwards"; `runner.rs:61-62,90` skips the write-back.
* a cached answer for a file that can no longer be read is served while its stamp
  is unchanged, as `get` only looks at the stamp (`cache.rs:187-192`); a run without
  the cache drops the file (`runner.rs:241-244`). `chmod` changes no stamp, so this
  is one of the writes behind `suspect`, and `ImplementsLinter` is about worlds
  without them.
* `cli.rs:11` says exit code 2 covers parse failures and I/O errors;
  `runner.rs:241-244` drops the file and the exit code is that of the others.
* `kwarg_insertion_point` (`parser.rs:678`) judges the argument list by its last
  character, comments included: `f(a,  # note` and `)` on the next line gets a
  second comma (`PlainCallsStayPython` excepts such calls, by `EndIsInSight`).
* `restore_line_endings` (`fix.rs:165`) converts every line as soon as one ends in
  CRLF, and `run_fix` (`runner.rs:971`) writes lossily decoded text back;
  `CHANGELOG.md:317` says line endings are preserved (`PlainFileIsKept` is about
  files with one kind of line ending, in UTF-8).
* a file argument is watched itself (`watch.rs:64-70`), where the comment
  (`watch.rs:56-57`) says its parent is; an inotify watch goes with the inode that
  a rename replaces (`Followed` excepts the files in `blind`).
* a report made without `--job` calls comments for JOB rules stale, which a run
  with it needs; the hint (`rules/mod.rs:224`) says "the rule it silences no
  longer fires here" (`AdviceIsSafe` is about runs that know no more than the
  one that gave the advice).
* the language server never has a job script (`lsp.rs:194,205` call `run_all`), where a
  run without flags takes the one that `[job].script` names (`runner.rs:47`). The
  editor shows none of the JOB rules' findings, and calls comments stale that
  silence them in every run (`ServerAgrees` says that this is all they differ in).
* `--disable DK002` also hides the XR005 and DK001 findings that DK002 superseded
  (`runner.rs:314` comes after `rules/mod.rs:167`), `disable = ["DK002"]` in
  `xray.toml` does not (`EveryCallIsReported` is about what `run_all` returns).
* the language server lints an opened text under its URI and a saved file under
  its absolute path (`lsp.rs:194,205`), so a relative glob, such as the
  `"tests/**"` of `config.rs:43`, matches neither, and others one of them: saving
  an unchanged document may change its findings.
* `lsp.rs:12-13` says diagnostics are published after every open and save;
  a save of a document that is no file publishes nothing (`lsp.rs:103`). `lsp.rs:22`
  says the loop runs until `exit`; a frame without a Content-Length, or a body
  that is not UTF-8, ends it too (`lsp.rs:174,177`).
* two spellings of one rule in `[severity_overrides]`, `xr001` in the child and
  `XR001` in the parent, are two keys to the merge and one to `normalise`
  (`config.rs:295-299`), which keeps the one its hash map happens to yield last;
  `CHANGELOG.md:342` says local keys override inherited ones (`SeverityIsNearest`
  is about rules that a chain spells in one way).
* the language server starts with the defaults when `xray.toml` cannot be loaded
  (`lsp.rs:25`), where every other command exits with 2 (`main.rs:13-16`).
* `-c 48` followed by `-c $N` leaves 48 cores (`job.rs:152`), where
  `rules/job.rs:18-23` says that a directive xray cannot parse is `None`
  (`RequestIsRead` is about the last one that can be read, `SilenceInvariant` about
  scripts with none).
* `--gpus=0` is a request for a GPU (`job.rs:171`), `ngpus=0` is not (`job.rs:213-215`).
* event paths are absolute since roots are canonicalised (`watch.rs:64,99`), so
  project-relative `.xrayignore` patterns (`ignore.rs:7`) do not match them.

## 4. What is proved

`LintRun_proofs` proves, for every set of files, contents, settings, stamps,
rules and processes, from the named assumptions on the constants only
(`DataAssumption`, `FingerprintIsComplete`, the sentinel assumptions,
`EnvironmentAssumption`):

* `InductiveInvariant`: `Spec => []IInv`, and from it `TypeCorrect`,
  `StoreSoundness`, `MemorySoundness`;
* `Pruning`: `Spec => SavePrunes`;
* `CacheIsInvisible`: if no edit races a run and no stamp is reused, `Spec`
  implements `Linter!Spec`.

The argument. `StoreIsSound` is not inductive: a save writes what a process
has in memory, so memory must be sound too (`MemoryIsSound`), and a write-back
stamps an answer computed earlier, so an answer awaiting its stamp must be
right for the file as it now is (`ReadsStayCurrent`). An edit breaks neither
soundness because a new stamp matches no entry, for which every stamp in sight
must be one the file has had (`StampsUsed`); a stamp that was used before, or
an edit of a file with an answer awaiting its stamp, makes the new stamp
suspect. `RunShape` ties the control to the memory of each process, so that
`Flush` knows what it writes, and `SavesOwnPaths` ties the entries to the files
the run linted, which gives `Pruning`. `NothingSuspect` discharges the
exception where the environment is well behaved, and a hit then answers as a
read would (`HitIsCurrent`), which is the one hard step of the refinement; all
other steps of `LintRun` that `Linter` can see map one to one (`Edit`, `Delete`
to `Change`; `Start` to `Begin`; `Hit`, `ReadAndCheck` to `AnswerFor`; `Report`
to `Publish`; `Leave` to `End`) and the rest stutter.

`Fix_proofs` proves of `FixApply`, for every text over every set of bytes and every list
of edits, from `ByteAssumption`, `UsizeAssumption` and `InputAssumption` (a
replacement, being a `&str`, starts at a character; a text is no longer than
`usize::MAX`):

* `ApplyInvariant`: `Spec => []IInv`, and from it `EditsKeepCharacters`;
* `NothingDroppedInVain`: `Spec => []SkippedOnlyForOverlap`;
* `EditsAreSpliced`: `Spec => []SplicedExactly`.

The argument. The loop compares offsets into the original with the edited
text. It may, since below the floor the two are the same (`PrefixUntouched`) and
each edit ends at or below it; and a boundary at the floor is one of both
texts (`FloorIsMet`). An edit the loop refuses although it is well placed must
therefore reach above the floor, which is the start of an applied edit; the
sort puts that edit first, so either it starts later and is overlapped, or both
start together and the applied one is at least as long. For the boundary at
the floor to survive a splice, the replacement must start at a character, or be
empty and what follows start at one (`StartIsBoundary`).

`SplicedExactly` compares the text with a concatenation of pieces, one for each
offset, which is right before the loop as every piece is then a byte of the
original. A turn that applies an edit changes the pieces from the edit's start to
its end alone: below the floor they were single bytes, which become empty where the
edit covers them, and at the start the replacement comes in front of what earlier
turns inserted there (`JoinsFirst`). So the old and the new pieces have the prefix
below the edit in common and go on alike after its end (`EditedJoins`, `GoOnAlike`),
and `PrefixUntouched` says that this is what `ReplaceRange` does. `FlattenSeq` is a
recursive function; it is equated with its step-by-step joins by induction over the
naturals, from the least element of a set of them (`LeastElement`).

Of `FixFile` it proves, for every set of Python texts over every set of tokens, all
sets of rules and any number of runs, from `TextAssumption` (the texts parse, a token
is whole, what the rules write are tokens), `CallAssumption` and `UsizeAssumption`:

* `FileInvariant`: `FileSpec => []FileInv`;
* `NoEditIsSkipped`: `FileSpec => []NothingIsSkipped`;
* `FixesAreIdempotent`: `FileSpec => []SettledRulesAreIdle`;
* `PlainFilesAreKept`: `FileSpec => []PlainFileIsKept`;
* `PlainCallsAreKept`: `FileSpec => []PlainCallsStayPython`.

The argument. An argument belongs to one call only (`OneCallPerArgument`): were it at
depth one of two calls, the depth of the outer one would split at the inner one
(`DepthSplits`) and be two. So no two edits replace the same token, and an edit that
inserts is empty (`FixesAre`). In the order of the sort, which exists (`SortExists`),
each edit then ends at or below the start of the one before, and as nothing below that
start has changed the loop accepts it (`NothingInTheWay`, `ApplyKeeps`). That is
`NothingIsSkipped`. For `PlainFileIsKept` the invariant has an increasing placing of the
tokens of the original in the text (`Carries`): a splice keeps one (`SpliceCarries`), so
does restoring the line endings of a uniform text (`RestoredIs`), and runs compose
(`CarriesOn`). The search of `OnlyInsertedInto` is greedy, and is never behind a placing
(`CarriedIsFound`).

Idempotence is about the calls of the edited text, and that these are the calls of the
text. Every token has an image in the edited text, as it was or replaced; what else
stands there was written by a rule, holds no parenthesis, and stands at no place between
a name and its `(` (`IsImage`, kept by every splice: `SpliceKeepsImage`). So as many
parentheses are open at the image of a token as at the token (`DepthIsKept`), the calls
correspond and close at corresponding places (`CallsAreKept`, `CloseIsKept`), the
arguments of a call remain its arguments (`ArgumentIsKept`), and a keyword written
before its end is one more (`WrittenIsArgument`). As no edit is skipped, each has been
applied (`IsDone`, `SpliceIsDone`, `ApplyKeeps`). A rule that had nothing to say of a call
therefore has nothing to say of its image, since no keyword it looks for is lost and no
name or value it looks for is ever written; and one that had an edit finds it made
(`FindingSettles`, `RunSettles`). The first half is what makes the result
survive later runs with other rules. The text that is read back is the one that was
edited, whatever the line endings (`ParsedAgain`).

That plain calls stay Python does not follow from the arguments a call has: it is about
their order, and about what stands on which side of each comma. It is not inductive
either, as a file may parse and be one its rules spoil, so the invariant says that the
file is `Sound`: it parses and its calls are plain. The proof gives every argument its place
in the text (`Selected`) and its rank, the number of arguments up to it
(`Rank`; `ItemsAreListed` equates this with the list that `FlattenSeq` builds). A call
is then `Tidy` if exactly the even ranks are commas, keywords come last and once, the
end is in sight, and there is room for what the rules may add (`SoundByPlace`). Four steps:

* the rules ask for a comma exactly where the number of items is odd (`SeparatorIs`): the
  code looks at the last character of the list, and `EndIsSeen` makes that the last item,
  also across nested calls and line ends (`CallIsLast`);
* so every insertion for a sound text is a keyword alone at a list that is empty or ends
  in a comma, and a comma and a keyword elsewhere; two for one call add different ones,
  and then each with a comma (`FixesAreRegular`, from `FixesAdd` and `TwoNeedRoom`);
* applied one after the other they leave between the images of two tokens an alternation
  of commas and different keywords that begins as the list needs it (`Gapped`, kept by every
  splice: `SpliceGaps`), and nothing is inserted but at the ends of lists (`GapIsAtEnd`);
* the items of an edited list are the images of the old ones, with the ranks they had, and
  then the tokens of that gap, counted on from there (`ItemsAre`, `RanksAre`). So commas
  keep the even ranks, a new keyword comes behind everything and was not there, an end in
  sight stays in sight, and a list comes to end in a comma only where one of the
  keywords is present (`AlternatesKept`, `OrderKept`, `EndSeenKept`, `RoomKept`): the edited
  text is sound again (`SoundKept`).

Decoding and the line ends change nothing in this (`ParsedSound`), so it holds of the file
that is written, and of what the next run reads.

`Watch_proofs` proves, for every set of files and roots and every bound on the
edits, where edits behave (`Behaved`: none before the registration, none during
a lint that uses the cache):

* `WatchInvariant`: `Spec => []IInv`;
* `NoChangeIsForgotten`: `Spec => []NothingForgotten`.

The argument. A followed file that is not current is told of in the channel, or
pending, or in the present lint with its present content. An edit adds an
event of its own; taking an event off the channel puts its file into the batch
unless it tells of no change; a flush moves the batch into the lint. What is
hard is the lint's end, where a file leaves the lint with an old answer:
`StaleAnswersAreTold` says that the event of the edit that outdated it is still
in the channel, because the channel is not read while a lint runs. With the
cache an answer may come from an entry, which is right if entries are filed as
read (`FiledAsRead`). Both conditions of `Behaved` are needed: the gap before
the registration (see the disagreements) and `stale` show why.

`RulePipeline_proofs` proves, for every set of rules, findings, configurations,
command lines and comments, from `PipelineAssumption`:

* `Invariance`: `Spec => []IInv`, and from it `OneFindingPerCallHolds`;
* `EveryCallIsReportedHolds`, `AdviceIsSafeHolds`, `SuppressIsPreciseHolds`,
  `ServerAgreesHolds`.

The argument. What a report says goes on holding while comments change, because
`ReportIsFounded` speaks of what the checks found and not of what was shown:
where XR000 called a name stale there was nothing for it to silence, under that
run's job script, so removing it changes no `Suppressed` set (`AdviceIsSafe`);
and a reported finding is one the checks make again, so the comment that
silences it is used and XR000's findings stay as they were (`SilencedStale`),
while what is left for redundancy loses exactly the silenced findings
(`SilencedRest`). The JOB rules stand outside supersession, so a script adds their
findings to a report and takes none from it (`JobRulesStandAlone`), and every comment
that silences something without the script does so with it (`StaleWithoutScript`): hence
what `ServerAgrees` says of the difference. Supersession is acyclic and two steps deep at most, so whoever
drops the finding at a place is heard there himself or gives way to a third who
is (`SomeoneIsHeard`).

`LspSession_proofs` proves, for every set of documents and contents, every
`Ignored`, pipes of every size and any number of frames, from `LspAssumption`
and `NoneAssumption`:

* `SessionInvariant`: `Spec => []IInv`, and from it `ScreenIsCurrent`;
* `EveryRequestIsAnsweredOnce`: `Spec => []RequestsAnsweredOnce`.

The argument. A document's news travels from the inbox through the server to the
outbox and the screen, and nothing overtakes. So the last thing under way about
a document decides (`InboxLeads`, `ReplyLeads`, `OutboxLeads`): a frame that is
as the editor left the document, or else an answer that may be shown of it. A
save is answered by what the file holds when it is handled, which `told` has
followed since. An editor that is gone shows nothing. Requests have an invariant of
their own (`RequestsInv`): ids are new when they are asked and grow along the inbox, so
that a copy lost from it is the only one and a shutdown that was handled was asked
before all that are still to come; elsewhere a step moves a copy from one queue to the
next (`CountAppend`, `CountTail`).

`ConfigResolve_proofs` proves, for every graph of files, contents, keys and rule
ids, from `ConfigAssumption`:

* `ChainInvariant`: `Spec => []IInv`, and from it `ChildAlwaysWins`,
  `SeveritiesAreNearest`, `ListsAlwaysUnite`, `TyposNeverLoad`.

The argument. On the way up, the merged document is right for the frames above
`level`: each of its leaves is the nearest of theirs, its lists their union
(`MergedIsRight`). One more frame is nearer than all of them (`NearestBelow`,
`DisabledBelow`), and at the bottom `level` is 0. Two ids that mean one rule are
two leaves until `normalise`, so only where one of them is in the chain does the
severity follow from its leaf (`SeverityFromChain`).

`JobCheck_proofs` proves, for all scripts, files, words and meanings of words,
from `JobAssumption`:

* `ScriptIsRead`: `Spec => []IInv`, and from it `RequestsAreRead`, `SilenceHolds`
  and `FingerprintAlwaysSeparates`.

The argument. After each turn the job is what the turns taken so far say
(`PrefixIsRead`); `RequestIsRead` follows when there are none left and memory per
core is multiplied out, once. The rules read nothing of the job that is not in the
fingerprint except whether there are directives and whether a thread variable is
set: the second is decided by its value being there, and a script without
directives has no cores and no memory (`EmptyWithoutDirectives`), so that no rule
would find anything in it anyway. `FingerprintSeparates` is not inductive and
speaks of two runs: `EmptyWithoutDirectives` is kept of the earlier one too.

`Notebook_proofs` proves, for every set of names and modules, notebooks of every
size, cells parsed in any order of which any may fail, and statements run in any order
and any number of times, all properties the runs check of `Notebook` and `Kernel`. It
assumes `ModulesAssumption`, `WidthAssumption`, `ScopesAssumption` (the scopes around
one are nested), `InputAssumption` (what the grammar makes of a cell: a clause of a
comprehension stands in a comprehension, a call has one list of first arguments, and
the like), `FlagAssumption` and `AnythingAssumption` (a module is none of the objects the tracker has an
`Origin` for):

* `NotebookInvariant`: `Spec => []IInv`;
* `KernelKeepsAnalysis`: `KernelSpec => Spec`, so that what holds of the analysis
  holds while the Python runs;
* `FirstCellAlwaysWins`, and from `ContextsInvariant` (`Spec => []ContextsKnow`)
  `NotebooksReadLikeAFile`, `AdviceAlwaysAgrees` and `ChunksAreAlwaysJudged`;
* `KernelInvariant`: `KernelSpec => []KInv`, and from it `ClaimsAreAlwaysTrue`,
  `ReceiversAreAlwaysJudged` and `CallsAlwaysReachTheirLibrary`.

The argument. After `turn - 1` cells of the first pass a name has what the first of them
that says anything says (`MeansWhatFirstSaid`), because a merge never overwrites
(`OneMoreCell`) and until the end each cell has its own context (`OwnUntilShared`).
The second pass merges contexts that have the names of all the cells already, so it
changes none (`SameNamesMerged`); detection touches only the topology
(`DetectionKeepsNames`). `FirstCellWins` speaks of the end alone; `PassesInOrder`
is what makes it inductive.

`ContextsKnow` says the same of whole contexts: a context knows some of the imports
and of the calls if its modules and names are those of the imports and its topology is
what the calls that reach `dask_setup` agree on. The first pass may know too little, as
a call may stand before the cell that imports its helper; the second looks at every call
with all imports, so what it ends with is what one reading of everything ends with, and
a context is determined by what it knows if the cells agree on what names mean.

`KInv` ties the running Python to the tables. A table is a fold over the statements, and
a fold is followed turn by turn, by induction over its turns (`Folding`,
`FoldingTurns`): a name with an origin was bound by statements of that origin only, and
one that is unbound by none. That a table is built while some origins are not yet known
is harmless within `WithinLimits`: what a value was judged by is not bound again later
(`SettledFirst`). Then each `Execute` that gives a name an object gives it one of the
origin the table has (`ClaimsHold`), as the operands had theirs; an imported name holds
its module or nothing (`ImportsHold`); and a rule's verdict on a receiver is one on
what it holds (`EvaluatedFits`), which are the last two theorems.

Only model-checked: the liveness properties (`CatchesUp`, `Refreshed`, `ServerEnds`,
`Loads`), which no backend here can prove under fairness, and the disagreements, which
are counterexamples. Every invariant and every safety property of a step that a run
checks is also a theorem.

## 5. What is not modelled

* Rendering (text, JSON, SARIF, GitLab), `--stats`, `explain`, `init`, `doctor`
  and argument parsing keep no state, and nothing above depends on their output.
* tree-sitter, rayon, serde and the OS watcher are modelled by what they promise.
* The other domain rules are one syntax query with one message each; `LintWorld`'s
  constant `Findings` stands for what they find. Of the rules that do more, DK003
  counts calls against a threshold and IO004 follows file handles; both look at one
  file at a time and depend on nothing else here.
* Path resolution (globs, excludes, `.xrayignore`, `--diff`) is a function of the
  source tree on strings; the runs start from its result. In watch mode paths are
  excluded by relative spellings at the start and compared as absolute ones afterwards,
  which the models, where a file is one value, cannot show.
* An editor's save between the read and the write of `xray fix`, or a kill in the
  middle of the write, loses text: the code guards against neither, so there is
  nothing to check but that it happens.

What could come next: nested expressions in `Bindings`, against the same Python;
IO004's handles; path spellings shared by `--diff`, excludes and watch mode.
