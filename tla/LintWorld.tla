----------------------------- MODULE LintWorld -----------------------------
(***************************************************************************)
(* What every lint run of xray takes as given: the files it may be asked   *)
(* about, the settings it runs under, and the pure functions between a     *)
(* file's content and what is reported for it.                             *)
(*                                                                         *)
(* A content is opaque: two contents differ only in the findings they      *)
(* cause, in whether they import a GPU library and in whether they can be  *)
(* read, so that a file whose permissions change gets another content with *)
(* the stamp it had.  A setting stands for everything outside the file     *)
(* that reaches the rules: the resolved configuration, the job script and  *)
(* the build.                                                              *)
(***************************************************************************)

CONSTANTS
  Path,          \* the file names a run may resolve to
  Notebook,      \* those of them that end in .ipynb
  Content,       \* what a file may hold
  Unreadable,    \* those of them that cannot be read or parsed
  Setting,       \* build + resolved xray.toml + parsed job script
  Key,           \* cache fingerprints
  KeyOf,         \* the fingerprint of each setting
  Rule,          \* rule identifiers
  JOB004,        \* the one rule about a whole run
  Findings,      \* the raw rule output for a path, a content and a setting
  GpuImport,     \* the contents that import a GPU library
  GpuRequested,  \* the settings whose job script asks for a GPU, JOB004 enabled
  Invocation,    \* what the command line adds: hidden rules, exit gate, cache use
  None,          \* no file, no entry, no answer yet
  Failed         \* a file that could not be read or parsed

ASSUME DataAssumption ==
  /\ Notebook \subseteq Path
  /\ GpuImport \subseteq Content /\ Unreadable \subseteq Content
  /\ GpuRequested \subseteq Setting
  /\ JOB004 \in Rule
  /\ KeyOf \in [Setting -> Key]
  /\ Findings \in [Path \X Content \X Setting -> SUBSET Rule]
  /\ Invocation \subseteq [hide: SUBSET Rule, gate: SUBSET Rule, no_cache: BOOLEAN]

\* The fingerprint covers everything outside the file that reaches the
\* per-file rules: settings that share a key cannot be told apart by them.
ASSUME FingerprintIsComplete ==
  \A s, t \in Setting :
    KeyOf[s] = KeyOf[t] =>
      \A p \in Path, c \in Content : Findings[p, c, s] = Findings[p, c, t]

\* What linting one file yields: its raw findings and its import fact.
Answer == [raw: SUBSET Rule, gpu: BOOLEAN]

ASSUME SentinelAssumption ==
  /\ None \notin Content
  /\ None \notin Answer
  /\ Failed \notin Answer
  /\ None # Failed

Task == [setting: Setting, paths: SUBSET Path,
         hide: SUBSET Rule, gate: SUBSET Rule, no_cache: BOOLEAN]

ASSUME TaskAssumption == None \notin Task

\* One file read and checked from scratch; one that is missing, that may not be
\* read or that is not a notebook is dropped from the run with a message.
Lint(p, c, s) ==
  IF c = None \/ c \in Unreadable THEN Failed
  ELSE [raw |-> Findings[p, c, s], gpu |-> c \in GpuImport]

NoAnswers == [p \in Path |-> None]

Linted(task, answer) == {p \in task.paths : answer[p] # Failed}

\* JOB004 asks the whole run: a GPU was requested and nothing linted uses it.
Job004Fires(task, answer) ==
  /\ task.setting \in GpuRequested
  /\ \A p \in Linted(task, answer) : ~answer[p].gpu

\* The findings that survive the configuration's and the flags' filters.
Shown(task, answer) ==
  [p \in Path |-> IF p \in Linted(task, answer) THEN answer[p].raw \ task.hide ELSE {}]

JobShown(task, answer) ==
  (IF Job004Fires(task, answer) THEN {JOB004} ELSE {}) \ task.hide

\* 1 when a shown finding reaches --fail-on.
ExitCode(task, answer) ==
  IF task.gate \cap (JobShown(task, answer) \cup
                     UNION {Shown(task, answer)[p] : p \in Path}) # {}
  THEN 1 ELSE 0

RunReport == [shown: [Path -> SUBSET Rule], job: SUBSET Rule, exit: {0, 1, 2}]

\* What a finished run prints and exits with.
ReportOf(task, answer) ==
  [shown |-> Shown(task, answer),
   job   |-> JobShown(task, answer),
   exit  |-> ExitCode(task, answer)]

ASSUME ReportAssumption == None \notin RunReport
=============================================================================
