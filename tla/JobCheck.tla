----------------------------- MODULE JobCheck -----------------------------
(***************************************************************************)
(* The submission script of a run: how it is chosen, how its directives    *)
(* become a JobScript, what JOB001, JOB002, JOB003 and JOB005 say of a     *)
(* file beside it, and what of it is in the fingerprint under which the    *)
(* cache keeps what they said.  Two runs, with the script or the choice of *)
(* it edited in between.                                                   *)
(***************************************************************************)
EXTENDS Integers, Sequences

CONSTANTS
  Path,                \* submission scripts, numbered in the order of their names
  Word,                \* what stands for a value in a directive
  Count, Bytes,        \* what v.parse::<usize>() and parse_size make of it, or None
  GpuGres, GpuQueue,   \* the words that --gres and a queue's name mean a GPU by
  ThreadVar,           \* THREAD_ENV_VARS
  MaxInt,              \* the largest integer
  Script, File,        \* the scripts and the Python files that may be met
  None

\* A turn of the inner loop of parse_sbatch or parse_pbs, with the option and the
\* word that it reads there, or a shell line and the variable that it assigns.  A
\* directive without options is a turn of its own.
Entry ==
  [kind : {"sbatch", "pbs", "shell"}, key : STRING \cup {None}, value : Word \cup {None}]

Directive(S) == [value : S, line : Nat \ {0}] \cup {None}

JobScript ==
  [path : Path, cpus : Directive(0..MaxInt), memory : Directive(0..MaxInt),
   gpu : Directive(Word), threadEnv : Directive(Word), exclusive : BOOLEAN,
   hasDirectives : BOOLEAN, memPerCpu : Directive(0..MaxInt)]

\* The calls that the queries find in a file, in order: a cluster with its literal
\* arguments, and the calls that must bound what they read or start.
Call ==
  [kind : {"cluster", "open", "pool"}, workers : 0..MaxInt \cup {None},
   threads : 0..MaxInt \cup {None}, threadsSet : BOOLEAN, bounded : BOOLEAN]

ASSUME JobAssumption ==
  /\ Path \subseteq Nat /\ MaxInt \in Nat
  /\ Count \in [Word -> 0..MaxInt \cup {None}] /\ Bytes \in [Word -> 0..MaxInt \cup {None}]
  /\ GpuGres \subseteq Word /\ GpuQueue \subseteq Word /\ ThreadVar \subseteq Word
  /\ <<>> \in Script /\ Script \subseteq Seq(Entry) /\ File \subseteq Seq(Call)
  /\ None \notin Nat /\ None \notin Word /\ None \notin JobScript
  /\ None \notin [value : 0..MaxInt, line : Nat \ {0}]
  /\ None \notin [value : Word, line : Nat \ {0}]

VARIABLES
  phase,    \* "resolving", "parsing", "parsed", "failed"
  explicit, \* --job, or None
  matches,  \* the files that the glob [job].script matches; None if it is no glob
  readable, \* the paths at which there is a file to read
  script,   \* what the chosen script says
  at,       \* the next turn
  job,      \* the script as parsed so far; None without one
  earlier   \* the previous run's job and whether there was a previous run

vars == <<phase, explicit, matches, readable, script, at, job, earlier>>

Fresh(path) ==
  [path |-> path, cpus |-> None, memory |-> None, gpu |-> None, threadEnv |-> None,
   exclusive |-> FALSE, hasDirectives |-> FALSE, memPerCpu |-> None]

TypeOK ==
  /\ phase \in {"resolving", "parsing", "parsed", "failed"}
  /\ explicit \in Path \cup {None} /\ matches \in (SUBSET Path) \cup {None}
  /\ readable \subseteq Path
  /\ script \in Script
  /\ at \in Nat \ {0}
  /\ job \in JobScript \cup {None}
  /\ earlier \in [ran : BOOLEAN, job : JobScript \cup {None}]

-----------------------------------------------------------------------------
(* What a turn sets.                                                       *)

\* Turn e is about one of the options, and has a word for it.
Says(e, kind, keys) == e.kind = kind /\ e.key \in keys /\ e.value # None

SetsCpus(e) ==
  (Says(e, "sbatch", {"--cpus-per-task", "-c"}) \/ Says(e, "pbs", {"ncpus"}))
  /\ Count[e.value] # None

SetsMemory(e) ==
  (Says(e, "sbatch", {"--mem"}) \/ Says(e, "pbs", {"mem"})) /\ Bytes[e.value] # None

SetsMemPerCpu(e) == Says(e, "sbatch", {"--mem-per-cpu"}) /\ Bytes[e.value] # None

SetsGpu(e) ==
  \/ Says(e, "sbatch", {"--gres"}) /\ e.value \in GpuGres
  \/ Says(e, "sbatch", {"--gpus", "--gpus-per-node", "--gpus-per-task", "-G"})
  \/ (Says(e, "sbatch", {"--partition", "-p"}) \/ Says(e, "pbs", {"-q"})) /\ e.value \in GpuQueue
  \/ Says(e, "pbs", {"ngpus"}) /\ Count[e.value] # None /\ Count[e.value] > 0

SetsExclusive(e) == e.kind = "sbatch" /\ e.key = "--exclusive"

SetsThreadEnv(e) == Says(e, "shell", {"="}) /\ e.value \in ThreadVar

Saturated(n) == IF n > MaxInt THEN MaxInt ELSE n

\* Mutant: memory per core is multiplied out where it is said.
TakeAtOnce(j, e, n) ==
  [j EXCEPT
     !.hasDirectives = @ \/ e.kind # "shell",
     !.cpus = IF SetsCpus(e) THEN [value |-> Count[e.value], line |-> n] ELSE @,
     !.memory = IF SetsMemory(e) THEN [value |-> Bytes[e.value], line |-> n]
                ELSE IF SetsMemPerCpu(e) /\ j.cpus # None
                THEN [value |-> Saturated(Bytes[e.value] * j.cpus.value), line |-> n] ELSE @]

\* The n-th turn: of an option that is said again the later value stays, if it can be
\* read, and of the thread variables the first.
Take(j, e, n) ==
  [j EXCEPT
     !.hasDirectives = @ \/ e.kind # "shell",
     !.cpus = IF SetsCpus(e) THEN [value |-> Count[e.value], line |-> n] ELSE @,
     !.memory = IF SetsMemory(e) THEN [value |-> Bytes[e.value], line |-> n] ELSE @,
     !.memPerCpu = IF SetsMemPerCpu(e) THEN [value |-> Bytes[e.value], line |-> n] ELSE @,
     !.gpu = IF SetsGpu(e) THEN [value |-> e.value, line |-> n] ELSE @,
     !.exclusive = @ \/ SetsExclusive(e),
     !.threadEnv = IF @ = None /\ SetsThreadEnv(e) THEN [value |-> e.value, line |-> n] ELSE @]

\* Mutant: of an unknown number of cores there is one.
TotalOfOne(j) ==
  [j EXCEPT
     !.memory = IF j.memPerCpu = None THEN @
                ELSE [value |-> Saturated(j.memPerCpu.value *
                                          IF j.cpus = None THEN 1 ELSE j.cpus.value),
                      line |-> j.memPerCpu.line],
     !.memPerCpu = None]

\* Memory per core is multiplied out when every option has been read.
Total(j) ==
  [j EXCEPT
     !.memory = IF j.memPerCpu # None /\ j.cpus # None
                THEN [value |-> Saturated(j.memPerCpu.value * j.cpus.value),
                      line |-> j.memPerCpu.line]
                ELSE @,
     !.memPerCpu = None]

-----------------------------------------------------------------------------
(* The rules, and the job's part of the fingerprint.                       *)

\* The first cluster whose size is said is the file's.
IsSized(c) == c.kind = "cluster" /\ (c.workers # None \/ c.threadsSet)

Clusters(file) ==
  {i \in DOMAIN file : IsSized(file[i]) /\ \A k \in 1..(i - 1) : ~IsSized(file[k])}

Unbounded(file, kind) == {i \in DOMAIN file : file[i].kind = kind /\ ~file[i].bounded}

\* What a finding quotes, and where.
Finding(rule, i, quotes) == [rule |-> rule, place |-> i, quotes |-> quotes]

Threads(c) == IF c.threads = None THEN 1 ELSE c.threads
Workers(c, cpus) == IF c.workers = None THEN cpus ELSE c.workers
Used(c) == Saturated(c.workers * Threads(c))

job001(file, j) ==
  {Finding("JOB001", i, <<j.path, j.cpus.value, file[i].workers, Threads(file[i])>>) :
     i \in {k \in Clusters(file) :
              j.cpus # None /\ file[k].workers # None /\ Used(file[k]) # j.cpus.value}}

job002(file, j) ==
  {Finding("JOB002", i, <<j.path, j.cpus.value, Workers(file[i], j.cpus.value)>>) :
     i \in {k \in Clusters(file) :
              /\ j.cpus # None /\ j.cpus.value > 1 /\ j.threadEnv = None
              /\ ~file[k].threadsSet}}

job003(file, j) ==
  {Finding("JOB003", i, <<j.path, j.memory.value>>) :
     i \in {k \in Unbounded(file, "open") : j.memory # None}}

job005(file, j) ==
  {Finding("JOB005", i, <<j.path, j.cpus.value>>) :
     i \in {k \in Unbounded(file, "pool") : j.cpus # None /\ ~j.exclusive}}

check(file, j) ==
  IF j = None \/ ~j.hasDirectives THEN {}
  ELSE job001(file, j) \cup job002(file, j) \cup job003(file, j) \cup job005(file, j)

ValueOf(d) == IF d = None THEN None ELSE d.value

\* Mutant: whether the node is the job's own is left out.
fingerprintShared(j) ==
  IF j = None THEN <<>>
  ELSE <<j.path, ValueOf(j.cpus), ValueOf(j.memory), ValueOf(j.gpu), ValueOf(j.threadEnv)>>

fingerprint(j) ==
  IF j = None THEN <<>>
  ELSE <<j.path, ValueOf(j.cpus), ValueOf(j.memory), ValueOf(j.gpu), ValueOf(j.threadEnv),
         j.exclusive>>

-----------------------------------------------------------------------------
(* The runs.                                                               *)

Init ==
  /\ phase = "resolving"
  /\ explicit \in Path \cup {None} /\ matches \in (SUBSET Path) \cup {None}
  /\ readable \in SUBSET Path
  /\ script = <<>> /\ at = 1
  /\ job = None
  /\ earlier = [ran |-> FALSE, job |-> None]

\* --job, or else the first match; a script that cannot be read ends the run.
Chosen ==
  IF explicit # None THEN explicit ELSE CHOOSE p \in matches : \A q \in matches : p <= q

HasChoice == explicit # None \/ matches \notin {None, {}}

Resolve ==
  /\ phase = "resolving"
  /\ \/ /\ explicit = None /\ matches = {}
        /\ phase' = "parsed"
        /\ UNCHANGED <<script, at, job>>
     \/ /\ HasChoice /\ Chosen \in readable
        /\ script' \in Script
        /\ phase' = "parsing" /\ at' = 1 /\ job' = Fresh(Chosen)
     \/ /\ IF HasChoice THEN Chosen \notin readable ELSE matches = None
        /\ phase' = "failed"
        /\ UNCHANGED <<script, at, job>>
  /\ UNCHANGED <<explicit, matches, readable, earlier>>

Turn ==
  /\ phase = "parsing" /\ at <= Len(script)
  /\ job' = Take(job, script[at], at)
  /\ at' = at + 1
  /\ UNCHANGED <<phase, explicit, matches, readable, script, earlier>>

Finish ==
  /\ phase = "parsing" /\ at > Len(script)
  /\ job' = Total(job)
  /\ phase' = "parsed"
  /\ UNCHANGED <<explicit, matches, readable, script, at, earlier>>

\* The next run, with another script, another choice of it, or the same.
Rerun ==
  /\ phase = "parsed" /\ ~earlier.ran
  /\ earlier' = [ran |-> TRUE, job |-> job]
  /\ phase' = "resolving"
  /\ explicit' \in Path \cup {None} /\ matches' \in (SUBSET Path) \cup {None}
  /\ readable' \in SUBSET Path
  /\ job' = None /\ script' = <<>> /\ at' = 1

Next == Resolve \/ Turn \/ Finish \/ Rerun

Spec == Init /\ [][Next]_vars

-----------------------------------------------------------------------------
(* Correctness.                                                            *)

CpuTurns == {i \in DOMAIN script : i < at /\ SetsCpus(script[i])}
MemoryTurns == {i \in DOMAIN script : i < at /\ SetsMemory(script[i])}
PerCpuTurns == {i \in DOMAIN script : i < at /\ SetsMemPerCpu(script[i])}
EnvTurns == {i \in DOMAIN script : i < at /\ SetsThreadEnv(script[i])}

\* d is what the last of the turns says.
IsLatest(d, turns, values) ==
  IF turns = {} THEN d = None
  ELSE /\ d # None /\ d.line \in turns /\ d.value = values[script[d.line].value]
       /\ \A i \in turns : i <= d.line

\* A request is the last that can be read, wherever in the script and in whichever
\* scheduler's language; memory per core is the job's total as soon as the cores are
\* known, said before or after it, and never taken for the total while they are not.
RequestIsRead ==
  phase = "parsed" /\ job # None =>
    /\ IsLatest(job.cpus, CpuTurns, Count)
    /\ CpuTurns = {} \/ PerCpuTurns = {} => IsLatest(job.memory, MemoryTurns, Bytes)
    /\ \A c \in CpuTurns, m \in PerCpuTurns :
         (\A i \in CpuTurns : i <= c) /\ (\A i \in PerCpuTurns : i <= m) =>
           /\ job.memory # None
           /\ job.memory.value = Saturated(Bytes[script[m].value] * Count[script[c].value])
    /\ job.threadEnv = None <=> EnvTurns = {}

\* The silence invariant: no rule speaks of cores or of memory that no directive
\* gives in a form that can be read.
SilenceInvariant ==
  phase = "parsed" =>
    \A file \in File : \A x \in check(file, job) :
      /\ x.rule \in {"JOB001", "JOB002", "JOB005"} => CpuTurns # {}
      /\ x.rule = "JOB003" => MemoryTurns # {} \/ (PerCpuTurns # {} /\ CpuTurns # {})

\* Two runs whose jobs have one fingerprint find the same in every file, so that the
\* one may serve what the other has cached, although the fingerprint leaves out
\* whether there are directives at all, and where they are.
FingerprintSeparates ==
  phase = "parsed" /\ earlier.ran /\ fingerprint(job) = fingerprint(earlier.job) =>
    \A file \in File : check(file, job) = check(file, earlier.job)

\* The inductive invariant.  Without a directive there is nothing to find.
EmptyWithoutDirectives(j) ==
  j # None /\ ~j.hasDirectives => j.cpus = None /\ j.memory = None /\ j.memPerCpu = None

PrefixIsRead ==
  /\ IsLatest(job.cpus, CpuTurns, Count)
  /\ IsLatest(job.memory, MemoryTurns, Bytes)
  /\ IsLatest(job.memPerCpu, PerCpuTurns, Bytes)
  /\ job.threadEnv = None <=> EnvTurns = {}

IInv ==
  /\ TypeOK
  /\ EmptyWithoutDirectives(job) /\ EmptyWithoutDirectives(earlier.job)
  /\ phase = "resolving" => job = None /\ script = <<>> /\ at = 1
  /\ phase \in {"parsing", "parsed"} => at <= Len(script) + 1
  /\ phase = "parsing" => job # None /\ PrefixIsRead
  /\ RequestIsRead
=============================================================================
