-------------------------- MODULE JobCheck_proofs --------------------------
(***************************************************************************)
(* What is read of a submission script, and that the fingerprint knows all *)
(* that the rules ask of it, for every script and every file.              *)
(***************************************************************************)
EXTENDS JobCheck, TLAPS

LEMMA JobFields ==
  ASSUME NEW j \in JobScript
  PROVE  /\ j.path \in Path /\ j.cpus \in Directive(0..MaxInt)
         /\ j.memory \in Directive(0..MaxInt) /\ j.memPerCpu \in Directive(0..MaxInt)
         /\ j.gpu \in Directive(Word) /\ j.threadEnv \in Directive(Word)
         /\ j.exclusive \in BOOLEAN /\ j.hasDirectives \in BOOLEAN
  BY DEF JobScript

LEMMA Directives ==
  ASSUME NEW d \in Directive(0..MaxInt), d # None
  PROVE  d.value \in 0..MaxInt /\ d.line \in Nat \ {0} /\ d.value # None
  BY JobAssumption DEF Directive

LEMMA FreshIsScript ==
  ASSUME NEW p \in Path
  PROVE  Fresh(p) \in JobScript
  BY DEF Fresh, JobScript, Directive

\* What one turn makes of each field, when it is a script's.
LEMMA TakeFields ==
  ASSUME NEW j \in JobScript, NEW e \in Entry, NEW n \in Nat \ {0}
  PROVE  /\ Take(j, e, n) \in JobScript
         /\ Take(j, e, n).cpus = IF SetsCpus(e) THEN [value |-> Count[e.value], line |-> n] ELSE j.cpus
         /\ Take(j, e, n).memory =
              IF SetsMemory(e) THEN [value |-> Bytes[e.value], line |-> n] ELSE j.memory
         /\ Take(j, e, n).memPerCpu =
              IF SetsMemPerCpu(e) THEN [value |-> Bytes[e.value], line |-> n] ELSE j.memPerCpu
         /\ Take(j, e, n).threadEnv =
              IF j.threadEnv = None /\ SetsThreadEnv(e) THEN [value |-> e.value, line |-> n]
              ELSE j.threadEnv
         /\ Take(j, e, n).hasDirectives <=> (j.hasDirectives \/ e.kind # "shell")
<1> DEFINE cpus == IF SetsCpus(e) THEN [value |-> Count[e.value], line |-> n] ELSE j.cpus
           memory == IF SetsMemory(e) THEN [value |-> Bytes[e.value], line |-> n] ELSE j.memory
           memPerCpu == IF SetsMemPerCpu(e) THEN [value |-> Bytes[e.value], line |-> n] ELSE j.memPerCpu
           gpu == IF SetsGpu(e) THEN [value |-> e.value, line |-> n] ELSE j.gpu
           threadEnv == IF j.threadEnv = None /\ SetsThreadEnv(e)
                        THEN [value |-> e.value, line |-> n] ELSE j.threadEnv
           hasDirectives == j.hasDirectives \/ e.kind # "shell"
           exclusive == j.exclusive \/ SetsExclusive(e)
<1>1. e.value \in Word \cup {None}
  BY DEF Entry
<1>2. cpus \in Directive(0..MaxInt)
  BY <1>1, JobFields, JobAssumption DEF Directive, SetsCpus, Says
<1>3. memory \in Directive(0..MaxInt)
  BY <1>1, JobFields, JobAssumption DEF Directive, SetsMemory, Says
<1>4. memPerCpu \in Directive(0..MaxInt)
  BY <1>1, JobFields, JobAssumption DEF Directive, SetsMemPerCpu, Says
<1>5. gpu \in Directive(Word)
  BY <1>1, JobFields DEF Directive, SetsGpu, Says
<1>6. threadEnv \in Directive(Word)
  BY <1>1, JobFields DEF Directive, SetsThreadEnv, Says
<1>7. hasDirectives \in BOOLEAN /\ exclusive \in BOOLEAN
  OBVIOUS
<1>8. Take(j, e, n) =
        [j EXCEPT !.hasDirectives = hasDirectives, !.cpus = cpus, !.memory = memory,
                  !.memPerCpu = memPerCpu, !.gpu = gpu, !.exclusive = exclusive,
                  !.threadEnv = threadEnv]
  BY DEF Take
<1> HIDE DEF cpus, memory, memPerCpu, gpu, threadEnv, hasDirectives, exclusive
<1>9. Take(j, e, n) \in JobScript
  BY <1>2, <1>3, <1>4, <1>5, <1>6, <1>7, <1>8, JobFields DEF JobScript
<1>10. /\ Take(j, e, n).cpus = cpus /\ Take(j, e, n).memory = memory
       /\ Take(j, e, n).memPerCpu = memPerCpu /\ Take(j, e, n).threadEnv = threadEnv
       /\ Take(j, e, n).hasDirectives = hasDirectives
  BY <1>8 DEF JobScript
<1> QED BY <1>9, <1>10 DEF cpus, memory, memPerCpu, threadEnv, hasDirectives

LEMMA TotalFields ==
  ASSUME NEW j \in JobScript
  PROVE  /\ Total(j) \in JobScript
         /\ Total(j).cpus = j.cpus /\ Total(j).threadEnv = j.threadEnv
         /\ Total(j).hasDirectives = j.hasDirectives /\ Total(j).memPerCpu = None
         /\ IF j.memPerCpu # None /\ j.cpus # None
            THEN /\ Total(j).memory # None
                 /\ Total(j).memory.value = Saturated(j.memPerCpu.value * j.cpus.value)
            ELSE Total(j).memory = j.memory
<1> DEFINE total == [value |-> Saturated(j.memPerCpu.value * j.cpus.value),
                     line |-> j.memPerCpu.line]
<1>1. CASE j.memPerCpu # None /\ j.cpus # None
  <2>1. j.memPerCpu.value \in Nat /\ j.cpus.value \in Nat /\ j.memPerCpu.line \in Nat \ {0}
    BY <1>1, JobFields, Directives, JobAssumption
  <2>2. Saturated(j.memPerCpu.value * j.cpus.value) \in 0..MaxInt
    <3>1. \A m, n \in Nat : m * n \in Nat
      OBVIOUS
    <3>2. \A n \in Nat : Saturated(n) \in 0..MaxInt
      BY JobAssumption DEF Saturated
    <3> QED BY <2>1, <3>1, <3>2
  <2>3. total \in Directive(0..MaxInt) /\ total # None
    BY <2>1, <2>2, JobAssumption DEF Directive
  <2>4. Total(j) = [j EXCEPT !.memory = total, !.memPerCpu = None]
    BY <1>1 DEF Total
  <2> HIDE DEF total
  <2>5. None \in Directive(0..MaxInt)
    BY DEF Directive
  <2>6. Total(j) \in JobScript /\ Total(j).memory = total
    BY <2>3, <2>4, <2>5 DEF JobScript
  <2> QED BY <1>1, <2>3, <2>4, <2>6 DEF total, JobScript
<1>2. CASE ~(j.memPerCpu # None /\ j.cpus # None)
  <2>1. Total(j) = [j EXCEPT !.memPerCpu = None]
    BY <1>2 DEF Total, JobScript
  <2>2. None \in Directive(0..MaxInt)
    BY DEF Directive
  <2> QED BY <1>2, <2>1, <2>2 DEF JobScript
<1> QED BY <1>1, <1>2

-----------------------------------------------------------------------------
(* The script as it is read.                                               *)

LEMMA LatestGrows ==
  ASSUME NEW turns, NEW values, NEW n \in Nat \ {0}, turns \subseteq 1..(n - 1),
         NEW d, d # None, d.line = n, d.value = values[script[n].value]
  PROVE  IsLatest(d, turns \cup {n}, values)
  BY DEF IsLatest

\* One turn adds itself to the turns that set what it sets.
LEMMA TurnsGrow ==
  ASSUME TypeOK, Turn, at \in DOMAIN script
  PROVE  /\ CpuTurns' = IF SetsCpus(script[at]) THEN CpuTurns \cup {at} ELSE CpuTurns
         /\ MemoryTurns' = IF SetsMemory(script[at]) THEN MemoryTurns \cup {at} ELSE MemoryTurns
         /\ PerCpuTurns' = IF SetsMemPerCpu(script[at]) THEN PerCpuTurns \cup {at} ELSE PerCpuTurns
         /\ EnvTurns' = IF SetsThreadEnv(script[at]) THEN EnvTurns \cup {at} ELSE EnvTurns
         /\ CpuTurns \subseteq 1..(at - 1) /\ MemoryTurns \subseteq 1..(at - 1)
         /\ PerCpuTurns \subseteq 1..(at - 1)
<1>1. /\ at \in Nat \ {0} /\ script \in Seq(Entry) /\ script' = script /\ at' = at + 1
      /\ DOMAIN script = 1..Len(script)
  BY JobAssumption DEF TypeOK, Turn
<1>2. \A i \in DOMAIN script : i \in Nat \ {0} /\ (i < at' <=> i < at \/ i = at)
  BY <1>1
<1>3. CpuTurns' = IF SetsCpus(script[at]) THEN CpuTurns \cup {at} ELSE CpuTurns
  BY <1>1, <1>2 DEF CpuTurns
<1>4. MemoryTurns' = IF SetsMemory(script[at]) THEN MemoryTurns \cup {at} ELSE MemoryTurns
  BY <1>1, <1>2 DEF MemoryTurns
<1>5. PerCpuTurns' = IF SetsMemPerCpu(script[at]) THEN PerCpuTurns \cup {at} ELSE PerCpuTurns
  BY <1>1, <1>2 DEF PerCpuTurns
<1>6. EnvTurns' = IF SetsThreadEnv(script[at]) THEN EnvTurns \cup {at} ELSE EnvTurns
  BY <1>1, <1>2 DEF EnvTurns
<1>7. /\ CpuTurns \subseteq 1..(at - 1) /\ MemoryTurns \subseteq 1..(at - 1)
      /\ PerCpuTurns \subseteq 1..(at - 1)
  BY <1>1 DEF CpuTurns, MemoryTurns, PerCpuTurns
<1> QED BY <1>3, <1>4, <1>5, <1>6, <1>7

LEMMA TurnKeeps == ASSUME IInv, Turn PROVE IInv'
<1>1. /\ TypeOK /\ phase = "parsing" /\ at \in Nat \ {0} /\ at <= Len(script)
      /\ script \in Seq(Entry) /\ job \in JobScript /\ PrefixIsRead
      /\ EmptyWithoutDirectives(job) /\ EmptyWithoutDirectives(earlier.job)
  BY JobAssumption DEF IInv, TypeOK, Turn
<1>2. at \in DOMAIN script /\ script[at] \in Entry
  BY <1>1
<1>3. /\ UNCHANGED <<phase, explicit, matches, readable, script, earlier>>
      /\ at' = at + 1 /\ job' = Take(job, script[at], at)
  BY DEF Turn
<1> DEFINE e == script[at]
<1>4. /\ job' \in JobScript
      /\ job'.cpus = IF SetsCpus(e) THEN [value |-> Count[e.value], line |-> at] ELSE job.cpus
      /\ job'.memory = IF SetsMemory(e) THEN [value |-> Bytes[e.value], line |-> at] ELSE job.memory
      /\ job'.memPerCpu =
           IF SetsMemPerCpu(e) THEN [value |-> Bytes[e.value], line |-> at] ELSE job.memPerCpu
      /\ job'.threadEnv = IF job.threadEnv = None /\ SetsThreadEnv(e)
                          THEN [value |-> e.value, line |-> at] ELSE job.threadEnv
      /\ job'.hasDirectives <=> (job.hasDirectives \/ e.kind # "shell")
  BY <1>1, <1>2, <1>3, TakeFields
<1>5. /\ SetsCpus(e) => e.kind # "shell" /\ [value |-> Count[e.value], line |-> at] # None
      /\ SetsMemory(e) => e.kind # "shell" /\ [value |-> Bytes[e.value], line |-> at] # None
      /\ SetsMemPerCpu(e) => e.kind # "shell" /\ [value |-> Bytes[e.value], line |-> at] # None
      /\ SetsThreadEnv(e) => [value |-> e.value, line |-> at] # None
  <2>1. e.value \in Word \cup {None}
    BY <1>2 DEF Entry
  <2> QED
    BY <1>1, <2>1, JobAssumption DEF SetsCpus, SetsMemory, SetsMemPerCpu, SetsThreadEnv, Says
<1>6. TypeOK'
  BY <1>1, <1>3, <1>4 DEF TypeOK
<1>7. EmptyWithoutDirectives(job')
  BY <1>1, <1>4, <1>5, JobAssumption DEF EmptyWithoutDirectives
<1> HIDE DEF e
<1>8. PrefixIsRead'
  <2>1. IsLatest(job'.cpus, CpuTurns', Count)
    <3>1. CASE SetsCpus(e)
      <4>1. job'.cpus # None /\ job'.cpus.line = at /\ job'.cpus.value = Count[script[at].value]
        BY <3>1, <1>4, <1>5 DEF e
      <4>2. CpuTurns \subseteq 1..(at - 1) /\ CpuTurns' = CpuTurns \cup {at}
        BY <3>1, <1>1, <1>2, TurnsGrow DEF e
      <4> QED BY <1>1, <4>1, <4>2, LatestGrows
    <3>2. CASE ~SetsCpus(e)
      BY <3>2, <1>1, <1>2, <1>4, TurnsGrow DEF e, PrefixIsRead
    <3> QED BY <3>1, <3>2
  <2>2. IsLatest(job'.memory, MemoryTurns', Bytes)
    <3>1. CASE SetsMemory(e)
      <4>1. job'.memory # None /\ job'.memory.line = at /\ job'.memory.value = Bytes[script[at].value]
        BY <3>1, <1>4, <1>5 DEF e
      <4>2. MemoryTurns \subseteq 1..(at - 1) /\ MemoryTurns' = MemoryTurns \cup {at}
        BY <3>1, <1>1, <1>2, TurnsGrow DEF e
      <4> QED BY <1>1, <4>1, <4>2, LatestGrows
    <3>2. CASE ~SetsMemory(e)
      BY <3>2, <1>1, <1>2, <1>4, TurnsGrow DEF e, PrefixIsRead
    <3> QED BY <3>1, <3>2
  <2>3. IsLatest(job'.memPerCpu, PerCpuTurns', Bytes)
    <3>1. CASE SetsMemPerCpu(e)
      <4>1. job'.memPerCpu # None /\ job'.memPerCpu.line = at /\ job'.memPerCpu.value = Bytes[script[at].value]
        BY <3>1, <1>4, <1>5 DEF e
      <4>2. PerCpuTurns \subseteq 1..(at - 1) /\ PerCpuTurns' = PerCpuTurns \cup {at}
        BY <3>1, <1>1, <1>2, TurnsGrow DEF e
      <4> QED BY <1>1, <4>1, <4>2, LatestGrows
    <3>2. CASE ~SetsMemPerCpu(e)
      BY <3>2, <1>1, <1>2, <1>4, TurnsGrow DEF e, PrefixIsRead
    <3> QED BY <3>1, <3>2
  <2>4. job'.threadEnv = None <=> EnvTurns' = {}
    BY <1>1, <1>2, <1>4, <1>5, TurnsGrow DEF e, PrefixIsRead
  <2> QED BY <1>3, <2>1, <2>2, <2>3, <2>4 DEF PrefixIsRead, IsLatest
<1>9. at' <= Len(script') + 1 /\ phase' = "parsing" /\ job' # None
  BY <1>1, <1>3, <1>4, JobAssumption
<1> QED BY <1>1, <1>3, <1>6, <1>7, <1>8, <1>9 DEF IInv, RequestIsRead, EmptyWithoutDirectives

LEMMA FinishKeeps == ASSUME IInv, Finish PROVE IInv'
<1>1. /\ TypeOK /\ phase = "parsing" /\ job \in JobScript /\ PrefixIsRead
      /\ EmptyWithoutDirectives(job) /\ EmptyWithoutDirectives(earlier.job)
      /\ at <= Len(script) + 1
  BY DEF IInv, TypeOK, Finish
<1>2. UNCHANGED <<explicit, matches, readable, script, at, earlier>> /\ phase' = "parsed"
      /\ job' = Total(job)
  BY DEF Finish
<1>3. /\ job' \in JobScript /\ job'.cpus = job.cpus /\ job'.threadEnv = job.threadEnv
      /\ job'.hasDirectives = job.hasDirectives /\ job'.memPerCpu = None
      /\ IF job.memPerCpu # None /\ job.cpus # None
         THEN /\ job'.memory # None
              /\ job'.memory.value = Saturated(job.memPerCpu.value * job.cpus.value)
         ELSE job'.memory = job.memory
  BY <1>1, <1>2, TotalFields
<1>4. TypeOK'
  BY <1>1, <1>2, <1>3 DEF TypeOK
<1>5. EmptyWithoutDirectives(job')
  BY <1>1, <1>3, JobAssumption DEF EmptyWithoutDirectives
<1>6. /\ job.cpus = None <=> CpuTurns = {}
      /\ job.memPerCpu = None <=> PerCpuTurns = {}
  BY <1>1 DEF PrefixIsRead, IsLatest
<1>7. CpuTurns = {} \/ PerCpuTurns = {} => IsLatest(job'.memory, MemoryTurns, Bytes)
  BY <1>1, <1>3, <1>6 DEF PrefixIsRead
<1>8. ASSUME NEW c \in CpuTurns, NEW m \in PerCpuTurns,
             \A i \in CpuTurns : i <= c, \A i \in PerCpuTurns : i <= m
      PROVE  /\ job'.memory # None
             /\ job'.memory.value = Saturated(Bytes[script[m].value] * Count[script[c].value])
  <2>1. \A i \in CpuTurns \cup PerCpuTurns : i \in Nat
    BY JobAssumption, <1>1 DEF CpuTurns, PerCpuTurns, TypeOK
  <2>2. job.cpus.line = c /\ job.cpus.value = Count[script[c].value]
    BY <1>1, <1>8, <2>1 DEF PrefixIsRead, IsLatest
  <2>3. job.memPerCpu.line = m /\ job.memPerCpu.value = Bytes[script[m].value]
    BY <1>1, <1>8, <2>1 DEF PrefixIsRead, IsLatest
  <2> QED BY <1>3, <1>6, <2>2, <2>3
<1>9. RequestIsRead'
  <2>1. IsLatest(job'.cpus, CpuTurns, Count) /\ (job'.threadEnv = None <=> EnvTurns = {})
    BY <1>1, <1>3 DEF PrefixIsRead
  <2> QED
    BY <1>2, <1>7, <1>8, <2>1
       DEF RequestIsRead, IsLatest, CpuTurns, MemoryTurns, PerCpuTurns, EnvTurns
<1> QED BY <1>1, <1>2, <1>4, <1>5, <1>9 DEF IInv, EmptyWithoutDirectives

LEMMA ResolveKeeps == ASSUME IInv, Resolve PROVE IInv'
<1>1. /\ TypeOK /\ phase = "resolving"
      /\ EmptyWithoutDirectives(job) /\ EmptyWithoutDirectives(earlier.job)
      /\ UNCHANGED <<explicit, matches, readable, earlier>>
  BY DEF IInv, Resolve
<1>2. CASE /\ Chosen \in readable /\ script' \in Script
           /\ phase' = "parsing" /\ at' = 1 /\ job' = Fresh(Chosen)
  <2>1. Chosen \in Path /\ job' \in JobScript /\ job' # None
    BY <1>1, <1>2, FreshIsScript, JobAssumption DEF TypeOK
  <2>2. TypeOK'
    BY <1>1, <1>2, <2>1 DEF TypeOK
  <2>3. script' \in Seq(Entry)
    BY <1>2, JobAssumption
  <2>4. /\ CpuTurns' = {} /\ MemoryTurns' = {} /\ PerCpuTurns' = {} /\ EnvTurns' = {}
        /\ at' <= Len(script') + 1
    BY <1>2, <2>3 DEF CpuTurns, MemoryTurns, PerCpuTurns, EnvTurns
  <2>5. /\ job'.cpus = None /\ job'.memory = None /\ job'.memPerCpu = None
        /\ job'.threadEnv = None
    BY <1>2 DEF Fresh
  <2> QED
    BY <1>1, <1>2, <2>1, <2>2, <2>4, <2>5
       DEF IInv, PrefixIsRead, IsLatest, RequestIsRead, EmptyWithoutDirectives
<1>3. CASE phase' \in {"parsed", "failed"} /\ UNCHANGED <<script, at, job>>
  <2>1. TypeOK'
    BY <1>1, <1>3 DEF TypeOK
  <2>2. job = None /\ at <= Len(script) + 1
    BY <1>1, Len(<<>>) = 0 DEF IInv
  <2> QED
    BY <1>1, <1>3, <2>1, <2>2 DEF IInv, RequestIsRead, EmptyWithoutDirectives
<1> QED BY <1>2, <1>3 DEF Resolve

LEMMA RerunKeeps == ASSUME IInv, Rerun PROVE IInv'
<1>1. /\ TypeOK /\ EmptyWithoutDirectives(job)
      /\ earlier' = [ran |-> TRUE, job |-> job] /\ earlier'.job = job
      /\ job' = None /\ at' = 1 /\ script' = <<>> /\ phase' = "resolving"
  BY DEF IInv, Rerun
<1>2. TypeOK'
  <2>1. script' \in Script
    BY <1>1, JobAssumption
  <2> QED BY <1>1, <2>1 DEF TypeOK, Rerun
<1> QED BY <1>1, <1>2 DEF IInv, RequestIsRead, EmptyWithoutDirectives

\* Whatever a script says, in any order and any number of times, the turns that have
\* been taken are what the job holds.
THEOREM ScriptIsRead == Spec => []IInv
<1>1. Init => IInv
  BY JobAssumption DEF Init, IInv, TypeOK, RequestIsRead, EmptyWithoutDirectives
<1>2. IInv /\ [Next]_vars => IInv'
  <2> SUFFICES ASSUME IInv, [Next]_vars PROVE IInv'
    OBVIOUS
  <2>1. CASE UNCHANGED vars
    BY <2>1 DEF vars, IInv, TypeOK, EmptyWithoutDirectives, PrefixIsRead, RequestIsRead,
       IsLatest, CpuTurns, MemoryTurns, PerCpuTurns, EnvTurns
  <2> QED BY <2>1, ResolveKeeps, TurnKeeps, FinishKeeps, RerunKeeps DEF Next
<1> QED BY <1>1, <1>2, PTL DEF Spec

\* Every request is the last readable one; memory per core is multiplied out in any
\* order.
THEOREM RequestsAreRead == Spec => []RequestIsRead
<1>1. IInv => RequestIsRead
  BY DEF IInv
<1> QED BY <1>1, ScriptIsRead, PTL

LEMMA FindingFields ==
  ASSUME NEW rule, NEW i, NEW quotes
  PROVE  Finding(rule, i, quotes).rule = rule
  BY DEF Finding

\* What a rule finds, it finds by a request.
LEMMA FindingsNeed ==
  ASSUME NEW file, NEW j, NEW x \in check(file, j)
  PROVE  /\ j # None /\ x.rule \in {"JOB001", "JOB002", "JOB003", "JOB005"}
         /\ x.rule \in {"JOB001", "JOB002", "JOB005"} => j.cpus # None
         /\ x.rule = "JOB003" => j.memory # None
<1>1. j # None
      /\ x \in job001(file, j) \cup job002(file, j) \cup job003(file, j) \cup job005(file, j)
  BY DEF check
<1>2. x \in job001(file, j) => x.rule = "JOB001" /\ j.cpus # None
  BY FindingFields DEF job001
<1>3. x \in job002(file, j) => x.rule = "JOB002" /\ j.cpus # None
  <2> SUFFICES ASSUME x \in job002(file, j)
               PROVE  x.rule = "JOB002" /\ j.cpus # None
    OBVIOUS
  <2>1. PICK i \in {k \in Clusters(file) :
                     /\ j.cpus # None /\ j.cpus.value > 1 /\ j.threadEnv = None
                     /\ ~file[k].threadsSet} :
          x = Finding("JOB002", i, <<j.path, j.cpus.value, Workers(file[i], j.cpus.value)>>)
    BY Zenon DEF job002
  <2>2. j.cpus # None
    BY <2>1, Zenon
  <2> QED BY <2>1, <2>2, FindingFields
<1>4. x \in job003(file, j) => x.rule = "JOB003" /\ j.memory # None
  BY FindingFields DEF job003
<1>5. x \in job005(file, j) => x.rule = "JOB005" /\ j.cpus # None
  BY FindingFields DEF job005
<1> QED BY <1>1, <1>2, <1>3, <1>4, <1>5

\* No rule guesses at what cannot be read.
THEOREM SilenceHolds == Spec => []SilenceInvariant
<1>1. IInv => SilenceInvariant
  <2> SUFFICES ASSUME IInv, phase = "parsed", NEW file \in File, NEW x \in check(file, job)
               PROVE  /\ x.rule \in {"JOB001", "JOB002", "JOB005"} => CpuTurns # {}
                      /\ x.rule = "JOB003" =>
                           MemoryTurns # {} \/ (PerCpuTurns # {} /\ CpuTurns # {})
    BY DEF SilenceInvariant
  <2>1. RequestIsRead /\ job # None
    BY FindingsNeed DEF IInv
  <2>2. /\ CpuTurns = {} => job.cpus = None
        /\ (CpuTurns = {} \/ PerCpuTurns = {}) /\ MemoryTurns = {} => job.memory = None
    BY <2>1 DEF RequestIsRead, IsLatest
  <2> QED BY <2>2, FindingsNeed
<1> QED BY <1>1, ScriptIsRead, PTL

-----------------------------------------------------------------------------
(* The fingerprint.                                                        *)

LEMMA SameValue ==
  ASSUME NEW d \in Directive(0..MaxInt), NEW f \in Directive(0..MaxInt), ValueOf(d) = ValueOf(f)
  PROVE  (d = None <=> f = None) /\ (d # None => d.value = f.value)
  BY Directives DEF ValueOf

LEMMA SameEnv ==
  ASSUME NEW d \in Directive(Word), NEW f \in Directive(Word), ValueOf(d) = ValueOf(f)
  PROVE  d = None <=> f = None
  BY JobAssumption DEF ValueOf, Directive

\* Of two jobs with one fingerprint the rules find the same, and if only one of them
\* has directives there is nothing that they could find.
LEMMA SameFindings ==
  ASSUME NEW j \in JobScript, NEW k \in JobScript, NEW file,
         EmptyWithoutDirectives(j), EmptyWithoutDirectives(k),
         fingerprint(j) = fingerprint(k)
  PROVE  check(file, j) = check(file, k)
<1>1. j # None /\ k # None
  BY JobAssumption
<1>2. /\ j.path = k.path /\ ValueOf(j.cpus) = ValueOf(k.cpus)
      /\ ValueOf(j.memory) = ValueOf(k.memory) /\ ValueOf(j.threadEnv) = ValueOf(k.threadEnv)
      /\ j.exclusive = k.exclusive
  BY <1>1 DEF fingerprint
<1>3. /\ j.cpus = None <=> k.cpus = None
      /\ j.cpus # None => j.cpus.value = k.cpus.value
      /\ j.memory = None <=> k.memory = None
      /\ j.memory # None => j.memory.value = k.memory.value
      /\ j.threadEnv = None <=> k.threadEnv = None
  BY <1>2, SameValue, SameEnv, JobFields
<1>4. /\ job001(file, j) = job001(file, k) /\ job002(file, j) = job002(file, k)
      /\ job003(file, j) = job003(file, k) /\ job005(file, j) = job005(file, k)
  <2>1. job001(file, j) = job001(file, k)
    BY <1>2, <1>3 DEF job001
  <2>2. job002(file, j) = job002(file, k)
    BY <1>2, <1>3 DEF job002
  <2>3. job003(file, j) = job003(file, k)
    BY <1>2, <1>3 DEF job003
  <2>4. job005(file, j) = job005(file, k)
    BY <1>2, <1>3 DEF job005
  <2> QED BY <2>1, <2>2, <2>3, <2>4
<1>5. CASE j.hasDirectives /\ k.hasDirectives
  BY <1>1, <1>4, <1>5 DEF check
<1>6. CASE ~j.hasDirectives \/ ~k.hasDirectives
  <2>1. j.cpus = None /\ k.cpus = None /\ j.memory = None /\ k.memory = None
    BY <1>1, <1>3, <1>6 DEF EmptyWithoutDirectives
  <2>2. check(file, j) = {}
    BY <2>1, FindingsNeed
  <2>3. check(file, k) = {}
    BY <2>1, FindingsNeed
  <2> QED BY <2>2, <2>3
<1> QED BY <1>5, <1>6

\* For every pair of scripts and every file: what is cached under a fingerprint is
\* what any job with that fingerprint would find.
THEOREM FingerprintAlwaysSeparates == Spec => []FingerprintSeparates
<1>1. IInv => FingerprintSeparates
  <2> SUFFICES ASSUME IInv, fingerprint(job) = fingerprint(earlier.job), NEW file
               PROVE  check(file, job) = check(file, earlier.job)
    BY DEF FingerprintSeparates
  <2>1. job \in JobScript \cup {None} /\ earlier.job \in JobScript \cup {None}
    BY DEF IInv, TypeOK
  <2>2. CASE job # None /\ earlier.job # None
    BY <2>1, <2>2, SameFindings DEF IInv
  <2>3. CASE job = None \/ earlier.job = None
    <3>1. \A j \in JobScript \cup {None} : fingerprint(j) = <<>> <=> j = None
      BY DEF fingerprint
    <3> QED BY <2>1, <2>3, <3>1
  <2> QED BY <2>2, <2>3
<1> QED BY <1>1, ScriptIsRead, PTL
=============================================================================
