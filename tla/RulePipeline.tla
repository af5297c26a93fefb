---------------------------- MODULE RulePipeline ----------------------------
(***************************************************************************)
(* From what the checks find in one Python file to what is reported:       *)
(* run_all_with_job, then the filters of a run or of the language server.  *)
(* A developer lints, silences findings with comments, and removes the     *)
(* comments that xray calls stale.                                         *)
(***************************************************************************)
EXTENDS Integers, FiniteSets

CONSTANTS
  Rule,        \* the rule ids that xray knows, XR000 among them
  UnknownId,   \* what a comment may name besides
  Line, Column,
  Script,      \* the submission scripts
  SeverityOf,  \* the severity of each rule
  Fires,       \* what the checks may find in a file, with each script and without
  Config,      \* the configurations; job is what the glob [job].script leads to
  Flags,       \* the command lines: --disable, --min-severity, --job
  Comments,    \* the line-level suppressions to begin with
  FileLevel,   \* the file-level suppressions
  None

Severity == {"hint", "warning", "error"}
Rank == [s \in Severity |-> CASE s = "hint" -> 0 [] s = "warning" -> 1 [] s = "error" -> 2]

\* "names" are those an XR000 finding calls stale, and otherwise empty.
Finding ==
  [rule: Rule, line: Line, column: Column, severity: Severity, names: SUBSET Rule]

Id == Rule \cup {UnknownId}

Job == Script \cup {None}

IsJobRule(rule) == rule \in {"JOB001", "JOB002", "JOB003", "JOB005"}

ButJobRules(out) == {x \in out : ~IsJobRule(x.rule)}

ASSUME PipelineAssumption ==
  /\ "XR000" \in Rule
  /\ UnknownId \notin Rule
  /\ 1 \in Column
  /\ SeverityOf \in [Rule -> Severity]
  /\ Fires \subseteq [Job -> SUBSET {x \in Finding : x.rule # "XR000" /\ x.names = {}}]
  /\ \A found \in Fires : \A job \in Job :   \* no other rule reads the script
       ButJobRules(found[job]) = ButJobRules(found[None])
  /\ Config \subseteq [disable: SUBSET Rule, ignores: SUBSET (Rule \cup {"*"}),
                       overrides: [Rule -> Severity \cup {None}], min: Severity \cup {None},
                       job: Job]
  /\ Flags \subseteq [disable: SUBSET Rule, min: Severity \cup {None}, job: Job]
  /\ Comments \subseteq [Line -> SUBSET Id]
  /\ FileLevel \subseteq SUBSET Id
  /\ None \notin Severity \cup Script /\ None \notin Flags

VARIABLES
  fires,      \* what the checks find when nothing is disabled, by script
  config,     \* the effective configuration
  fileLevel,  \* the ids of disable-file= comments
  lineLevel,  \* the ids of each line's disable= comment
  report,     \* what the last run printed
  last        \* the command line of that run

vars == <<fires, config, fileLevel, lineLevel, report, last>>

TypeOK ==
  /\ fires \in Fires
  /\ config \in Config
  /\ fileLevel \in FileLevel
  /\ lineLevel \in [Line -> SUBSET Id]
  /\ report \subseteq Finding
  /\ last \in Flags \cup {None}

-----------------------------------------------------------------------------
(* run_all_with_job.                                                       *)

\* Every check asks is_disabled; the JOB rules need a job script.
Checked(job) ==
  {x \in fires[job] : x.rule \notin config.disable /\ (IsJobRule(x.rule) => job # None)}

NotIgnored(out) ==
  {x \in out : "*" \notin config.ignores /\ x.rule \notin config.ignores}

\* Mutant: a comment counts for every line.
IsSuppressedAnywhere(rule, line, comments) ==
  rule \in fileLevel \/ \E l \in Line : rule \in comments[l]

IsSuppressed(rule, line, comments) == rule \in fileLevel \/ rule \in comments[line]

Suppressed(out, comments) == {x \in out : IsSuppressed(x.rule, x.line, comments)}

\* Mutant: dask.compute() supersedes only the rule of its own domain.
RedundantInDomain ==
  {<<"XR005", "DK001">>, <<"DK001", "DK002">>, <<"NP001", "PD001">>, <<"NP005", "PD003">>}

\* <<rule to drop, the one that supersedes it at the same position>>
RedundantWith ==
  {<<"XR005", "DK001">>, <<"XR005", "DK002">>, <<"DK001", "DK002">>,
   <<"NP001", "PD001">>, <<"NP005", "PD003">>}

SamePlace(x, y) == x.line = y.line /\ x.column = y.column

Supersedes(y, x) == <<x.rule, y.rule>> \in RedundantWith /\ SamePlace(x, y)

\* Mutant: at one place only one rule may speak, and each defers to the others.
DropShared(out) == {x \in out : ~\E y \in out : y.rule # x.rule /\ SamePlace(x, y)}

DropRedundant(out) == {x \in out : ~\E y \in out : Supersedes(y, x)}

\* Mutant: a suppression counts as used when the run still has something to hide
\* behind it after the redundant findings are gone.
UsedAfterDrop(out, comments) ==
  {<<x.line, x.rule>> : x \in DropRedundant(out) \ (out \ Suppressed(out, comments))}

Used(out, comments) == {<<x.line, x.rule>> : x \in Suppressed(out, comments)}

\* Mutant: ids that xray does not know are called stale too.
StaleOrUnknown(line, out, comments) ==
  {id \in comments[line] : <<line, id>> \notin Used(out, comments)}

Stale(line, out, comments) ==
  {id \in comments[line] \cap Rule : <<line, id>> \notin Used(out, comments)}

\* XR000: only line-level comments, and of those only ids that xray knows.
StaleSuppressions(out, comments) ==
  IF "*" \in config.ignores \/ "XR000" \in config.disable \cup config.ignores THEN {}
  ELSE {[rule |-> "XR000", line |-> line, column |-> 1,
         severity |-> SeverityOf["XR000"], names |-> Stale(line, out, comments)] :
          line \in {l \in Line : Stale(l, out, comments) # {}}}

Checks(job) == NotIgnored(Checked(job))

RunAll(job, comments) ==
  LET out == Checks(job)
  IN  DropRedundant(out \ Suppressed(out, comments)) \cup StaleSuppressions(out, comments)

-----------------------------------------------------------------------------
(* The filters.                                                            *)

SeverityPasses(severity, min) == Rank[severity] >= Rank[min]

Override(x) ==
  IF config.overrides[x.rule] = None THEN x
  ELSE [x EXCEPT !.severity = config.overrides[x.rule]]

Overridden(out) == {Override(x) : x \in out}

EffectiveMin(flags) ==
  IF flags.min # None THEN flags.min ELSE IF config.min # None THEN config.min ELSE "hint"

\* A run, fresh or from the cache.
ApplyFilters(out, flags) ==
  {x \in Overridden(out) : x.rule \notin flags.disable /\ SeverityPasses(x.severity, EffectiveMin(flags))}

\* Mutant: the server publishes raw severities.
ApplyMinOnly(out) == {x \in out : config.min # None => SeverityPasses(x.severity, config.min)}

\* The language server.
ApplyConfigFilters(out) ==
  {x \in Overridden(out) : config.min # None => SeverityPasses(x.severity, config.min)}

\* The script on the command line, or else the one that the configuration names.
JobScript(flags) == IF flags.job # None THEN flags.job ELSE config.job

Reported(flags, comments) == ApplyFilters(RunAll(JobScript(flags), comments), flags)

\* The server has no script, whatever the configuration names.
Published(comments) == ApplyConfigFilters(RunAll(None, comments))

-----------------------------------------------------------------------------
Init ==
  /\ fires \in Fires
  /\ config \in Config
  /\ fileLevel \in FileLevel
  /\ lineLevel \in Comments
  /\ report = {}
  /\ last = None

Lint(flags) ==
  /\ report' = Reported(flags, lineLevel)
  /\ last' = flags
  /\ UNCHANGED <<fires, config, fileLevel, lineLevel>>

\* "# xray: disable=RULE" on the line of a finding in the file.
Suppress(x) ==
  /\ x \in report
  /\ x.rule # "XR000"
  /\ lineLevel' = [lineLevel EXCEPT ![x.line] = @ \cup {x.rule}]
  /\ UNCHANGED <<fires, config, fileLevel, report, last>>

\* "Remove the comment - the rule it silences no longer fires here."
FollowAdvice(x) ==
  /\ x \in report
  /\ x.rule = "XR000"
  /\ lineLevel' = [lineLevel EXCEPT ![x.line] = @ \ x.names]
  /\ UNCHANGED <<fires, config, fileLevel, report, last>>

Next ==
  \/ \E flags \in Flags : Lint(flags)
  \/ \E x \in report : Suppress(x) \/ FollowAdvice(x)

Spec == Init /\ [][Next]_vars

-----------------------------------------------------------------------------
(* Correctness.                                                            *)

\* A call that some enabled and unsuppressed rule objects to is objected to by the
\* report: no two rules give way to each other.
EveryCallIsReported ==
  \A job \in Job :
    LET out == Checks(job)
    IN  \A x \in out \ Suppressed(out, lineLevel) :
          \E y \in RunAll(job, lineLevel) : y.rule # "XR000" /\ SamePlace(x, y)

\* The rules of one problem.
Rivals == {{"XR005", "DK001", "DK002"}, {"NP001", "PD001"}, {"NP005", "PD003"}}

\* "One .compute() inside a loop produced three separate errors for a single call":
\* of the rules that report one problem at one place at most one is heard.
OneFindingPerCall ==
  \A x, y \in report :
    SamePlace(x, y) /\ x.rule # y.rule => \A group \in Rivals : ~({x.rule, y.rule} \subseteq group)

\* What a report says of the file: a finding is one the checks made, and where XR000
\* calls a comment stale they made none that it could silence.
ReportIsFounded ==
  \A x \in report :
    /\ last # None
    /\ x.rule # "XR000" => \E y \in Checks(JobScript(last)) : y.rule = x.rule /\ y.line = x.line
    /\ x.rule = "XR000" =>
         \A y \in Checks(JobScript(last)) : y.line = x.line => y.rule \notin x.names

\* The inductive invariant.
IInv == TypeOK /\ ReportIsFounded /\ OneFindingPerCall

Findings(out) == {x \in out : x.rule # "XR000"}

\* Removing the comments that are called stale brings no finding back, whatever the
\* flags of later runs, and however old the advice; but advice from a run with one
\* job script, or none, knows nothing of runs with another.
AdviceIsSafe ==
  [][\A x \in report : FollowAdvice(x) =>
       \A flags \in Flags : JobScript(flags) \in {None, JobScript(last)} =>
         Findings(Reported(flags, lineLevel')) = Findings(Reported(flags, lineLevel))]_vars

\* A comment silences its rule on its line, uncovers what that rule superseded, and
\* hides nothing else; nor is it stale for any run that makes the finding.
SuppressIsPrecise ==
  [][\A x \in report : Suppress(x) =>
       \A flags \in Flags : (IsJobRule(x.rule) => JobScript(flags) = JobScript(last)) =>
         LET before == Reported(flags, lineLevel)
             after == Reported(flags, lineLevel')
             silenced == {y \in before : y.rule = x.rule /\ y.line = x.line}
         IN  /\ before \ after = silenced
             /\ \A y \in after \ before :
                  \E z \in fires[JobScript(flags)] :
                    /\ <<y.rule, z.rule>> \in RedundantWith /\ SamePlace(y, z)
                    /\ z.rule = x.rule /\ z.line = x.line]_vars

NoFlags == [disable |-> {}, min |-> None, job |-> None]

\* The comments of a line that a report calls stale.
Advised(out, line) == UNION {x.names : x \in {y \in out : y.line = line}}

\* The editor shows what a run without flags prints, except for what comes of the
\* script that xray.toml names and only the run reads: the server has none of the
\* JOB rules' findings, which supersede no others, and besides the comments that the
\* run calls stale it calls those stale that silence such a finding, and no others.
ServerAgrees ==
  LET printed == Reported(NoFlags, lineLevel)
      shown   == Published(lineLevel)
  IN  /\ Findings(shown) = ButJobRules(Findings(printed))
      /\ \A line \in Line :
           /\ Advised(printed, line) \subseteq Advised(shown, line)
           /\ \A id \in Advised(shown, line) \ Advised(printed, line) :
                IsJobRule(id) /\ \E y \in Checks(config.job) : y.rule = id /\ y.line = line
=============================================================================
