------------------------ MODULE RulePipeline_proofs ------------------------
(***************************************************************************)
(* What a report says of a file, and what following it or silencing it     *)
(* does, for every set of findings, configuration and command line.        *)
(***************************************************************************)
EXTENDS RulePipeline, TLAPS

\* What is left of the checks' findings before the redundant ones are dropped.
Rest(job, comments) == Checks(job) \ Suppressed(Checks(job), comments)

Passes(y, flags) == y.rule \notin flags.disable /\ SeverityPasses(y.severity, EffectiveMin(flags))

LEMMA ConfigTypes ==
  ASSUME TypeOK
  PROVE  /\ config.disable \subseteq Rule /\ config.ignores \subseteq Rule \cup {"*"}
         /\ config.overrides \in [Rule -> Severity \cup {None}]
         /\ \A job \in Job : \A x \in fires[job] :
              x \in Finding /\ x.rule # "XR000" /\ x.names = {}
         /\ \A job \in Job : ButJobRules(fires[job]) = ButJobRules(fires[None])
         /\ lineLevel \in [Line -> SUBSET Id]
         /\ \A flags \in Flags : JobScript(flags) \in Job
  BY PipelineAssumption DEF TypeOK, JobScript

LEMMA OverrideKeeps ==
  ASSUME TypeOK, NEW x \in Finding
  PROVE  /\ Override(x) \in Finding
         /\ Override(x).rule = x.rule /\ Override(x).names = x.names
         /\ Override(x).line = x.line /\ Override(x).column = x.column
  BY ConfigTypes, PipelineAssumption DEF Override, Finding

LEMMA RestFires ==
  ASSUME TypeOK, NEW job \in Job, NEW comments
  PROVE  /\ Checks(job) \subseteq fires[job] /\ Checks(job) \subseteq Finding
         /\ DropRedundant(Rest(job, comments)) \subseteq Rest(job, comments)
         /\ Rest(job, comments) \subseteq Checks(job)
  BY ConfigTypes DEF Checks, Rest, NotIgnored, Checked, DropRedundant

\* A script decides about the findings of the JOB rules only.
LEMMA ScriptAddsJobRules ==
  ASSUME TypeOK, NEW job \in Job
  PROVE  Checks(None) = ButJobRules(Checks(job))
<1>1. ButJobRules(fires[job]) = ButJobRules(fires[None])
  BY ConfigTypes
<1> QED BY <1>1 DEF Checks, NotIgnored, Checked, ButJobRules

\* XR000's findings are of another rule than those of the checks.
LEMMA RunAllSplit ==
  ASSUME TypeOK, NEW job \in Job, NEW comments \in [Line -> SUBSET Id]
  PROVE  /\ RunAll(job, comments) = DropRedundant(Rest(job, comments))
                                     \cup StaleSuppressions(Checks(job), comments)
         /\ RunAll(job, comments) \subseteq Finding
         /\ \A x \in StaleSuppressions(Checks(job), comments) : x.rule = "XR000"
         /\ \A x \in DropRedundant(Rest(job, comments)) : x \in fires[job] /\ x.rule # "XR000"
<1>1. RunAll(job, comments) = DropRedundant(Rest(job, comments))
                               \cup StaleSuppressions(Checks(job), comments)
  BY DEF RunAll, Rest, Checks
<1>2. \A x \in DropRedundant(Rest(job, comments)) : x \in fires[job] /\ x.rule # "XR000" /\ x \in Finding
  BY RestFires, ConfigTypes
<1>3. \A x \in StaleSuppressions(Checks(job), comments) : x.rule = "XR000" /\ x \in Finding
  <2>1. \A line \in Line : Stale(line, Checks(job), comments) \in SUBSET Rule
    BY DEF Stale
  <2>2. SeverityOf["XR000"] \in Severity /\ "XR000" \in Rule /\ 1 \in Column
    BY PipelineAssumption
  <2> QED BY <2>1, <2>2 DEF StaleSuppressions, Finding
<1> QED BY <1>1, <1>2, <1>3

LEMMA ReportedIff ==
  ASSUME TypeOK, NEW flags \in Flags, NEW comments \in [Line -> SUBSET Id], NEW y
  PROVE  y \in Reported(flags, comments) <=>
           /\ \E x \in RunAll(JobScript(flags), comments) : y = Override(x)
           /\ Passes(y, flags)
  BY DEF Reported, ApplyFilters, Overridden, Passes

\* What the run makes of the checks' findings depends on the suppressions through
\* Rest alone.
LEMMA FindingsIff ==
  ASSUME TypeOK, NEW flags \in Flags, NEW comments \in [Line -> SUBSET Id], NEW y
  PROVE  y \in Findings(Reported(flags, comments)) <=>
           /\ \E x \in DropRedundant(Rest(JobScript(flags), comments)) : y = Override(x)
           /\ Passes(y, flags)
<1> USE RunAllSplit, ReportedIff, OverrideKeeps, ConfigTypes
<1>1. \A x \in RunAll(JobScript(flags), comments) : Override(x).rule = x.rule
  OBVIOUS
<1> QED BY <1>1 DEF Findings

-----------------------------------------------------------------------------
(* Redundancy.                                                             *)

\* Of two rivals at one place one supersedes the other.
LEMMA RivalsSupersede ==
  ASSUME NEW x, NEW y, SamePlace(x, y), x.rule # y.rule,
         NEW group \in Rivals, {x.rule, y.rule} \subseteq group
  PROVE  Supersedes(x, y) \/ Supersedes(y, x)
  BY DEF Rivals, Supersedes, RedundantWith, SamePlace

LEMMA ReportHasNoRivals ==
  ASSUME TypeOK, NEW flags \in Flags
  PROVE  \A x, y \in Reported(flags, lineLevel) :
           SamePlace(x, y) /\ x.rule # y.rule =>
             \A group \in Rivals : ~({x.rule, y.rule} \subseteq group)
<1> SUFFICES ASSUME NEW x \in Reported(flags, lineLevel), NEW y \in Reported(flags, lineLevel),
                    SamePlace(x, y), x.rule # y.rule,
                    NEW group \in Rivals, {x.rule, y.rule} \subseteq group
             PROVE  FALSE
  OBVIOUS
<1>1. lineLevel \in [Line -> SUBSET Id]
  BY ConfigTypes
<1>2. x.rule # "XR000" /\ y.rule # "XR000"
  BY DEF Rivals
<1>3. PICK x0 \in DropRedundant(Rest(JobScript(flags), lineLevel)) : x = Override(x0)
  BY <1>1, <1>2, FindingsIff DEF Findings
<1>4. PICK y0 \in DropRedundant(Rest(JobScript(flags), lineLevel)) : y = Override(y0)
  BY <1>1, <1>2, FindingsIff DEF Findings
<1>5. x0 \in Finding /\ y0 \in Finding
  BY RestFires, ConfigTypes
<1>6. x0.rule = x.rule /\ y0.rule = y.rule /\ SamePlace(x0, y0)
  BY <1>3, <1>4, <1>5, OverrideKeeps DEF SamePlace
<1>7. Supersedes(x0, y0) \/ Supersedes(y0, x0)
  BY <1>6, RivalsSupersede
<1> QED BY <1>3, <1>4, <1>7 DEF DropRedundant

-----------------------------------------------------------------------------
(* The invariant.                                                          *)

LEMMA LintIsFounded ==
  ASSUME TypeOK, NEW flags \in Flags, NEW x \in Reported(flags, lineLevel)
  PROVE  /\ x \in Finding
         /\ x.rule # "XR000" =>
              \E y \in Checks(JobScript(flags)) : y.rule = x.rule /\ y.line = x.line
         /\ x.rule = "XR000" =>
              \A y \in Checks(JobScript(flags)) : y.line = x.line => y.rule \notin x.names
<1>1. lineLevel \in [Line -> SUBSET Id] /\ JobScript(flags) \in Job
  BY ConfigTypes
<1>2. PICK x0 \in RunAll(JobScript(flags), lineLevel) : x = Override(x0)
  BY <1>1, ReportedIff
<1>3. x0 \in Finding
  BY <1>1, RunAllSplit
<1>4. /\ x \in Finding
      /\ x.rule = x0.rule /\ x.names = x0.names /\ x.line = x0.line
  BY <1>2, <1>3, OverrideKeeps
<1>5. CASE x0 \in DropRedundant(Rest(JobScript(flags), lineLevel))
  <2>1. x0 \in Checks(JobScript(flags)) /\ x0.rule # "XR000"
    BY <1>5, RestFires, ConfigTypes
  <2> QED BY <1>4, <2>1
<1>6. CASE x0 \in StaleSuppressions(Checks(JobScript(flags)), lineLevel)
  <2>1. x0.rule = "XR000" /\ x0.names = Stale(x0.line, Checks(JobScript(flags)), lineLevel)
    BY <1>6 DEF StaleSuppressions
  <2>2. ASSUME NEW y \in Checks(JobScript(flags)), y.line = x0.line, y.rule \in x0.names
        PROVE  FALSE
    <3>1. y.rule \in lineLevel[y.line] /\ <<y.line, y.rule>> \notin Used(Checks(JobScript(flags)), lineLevel)
      BY <2>1, <2>2 DEF Stale
    <3> QED BY <3>1 DEF Used, Suppressed, IsSuppressed
  <2> QED BY <1>4, <2>1, <2>2
<1> QED BY <1>1, <1>2, <1>5, <1>6, <1>4, RunAllSplit

LEMMA CommentsTypes ==
  ASSUME IInv, NEW x \in report, Suppress(x) \/ FollowAdvice(x)
  PROVE  /\ x \in Finding
         /\ lineLevel' \in [Line -> SUBSET Id]
         /\ UNCHANGED <<fires, config, fileLevel, report, last>>
<1>1. x \in Finding
  BY DEF IInv, TypeOK
<1>2. x.line \in Line /\ x.rule \in Id /\ lineLevel \in [Line -> SUBSET Id]
  BY <1>1 DEF IInv, TypeOK, Finding, Id
<1>3. lineLevel' \in [Line -> SUBSET Id]
  BY <1>2 DEF Suppress, FollowAdvice
<1> QED BY <1>1, <1>3 DEF Suppress, FollowAdvice

LEMMA InvInit == Init => IInv
<1> SUFFICES ASSUME Init PROVE IInv
  OBVIOUS
<1>1. TypeOK
  BY PipelineAssumption DEF Init, TypeOK
<1> QED BY <1>1 DEF IInv, Init, ReportIsFounded, OneFindingPerCall

LEMMA InvStep == IInv /\ [Next]_vars => IInv'
<1> SUFFICES ASSUME IInv, [Next]_vars PROVE IInv'
  OBVIOUS
<1>1. ASSUME NEW flags \in Flags, Lint(flags)
      PROVE  IInv'
  <2> USE <1>1 DEF Lint
  <2>1. TypeOK
    BY DEF IInv
  <2>2. TypeOK'
    BY <2>1, LintIsFounded DEF TypeOK
  <2>3. last' = flags /\ flags # None
    BY PipelineAssumption
  <2>4. Checks(JobScript(last))' = Checks(JobScript(flags))
    BY DEF Checks, NotIgnored, Checked, JobScript
  <2>5. ReportIsFounded'
    BY <2>1, <2>3, <2>4, LintIsFounded DEF ReportIsFounded
  <2>6. OneFindingPerCall'
    BY <2>1, ReportHasNoRivals DEF OneFindingPerCall
  <2> QED BY <2>2, <2>5, <2>6 DEF IInv
<1>2. ASSUME lineLevel' \in [Line -> SUBSET Id], UNCHANGED <<fires, config, fileLevel, report, last>>
      PROVE  IInv'
  <2>1. TypeOK'
    BY <1>2 DEF IInv, TypeOK
  <2>2. Checks(JobScript(last))' = Checks(JobScript(last))
    BY <1>2 DEF Checks, NotIgnored, Checked, JobScript
  <2>3. ReportIsFounded'
    BY <1>2, <2>2 DEF IInv, ReportIsFounded
  <2>4. OneFindingPerCall'
    BY <1>2 DEF IInv, OneFindingPerCall
  <2> QED BY <2>1, <2>3, <2>4 DEF IInv
<1>3. CASE UNCHANGED vars
  BY <1>2, <1>3 DEF vars, IInv, TypeOK
<1>4. ASSUME NEW x \in report, Suppress(x) \/ FollowAdvice(x)
      PROVE  IInv'
  BY <1>2, <1>4, CommentsTypes
<1> QED BY <1>1, <1>3, <1>4 DEF Next

\* A finding was made by the checks of the run that reported it, and advice to remove
\* a comment was given on the line where none of them was silenced.
THEOREM Invariance == Spec => []IInv
<1> QED BY InvInit, InvStep, PTL DEF Spec

\* However many rules object to a call, the report names it once per problem.
THEOREM OneFindingPerCallHolds == Spec => []OneFindingPerCall
<1>1. IInv => OneFindingPerCall
  BY DEF IInv
<1> QED BY <1>1, Invariance, PTL

-----------------------------------------------------------------------------
(* No problem is lost to redundancy.                                       *)

LEMMA SomeoneIsHeard ==
  ASSUME NEW out, NEW x \in out
  PROVE  \E y \in DropRedundant(out) : SamePlace(x, y)
<1>1. CASE \A y \in out : ~Supersedes(y, x)
  BY <1>1 DEF DropRedundant, SamePlace
<1>2. ASSUME NEW y \in out, Supersedes(y, x)
      PROVE  \E z \in DropRedundant(out) : SamePlace(x, z)
  <2>1. SamePlace(x, y)
    BY <1>2 DEF Supersedes
  <2>2. CASE \A z \in out : ~Supersedes(z, y)
    BY <2>1, <2>2 DEF DropRedundant
  <2>3. ASSUME NEW z \in out, Supersedes(z, y)
        PROVE  z \in DropRedundant(out) /\ SamePlace(x, z)
    <3>1. z.rule = "DK002"
      BY <1>2, <2>3 DEF Supersedes, RedundantWith
    <3>2. \A w \in out : ~Supersedes(w, z)
      BY <3>1 DEF Supersedes, RedundantWith
    <3>3. SamePlace(x, z)
      BY <2>1, <2>3 DEF Supersedes, SamePlace
    <3> QED BY <3>2, <3>3 DEF DropRedundant
  <2> QED BY <2>2, <2>3
<1> QED BY <1>1, <1>2

\* Wherever an enabled rule objects and no comment silences it, the run has a finding
\* of some rule: a superseded rule is never superseded by one that is dropped too
\* without a third speaking up.
THEOREM EveryCallIsReportedHolds == Spec => []EveryCallIsReported
<1>1. IInv => EveryCallIsReported
  <2> SUFFICES ASSUME IInv, NEW job \in Job, NEW x \in Rest(job, lineLevel)
               PROVE  \E y \in RunAll(job, lineLevel) : y.rule # "XR000" /\ SamePlace(x, y)
    BY DEF EveryCallIsReported, Rest
  <2>1. TypeOK /\ lineLevel \in [Line -> SUBSET Id]
    BY DEF IInv, TypeOK
  <2>2. PICK y \in DropRedundant(Rest(job, lineLevel)) : SamePlace(x, y)
    BY SomeoneIsHeard
  <2> QED BY <2>1, <2>2, RunAllSplit
<1> QED BY <1>1, Invariance, PTL

-----------------------------------------------------------------------------
(* Comments that come and go.                                              *)

\* Removing the comments that a report calls stale brings no finding back, in any
\* later run that has no job script but that of the reported one.
THEOREM AdviceIsSafeHolds == Spec => AdviceIsSafe
<1> DEFINE Safe == \A x \in report : FollowAdvice(x) =>
             \A flags \in Flags : JobScript(flags) \in {None, JobScript(last)} =>
               Findings(Reported(flags, lineLevel')) = Findings(Reported(flags, lineLevel))
<1>1. IInv => Safe
  <2> SUFFICES ASSUME IInv, NEW x \in report, FollowAdvice(x),
                      NEW flags \in Flags, JobScript(flags) \in {None, JobScript(last)}
               PROVE  Findings(Reported(flags, lineLevel')) = Findings(Reported(flags, lineLevel))
    OBVIOUS
  <2> DEFINE out == Checks(JobScript(flags))
  <2>1. /\ TypeOK
        /\ lineLevel \in [Line -> SUBSET Id] /\ lineLevel' \in [Line -> SUBSET Id]
    BY CommentsTypes DEF IInv, TypeOK
  <2>2. out \subseteq Checks(JobScript(last))
    <3>1. JobScript(last) \in Job
      BY <2>1, ConfigTypes DEF IInv, TypeOK, ReportIsFounded
    <3>2. Checks(None) \subseteq Checks(JobScript(last))
      BY <2>1, <3>1, ScriptAddsJobRules DEF ButJobRules
    <3> QED BY <3>2
  <2>3. \A y \in out : y.line = x.line => y.rule \notin x.names
    BY <2>2 DEF IInv, ReportIsFounded, FollowAdvice
  <2>4. \A y \in out : y.line \in Line
    <3>1. out \subseteq Finding
      BY <2>1, RestFires, ConfigTypes
    <3> QED BY <3>1 DEF Finding
  <2>5. \A y \in out : IsSuppressed(y.rule, y.line, lineLevel') <=> IsSuppressed(y.rule, y.line, lineLevel)
    <3>1. \A y \in out : y.rule \in lineLevel'[y.line] <=> y.rule \in lineLevel[y.line]
      <4> HIDE DEF out
      <4>1. lineLevel' = [lineLevel EXCEPT ![x.line] = @ \ x.names]
        BY DEF FollowAdvice
      <4> QED BY <2>1, <2>3, <2>4, <4>1
    <3> QED BY <3>1 DEF IsSuppressed
  <2>6. Suppressed(out, lineLevel') = Suppressed(out, lineLevel)
    BY <2>5 DEF Suppressed
  <2>7. Rest(JobScript(flags), lineLevel') = Rest(JobScript(flags), lineLevel)
    BY <2>6 DEF Rest
  <2>8. \A y : y \in Findings(Reported(flags, lineLevel')) <=> y \in Findings(Reported(flags, lineLevel))
    BY <2>1, <2>7, FindingsIff
  <2> QED BY <2>8
<1>2. []IInv => [][Safe]_vars
  BY <1>1, PTL
<1> QED BY <1>2, Invariance, PTL DEF AdviceIsSafe

LEMMA SilencedRest ==
  ASSUME TypeOK, NEW x \in Finding, x.rule # "XR000", Suppress(x), NEW job \in Job
  PROVE  /\ lineLevel' \in [Line -> SUBSET Id]
         /\ Rest(job, lineLevel') =
              {z \in Rest(job, lineLevel) : ~(z.rule = x.rule /\ z.line = x.line)}
<1>1. x.line \in Line /\ x.rule \in Rule /\ lineLevel \in [Line -> SUBSET Id]
  BY DEF Finding, TypeOK
<1>2. lineLevel' = [lineLevel EXCEPT ![x.line] = @ \cup {x.rule}]
  BY DEF Suppress
<1>3. lineLevel' \in [Line -> SUBSET Id]
  BY <1>1, <1>2 DEF Id
<1>4. Checks(job) \subseteq Finding
  BY RestFires, ConfigTypes
<1>5. \A z \in Checks(job) : z.line \in Line
  BY <1>4 DEF Finding
<1>6. \A z \in Checks(job) : z.rule \in lineLevel'[z.line]
        <=> (z.rule \in lineLevel[z.line] \/ (z.rule = x.rule /\ z.line = x.line))
  BY <1>1, <1>2, <1>5
<1> QED BY <1>3, <1>6 DEF Rest, Suppressed, IsSuppressed

LEMMA SilencedStale ==
  ASSUME TypeOK, NEW x \in Finding, Suppress(x), NEW job \in Job,
         \E y \in Checks(job) : y.rule = x.rule /\ y.line = x.line
  PROVE  StaleSuppressions(Checks(job), lineLevel') = StaleSuppressions(Checks(job), lineLevel)
<1> DEFINE out == Checks(job)
<1>1. x.line \in Line /\ x.rule \in Rule /\ lineLevel \in [Line -> SUBSET Id]
  BY DEF Finding, TypeOK
<1>2. lineLevel' = [lineLevel EXCEPT ![x.line] = @ \cup {x.rule}]
  BY DEF Suppress
<1>3. \A y \in out : y.line \in Line
  <2>1. out \subseteq Finding
    BY RestFires, ConfigTypes
  <2> QED BY <2>1 DEF Finding
<1>4. PICK y0 \in out : y0.rule = x.rule /\ y0.line = x.line
  OBVIOUS
<1> HIDE DEF out
<1>5. \A line \in Line, id \in Rule :
        id \in lineLevel'[line] <=> (id \in lineLevel[line] \/ (line = x.line /\ id = x.rule))
  BY <1>1, <1>2
<1>6. \A line \in Line, id \in Rule : \A comments :
        id \in comments[line] => (<<line, id>> \notin Used(out, comments)
                                   <=> ~\E y \in out : y.rule = id /\ y.line = line
                                                        /\ IsSuppressed(id, line, comments))
  BY DEF Used, Suppressed
<1>7. \A line \in Line : Stale(line, out, lineLevel') = Stale(line, out, lineLevel)
  <2> SUFFICES ASSUME NEW line \in Line, NEW id \in Rule
               PROVE  (id \in lineLevel'[line] /\ <<line, id>> \notin Used(out, lineLevel'))
                       <=> (id \in lineLevel[line] /\ <<line, id>> \notin Used(out, lineLevel))
    BY DEF Stale
  <2>1. CASE line = x.line /\ id = x.rule
    <3>1. id \in lineLevel'[line]
      BY <1>5, <2>1
    <3>2. \A comments : id \in comments[line] => <<line, id>> \in Used(out, comments)
      BY <1>4, <1>6, <2>1 DEF IsSuppressed
    <3> QED BY <3>1, <3>2
  <2>2. CASE ~(line = x.line /\ id = x.rule)
    BY <1>5, <1>6, <2>2 DEF IsSuppressed
  <2> QED BY <2>1, <2>2
<1> QED BY <1>7 DEF StaleSuppressions, out

\* A comment hides the findings of its rule on its line from every later run that
\* makes them, hides no other, and uncovers only what its rule superseded.
THEOREM SuppressIsPreciseHolds == Spec => SuppressIsPrecise
<1> DEFINE Silenced(x, flags) ==
             {y \in Reported(flags, lineLevel) : y.rule = x.rule /\ y.line = x.line}
           Precise == \A x \in report : Suppress(x) =>
             \A flags \in Flags : (IsJobRule(x.rule) => JobScript(flags) = JobScript(last)) =>
               /\ Reported(flags, lineLevel) \ Reported(flags, lineLevel') = Silenced(x, flags)
               /\ \A y \in Reported(flags, lineLevel') \ Reported(flags, lineLevel) :
                    \E z \in fires[JobScript(flags)] :
                      /\ <<y.rule, z.rule>> \in RedundantWith /\ SamePlace(y, z)
                      /\ z.rule = x.rule /\ z.line = x.line
<1>1. IInv => Precise
  <2> SUFFICES ASSUME IInv, NEW x \in report, Suppress(x),
                      NEW flags \in Flags, IsJobRule(x.rule) => JobScript(flags) = JobScript(last)
               PROVE
               /\ Reported(flags, lineLevel) \ Reported(flags, lineLevel') = Silenced(x, flags)
               /\ \A y \in Reported(flags, lineLevel') \ Reported(flags, lineLevel) :
                    \E z \in fires[JobScript(flags)] :
                      /\ <<y.rule, z.rule>> \in RedundantWith /\ SamePlace(y, z)
                      /\ z.rule = x.rule /\ z.line = x.line
    OBVIOUS
  <2> DEFINE B == Rest(JobScript(flags), lineLevel)
             A == Rest(JobScript(flags), lineLevel')
             SB == StaleSuppressions(Checks(JobScript(flags)), lineLevel)
             SA == StaleSuppressions(Checks(JobScript(flags)), lineLevel')
             Hit(z) == z.rule = x.rule /\ z.line = x.line
  <2>1. /\ TypeOK /\ x \in Finding /\ x.rule # "XR000"
        /\ lineLevel \in [Line -> SUBSET Id] /\ lineLevel' \in [Line -> SUBSET Id]
    BY CommentsTypes DEF IInv, TypeOK, Suppress
  <2>0. JobScript(flags) \in Job /\ JobScript(last) \in Job
    BY <2>1, ConfigTypes DEF IInv, TypeOK, ReportIsFounded
  <2>2. A = {z \in B : ~Hit(z)}
    BY <2>0, <2>1, SilencedRest
  <2>3. \E y \in Checks(JobScript(flags)) : y.rule = x.rule /\ y.line = x.line
    <3>1. PICK y \in Checks(JobScript(last)) : y.rule = x.rule /\ y.line = x.line
      BY <2>1 DEF IInv, ReportIsFounded
    <3>2. y \in Checks(JobScript(flags))
      <4>1. CASE IsJobRule(x.rule)
        BY <3>1, <4>1
      <4>2. CASE ~IsJobRule(x.rule)
        BY <2>0, <2>1, <3>1, <4>2, ScriptAddsJobRules DEF ButJobRules
      <4> QED BY <4>1, <4>2
    <3> QED BY <3>1, <3>2
  <2>4. SA = SB
    BY <2>0, <2>1, <2>3, SilencedStale
  <2>5. \A y : y \in Reported(flags, lineLevel) <=>
                 (\E z \in DropRedundant(B) \cup SB : y = Override(z)) /\ Passes(y, flags)
    BY <2>0, <2>1, ReportedIff, RunAllSplit
  <2>6. \A y : y \in Reported(flags, lineLevel') <=>
                 (\E z \in DropRedundant(A) \cup SB : y = Override(z)) /\ Passes(y, flags)
    BY <2>0, <2>1, <2>4, ReportedIff, RunAllSplit
  <2>7. \A z \in B : z \in fires[JobScript(flags)] /\ z \in Finding
    BY <2>0, <2>1, RestFires, ConfigTypes
  <2>8. \A z \in SB : z.rule = "XR000" /\ z \in Finding
    BY <2>0, <2>1, RunAllSplit
  <2>9. \A z \in DropRedundant(B) : z \in B
    BY DEF DropRedundant
  <2>10. \A z \in DropRedundant(A) : z \in A /\ z \in B /\ ~Hit(z)
    BY <2>2 DEF DropRedundant
  <2>11. \A z \in DropRedundant(B) : ~Hit(z) => z \in DropRedundant(A)
    BY <2>2 DEF DropRedundant
  <2>12. \A z \in DropRedundant(A) \ DropRedundant(B) : \E w \in B : Supersedes(w, z) /\ Hit(w)
    BY <2>2 DEF DropRedundant
  <2>13. \A z \in Finding : /\ Override(z).rule = z.rule /\ Override(z).line = z.line
                            /\ Override(z).column = z.column
    BY <2>1, OverrideKeeps
  <2> HIDE DEF A, B, SA, SB
  <2>14. ASSUME NEW y \in Reported(flags, lineLevel), y \notin Reported(flags, lineLevel')
         PROVE  Hit(y)
    <3>1. PICK z \in DropRedundant(B) \cup SB : y = Override(z)
      BY <2>5, <2>14
    <3>2. Passes(y, flags)
      BY <2>5, <2>14
    <3>3. z \notin DropRedundant(A) /\ z \notin SB
      BY <2>6, <2>14, <3>1, <3>2
    <3>4. z \in DropRedundant(B) /\ Hit(z)
      BY <2>11, <3>1, <3>3
    <3> QED BY <2>7, <2>9, <2>13, <3>1, <3>4
  <2>15. ASSUME NEW y \in Reported(flags, lineLevel), Hit(y), y \in Reported(flags, lineLevel')
         PROVE  FALSE
    <3>1. PICK z \in DropRedundant(A) \cup SB : y = Override(z)
      BY <2>6, <2>15
    <3>2. z \in Finding /\ Hit(z)
      BY <2>7, <2>8, <2>10, <2>13, <2>15, <3>1
    <3> QED BY <2>1, <2>8, <2>10, <3>1, <3>2
  <2>16. ASSUME NEW y \in Reported(flags, lineLevel'), y \notin Reported(flags, lineLevel)
         PROVE  \E z \in fires[JobScript(flags)] :
                  /\ <<y.rule, z.rule>> \in RedundantWith /\ SamePlace(y, z)
                  /\ z.rule = x.rule /\ z.line = x.line
    <3>1. PICK z \in DropRedundant(A) \cup SB : y = Override(z)
      BY <2>6, <2>16
    <3>2. Passes(y, flags)
      BY <2>6, <2>16
    <3>3. z \notin DropRedundant(B) /\ z \notin SB
      BY <2>5, <2>16, <3>1, <3>2
    <3>4. PICK w \in B : Supersedes(w, z) /\ Hit(w)
      BY <2>12, <3>1, <3>3
    <3>5. z \in Finding
      BY <2>7, <2>10, <3>1, <3>3
    <3>6. y.rule = z.rule /\ y.line = z.line /\ y.column = z.column
      BY <2>13, <3>1, <3>5
    <3> QED BY <2>7, <3>4, <3>6 DEF Supersedes, SamePlace
  <2> QED BY <2>14, <2>15, <2>16
<1>2. []IInv => [][Precise]_vars
  BY <1>1, PTL
<1> QED BY <1>2, Invariance, PTL DEF SuppressIsPrecise
-----------------------------------------------------------------------------
(* The language server.                                                    *)

\* What is left of the findings of a run by the configuration alone.
Kept(job) ==
  {y \in Overridden(RunAll(job, lineLevel)) :
     config.min # None => SeverityPasses(y.severity, config.min)}

\* The two filters are one: with no threshold configured a run without flags lets every
\* severity pass.
LEMMA FiltersAgree ==
  ASSUME TypeOK
  PROVE  /\ Published(lineLevel) = Kept(None)
         /\ Reported(NoFlags, lineLevel) = Kept(config.job)
         /\ config.job \in Job
<1> DEFINE out == RunAll(config.job, lineLevel)
<1>1. config.job \in Job /\ config.min \in Severity \cup {None} /\ None \notin Severity
  BY PipelineAssumption DEF TypeOK
<1>2. out \subseteq Finding
  BY <1>1, RunAllSplit, ConfigTypes
<1>3. \A y \in Overridden(out) : y.severity \in Severity
  BY <1>2, OverrideKeeps DEF Overridden, Finding
<1>4. ASSUME NEW y \in Overridden(out)
      PROVE  (config.min # None => SeverityPasses(y.severity, config.min))
               <=> SeverityPasses(y.severity, EffectiveMin(NoFlags))
  <2>1. CASE config.min = None
    <3>1. EffectiveMin(NoFlags) = "hint"
      BY <2>1 DEF EffectiveMin, NoFlags
    <3>2. Rank["hint"] = 0 /\ \A s \in Severity : Rank[s] \in {0, 1, 2}
      BY DEF Rank, Severity
    <3>3. Rank[y.severity] >= Rank["hint"]
      <4>1. y.severity \in Severity
        BY <1>3
      <4> HIDE DEF out
      <4> QED BY <4>1, <3>2
    <3> QED BY <2>1, <3>1, <3>3 DEF SeverityPasses
  <2>2. CASE config.min # None
    BY <2>2 DEF EffectiveMin, NoFlags
  <2> QED BY <2>1, <2>2
<1>5. JobScript(NoFlags) = config.job /\ NoFlags.disable = {}
  BY DEF JobScript, NoFlags
<1>6. Reported(NoFlags, lineLevel) = Kept(config.job)
  <2>1. Reported(NoFlags, lineLevel) = ApplyFilters(out, NoFlags)
    BY <1>5 DEF Reported
  <2>2. ApplyFilters(out, NoFlags) =
          {y \in Overridden(out) : SeverityPasses(y.severity, EffectiveMin(NoFlags))}
    BY <1>5 DEF ApplyFilters
  <2>3. Kept(config.job) =
          {y \in Overridden(out) : config.min # None => SeverityPasses(y.severity, config.min)}
    BY DEF Kept
  <2> HIDE DEF out
  <2> QED BY <1>4, <2>1, <2>2, <2>3
<1> QED BY <1>1, <1>6 DEF Published, ApplyConfigFilters, Kept

\* No JOB rule supersedes another rule, nor is it superseded.
LEMMA JobRulesStandAlone ==
  ASSUME TypeOK, NEW job \in Job
  PROVE  DropRedundant(Rest(None, lineLevel)) = ButJobRules(DropRedundant(Rest(job, lineLevel)))
<1>1. Rest(None, lineLevel) = ButJobRules(Rest(job, lineLevel))
  BY ScriptAddsJobRules DEF Rest, Suppressed, ButJobRules
<1>2. \A x, y : Supersedes(y, x) => ~IsJobRule(y.rule)
  BY DEF Supersedes, RedundantWith, IsJobRule
<1> QED BY <1>1, <1>2 DEF DropRedundant, ButJobRules

\* A report advises to remove exactly the stale comments, wherever XR000 is heard at all,
\* which does not depend on the script.
LEMMA AdvisedIff ==
  ASSUME TypeOK, NEW job \in Job, NEW line \in Line, NEW id
  PROVE  id \in Advised(Kept(job), line) <=>
           /\ id \in Stale(line, Checks(job), lineLevel)
           /\ ~("*" \in config.ignores \/ "XR000" \in config.disable \cup config.ignores)
           /\ config.min # None =>
                SeverityPasses(IF config.overrides["XR000"] = None THEN SeverityOf["XR000"]
                               ELSE config.overrides["XR000"], config.min)
<1> DEFINE Off   == "*" \in config.ignores \/ "XR000" \in config.disable \cup config.ignores
           level == IF config.overrides["XR000"] = None THEN SeverityOf["XR000"]
                    ELSE config.overrides["XR000"]
           Passed(severity) == config.min # None => SeverityPasses(severity, config.min)
           ids   == Stale(line, Checks(job), lineLevel)
           told  == [rule |-> "XR000", line |-> line, column |-> 1,
                     severity |-> SeverityOf["XR000"], names |-> ids]
           stale == StaleSuppressions(Checks(job), lineLevel)
<1>1. lineLevel \in [Line -> SUBSET Id]
  BY ConfigTypes
<1>2. /\ RunAll(job, lineLevel) = DropRedundant(Rest(job, lineLevel)) \cup stale
      /\ RunAll(job, lineLevel) \subseteq Finding
      /\ \A x \in DropRedundant(Rest(job, lineLevel)) : x.names = {}
  BY <1>1, RunAllSplit, ConfigTypes
<1>3. \A x \in stale : x.line = line => x = told /\ ~Off
  BY DEF StaleSuppressions
<1>4. ids # {} /\ ~Off => told \in stale
  BY DEF StaleSuppressions
<1>5. told \in stale => Override(told).severity = level
  BY <1>2, ConfigTypes DEF Override, Finding
<1>6. \A x \in RunAll(job, lineLevel) :
        Override(x).names = x.names /\ Override(x).line = x.line
  BY <1>2, OverrideKeeps
<1>7. \A y : y \in Kept(job) <=> \E x \in RunAll(job, lineLevel) :
                                   y = Override(x) /\ Passed(y.severity)
  BY DEF Kept, Overridden
<1>8. id \in Advised(Kept(job), line) <=> \E y \in Kept(job) : y.line = line /\ id \in y.names
  BY DEF Advised
<1>9. told.names = ids /\ told.line = line
  OBVIOUS
<1>10. ASSUME id \in Advised(Kept(job), line)
       PROVE  id \in ids /\ ~Off /\ Passed(level)
  <2>1. PICK x \in RunAll(job, lineLevel) :
          x.line = line /\ id \in x.names /\ Passed(Override(x).severity)
    BY <1>6, <1>7, <1>8, <1>10
  <2>2. x \in stale
    BY <1>2, <2>1
  <2> HIDE DEF stale, told, Off, level, ids, Passed
  <2>3. x = told /\ ~Off /\ told \in stale
    BY <1>3, <2>1, <2>2
  <2> QED BY <1>5, <1>9, <2>1, <2>3
<1>11. ASSUME id \in ids, ~Off, Passed(level)
       PROVE  id \in Advised(Kept(job), line)
  <2> HIDE DEF stale, told, Off, level, ids, Passed
  <2>1. told \in stale
    BY <1>4, <1>11
  <2>2. told \in RunAll(job, lineLevel) /\ Passed(Override(told).severity)
    BY <1>2, <1>5, <1>11, <2>1
  <2>3. Override(told) \in Kept(job)
    BY <1>7, <2>2
  <2> QED BY <1>6, <1>8, <1>9, <1>11, <2>2, <2>3
<1> QED BY <1>10, <1>11

\* Without the script a comment for a JOB rule is stale, and the others are as they were.
LEMMA StaleWithoutScript ==
  ASSUME TypeOK, NEW job \in Job, NEW line \in Line
  PROVE  /\ Stale(line, Checks(job), lineLevel) \subseteq Stale(line, Checks(None), lineLevel)
         /\ \A id \in Stale(line, Checks(None), lineLevel) \ Stale(line, Checks(job), lineLevel) :
              IsJobRule(id) /\ \E y \in Checks(job) : y.rule = id /\ y.line = line
<1>1. Checks(None) = ButJobRules(Checks(job))
  BY ScriptAddsJobRules
<1>2. \A out : \A id : <<line, id>> \in Used(out, lineLevel) <=>
                     \E y \in out : y.rule = id /\ y.line = line /\ IsSuppressed(id, line, lineLevel)
  BY DEF Used, Suppressed
<1>3. \A id : <<line, id>> \in Used(Checks(None), lineLevel)
               => <<line, id>> \in Used(Checks(job), lineLevel)
  BY <1>1, <1>2 DEF ButJobRules
<1>4. \A id : <<line, id>> \in Used(Checks(job), lineLevel) /\ ~IsJobRule(id)
               => <<line, id>> \in Used(Checks(None), lineLevel)
  BY <1>1, <1>2 DEF ButJobRules
<1> QED BY <1>2, <1>3, <1>4 DEF Stale

\* For every configuration the server's own filter gives what that of a run without flags
\* gives, and what the run alone reads, the script that the configuration names, adds only
\* the findings of the JOB rules and takes back only the advice against their comments.
THEOREM ServerAgreesHolds == Spec => []ServerAgrees
<1>1. ASSUME TypeOK PROVE ServerAgrees
  <2> DEFINE j == config.job
  <2>1. /\ Published(lineLevel) = Kept(None) /\ Reported(NoFlags, lineLevel) = Kept(j)
        /\ None \in Job /\ j \in Job /\ lineLevel \in [Line -> SUBSET Id]
    BY <1>1, FiltersAgree, ConfigTypes DEF Job
  <2> HIDE DEF j
  <2>2. Findings(Kept(None)) = ButJobRules(Findings(Kept(j)))
    <3>1. \A job \in Job : \A y : y \in Findings(Kept(job)) <=>
            /\ \E x \in DropRedundant(Rest(job, lineLevel)) : y = Override(x)
            /\ config.min # None => SeverityPasses(y.severity, config.min)
      <4> SUFFICES ASSUME NEW job \in Job, NEW y
                   PROVE  y \in Findings(Kept(job)) <=>
                            /\ \E x \in DropRedundant(Rest(job, lineLevel)) : y = Override(x)
                            /\ config.min # None => SeverityPasses(y.severity, config.min)
        OBVIOUS
      <4>1. \A x \in RunAll(job, lineLevel) : Override(x).rule = x.rule
        BY <1>1, <2>1, RunAllSplit, OverrideKeeps
      <4> QED BY <1>1, <2>1, <4>1, RunAllSplit DEF Findings, Kept, Overridden
    <3>2. \A x \in DropRedundant(Rest(j, lineLevel)) : Override(x).rule = x.rule
      BY <1>1, <2>1, RunAllSplit, OverrideKeeps
    <3>3. DropRedundant(Rest(None, lineLevel)) = ButJobRules(DropRedundant(Rest(j, lineLevel)))
      BY <1>1, <2>1, JobRulesStandAlone
    <3> QED BY <2>1, <3>1, <3>2, <3>3 DEF ButJobRules
  <2>3. ASSUME NEW line \in Line
        PROVE  /\ Advised(Kept(j), line) \subseteq Advised(Kept(None), line)
               /\ \A id \in Advised(Kept(None), line) \ Advised(Kept(j), line) :
                    IsJobRule(id) /\ \E y \in Checks(j) : y.rule = id /\ y.line = line
    <3>1. \A job \in Job : \A id :
            id \in Advised(Kept(job), line) <=>
              /\ id \in Stale(line, Checks(job), lineLevel)
              /\ ~("*" \in config.ignores \/ "XR000" \in config.disable \cup config.ignores)
              /\ config.min # None =>
                   SeverityPasses(IF config.overrides["XR000"] = None THEN SeverityOf["XR000"]
                                  ELSE config.overrides["XR000"], config.min)
      BY <1>1, AdvisedIff
    <3> QED BY <1>1, <2>1, <3>1, StaleWithoutScript
  <2> QED BY <2>1, <2>2, <2>3 DEF ServerAgrees, j
<1> QED BY <1>1, Invariance, PTL DEF IInv
=============================================================================
