----------------------------- MODULE MCLintRun -----------------------------
(***************************************************************************)
(* Small instances of LintRun.                                             *)
(***************************************************************************)
EXTENDS LintRun, TLC

\* Three settings, two of which the fingerprint cannot tell apart: the same GPU
\* request, spelt `-G 1` in one job script and `--gpus=1` in the other.
MCSetting == {"plain", "gpu_job", "gpu_job_respelled"}
MCKeyOf == [s \in Setting |-> IF s = "plain" THEN "k0" ELSE "k1"]
MCKey == {"k0", "k1"}
MCGpuRequested == Setting \ {"plain"}

\* A content with a finding of its own and one that imports a GPU library and
\* has a finding only when there is a job to compare it with; and a file that
\* nobody may read.
MCContent == {"values_loop", "torch", "denied"}
MCUnreadable == {"denied"}
MCGpuImport == {"torch"}
MCRule == {"XR001", "JOB001", "JOB004"}
MCFindings ==
  [x \in Path \X MCContent \X Setting |->
     IF x[2] = "values_loop" THEN {"XR001"}
     ELSE IF x[3] = "plain" THEN {} ELSE {"JOB001"}]

MCInvocation ==
  {[hide |-> {}, gate |-> {"XR001"}, no_cache |-> FALSE],
   [hide |-> {"XR001"}, gate |-> {"XR001"}, no_cache |-> FALSE],
   [hide |-> {}, gate |-> {"XR001", "JOB004"}, no_cache |-> TRUE]}

MCOneSetting == {"gpu_job"}
MCOneCached == {inv \in MCInvocation : ~inv.no_cache /\ inv.hide # {}}

Symmetry == Permutations(Stamp) \cup Permutations(Run)
=============================================================================
