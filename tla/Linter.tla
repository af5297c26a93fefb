------------------------------- MODULE Linter -------------------------------
(***************************************************************************)
(* What `xray` promises, with no cache in sight: a run picks some files    *)
(* that exist, answers for each of them from the content the file holds at *)
(* one moment of the run, and reports exactly those answers.  The source   *)
(* tree may change at any time between those moments.                      *)
(*                                                                         *)
(* LintRun, the runner with its persistent cache, implements this module   *)
(* (property ImplementsLinter there).                                      *)
(***************************************************************************)
EXTENDS LintWorld

CONSTANT Run     \* the xray processes that may run at the same time

VARIABLES
  source,   \* the content of each file, or None
  task,     \* what each run was asked to do, or None when it is not running
  answer,   \* per run and file, what was found, or None
  report    \* what each run reported, or None

lvars == <<source, task, answer, report>>

Init ==
  /\ source \in [Path -> Content \cup {None}]
  /\ task = [r \in Run |-> None]
  /\ answer = [r \in Run |-> NoAnswers]
  /\ report = [r \in Run |-> None]

\* Somebody writes or deletes a source file.
Change(p) ==
  /\ \E c \in Content \cup {None} : source' = [source EXCEPT ![p] = c]
  /\ UNCHANGED <<task, answer, report>>

Begin(r, t) ==
  /\ task[r] = None
  /\ \A p \in t.paths : source[p] # None
  /\ task' = [task EXCEPT ![r] = t]
  /\ UNCHANGED <<source, answer, report>>

\* The moment a file is answered for: the answer is what linting its present
\* content from scratch gives.
AnswerFor(r, p) ==
  /\ task[r] # None
  /\ p \in task[r].paths
  /\ answer[r][p] = None
  /\ answer' = [answer EXCEPT ![r][p] = Lint(p, source[p], task[r].setting)]
  /\ UNCHANGED <<source, task, report>>

Publish(r) ==
  /\ task[r] # None
  /\ report[r] = None
  /\ \A p \in task[r].paths : answer[r][p] # None
  /\ report' = [report EXCEPT ![r] = ReportOf(task[r], answer[r])]
  /\ UNCHANGED <<source, task, answer>>

\* A process exits, or is killed, and its memory goes with it.
End(r) ==
  /\ task[r] # None
  /\ task' = [task EXCEPT ![r] = None]
  /\ answer' = [answer EXCEPT ![r] = NoAnswers]
  /\ report' = [report EXCEPT ![r] = None]
  /\ UNCHANGED source

Next ==
  \/ \E p \in Path : Change(p)
  \/ \E r \in Run :
       \/ \E t \in Task : Begin(r, t)
       \/ \E p \in Path : AnswerFor(r, p)
       \/ Publish(r)
       \/ End(r)

Spec == Init /\ [][Next]_lvars
=============================================================================
