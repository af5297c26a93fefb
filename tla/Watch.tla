------------------------------- MODULE Watch -------------------------------
(***************************************************************************)
(* `xray --watch`: the initial lint, the registration of the watch roots,  *)
(* and the loop that collects events and lints what changed, against the   *)
(* programs that edit the files.  A file's content is its version; a save  *)
(* gives it the next one, and with it a new (mtime, size).                 *)
(***************************************************************************)
EXTENDS Integers, Sequences

CONSTANTS
  File,        \* the Python files and notebooks to lint; nothing excludes them
  RootOf,      \* the watch root of each; a file given by name is its own
  EarlyEdits,  \* files may be edited before their root is watched
  EditsRace,   \* files may be edited while a lint that uses the cache runs
  MaxVersion,  \* bounds the edits of a file
  None

ASSUME WatchAssumption ==
  /\ EarlyEdits \in BOOLEAN /\ EditsRace \in BOOLEAN
  /\ MaxVersion \in Nat
  /\ None \notin Nat

VARIABLES
  cached,   \* whether lints use the cache: FALSE with --no-cache
  present,  \* the files that exist
  version,  \* the content of each, kept when it is deleted
  phase,    \* what the watcher is doing
  roots,    \* the roots registered
  blind,    \* the files whose own watch has gone with their inode
  chan,     \* the events on their way from the watcher thread
  pending,  \* the paths collected for the next lint
  todo,     \* the files the current lint has yet to read
  answer,   \* the content it found in the others
  entry,    \* the results cache: findings and the stamp they are filed under
  shown     \* the content whose findings were last printed

env == <<cached, present, version, blind>>
lint == <<todo, answer, entry, shown>>
vars == <<cached, present, version, phase, roots, blind, chan, pending, todo, answer, entry, shown>>

Version == 0..MaxVersion
Entry == [of: Version, stamp: Version]
Event == [kind: {"create", "modify", "remove"}, path: File]

TypeOK ==
  /\ cached \in BOOLEAN
  /\ present \subseteq File
  /\ version \in [File -> Version]
  /\ phase \in {"linting", "registering", "waiting", "stopped"}
  /\ roots \subseteq {RootOf[f] : f \in File}
  /\ blind \subseteq File
  /\ chan \in Seq(Event)
  /\ pending \subseteq File
  /\ todo \subseteq File
  /\ answer \in [File -> Version \cup {None}]
  /\ entry \in [File -> Entry \cup {None}]
  /\ shown \in [File -> Version \cup {None}]

NoAnswers == [f \in File |-> None]

\* The loop has begun, and with it the delivery of events.
Ready == roots # {}

Watched(f) == RootOf[f] \in roots /\ f \notin blind

-----------------------------------------------------------------------------
(* The paths of the initial lint are collected before it starts.            *)

Init ==
  /\ cached \in BOOLEAN
  /\ present \in SUBSET File
  /\ version = [f \in File |-> 0]
  /\ phase = "linting"
  /\ roots = {}
  /\ blind = {}
  /\ chan = <<>>
  /\ pending = {}
  /\ todo = present
  /\ answer = NoAnswers
  /\ entry = NoAnswers
  /\ shown = NoAnswers

Hit(f) == cached /\ entry[f] # None /\ entry[f].stamp = version[f]

\* runner::run on one path: from the cache, from the file, or, where the file
\* is gone, not at all.
LintFile(f) ==
  /\ phase = "linting"
  /\ f \in todo
  /\ todo' = todo \ {f}
  /\ IF f \in present /\ Hit(f)
     THEN /\ answer' = [answer EXCEPT ![f] = entry[f].of]
          /\ UNCHANGED entry
     ELSE /\ answer' = IF f \in present THEN [answer EXCEPT ![f] = version[f]] ELSE answer
          /\ entry' = [entry EXCEPT ![f] = None]
  /\ UNCHANGED <<env, phase, roots, chan, pending, shown>>

\* What the write-back leaves in the cache: the entries of this lint's files,
\* a new one under the stamp the file has now.
WrittenBack ==
  [f \in File |->
    IF answer[f] = None THEN None
    ELSE IF entry[f] # None THEN entry[f]
    ELSE IF f \in present THEN [of |-> answer[f], stamp |-> version[f]] ELSE None]

\* Write-back and print.  The initial lint's entries are of no use to later ones
\* when its paths were spelled differently from the events'.
FinishLint ==
  /\ phase = "linting"
  /\ todo = {}
  /\ shown' = [f \in File |-> IF answer[f] = None THEN shown[f] ELSE answer[f]]
  /\ answer' = NoAnswers
  /\ entry' \in IF ~cached THEN {entry}
                ELSE IF Ready THEN {WrittenBack} ELSE {WrittenBack, NoAnswers}
  /\ phase' = IF Ready THEN "waiting" ELSE "registering"
  /\ UNCHANGED <<env, roots, chan, pending, todo>>

\* Any root may refuse to be watched; with none registered the program ends.
Register ==
  /\ phase = "registering"
  /\ roots' \in SUBSET {RootOf[f] : f \in File}
  /\ phase' = IF roots' = {} THEN "stopped" ELSE "waiting"
  /\ UNCHANGED <<env, chan, pending, lint>>

\* Mutant: a new file is not a modified one.
IsModifyOnly(e) == e.kind = "modify"

IsModifyEvent(e) == e.kind \in {"create", "modify"}

Collected(e) == IF IsModifyEvent(e) THEN {e.path} ELSE {}

\* Mutant: of the paths collected only one is linted.
FlushInPart(batch) ==
  /\ \E f \in batch : pending' = {} /\ todo' = {f} \cap present
  /\ phase' = "linting"
  /\ UNCHANGED <<answer, entry, shown>>

\* A path that is no file any more expands to nothing.
Flush(batch) ==
  /\ pending' = {}
  /\ todo' = batch \cap present
  /\ phase' = "linting"
  /\ UNCHANGED <<answer, entry, shown>>

\* recv_timeout delivers an event.  One that is collected restarts the clock;
\* after any other the debounce window may have passed.
Receive ==
  /\ phase = "waiting"
  /\ chan # <<>>
  /\ chan' = Tail(chan)
  /\ \/ /\ pending' = pending \cup Collected(Head(chan))
        /\ UNCHANGED <<phase, lint>>
     \/ /\ Collected(Head(chan)) = {}
        /\ pending # {}
        /\ Flush(pending)
  /\ UNCHANGED <<env, roots>>

\* recv_timeout gives up: nothing came for as long as the debounce window.
Timeout ==
  /\ phase = "waiting"
  /\ chan = <<>>
  /\ pending # {}
  /\ Flush(pending)
  /\ UNCHANGED <<env, roots, chan>>

\* Ctrl-C.
Interrupt ==
  /\ phase # "stopped"
  /\ phase' = "stopped"
  /\ UNCHANGED <<env, roots, chan, pending, lint>>

-----------------------------------------------------------------------------
(* The programs that edit the files, and the events the backend makes.     *)

Tell(f, kind) ==
  chan' = IF phase # "stopped" /\ Watched(f)
          THEN Append(chan, [kind |-> kind, path |-> f]) ELSE chan

\* Before the roots are watched and while a lint fills the cache only where the constants
\* say so.
MayEdit == (Ready \/ EarlyEdits) /\ (phase = "linting" /\ cached => EditsRace)

NextVersion(f) ==
  /\ version[f] < MaxVersion
  /\ version' = [version EXCEPT ![f] = @ + 1]

\* In place, or a new file.
Save(f) ==
  /\ MayEdit
  /\ NextVersion(f)
  /\ present' = present \cup {f}
  /\ Tell(f, IF f \in present THEN "modify" ELSE "create")
  /\ UNCHANGED <<cached, phase, roots, blind, pending, lint>>

\* A watch on the file itself is on its inode: it goes when the name does.
LoseSight(f) == blind' = IF RootOf[f] = f THEN blind \cup {f} ELSE blind

\* Another file is renamed over f, as editors do to save atomically.  A watch on
\* f itself sees its inode lose a name.
Replace(f) ==
  /\ MayEdit
  /\ f \in present
  /\ NextVersion(f)
  /\ \E kind \in IF RootOf[f] = f THEN {"modify", "remove"} ELSE {"modify"} : Tell(f, kind)
  /\ LoseSight(f)
  /\ UNCHANGED <<cached, present, phase, roots, pending, lint>>

Delete(f) ==
  /\ MayEdit
  /\ f \in present
  /\ present' = present \ {f}
  /\ Tell(f, "remove")
  /\ LoseSight(f)
  /\ UNCHANGED <<cached, version, phase, roots, pending, lint>>

-----------------------------------------------------------------------------
Watcher == (\E f \in File : LintFile(f)) \/ FinishLint \/ Register \/ Receive \/ Timeout

Editor == \E f \in File : Save(f) \/ Replace(f) \/ Delete(f)

Next == Watcher \/ Editor \/ Interrupt

Spec == Init /\ [][Next]_vars

\* The loop never blocks: it is a thread that the system schedules.
FairSpec == Spec /\ WF_vars(Watcher)

-----------------------------------------------------------------------------
(* Correctness.                                                            *)

\* The files to be linted when they change: not those whose root was refused, nor
\* those whose own watch has gone.
Followed(f) == f \in present /\ f \notin blind /\ (Ready => RootOf[f] \in roots)

Current(f) == shown[f] = version[f]

\* An event on its way will have f linted again.
Told(f) == \E k \in 1..Len(chan) : chan[k].path = f /\ IsModifyEvent(chan[k])

\* f is on its way to being linted or printed.
InFlight(f) ==
  \/ Told(f)
  \/ f \in pending
  \/ phase = "linting" /\ (f \in todo \/ answer[f] = version[f])

\* No change is forgotten, whatever the watcher is doing when it happens: a file
\* whose findings are out of date is on its way to being linted.
NothingForgotten ==
  phase # "stopped" => \A f \in File : Followed(f) => Current(f) \/ InFlight(f)

\* What a lint holds is printed before the loop goes on, and read but once.
AnswersArePrinted ==
  \A f \in File : answer[f] # None => phase \in {"linting", "stopped"} /\ f \notin todo

\* What a lint has read is out of date only where an event will tell.
StaleAnswersAreTold ==
  phase # "stopped" =>
    \A f \in File : Followed(f) /\ answer[f] # None => answer[f] = version[f] \/ Told(f)

\* With the cache in use, what is about to be filed under the present stamp is
\* the present content, and so a cached answer that of the version it is filed under.
FiledAsRead ==
  /\ phase # "stopped" /\ cached =>
       \A f \in File : answer[f] # None => answer[f] = version[f]
  /\ \A f \in File : entry[f] # None => entry[f].of = entry[f].stamp

\* The inductive invariant behind NothingForgotten.
IInv ==
  /\ TypeOK
  /\ NothingForgotten
  /\ phase = "registering" => ~Ready
  /\ AnswersArePrinted
  /\ StaleAnswersAreTold
  /\ FiledAsRead

\* "Re-lints every modified file": once the edits stop, what is on the screen is
\* what every file holds.
CatchesUp ==
  <>[](phase = "stopped" \/ \A f \in File : Followed(f) => Current(f))
=============================================================================
