---------------------------- MODULE Watch_proofs ----------------------------
(***************************************************************************)
(* No change of a followed file is forgotten, for every set of files and   *)
(* every schedule of edits, events and lints.                              *)
(***************************************************************************)
EXTENDS Watch, TLAPS

\* The programs that edit behave: none before the registration, none during a lint
\* that fills the cache.
Behaved == ~EarlyEdits /\ ~EditsRace

LEMMA InitInv == Init => IInv
<1> SUFFICES ASSUME Init PROVE IInv
  OBVIOUS
<1> USE WatchAssumption DEF Init, NoAnswers
<1>1. TypeOK
  BY DEF TypeOK, Version
<1>2. NothingForgotten
  BY DEF NothingForgotten, Followed, InFlight
<1>3. AnswersArePrinted /\ StaleAnswersAreTold /\ FiledAsRead
  BY DEF AnswersArePrinted, StaleAnswersAreTold, FiledAsRead
<1> QED BY <1>1, <1>2, <1>3 DEF IInv, Ready

LEMMA LintFileInv ==
  ASSUME IInv, NEW g \in File, LintFile(g)
  PROVE  IInv'
<1> USE WatchAssumption DEF LintFile, env
<1>1. TypeOK'
  BY DEF IInv, TypeOK, Entry, Hit
<1>2. answer[g] = None /\ (answer'[g] = version[g] \/ (answer'[g] = None /\ g \notin present))
  <2>1. answer[g] = None
    BY DEF IInv, AnswersArePrinted
  <2>2. answer \in [File -> Version \cup {None}]
    BY DEF IInv, TypeOK
  <2> HIDE DEF LintFile
  <2>3. CASE g \in present /\ Hit(g)
    <3>1. entry[g] # None /\ entry[g].stamp = version[g]
      BY <2>3 DEF Hit
    <3>2. entry[g].of = version[g]
      BY <3>1 DEF IInv, FiledAsRead
    <3>3. answer' = [answer EXCEPT ![g] = entry[g].of]
      BY <2>3 DEF LintFile
    <3>4. answer'[g] = entry[g].of
      BY <2>2, <3>3
    <3> QED BY <2>1, <3>2, <3>4
  <2>4. CASE g \in present /\ ~Hit(g)
    <3>1. answer' = [answer EXCEPT ![g] = version[g]]
      BY <2>4 DEF LintFile
    <3> QED BY <2>1, <2>2, <3>1
  <2>5. CASE g \notin present
    <3>1. answer' = answer
      BY <2>5 DEF LintFile
    <3> QED BY <2>1, <2>5, <3>1
  <2> QED BY <2>3, <2>4, <2>5
<1>3. \A f \in File \ {g} : answer'[f] = answer[f] /\ (f \in todo => f \in todo') /\ entry'[f] = entry[f]
  BY DEF IInv, TypeOK
<1>4. \A f \in File : (Followed(f)' <=> Followed(f)) /\ (Told(f)' <=> Told(f))
                        /\ (Current(f)' <=> Current(f))
  BY DEF Followed, Told, Ready, Current, IsModifyEvent
<1>5. NothingForgotten'
  BY <1>2, <1>3, <1>4 DEF IInv, NothingForgotten, InFlight, Followed
<1>6. AnswersArePrinted'
  BY <1>2, <1>3 DEF IInv, AnswersArePrinted
<1>7. StaleAnswersAreTold'
  BY <1>2, <1>3, <1>4 DEF IInv, StaleAnswersAreTold
<1>8. FiledAsRead'
  BY <1>2, <1>3 DEF IInv, TypeOK, FiledAsRead, Hit
<1> QED BY <1>1, <1>5, <1>6, <1>7, <1>8 DEF IInv, Ready

LEMMA FinishLintInv ==
  ASSUME IInv, FinishLint
  PROVE  IInv'
<1> USE WatchAssumption DEF FinishLint, env
<1>1. \A f \in File : answer'[f] = None
  BY DEF NoAnswers
<1>2. TypeOK'
  BY DEF IInv, TypeOK, Entry, WrittenBack, NoAnswers
<1>3. \A f \in File : (Followed(f)' <=> Followed(f)) /\ (Told(f)' <=> Told(f))
  BY DEF Followed, Told, Ready, IsModifyEvent
<1>4. \A f \in File : shown'[f] = IF answer[f] = None THEN shown[f] ELSE answer[f]
  OBVIOUS
<1>5. NothingForgotten'
  <2> SUFFICES ASSUME NEW f \in File, Followed(f), ~(Told(f) \/ f \in pending)
               PROVE  Current(f)'
    BY <1>3 DEF NothingForgotten, InFlight
  <2>1. Current(f) \/ answer[f] = version[f]
    BY DEF IInv, NothingForgotten, InFlight
  <2>2. answer[f] # None => answer[f] = version[f]
    BY DEF IInv, StaleAnswersAreTold
  <2> QED BY <1>4, <2>1, <2>2 DEF IInv, TypeOK, Current, Version
<1>6. AnswersArePrinted' /\ StaleAnswersAreTold'
  BY <1>1 DEF AnswersArePrinted, StaleAnswersAreTold
<1>7. FiledAsRead'
  BY <1>1 DEF IInv, TypeOK, FiledAsRead, WrittenBack, NoAnswers
<1> QED BY <1>2, <1>5, <1>6, <1>7 DEF IInv, Ready

LEMMA RegisterInv ==
  ASSUME IInv, Register
  PROVE  IInv'
<1> USE WatchAssumption DEF Register, env, lint
<1>1. TypeOK'
  BY DEF IInv, TypeOK
<1>2. \A f \in File : (Told(f)' <=> Told(f)) /\ (Current(f)' <=> Current(f))
  BY DEF Told, Current, IsModifyEvent
<1>3. \A f \in File : Followed(f)' => Followed(f)
  BY DEF IInv, Followed
<1>4. \A f \in File : answer'[f] = None
  BY DEF IInv, AnswersArePrinted
<1>5. NothingForgotten'
  BY <1>2, <1>3 DEF IInv, NothingForgotten, InFlight
<1>6. AnswersArePrinted' /\ StaleAnswersAreTold' /\ FiledAsRead'
  BY <1>4 DEF IInv, AnswersArePrinted, StaleAnswersAreTold, FiledAsRead
<1> QED BY <1>1, <1>5, <1>6 DEF IInv

\* A batch is linted as far as its files exist.
LEMMA FlushInv ==
  ASSUME IInv, phase = "waiting", Flush(pending), UNCHANGED <<env, roots>>,
         chan' = chan \/ (chan # <<>> /\ chan' = Tail(chan) /\ Collected(Head(chan)) = {})
  PROVE  IInv'
<1> USE WatchAssumption DEF Flush, env
<1>1. TypeOK'
  <2>1. chan \in Seq(Event)
    BY DEF IInv, TypeOK
  <2>2. chan # <<>> => Tail(chan) \in Seq(Event)
    BY <2>1
  <2>3. chan' \in Seq(Event)
    BY <2>1, <2>2
  <2> QED BY <2>3 DEF IInv, TypeOK
<1>2. \A f \in File : (Followed(f)' <=> Followed(f)) /\ (Current(f)' <=> Current(f))
  BY DEF Followed, Current, Ready
<1>3. \A f \in File : answer'[f] = None
  BY DEF IInv, AnswersArePrinted
<1>4. \A f \in File : Followed(f) /\ Told(f) => Told(f)'
  <2> SUFFICES ASSUME NEW f \in File, Followed(f), chan # <<>>, chan' = Tail(chan),
                      Collected(Head(chan)) = {}, NEW k \in 1..Len(chan),
                      chan[k].path = f, IsModifyEvent(chan[k])
               PROVE  Told(f)'
    BY DEF Told, IsModifyEvent
  <2>1. chan \in Seq(Event)
    BY DEF IInv, TypeOK
  <2>2. k # 1
    <3>1. Head(chan) = chan[1]
      OBVIOUS
    <3> QED BY <3>1 DEF Collected
  <2>3. k - 1 \in 1..Len(chan') /\ chan'[k - 1] = chan[k]
    BY <2>1, <2>2
  <2> QED BY <2>3 DEF Told, IsModifyEvent
<1>5. NothingForgotten'
  BY <1>2, <1>4 DEF IInv, NothingForgotten, InFlight, Followed
<1>6. AnswersArePrinted' /\ StaleAnswersAreTold' /\ FiledAsRead'
  BY <1>3 DEF IInv, AnswersArePrinted, StaleAnswersAreTold, FiledAsRead
<1> QED BY <1>1, <1>5, <1>6 DEF IInv

\* The event at the head of the channel is collected if it tells of a change.
LEMMA CollectInv ==
  ASSUME IInv, phase = "waiting", chan # <<>>, chan' = Tail(chan),
         pending' = pending \cup Collected(Head(chan)),
         UNCHANGED <<env, phase, roots, lint>>
  PROVE  IInv'
<1> USE WatchAssumption DEF env, lint
<1>0. chan \in Seq(Event)
  BY DEF IInv, TypeOK
<1>1. TypeOK'
  <2>1. Head(chan) \in Event /\ chan' \in Seq(Event)
    BY <1>0
  <2>2. Collected(Head(chan)) \subseteq File
    BY <2>1 DEF Collected, Event
  <2>3. pending' \subseteq File
    BY <2>2 DEF IInv, TypeOK
  <2> QED BY <2>1, <2>3 DEF IInv, TypeOK
<1>2. \A f \in File : (Followed(f)' <=> Followed(f)) /\ (Current(f)' <=> Current(f))
  BY DEF Followed, Current, Ready
<1>3. \A f \in File : answer'[f] = None
  BY DEF IInv, AnswersArePrinted
<1>4. \A f \in File : Followed(f) /\ Told(f) => Told(f)' \/ f \in pending'
  <2> SUFFICES ASSUME NEW f \in File, Followed(f), NEW k \in 1..Len(chan),
                      chan[k].path = f, IsModifyEvent(chan[k])
               PROVE  Told(f)' \/ f \in pending'
    BY DEF Told
  <2>1. CASE k = 1
    BY <1>0, <2>1 DEF Collected, Followed
  <2>2. CASE k # 1
    <3>1. k - 1 \in 1..Len(chan') /\ chan'[k - 1] = chan[k]
      BY <1>0, <2>2
    <3> QED BY <3>1 DEF Told, IsModifyEvent
  <2> QED BY <2>1, <2>2
<1>5. NothingForgotten'
  BY <1>2, <1>4 DEF IInv, NothingForgotten, InFlight
<1>6. AnswersArePrinted' /\ StaleAnswersAreTold' /\ FiledAsRead'
  BY <1>3 DEF IInv, AnswersArePrinted, StaleAnswersAreTold, FiledAsRead
<1> QED BY <1>1, <1>5, <1>6 DEF IInv, Ready

LEMMA InterruptInv ==
  ASSUME IInv, Interrupt
  PROVE  IInv'
<1> USE DEF Interrupt, env, lint
<1>1. TypeOK' /\ NothingForgotten'
  BY DEF IInv, TypeOK, NothingForgotten
<1> QED BY <1>1 DEF IInv, AnswersArePrinted, StaleAnswersAreTold, FiledAsRead

\* An edit that behaves is told of, or the program has stopped.
LEMMA EditInv ==
  ASSUME IInv, Behaved, NEW g \in File, Save(g) \/ Replace(g) \/ Delete(g)
  PROVE  IInv'
<1> USE WatchAssumption DEF lint
<1>1. PICK kind \in {"create", "modify", "remove"} :
        Tell(g, kind) /\ (g \in present' \ blind' => kind # "remove")
  BY DEF Save, Replace, Delete, LoseSight
<1>2. /\ UNCHANGED <<cached, phase, roots, pending, todo, answer, entry, shown>>
      /\ blind \subseteq blind' /\ blind' \subseteq blind \cup {g}
      /\ present' \subseteq present \cup {g}
      /\ Ready
      /\ phase = "linting" => ~cached
      /\ \A f \in File \ {g} : version'[f] = version[f] /\ (f \in present' <=> f \in present)
      /\ version' \in [File -> Version]
  <2>1. version \in [File -> Version]
    BY DEF IInv, TypeOK
  <2>2. \A f \in File : NextVersion(f) => version' \in [File -> Version]
                       /\ \A h \in File \ {f} : version'[h] = version[h]
    BY <2>1 DEF NextVersion, Version
  <2> QED BY <2>1, <2>2 DEF Save, Replace, Delete, Behaved, MayEdit, LoseSight
<1>3. chan \in Seq(Event)
  BY DEF IInv, TypeOK
<1> DEFINE event == [kind |-> kind, path |-> g]
<1>4. chan' = chan \/ chan' = Append(chan, event)
  BY <1>1 DEF Tell
<1>5. TypeOK'
  <2>1. event \in Event
    BY DEF Event
  <2>2. chan' \in Seq(Event)
    BY <1>3, <1>4, <2>1
  <2> QED BY <1>2, <2>2 DEF IInv, TypeOK
<1>6. \A f \in File : Told(f) => Told(f)'
  <2>1. Len(chan') >= Len(chan) /\ \A k \in 1..Len(chan) : chan'[k] = chan[k]
    BY <1>3, <1>4
  <2> QED BY <1>3, <2>1 DEF Told, IsModifyEvent
<1>7. \A f \in File \ {g} : (Followed(f)' <=> Followed(f)) /\ (Current(f)' <=> Current(f))
  BY <1>2 DEF Followed, Current, Ready
<1>8. phase # "stopped" /\ Followed(g)' => Told(g)'
  <2> SUFFICES ASSUME phase # "stopped", Followed(g)'
               PROVE  Told(g)'
    OBVIOUS
  <2> QED BY <1>1, <1>2, <1>3 DEF Followed, Ready, Tell, Watched, Told, IsModifyEvent
<1>9. NothingForgotten'
  BY <1>2, <1>6, <1>7, <1>8 DEF IInv, NothingForgotten, InFlight
<1>10. AnswersArePrinted'
  BY <1>2 DEF IInv, AnswersArePrinted
<1>11. StaleAnswersAreTold'
  BY <1>2, <1>6, <1>7, <1>8 DEF IInv, StaleAnswersAreTold
<1>12. FiledAsRead'
  BY <1>2 DEF IInv, FiledAsRead, AnswersArePrinted, Behaved
<1> QED BY <1>2, <1>5, <1>9, <1>10, <1>11, <1>12 DEF IInv, Ready

LEMMA StutterInv == ASSUME IInv, UNCHANGED vars PROVE IInv'
  BY DEF vars, IInv, TypeOK, NothingForgotten, AnswersArePrinted, StaleAnswersAreTold,
     FiledAsRead, Followed, InFlight, Told, Current, Ready, IsModifyEvent

\* Where edits behave, the loop of run_watch keeps IInv.
THEOREM WatchInvariant == Behaved => (Spec => []IInv)
<1> SUFFICES ASSUME Behaved PROVE Spec => []IInv
  OBVIOUS
<1>1. IInv /\ [Next]_vars => IInv'
  <2> SUFFICES ASSUME IInv, [Next]_vars PROVE IInv'
    OBVIOUS
  <2>1. ASSUME NEW f \in File, LintFile(f) PROVE IInv'
    BY <2>1, LintFileInv
  <2>2. CASE FinishLint
    BY <2>2, FinishLintInv
  <2>3. CASE Register
    BY <2>3, RegisterInv
  <2>4. CASE Receive
    <3> USE <2>4 DEF Receive
    <3>1. CASE pending' = pending \cup Collected(Head(chan)) /\ UNCHANGED <<phase, lint>>
      BY <3>1, CollectInv
    <3>2. CASE Collected(Head(chan)) = {} /\ pending # {} /\ Flush(pending)
      BY <3>2, FlushInv
    <3> QED BY <3>1, <3>2
  <2>5. CASE Timeout
    <3>1. phase = "waiting" /\ Flush(pending) /\ UNCHANGED <<env, roots>> /\ chan' = chan
      BY <2>5 DEF Timeout
    <3> QED BY <3>1, FlushInv
  <2>6. CASE Interrupt
    BY <2>6, InterruptInv
  <2>7. ASSUME NEW f \in File, Save(f) \/ Replace(f) \/ Delete(f) PROVE IInv'
    BY <2>7, EditInv
  <2>8. CASE UNCHANGED vars
    BY <2>8, StutterInv
  <2> QED BY <2>1, <2>2, <2>3, <2>4, <2>5, <2>6, <2>7, <2>8 DEF Next, Watcher, Editor
<1> QED BY <1>1, InitInv, PTL DEF Spec

\* Where edits behave, a followed file whose findings are out of date is always
\* on its way to being linted (run_watch).
THEOREM NoChangeIsForgotten == Behaved => (Spec => []NothingForgotten)
<1> SUFFICES ASSUME Behaved PROVE Spec => []NothingForgotten
  OBVIOUS
<1>1. IInv => NothingForgotten
  BY DEF IInv
<1> QED BY <1>1, WatchInvariant, PTL
=============================================================================
