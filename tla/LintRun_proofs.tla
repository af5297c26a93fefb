--------------------------- MODULE LintRun_proofs ---------------------------
(***************************************************************************)
(* IInv is an inductive invariant of LintRun, whatever the writes around a *)
(* run do; with it the saved and loaded entries are sound, a save prunes,  *)
(* and, when no write races a run or reuses a stamp, LintRun implements    *)
(* Linter.                                                                 *)
(***************************************************************************)
EXTENDS LintRun, TLAPS

-----------------------------------------------------------------------------
(* The operators the actions are built from.                               *)

\* Linting from scratch gives an answer, and Failed only for a file
\* that is missing or cannot be read.
LEMMA LintResult ==
  ASSUME NEW p \in Path, NEW c \in Content \cup {None}, NEW s \in Setting
  PROVE  /\ Lint(p, c, s) \in Answer \cup {Failed}
         /\ Lint(p, c, s) # None
<1>1. ASSUME c # None, c \notin Unreadable  PROVE Lint(p, c, s) \in Answer
  <2>1. Findings[p, c, s] \in SUBSET Rule
    BY <1>1, DataAssumption
  <2>2. (c \in GpuImport) \in BOOLEAN
    OBVIOUS
  <2>3. \A f \in SUBSET Rule, g \in BOOLEAN : [raw |-> f, gpu |-> g] \in Answer
    BY DEF Answer
  <2>4. [raw |-> Findings[p, c, s], gpu |-> c \in GpuImport] \in Answer
    BY <2>1, <2>2, <2>3, Zenon
  <2> QED BY <1>1, <2>4, Zenon DEF Lint
<1>2. c = None \/ c \in Unreadable => Lint(p, c, s) = Failed
  BY DEF Lint
<1> QED BY <1>1, <1>2, SentinelAssumption

\* Settings with one fingerprint lint every file alike.
LEMMA LintByKey ==
  ASSUME NEW p \in Path, NEW c \in Content, NEW s \in Setting, NEW t \in Setting,
         KeyOf[s] = KeyOf[t]
  PROVE  Lint(p, c, s) = Lint(p, c, t)
BY FingerprintIsComplete, SentinelAssumption DEF Lint

\* What a run loads is well formed, and is either empty or the file's entries
\* under its own fingerprint.
LEMMA LoadResult ==
  ASSUME NEW d \in Doc \cup {None, Torn}, NEW k \in Key
  PROVE  /\ Load(d, k) \in EntryMap
         /\ \/ Load(d, k) = NoEntries
            \/ /\ d \notin {None, Torn}
               /\ d.fingerprint = k
               /\ Load(d, k) = d.entries
BY CacheSentinels DEF Load, Doc, EntryMap, NoEntries

\* `insert` touches only the entry it is for.
LEMMA InsertResult ==
  ASSUME NEW fr \in EntryMap, NEW d, NEW p \in Path, NEW a \in Answer,
         d[p] \in File \/ d[p] = None
  PROVE  /\ Insert(fr, d, p, a) \in EntryMap
         /\ \A q \in Path : q # p => Insert(fr, d, p, a)[q] = fr[q]
         /\ d[p] = None => Insert(fr, d, p, a)[p] = fr[p]
         /\ d[p] # None =>
              Insert(fr, d, p, a)[p] = [stamp |-> d[p].stamp, raw |-> a.raw, gpu |-> a.gpu]
BY DEF Insert, StampOf, EntryMap, Entry, Answer, File

\* A saved entry is a fresh one or the loaded one of a path that hit.
LEMMA SavedResult ==
  ASSUME NEW k \in Key, NEW fr \in EntryMap, NEW ld \in EntryMap, NEW kp
  PROVE  /\ SavedDoc(k, fr, kp, ld) \in Doc
         /\ SavedDoc(k, fr, kp, ld).fingerprint = k
         /\ \A p \in Path :
              \/ SavedDoc(k, fr, kp, ld).entries[p] = fr[p] /\ fr[p] # None
              \/ SavedDoc(k, fr, kp, ld).entries[p] = ld[p] /\ p \in kp
              \/ SavedDoc(k, fr, kp, ld).entries[p] = None
BY DEF SavedDoc, SavedEntries, Doc, EntryMap

\* What a run reports is a report.
LEMMA ReportResult ==
  ASSUME NEW t \in Task, NEW a \in [Path -> Answer \cup {None, Failed}],
         \A p \in t.paths : a[p] # None
  PROVE  ReportOf(t, a) \in RunReport
<1>1. Shown(t, a) \in [Path -> SUBSET Rule]
  <2> SUFFICES ASSUME NEW p \in Path, p \in Linted(t, a)
               PROVE  a[p].raw \ t.hide \in SUBSET Rule
    BY DEF Shown
  <2>1. a[p] \in Answer
    BY DEF Linted
  <2> QED BY <2>1 DEF Answer
<1>2. JobShown(t, a) \in SUBSET Rule
  BY DataAssumption DEF JobShown
<1>3. ExitCode(t, a) \in {0, 1, 2}
  BY DEF ExitCode
<1> QED BY <1>1, <1>2, <1>3 DEF ReportOf, RunReport

-----------------------------------------------------------------------------
(* Init => IInv, and IInv is preserved by each action.                     *)

LEMMA InitInv == Init => IInv
<1> SUFFICES ASSUME Init PROVE IInv
  OBVIOUS
<1>1. TypeOK
  BY SentinelAssumption DEF Init, TypeOK, Phase, NoEntries, EntryMap, NoAnswers, File
<1>2. RunShape
  BY DEF Init, RunShape
<1>3. SavesOwnPaths
  BY DEF Init, SavesOwnPaths
<1>4. StampsUsed
  BY DEF Init, StampsUsed, NoEntries
<1>5. ReadsStayCurrent
  BY DEF Init, ReadsStayCurrent
<1>6. NothingSuspect
  BY DEF Init, NothingSuspect
<1>7. StoreIsSound
  BY DEF Init, StoreIsSound
<1>8. MemoryIsSound
  BY DEF Init, MemoryIsSound
<1> QED BY <1>1, <1>2, <1>3, <1>4, <1>5, <1>6, <1>7, <1>8 DEF IInv

LEMMA StartInv ==
  ASSUME IInv, NEW r \in Run, NEW s \in Setting, NEW inv \in Invocation,
         NEW ps \in SUBSET Path, Start(r, s, inv, ps)
  PROVE  IInv'
<1> DEFINE t == [setting |-> s, paths |-> ps, hide |-> inv.hide,
                 gate |-> inv.gate, no_cache |-> inv.no_cache]
           l == IF inv.no_cache THEN NoEntries ELSE Load(store, KeyOf[s])
<1>1. inv \in [hide: SUBSET Rule, gate: SUBSET Rule, no_cache: BOOLEAN]
  BY DataAssumption
<1>2. t \in Task /\ t # None
  BY <1>1, TaskAssumption DEF Task
<1>3. KeyOf[s] \in Key
  BY DataAssumption
<1>4. l \in EntryMap
  BY <1>3, LoadResult DEF IInv, TypeOK, EntryMap, NoEntries
<1>5. l = NoEntries \/ (store \notin {None, Torn} /\ store.fingerprint = KeyOf[s]
                        /\ l = store.entries)
  BY <1>3, LoadResult DEF IInv, TypeOK
<1>6. /\ task' = [task EXCEPT ![r] = t]
      /\ loaded' = [loaded EXCEPT ![r] = l]
      /\ pc' = [pc EXCEPT ![r] = "linting"]
      /\ todo' = [todo EXCEPT ![r] = ps]
      /\ pc[r] = "idle"
      /\ UNCHANGED <<disk, store, missed, answer, fresh, keep, report, used, suspect>>
  BY DEF Start
<1>7. t.paths = ps /\ t.setting = s
  OBVIOUS
<1> HIDE DEF t, l
<1>a. TypeOK'
  BY <1>2, <1>4, <1>6 DEF IInv, TypeOK, Phase
<1>b. RunShape'
  BY <1>2, <1>6, <1>7 DEF IInv, TypeOK, RunShape
<1>c. SavesOwnPaths'
  BY <1>6 DEF IInv, TypeOK, RunShape, SavesOwnPaths, NoAnswers, NoEntries, Linted
<1>d. StampsUsed'
  BY <1>5, <1>6 DEF IInv, TypeOK, StampsUsed, NoEntries
<1>e. ReadsStayCurrent'
  BY <1>6 DEF IInv, TypeOK, RunShape, ReadsStayCurrent, Cacheable
<1>f. NothingSuspect'
  BY <1>6 DEF IInv, NothingSuspect
<1>g. StoreIsSound'
  BY <1>6 DEF IInv, StoreIsSound, SoundFor, IsHit, StampOf
<1>h. MemoryIsSound'
  BY <1>5, <1>6, <1>7 DEF IInv, TypeOK, RunShape, StoreIsSound, MemoryIsSound, SoundFor,
     IsHit, StampOf, HitAnswer, NoEntries
<1> QED BY <1>a, <1>b, <1>c, <1>d, <1>e, <1>f, <1>g, <1>h DEF IInv

LEMMA HitInv ==
  ASSUME IInv, NEW r \in Run, NEW p \in Path, Hit(r, p)
  PROVE  IInv'
<1> DEFINE ans == HitAnswer(loaded[r], p)
<1>1. ans \in Answer
  BY DEF IInv, TypeOK, Hit, ServedFromCache, IsHit, HitAnswer, EntryMap, Entry, Answer
<1>2. /\ answer' = [answer EXCEPT ![r][p] = ans]
      /\ pc[r] = "linting"
      /\ answer[r][p] = None
      /\ p \notin missed[r]
      /\ p \notin Notebook
      /\ ans # Failed /\ ans # None
      /\ UNCHANGED <<disk, store, pc, task, loaded, missed, todo, fresh, keep, report,
                     used, suspect>>
  BY <1>1, SentinelAssumption DEF Hit, Pending, ServedFromCache
<1> HIDE DEF ans
<1>a. TypeOK'
  BY <1>1, <1>2 DEF IInv, TypeOK, Phase
<1>b. RunShape'
  BY <1>1, <1>2 DEF IInv, TypeOK, RunShape
<1>c. SavesOwnPaths'
  BY <1>1, <1>2 DEF IInv, TypeOK, RunShape, SavesOwnPaths, Linted
<1>d. StampsUsed'
  BY <1>1, <1>2 DEF IInv, TypeOK, StampsUsed
<1>e. ReadsStayCurrent'
  BY <1>1, <1>2 DEF IInv, TypeOK, RunShape, ReadsStayCurrent, Cacheable
<1>f. NothingSuspect'
  BY <1>1, <1>2 DEF IInv, TypeOK, NothingSuspect
<1>g. StoreIsSound'
  BY <1>1, <1>2 DEF IInv, TypeOK, StoreIsSound, SoundFor, IsHit, StampOf, HitAnswer
<1>h. MemoryIsSound'
  BY <1>1, <1>2 DEF IInv, TypeOK, RunShape, MemoryIsSound, SoundFor, IsHit, StampOf, HitAnswer
<1> QED BY <1>a, <1>b, <1>c, <1>d, <1>e, <1>f, <1>g, <1>h DEF IInv

LEMMA MissInv ==
  ASSUME IInv, NEW r \in Run, NEW p \in Path, Miss(r, p)
  PROVE  IInv'
<1>1. /\ missed' = [missed EXCEPT ![r] = @ \cup {p}]
      /\ pc[r] = "linting"
      /\ p \in task[r].paths
      /\ answer[r][p] = None
      /\ UNCHANGED <<disk, store, pc, task, loaded, answer, todo, fresh, keep, report,
                     used, suspect>>
  BY DEF Miss, Pending
<1>a. TypeOK'
  BY <1>1 DEF IInv, TypeOK, Phase
<1>b. RunShape'
  BY <1>1 DEF IInv, TypeOK, RunShape
<1>c. SavesOwnPaths'
  BY <1>1 DEF IInv, TypeOK, RunShape, SavesOwnPaths, Linted
<1>d. StampsUsed'
  BY <1>1 DEF IInv, TypeOK, StampsUsed
<1>e. ReadsStayCurrent'
  BY <1>1 DEF IInv, TypeOK, RunShape, ReadsStayCurrent, Cacheable
<1>f. NothingSuspect'
  BY <1>1 DEF IInv, TypeOK, NothingSuspect
<1>g. StoreIsSound'
  BY <1>1 DEF IInv, TypeOK, StoreIsSound, SoundFor, IsHit, StampOf, HitAnswer
<1>h. MemoryIsSound'
  BY <1>1 DEF IInv, TypeOK, RunShape, MemoryIsSound, SoundFor, IsHit, StampOf, HitAnswer
<1> QED BY <1>a, <1>b, <1>c, <1>d, <1>e, <1>f, <1>g, <1>h DEF IInv

LEMMA ReadAndCheckInv ==
  ASSUME IInv, NEW r \in Run, NEW p \in Path, ReadAndCheck(r, p)
  PROVE  IInv'
<1> DEFINE c == IF disk[p] = None THEN None ELSE disk[p].content
           ans == Lint(p, c, task[r].setting)
<1>1. pc[r] = "linting" /\ task[r] \in Task
  BY DEF ReadAndCheck, IInv, TypeOK, RunShape
<1>2. c \in Content \cup {None} /\ task[r].setting \in Setting
  BY <1>1 DEF IInv, TypeOK, File, Task
<1>3. ans \in Answer \cup {Failed} /\ ans # None
  BY <1>2, LintResult
<1>4. disk[p] # None => ans = Lint(p, disk[p].content, task[r].setting)
  OBVIOUS
<1>5. /\ answer' = [answer EXCEPT ![r][p] = ans]
      /\ p \in missed[r]
      /\ answer[r][p] = None
      /\ UNCHANGED <<disk, store, pc, task, loaded, missed, todo, fresh, keep, report,
                     used, suspect>>
  BY DEF ReadAndCheck
<1> HIDE DEF ans, c
<1>a. TypeOK'
  BY <1>1, <1>3, <1>4, <1>5 DEF IInv, TypeOK, Phase
<1>b. RunShape'
  BY <1>1, <1>3, <1>4, <1>5 DEF IInv, TypeOK, RunShape
<1>c. SavesOwnPaths'
  BY <1>1, <1>3, <1>4, <1>5 DEF IInv, TypeOK, RunShape, SavesOwnPaths, Linted, NoEntries
<1>d. StampsUsed'
  BY <1>1, <1>3, <1>4, <1>5 DEF IInv, TypeOK, StampsUsed
<1>e. ReadsStayCurrent'
  <2> SUFFICES ASSUME NEW q \in Run, NEW f \in Path,
                      f \in todo[q], Cacheable(q, f)', disk[f] # None,
                      disk[f].stamp \notin suspect[f]
               PROVE  answer'[q][f] = Lint(f, disk[f].content, task[q].setting)
    BY <1>5 DEF ReadsStayCurrent
  <2>1. CASE q = r /\ f = p
    BY <1>3, <1>4, <1>5, <2>1 DEF IInv, TypeOK
  <2>2. CASE ~(q = r /\ f = p)
    <3>1. answer'[q][f] = answer[q][f]
      BY <1>5, <2>2 DEF IInv, TypeOK
    <3>2. Cacheable(q, f)
      BY <1>5, <3>1 DEF Cacheable
    <3> QED BY <3>1, <3>2 DEF IInv, ReadsStayCurrent
  <2> QED BY <2>1, <2>2
<1>f. NothingSuspect'
  BY <1>1, <1>3, <1>4, <1>5 DEF IInv, TypeOK, NothingSuspect
<1>g. StoreIsSound'
  BY <1>1, <1>3, <1>4, <1>5 DEF IInv, TypeOK, StoreIsSound, SoundFor, IsHit, StampOf, HitAnswer
<1>h. MemoryIsSound'
  BY <1>1, <1>3, <1>4, <1>5 DEF IInv, TypeOK, RunShape, MemoryIsSound, SoundFor, IsHit, StampOf, HitAnswer
<1> QED BY <1>a, <1>b, <1>c, <1>d, <1>e, <1>f, <1>g, <1>h DEF IInv

LEMMA CollectInv ==
  ASSUME IInv, NEW r \in Run, Collect(r)
  PROVE  IInv'
<1>1. /\ pc' = [pc EXCEPT ![r] = IF task[r].no_cache THEN "closing" ELSE "writing"]
      /\ pc[r] = "linting"
      /\ \A p \in task[r].paths : answer[r][p] # None
      /\ UNCHANGED <<disk, store, task, loaded, missed, answer, todo, fresh, keep, report,
                     used, suspect>>
  BY DEF Collect
<1>a. TypeOK'
  BY <1>1 DEF IInv, TypeOK, Phase
<1>b. RunShape'
  BY <1>1 DEF IInv, TypeOK, RunShape
<1>c. SavesOwnPaths'
  BY <1>1 DEF IInv, TypeOK, RunShape, SavesOwnPaths, Linted
<1>d. StampsUsed'
  BY <1>1 DEF IInv, TypeOK, StampsUsed
<1>e. ReadsStayCurrent'
  BY <1>1 DEF IInv, TypeOK, RunShape, ReadsStayCurrent, Cacheable
<1>f. NothingSuspect'
  BY <1>1 DEF IInv, TypeOK, NothingSuspect
<1>g. StoreIsSound'
  BY <1>1 DEF IInv, TypeOK, StoreIsSound, SoundFor, IsHit, StampOf, HitAnswer
<1>h. MemoryIsSound'
  BY <1>1 DEF IInv, TypeOK, RunShape, MemoryIsSound, SoundFor, IsHit, StampOf, HitAnswer
<1> QED BY <1>a, <1>b, <1>c, <1>d, <1>e, <1>f, <1>g, <1>h DEF IInv

LEMMA WriteBackInv ==
  ASSUME IInv, NEW r \in Run, NEW p \in Path, WriteBack(r, p)
  PROVE  IInv'
<1> DEFINE fr == IF Cacheable(r, p) THEN Insert(fresh[r], disk, p, answer[r][p]) ELSE fresh[r]
<1>1. /\ pc[r] = "writing"
      /\ p \in todo[r]
      /\ todo' = [todo EXCEPT ![r] = @ \ {p}]
      /\ fresh' = [fresh EXCEPT ![r] = fr]
      /\ keep' = [keep EXCEPT ![r] = IF p \notin missed[r] THEN @ \cup {p} ELSE @]
      /\ UNCHANGED <<disk, store, pc, task, loaded, missed, answer, report, used, suspect>>
  BY DEF WriteBack, IInv, TypeOK
<1>2. p \in task[r].paths /\ task[r] \in Task /\ answer[r][p] # None
  BY <1>1 DEF IInv, TypeOK, RunShape
<1>3. Cacheable(r, p) => answer[r][p] \in Answer
  BY DEF IInv, TypeOK, Cacheable
<1>b0. fresh[r] \in EntryMap /\ (disk[p] \in File \/ disk[p] = None)
  BY DEF IInv, TypeOK
<1>4. fr \in EntryMap /\ \A f \in Path : f # p => fr[f] = fresh[r][f]
  <2>1. CASE Cacheable(r, p)
    <3> DEFINE a == answer[r][p]
               old == fresh[r]
    <3>1. fr = Insert(old, disk, p, a) /\ a \in Answer /\ old \in EntryMap
      BY <1>3, <1>b0, <2>1
    <3> HIDE DEF fr, a, old
    <3>2. fr \in EntryMap
      BY <1>b0, <3>1, InsertResult, Zenon
    <3>3. \A f \in Path : f # p => fr[f] = old[f]
      BY <3>1 DEF Insert, EntryMap
    <3> QED BY <3>2, <3>3 DEF old
  <2>2. CASE ~Cacheable(r, p)
    BY <1>b0, <2>2
  <2> QED BY <2>1, <2>2
<1>5. \/ fr[p] = fresh[r][p]
      \/ /\ Cacheable(r, p)
         /\ disk[p] # None
         /\ fr[p] = [stamp |-> disk[p].stamp, raw |-> answer[r][p].raw,
                     gpu |-> answer[r][p].gpu]
  BY <1>3, <1>b0, InsertResult
<1> HIDE DEF fr
<1>a. TypeOK'
  BY <1>1, <1>2, <1>4, <1>5 DEF IInv, TypeOK, Phase
<1>b. RunShape'
  BY <1>1, <1>2, <1>4, <1>5 DEF IInv, TypeOK, RunShape
<1>c. SavesOwnPaths'
  BY <1>1, <1>2, <1>4, <1>5 DEF IInv, TypeOK, RunShape, SavesOwnPaths, Linted, Cacheable
<1>d. StampsUsed'
  <2>1. fr[p] # None => fr[p].stamp \in used[p]
    BY <1>5 DEF IInv, StampsUsed
  <2>2. \A f \in Path : fr[f] # None => fr[f].stamp \in used[f]
    BY <1>4, <2>1 DEF IInv, StampsUsed
  <2> QED BY <1>1, <2>2 DEF IInv, TypeOK, StampsUsed
<1>e. ReadsStayCurrent'
  BY <1>1, <1>2, <1>4, <1>5 DEF IInv, TypeOK, RunShape, ReadsStayCurrent, Cacheable
<1>f. NothingSuspect'
  BY <1>1, <1>2, <1>4, <1>5 DEF IInv, TypeOK, NothingSuspect
<1>g. StoreIsSound'
  BY <1>1, <1>2, <1>4, <1>5 DEF IInv, TypeOK, StoreIsSound, SoundFor, IsHit, StampOf, HitAnswer
<1>h. MemoryIsSound'
  <2> SUFFICES ASSUME NEW q \in Run, pc[q] # "idle", NEW f \in Path, NEW s \in Setting,
                      fresh'[q][f] # None, disk[f] # None,
                      fresh'[q][f].stamp = disk[f].stamp,
                      disk[f].stamp \notin suspect[f],
                      KeyOf[s] = KeyOf[task[q].setting]
               PROVE  HitAnswer(fresh'[q], f) = Lint(f, disk[f].content, s)
    BY <1>1 DEF IInv, MemoryIsSound, SoundFor, IsHit, StampOf
  <2>1. CASE fresh'[q][f] = fresh[q][f]
    BY <2>1 DEF IInv, MemoryIsSound, SoundFor, IsHit, StampOf, HitAnswer
  <2>2. CASE fresh'[q][f] # fresh[q][f]
    <3>1. q = r /\ f = p /\ Cacheable(r, p)
          /\ fresh'[q][f] = [stamp |-> disk[p].stamp, raw |-> answer[r][p].raw,
                             gpu |-> answer[r][p].gpu]
      BY <1>1, <1>4, <1>5, <2>2 DEF IInv, TypeOK
    <3>2. answer[r][p] = Lint(p, disk[p].content, task[r].setting)
      BY <1>1, <3>1 DEF IInv, ReadsStayCurrent
    <3>3. disk[p].content \in Content /\ task[r].setting \in Setting
      BY <1>2, <3>1 DEF IInv, TypeOK, File, Task
    <3>4. Lint(p, disk[p].content, task[r].setting) = Lint(p, disk[p].content, s)
      BY <3>1, <3>3, LintByKey
    <3>5. HitAnswer(fresh'[q], f) = answer[r][p]
      BY <1>3, <3>1 DEF HitAnswer, Answer
    <3> QED BY <3>1, <3>2, <3>4, <3>5
  <2> QED BY <2>1, <2>2
<1> QED BY <1>a, <1>b, <1>c, <1>d, <1>e, <1>f, <1>g, <1>h DEF IInv

LEMMA OpenStoreInv ==
  ASSUME IInv, NEW r \in Run, OpenStore(r)
  PROVE  IInv'
<1>1. /\ pc[r] = "writing"
      /\ store' = Torn
      /\ pc' = [pc EXCEPT ![r] = "saving"]
      /\ UNCHANGED <<disk, task, loaded, missed, answer, todo, fresh, keep, report,
                     used, suspect>>
  BY DEF OpenStore
<1>a. TypeOK'
  BY <1>1 DEF IInv, TypeOK, Phase
<1>b. RunShape'
  BY <1>1 DEF IInv, TypeOK, RunShape
<1>c. SavesOwnPaths'
  BY <1>1 DEF IInv, TypeOK, RunShape, SavesOwnPaths, Linted
<1>d. StampsUsed'
  BY <1>1 DEF IInv, TypeOK, StampsUsed
<1>e. ReadsStayCurrent'
  BY <1>1 DEF IInv, TypeOK, RunShape, ReadsStayCurrent, Cacheable
<1>f. NothingSuspect'
  BY <1>1 DEF IInv, TypeOK, NothingSuspect
<1>g. StoreIsSound'
  BY <1>1 DEF IInv, TypeOK, StoreIsSound, SoundFor, IsHit, StampOf, HitAnswer
<1>h. MemoryIsSound'
  BY <1>1 DEF IInv, TypeOK, RunShape, MemoryIsSound, SoundFor, IsHit, StampOf, HitAnswer
<1> QED BY <1>a, <1>b, <1>c, <1>d, <1>e, <1>f, <1>g, <1>h DEF IInv

LEMMA ClosingInv ==
  ASSUME IInv, NEW r \in Run, CannotOpenStore(r) \/ FlushUnlinked(r)
  PROVE  IInv'
<1>1. /\ pc[r] \in {"writing", "unlinked"}
      /\ pc' = [pc EXCEPT ![r] = "closing"]
      /\ UNCHANGED <<disk, store, task, loaded, missed, answer, todo, fresh, keep, report,
                     used, suspect>>
  BY DEF CannotOpenStore, FlushUnlinked
<1>a. TypeOK'
  BY <1>1 DEF IInv, TypeOK, Phase
<1>b. RunShape'
  BY <1>1 DEF IInv, TypeOK, RunShape
<1>c. SavesOwnPaths'
  BY <1>1 DEF IInv, TypeOK, RunShape, SavesOwnPaths, Linted
<1>d. StampsUsed'
  BY <1>1 DEF IInv, TypeOK, StampsUsed
<1>e. ReadsStayCurrent'
  BY <1>1 DEF IInv, TypeOK, RunShape, ReadsStayCurrent, Cacheable
<1>f. NothingSuspect'
  BY <1>1 DEF IInv, TypeOK, NothingSuspect
<1>g. StoreIsSound'
  BY <1>1 DEF IInv, TypeOK, StoreIsSound, SoundFor, IsHit, StampOf, HitAnswer
<1>h. MemoryIsSound'
  BY <1>1 DEF IInv, TypeOK, RunShape, MemoryIsSound, SoundFor, IsHit, StampOf, HitAnswer
<1> QED BY <1>a, <1>b, <1>c, <1>d, <1>e, <1>f, <1>g, <1>h DEF IInv

LEMMA SpillInv ==
  ASSUME IInv, NEW r \in Run, Spill(r)
  PROVE  IInv'
<1>1. /\ store' = Torn
      /\ UNCHANGED <<disk, pc, task, loaded, missed, answer, todo, fresh, keep, report,
                     used, suspect>>
  BY DEF Spill, runVars
<1>a. TypeOK'
  BY <1>1 DEF IInv, TypeOK, Phase
<1>b. RunShape'
  BY <1>1 DEF IInv, TypeOK, RunShape
<1>c. SavesOwnPaths'
  BY <1>1 DEF IInv, TypeOK, RunShape, SavesOwnPaths, Linted
<1>d. StampsUsed'
  BY <1>1 DEF IInv, TypeOK, StampsUsed
<1>e. ReadsStayCurrent'
  BY <1>1 DEF IInv, TypeOK, RunShape, ReadsStayCurrent, Cacheable
<1>f. NothingSuspect'
  BY <1>1 DEF IInv, TypeOK, NothingSuspect
<1>g. StoreIsSound'
  BY <1>1 DEF IInv, TypeOK, StoreIsSound, SoundFor, IsHit, StampOf, HitAnswer
<1>h. MemoryIsSound'
  BY <1>1 DEF IInv, TypeOK, RunShape, MemoryIsSound, SoundFor, IsHit, StampOf, HitAnswer
<1> QED BY <1>a, <1>b, <1>c, <1>d, <1>e, <1>f, <1>g, <1>h DEF IInv

LEMMA FlushInv ==
  ASSUME IInv, NEW r \in Run, Flush(r)
  PROVE  IInv'
<1> DEFINE k == KeyOf[task[r].setting]
           doc == SavedDoc(k, fresh[r], keep[r], loaded[r])
<1>1. /\ pc[r] = "saving"
      /\ store' \in {doc, Torn}
      /\ pc' = [pc EXCEPT ![r] = "closing"]
      /\ UNCHANGED <<disk, task, loaded, missed, answer, todo, fresh, keep, report,
                     used, suspect>>
  BY DEF Flush
<1>2. task[r] \in Task /\ task[r].setting \in Setting
  BY <1>1 DEF IInv, TypeOK, RunShape, Task
<1>3. k \in Key
  BY <1>2, DataAssumption
<1>a0. fresh[r] \in EntryMap /\ loaded[r] \in EntryMap
  BY DEF IInv, TypeOK
<1> HIDE DEF k
<1>4. /\ doc \in Doc
      /\ doc.fingerprint = k
      /\ \A p \in Path :
           \/ doc.entries[p] = fresh[r][p]
           \/ doc.entries[p] = loaded[r][p]
           \/ doc.entries[p] = None
  BY <1>3, <1>a0, SavedResult
<1> HIDE DEF doc
<1>a. TypeOK'
  BY <1>1, <1>4 DEF IInv, TypeOK, Phase
<1>b. RunShape'
  BY <1>1, <1>4 DEF IInv, TypeOK, RunShape
<1>c. SavesOwnPaths'
  BY <1>1, <1>4 DEF IInv, TypeOK, RunShape, SavesOwnPaths, Linted
<1>d. StampsUsed'
  BY <1>1, <1>4 DEF IInv, TypeOK, StampsUsed
<1>e. ReadsStayCurrent'
  BY <1>1, <1>4 DEF IInv, TypeOK, RunShape, ReadsStayCurrent, Cacheable
<1>f. NothingSuspect'
  BY <1>1, <1>4 DEF IInv, TypeOK, NothingSuspect
<1>g. StoreIsSound'
  <2>1. SoundFor(fresh[r], k) /\ SoundFor(loaded[r], k)
    BY <1>1 DEF IInv, MemoryIsSound, k
  <2>2. SoundFor(doc.entries, k)
    BY <1>4, <2>1 DEF SoundFor, IsHit, StampOf, HitAnswer
  <2> QED BY <1>1, <1>4, <2>2 DEF StoreIsSound, SoundFor, IsHit, StampOf
<1>h. MemoryIsSound'
  BY <1>1, <1>4 DEF IInv, TypeOK, RunShape, MemoryIsSound, SoundFor, IsHit, StampOf, HitAnswer
<1> QED BY <1>a, <1>b, <1>c, <1>d, <1>e, <1>f, <1>g, <1>h DEF IInv

LEMMA ReportInv ==
  ASSUME IInv, NEW r \in Run, Report(r)
  PROVE  IInv'
<1> DEFINE rep == ReportOf(task[r], answer[r])
<1>1. /\ pc[r] = "closing"
      /\ report' = [report EXCEPT ![r] = rep]
      /\ pc' = [pc EXCEPT ![r] = "reported"]
      /\ UNCHANGED <<disk, store, task, loaded, missed, answer, todo, fresh, keep,
                     used, suspect>>
  BY DEF Report
<1>2. task[r] \in Task /\ \A p \in task[r].paths : answer[r][p] # None
  BY <1>1 DEF IInv, TypeOK, RunShape
<1>3. rep \in RunReport
  BY <1>2, ReportResult DEF IInv, TypeOK
<1> HIDE DEF rep
<1>a. TypeOK'
  BY <1>1, <1>3 DEF IInv, TypeOK, Phase
<1>b. RunShape'
  BY <1>1, <1>3 DEF IInv, TypeOK, RunShape
<1>c. SavesOwnPaths'
  BY <1>1, <1>3 DEF IInv, TypeOK, RunShape, SavesOwnPaths, Linted
<1>d. StampsUsed'
  BY <1>1, <1>3 DEF IInv, TypeOK, StampsUsed
<1>e. ReadsStayCurrent'
  BY <1>1, <1>3 DEF IInv, TypeOK, RunShape, ReadsStayCurrent, Cacheable
<1>f. NothingSuspect'
  BY <1>1, <1>3 DEF IInv, TypeOK, NothingSuspect
<1>g. StoreIsSound'
  BY <1>1, <1>3 DEF IInv, TypeOK, StoreIsSound, SoundFor, IsHit, StampOf, HitAnswer
<1>h. MemoryIsSound'
  BY <1>1, <1>3 DEF IInv, TypeOK, RunShape, MemoryIsSound, SoundFor, IsHit, StampOf, HitAnswer
<1> QED BY <1>a, <1>b, <1>c, <1>d, <1>e, <1>f, <1>g, <1>h DEF IInv

LEMMA LeaveInv ==
  ASSUME IInv, NEW r \in Run, Leave(r)
  PROVE  IInv'
<1>1. /\ pc' = [pc EXCEPT ![r] = "idle"]
      /\ task' = [task EXCEPT ![r] = None]
      /\ loaded' = [loaded EXCEPT ![r] = NoEntries]
      /\ missed' = [missed EXCEPT ![r] = {}]
      /\ answer' = [answer EXCEPT ![r] = NoAnswers]
      /\ todo' = [todo EXCEPT ![r] = {}]
      /\ fresh' = [fresh EXCEPT ![r] = NoEntries]
      /\ keep' = [keep EXCEPT ![r] = {}]
      /\ report' = [report EXCEPT ![r] = None]
      /\ UNCHANGED <<disk, store, used, suspect>>
  BY DEF Leave
<1>2. NoEntries \in EntryMap /\ NoAnswers \in [Path -> Answer \cup {None, Failed}]
      /\ \A p \in Path : NoEntries[p] = None
  BY DEF NoEntries, NoAnswers, EntryMap
<1>a. TypeOK'
  BY <1>1, <1>2 DEF IInv, TypeOK, Phase
<1>b. RunShape'
  BY <1>1, <1>2 DEF IInv, TypeOK, RunShape
<1>c. SavesOwnPaths'
  BY <1>1, <1>2 DEF IInv, TypeOK, RunShape, SavesOwnPaths, Linted
<1>d. StampsUsed'
  BY <1>1, <1>2 DEF IInv, TypeOK, StampsUsed
<1>e. ReadsStayCurrent'
  BY <1>1, <1>2 DEF IInv, TypeOK, RunShape, ReadsStayCurrent, Cacheable
<1>f. NothingSuspect'
  BY <1>1, <1>2 DEF IInv, TypeOK, NothingSuspect
<1>g. StoreIsSound'
  BY <1>1, <1>2 DEF IInv, TypeOK, StoreIsSound, SoundFor, IsHit, StampOf, HitAnswer
<1>h. MemoryIsSound'
  BY <1>1, <1>2 DEF IInv, TypeOK, RunShape, MemoryIsSound, SoundFor, IsHit, StampOf, HitAnswer
<1> QED BY <1>a, <1>b, <1>c, <1>d, <1>e, <1>f, <1>g, <1>h DEF IInv

LEMMA EditInv ==
  ASSUME IInv, NEW p \in Path, NEW c \in Content, NEW st \in Stamp, Edit(p, c, st)
  PROVE  IInv'
<1> DEFINE new == [content |-> c, stamp |-> st]
           bad == Exposed(p) \/ st \in used[p]
<1>1. new \in File /\ new # None /\ new.content = c /\ new.stamp = st
  BY CacheSentinels DEF File
<1>2. /\ EditsRace \/ ~Exposed(p)
      /\ StampsCollide \/ st \notin used[p]
      /\ disk' = [disk EXCEPT ![p] = new]
      /\ used' = [used EXCEPT ![p] = @ \cup {st}]
      /\ suspect' = [suspect EXCEPT ![p] = IF bad THEN @ \cup {st} ELSE @]
      /\ UNCHANGED <<store, pc, task, loaded, missed, answer, todo, fresh, keep, report>>
  BY DEF Edit, runVars
<1>3. \A f \in Path : f # p => disk'[f] = disk[f] /\ suspect'[f] = suspect[f]
  BY <1>2 DEF IInv, TypeOK
<1>4. disk'[p] = new /\ (bad => st \in suspect'[p])
  BY <1>2 DEF IInv, TypeOK
\* No entry in sight matches a stamp the file never had.
<1>5. ASSUME NEW e \in EntryMap, e[p] # None => e[p].stamp \in used[p],
             NEW k, SoundFor(e, k)
      PROVE  SoundFor(e, k)'
  <2> SUFFICES ASSUME NEW f \in Path, NEW s \in Setting, e[f] # None, disk'[f] # None,
                      e[f].stamp = disk'[f].stamp, disk'[f].stamp \notin suspect'[f],
                      KeyOf[s] = k
               PROVE  HitAnswer(e, f) = Lint(f, disk'[f].content, s)
    BY DEF SoundFor, IsHit, StampOf
  <2>1. f # p
    BY <1>1, <1>4, <1>5
  <2> QED BY <1>3, <1>5, <2>1 DEF SoundFor, IsHit, StampOf
<1> HIDE DEF new
<1>a. TypeOK'
  BY <1>1, <1>2 DEF IInv, TypeOK, Phase
<1>b. RunShape'
  BY <1>1, <1>2 DEF IInv, TypeOK, RunShape
<1>c. SavesOwnPaths'
  BY <1>1, <1>2 DEF IInv, TypeOK, RunShape, SavesOwnPaths, Linted
<1>d. StampsUsed'
  BY <1>1, <1>2 DEF IInv, TypeOK, StampsUsed
<1>e. ReadsStayCurrent'
  <2> SUFFICES ASSUME NEW q \in Run, NEW f \in Path,
                      f \in todo[q], Cacheable(q, f), disk'[f] # None,
                      disk'[f].stamp \notin suspect'[f]
               PROVE  answer[q][f] = Lint(f, disk'[f].content, task[q].setting)
    BY <1>2 DEF ReadsStayCurrent, Cacheable
  <2>1. f # p
    BY <1>1, <1>4 DEF Exposed
  <2> QED BY <1>3, <2>1 DEF IInv, ReadsStayCurrent
<1>f. NothingSuspect'
  BY <1>1, <1>2 DEF IInv, TypeOK, NothingSuspect
<1>g. StoreIsSound'
  <2> SUFFICES ASSUME store \notin {None, Torn}
               PROVE  SoundFor(store.entries, store.fingerprint)'
    BY <1>2 DEF StoreIsSound
  <2>1. store.entries \in EntryMap
    BY DEF IInv, TypeOK, Doc
  <2>2. \A f \in Path : store.entries[f] # None => store.entries[f].stamp \in used[f]
    BY DEF IInv, StampsUsed
  <2>3. SoundFor(store.entries, store.fingerprint)
    BY DEF IInv, StoreIsSound
  <2> QED BY <1>2, <1>5, <2>1, <2>2, <2>3 DEF SoundFor, IsHit, StampOf
<1>h. MemoryIsSound'
  <2> SUFFICES ASSUME NEW q \in Run, pc[q] # "idle"
               PROVE  /\ SoundFor(loaded[q], KeyOf[task[q].setting])'
                      /\ SoundFor(fresh[q], KeyOf[task[q].setting])'
    BY <1>2 DEF MemoryIsSound
  <2>1. /\ loaded[q] \in EntryMap /\ fresh[q] \in EntryMap
        /\ \A f \in Path : loaded[q][f] # None => loaded[q][f].stamp \in used[f]
        /\ \A f \in Path : fresh[q][f] # None => fresh[q][f].stamp \in used[f]
    BY DEF IInv, TypeOK, StampsUsed
  <2>2. /\ SoundFor(loaded[q], KeyOf[task[q].setting])
        /\ SoundFor(fresh[q], KeyOf[task[q].setting])
    BY DEF IInv, MemoryIsSound
  <2> DEFINE k == KeyOf[task[q].setting]
  <2>3. SoundFor(loaded[q], k)'
    BY <1>2, <1>5, <2>1, <2>2, SMTT(30) DEF SoundFor, IsHit, StampOf
  <2>4. SoundFor(fresh[q], k)'
    BY <1>2, <1>5, <2>1, <2>2 DEF SoundFor, IsHit, StampOf
  <2> QED BY <2>3, <2>4
<1> QED BY <1>a, <1>b, <1>c, <1>d, <1>e, <1>f, <1>g, <1>h DEF IInv

LEMMA DeleteInv ==
  ASSUME IInv, NEW p \in Path, Delete(p)
  PROVE  IInv'
<1>1. /\ disk' = [disk EXCEPT ![p] = None]
      /\ UNCHANGED <<store, pc, task, loaded, missed, answer, todo, fresh, keep, report,
                     used, suspect>>
  BY DEF Delete, runVars
<1>2. \A f \in Path : disk'[f] = None \/ disk'[f] = disk[f]
  BY <1>1 DEF IInv, TypeOK
<1>a. TypeOK'
  BY <1>1, <1>2 DEF IInv, TypeOK, Phase
<1>b. RunShape'
  BY <1>1, <1>2 DEF IInv, TypeOK, RunShape
<1>c. SavesOwnPaths'
  BY <1>1, <1>2 DEF IInv, TypeOK, RunShape, SavesOwnPaths, Linted
<1>d. StampsUsed'
  BY <1>1, <1>2 DEF IInv, TypeOK, StampsUsed
<1>e. ReadsStayCurrent'
  BY <1>1, <1>2 DEF IInv, TypeOK, RunShape, ReadsStayCurrent, Cacheable
<1>f. NothingSuspect'
  BY <1>1, <1>2 DEF IInv, TypeOK, NothingSuspect
<1>g. StoreIsSound'
  BY <1>1, <1>2 DEF IInv, TypeOK, StoreIsSound, SoundFor, IsHit, StampOf, HitAnswer
<1>h. MemoryIsSound'
  BY <1>1, <1>2 DEF IInv, TypeOK, RunShape, MemoryIsSound, SoundFor, IsHit, StampOf, HitAnswer
<1> QED BY <1>a, <1>b, <1>c, <1>d, <1>e, <1>f, <1>g, <1>h DEF IInv

LEMMA CleanInv ==
  ASSUME IInv, Clean
  PROVE  IInv'
<1>1. /\ store' = None
      /\ pc' = [r \in Run |-> IF pc[r] = "saving" THEN "unlinked" ELSE pc[r]]
      /\ UNCHANGED <<disk, used, suspect, task, loaded, missed, answer, todo, fresh, keep,
                     report>>
  BY DEF Clean, treeVars
<1>a. TypeOK'
  BY <1>1 DEF IInv, TypeOK, Phase
<1>b. RunShape'
  BY <1>1 DEF IInv, TypeOK, RunShape
<1>c. SavesOwnPaths'
  BY <1>1 DEF IInv, TypeOK, RunShape, SavesOwnPaths, Linted
<1>d. StampsUsed'
  BY <1>1 DEF IInv, TypeOK, StampsUsed
<1>e. ReadsStayCurrent'
  BY <1>1 DEF IInv, TypeOK, RunShape, ReadsStayCurrent, Cacheable
<1>f. NothingSuspect'
  BY <1>1 DEF IInv, TypeOK, NothingSuspect
<1>g. StoreIsSound'
  BY <1>1 DEF IInv, TypeOK, StoreIsSound, SoundFor, IsHit, StampOf, HitAnswer
<1>h. MemoryIsSound'
  BY <1>1 DEF IInv, TypeOK, RunShape, MemoryIsSound, SoundFor, IsHit, StampOf, HitAnswer
<1> QED BY <1>a, <1>b, <1>c, <1>d, <1>e, <1>f, <1>g, <1>h DEF IInv

-----------------------------------------------------------------------------
(* The theorems.                                                           *)

LEMMA NextInv == IInv /\ [Next]_vars => IInv'
<1> SUFFICES ASSUME IInv, [Next]_vars PROVE IInv'
  OBVIOUS
<1>1. CASE UNCHANGED vars
  BY <1>1 DEF vars, IInv, TypeOK, RunShape, SavesOwnPaths, StampsUsed, ReadsStayCurrent,
     NothingSuspect, StoreIsSound, MemoryIsSound, SoundFor, IsHit, StampOf, Cacheable
<1>2. CASE EnvStep
  BY <1>2, EditInv, DeleteInv, CleanInv DEF EnvStep
<1>3. ASSUME NEW r \in Run, RunStep(r) PROVE IInv'
  BY <1>3, StartInv, HitInv, MissInv, ReadAndCheckInv, CollectInv, WriteBackInv,
     OpenStoreInv, ClosingInv, SpillInv, FlushInv, ReportInv, LeaveInv DEF RunStep
<1> QED BY <1>1, <1>2, <1>3 DEF Next

\* IInv holds in every reachable state, for any number of files, settings and
\* processes and for every behaviour of the editors (runner::run and cache.rs).
THEOREM InductiveInvariant == Spec => []IInv
BY InitInv, NextInv, PTL DEF Spec

\* Every variable keeps its type.
THEOREM TypeCorrect == Spec => []TypeOK
<1>1. IInv => TypeOK
  BY DEF IInv
<1> QED BY <1>1, InductiveInvariant, PTL

\* The cache file is never wrong about a file whose present stamp was not
\* given by a racing or stamp-reusing write (cache.rs: save, insert, load).
THEOREM StoreSoundness == Spec => []StoreIsSound
<1>1. IInv => StoreIsSound
  BY DEF IInv
<1> QED BY <1>1, InductiveInvariant, PTL

\* Nor is what a running process has loaded or recorded (cache.rs: get, insert).
THEOREM MemorySoundness == Spec => []MemoryIsSound
<1>1. IInv => MemoryIsSound
  BY DEF IInv
<1> QED BY <1>1, InductiveInvariant, PTL

LEMMA PruneStep ==
  ASSUME IInv, [Next]_vars, NEW r \in Run, pc[r] = "saving", pc'[r] = "closing",
         store' \notin {None, Torn}, NEW p \in Path, store'.entries[p] # None
  PROVE  p \in Linted(task[r], answer[r]) \ Notebook
<1>1. Flush(r)
  <2>1. ASSUME NEW q \in Run, RunStep(q) PROVE Flush(r)
    <3>1. q = r
      BY <2>1 DEF IInv, TypeOK, RunStep, Start, Hit, Miss, ReadAndCheck, Collect, WriteBack,
         OpenStore, CannotOpenStore, Spill, Flush, FlushUnlinked, Report, Leave, runVars
    <3> QED BY <2>1, <3>1 DEF IInv, TypeOK, RunStep, Start, Hit, Pending, Miss, ReadAndCheck,
         Collect, WriteBack, OpenStore, CannotOpenStore, Spill, FlushUnlinked, Report, Leave,
         runVars
  <2>2. ~EnvStep
    BY DEF IInv, TypeOK, EnvStep, Edit, Delete, Clean, runVars
  <2>3. ~UNCHANGED vars
    BY DEF vars
  <2> QED BY <2>1, <2>2, <2>3 DEF Next
<1> DEFINE k == KeyOf[task[r].setting]
           doc == SavedDoc(k, fresh[r], keep[r], loaded[r])
<1>2. store' = doc
  BY <1>1 DEF Flush
<1>3. doc.entries = SavedEntries(fresh[r], keep[r], loaded[r])
  BY DEF SavedDoc
<1>4. fresh[r][p] # None \/ p \in keep[r]
  BY <1>2, <1>3 DEF SavedEntries
<1> QED BY <1>4 DEF IInv, SavesOwnPaths

\* A save forgets every path its run did not lint (cache.rs: save).
THEOREM Pruning == Spec => SavePrunes
<1>1. IInv /\ [Next]_vars =>
        [\A r \in Run :
           (pc[r] = "saving" /\ pc'[r] = "closing" /\ store' \notin {None, Torn})
           => \A p \in Path : store'.entries[p] # None =>
                p \in Linted(task[r], answer[r]) \ Notebook]_vars
  BY PruneStep
<1> QED BY <1>1, InductiveInvariant, PTL DEF Spec, SavePrunes

-----------------------------------------------------------------------------
(* LintRun implements Linter.                                              *)

\* The moment a hit answers, it answers as a read of the file would.
LEMMA HitIsCurrent ==
  ASSUME IInv, ~EditsRace, ~StampsCollide, NEW r \in Run, NEW p \in Path, Hit(r, p)
  PROVE  HitAnswer(loaded[r], p) = Lint(p, disk[p].content, task[r].setting)
<1>1. pc[r] # "idle" /\ IsHit(loaded[r], disk, p)
  BY DEF Hit, Pending, ServedFromCache
<1>2. task[r].setting \in Setting
  BY <1>1 DEF IInv, TypeOK, RunShape, Task
<1>3. suspect[p] = {}
  BY DEF IInv, NothingSuspect
<1> QED BY <1>1, <1>2, <1>3 DEF IInv, MemoryIsSound, SoundFor

LEMMA InitRefines == Init => Promise!Init
<1> SUFFICES ASSUME Init PROVE Promise!Init
  OBVIOUS
<1>1. \A p \in Path : (IF disk[p] = None THEN None ELSE disk[p].content) \in Content \cup {None}
  BY DEF Init, File
<1> QED BY <1>1 DEF Init, Promise!Init, NoAnswers, Promise!NoAnswers

LEMMA StepRefines ==
  ASSUME IInv, ~EditsRace, ~StampsCollide, [Next]_vars
  PROVE  [Promise!Next]_(Promise!lvars)
<1> DEFINE src == [p \in Path |-> IF disk[p] = None THEN None ELSE disk[p].content]
<1>1. ASSUME NEW p \in Path, NEW c \in Content, NEW st \in Stamp, Edit(p, c, st)
      PROVE  Promise!Change(p)
  <2>1. src' = [src EXCEPT ![p] = c]
    <3> DEFINE new == [content |-> c, stamp |-> st]
    <3>1. new # None /\ new.content = c
      <4>1. new \in File
        BY DEF File
      <4> QED BY <4>1, CacheSentinels
    <3>2. disk' = [disk EXCEPT ![p] = new] /\ DOMAIN disk = Path
      BY <1>1 DEF Edit, IInv, TypeOK
    <3> HIDE DEF new
    <3> QED BY <3>1, <3>2
  <2>2. UNCHANGED <<task, answer, report>>
    BY <1>1 DEF Edit, runVars
  <2> QED BY <2>1, <2>2 DEF Promise!Change
<1>2. ASSUME NEW p \in Path, Delete(p)
      PROVE  Promise!Change(p)
  <2>1. src' = [src EXCEPT ![p] = None]
    BY <1>2 DEF Delete, IInv, TypeOK
  <2>2. UNCHANGED <<task, answer, report>>
    BY <1>2 DEF Delete, runVars
  <2> QED BY <2>1, <2>2 DEF Promise!Change
<1>3. ASSUME NEW r \in Run, NEW s \in Setting, NEW inv \in Invocation,
             NEW ps \in SUBSET Path, Start(r, s, inv, ps)
      PROVE  \E t \in Task : Promise!Begin(r, t)
  <2> DEFINE t == [setting |-> s, paths |-> ps, hide |-> inv.hide,
                   gate |-> inv.gate, no_cache |-> inv.no_cache]
  <2>1. inv \in [hide: SUBSET Rule, gate: SUBSET Rule, no_cache: BOOLEAN]
    BY DataAssumption
  <2>2. t \in Task /\ t.paths = ps
    BY <2>1 DEF Task
  <2>3. task[r] = None /\ task' = [task EXCEPT ![r] = t]
    BY <1>3 DEF Start, IInv, RunShape
  <2>4. \A p \in ps : disk[p] # None /\ disk[p].content # None
    BY <1>3, SentinelAssumption DEF Start, IInv, TypeOK, File
  <2>5. UNCHANGED <<disk, answer, report>>
    BY <1>3 DEF Start
  <2> HIDE DEF t
  <2>6. Promise!Begin(r, t)
    BY <2>2, <2>3, <2>4, <2>5 DEF Promise!Begin
  <2> QED BY <2>2, <2>6
<1>4. ASSUME NEW r \in Run, NEW p \in Path, Hit(r, p)
      PROVE  Promise!AnswerFor(r, p)
  <2>1. disk[p] # None
    BY <1>4 DEF Hit, ServedFromCache, IsHit
  <2>2. HitAnswer(loaded[r], p) = Promise!Lint(p, src[p], task[r].setting)
    BY <1>4, <2>1, HitIsCurrent DEF Lint, Promise!Lint
  <2>3. task[r] # None
    BY <1>4 DEF Hit, Pending, IInv, RunShape
  <2> QED BY <1>4, <2>2, <2>3 DEF Hit, Pending, Promise!AnswerFor
<1>5. ASSUME NEW r \in Run, NEW p \in Path, ReadAndCheck(r, p)
      PROVE  Promise!AnswerFor(r, p)
  <2>1. task[r] # None /\ p \in task[r].paths
    BY <1>5 DEF ReadAndCheck, IInv, RunShape
  <2> QED BY <1>5, <2>1 DEF ReadAndCheck, Promise!AnswerFor, Lint, Promise!Lint
<1>6. ASSUME NEW r \in Run, Report(r)
      PROVE  Promise!Publish(r)
  <2>1. /\ task[r] # None
        /\ report[r] = None
        /\ \A p \in task[r].paths : answer[r][p] # None
    BY <1>6 DEF Report, IInv, RunShape
  <2>2. ReportOf(task[r], answer[r]) = Promise!ReportOf(task[r], answer[r])
    BY DEF ReportOf, Promise!ReportOf, Shown, Promise!Shown, JobShown, Promise!JobShown,
       ExitCode, Promise!ExitCode, Linted, Promise!Linted, Job004Fires, Promise!Job004Fires
  <2> QED BY <1>6, <2>1, <2>2 DEF Report, Promise!Publish
<1>7. ASSUME NEW r \in Run, Leave(r)
      PROVE  Promise!End(r)
  BY <1>7 DEF Leave, Promise!End, IInv, RunShape, NoAnswers, Promise!NoAnswers
<1>8. ASSUME NEW r \in Run, NEW p \in Path, Miss(r, p) \/ WriteBack(r, p)
      PROVE  UNCHANGED Promise!lvars
  BY <1>8 DEF Miss, WriteBack, Promise!lvars
<1>9. ASSUME NEW r \in Run, Collect(r) \/ OpenStore(r) \/ CannotOpenStore(r) \/ Spill(r)
                             \/ Flush(r) \/ FlushUnlinked(r)
      PROVE  UNCHANGED Promise!lvars
  BY <1>9 DEF Collect, OpenStore, CannotOpenStore, Spill, Flush, FlushUnlinked, runVars,
     Promise!lvars
<1>10. ASSUME Clean \/ UNCHANGED vars
       PROVE  UNCHANGED Promise!lvars
  BY <1>10 DEF Clean, treeVars, vars, Promise!lvars
<1>11. CASE EnvStep
  BY <1>1, <1>2, <1>10, <1>11 DEF EnvStep, Promise!Next
<1>12. ASSUME NEW r \in Run, RunStep(r)
       PROVE  [Promise!Next]_(Promise!lvars)
  BY <1>3, <1>4, <1>5, <1>6, <1>7, <1>8, <1>9, <1>12 DEF RunStep, Promise!Next, Task, Promise!Task
<1> QED BY <1>10, <1>11, <1>12 DEF Next

\* With no racing and no stamp-reusing writes, runs with the cache behave as
\* runs without: every answer is what linting the file at that moment gives
\* (runner::run over cache.rs against module Linter).
THEOREM CacheIsInvisible == ~EditsRace /\ ~StampsCollide => (Spec => ImplementsLinter)
<1> SUFFICES ASSUME ~EditsRace, ~StampsCollide PROVE Spec => ImplementsLinter
  OBVIOUS
<1>1. IInv /\ [Next]_vars => [Promise!Next]_(Promise!lvars)
  BY StepRefines
<1> QED BY <1>1, InitRefines, InductiveInvariant, PTL DEF Spec, ImplementsLinter, Promise!Spec
=============================================================================
