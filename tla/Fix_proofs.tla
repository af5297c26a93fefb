---------------------------- MODULE Fix_proofs -----------------------------
(***************************************************************************)
(* The edits of fix::apply are disjoint, lie on characters of the original *)
(* and leave everything outside of them as it was, for every text and      *)
(* every list of edits; and `xray fix` drops none of the edits of its own  *)
(* rules, leaves them nothing to edit, keeps what a plain file has besides *)
(* and leaves valid Python where the calls are plain.                      *)
(***************************************************************************)
EXTENDS FixApply, FixFile, SequenceTheorems, FiniteSetTheorems, WellFoundedInduction, TLAPS

\* What replacing a range leaves below its start (String::replace_range).
LEMMA ReplaceRangeProps ==
  ASSUME NEW text \in Seq(Byte), NEW f \in Fix,
         f.start_byte <= f.end_byte, f.end_byte <= Len(text)
  PROVE  /\ ReplaceRange(text, f) \in Seq(Byte)
         /\ f.start_byte <= Len(ReplaceRange(text, f))
         /\ \A i \in 1..f.start_byte : ReplaceRange(text, f)[i] = text[i]
<1> DEFINE head == SubSeq(text, 1, f.start_byte)
           tail == SubSeq(text, f.end_byte + 1, Len(text))
<1>1. /\ f.start_byte \in Nat
      /\ f.end_byte \in Nat
      /\ f.replacement \in Seq(Byte)
  BY DEF Fix
<1>2. /\ head \in Seq(Byte)
      /\ Len(head) = f.start_byte
      /\ \A i \in 1..f.start_byte : head[i] = text[i]
  BY <1>1
<1>3. tail \in Seq(Byte)
  BY <1>1
<1> HIDE DEF head, tail
<1>4. ReplaceRange(text, f) = (head \o f.replacement) \o tail
  BY DEF ReplaceRange, head, tail
<1> DEFINE mid == head \o f.replacement
<1>6. /\ mid \in Seq(Byte)
      /\ Len(mid) >= f.start_byte
      /\ \A i \in 1..f.start_byte : mid[i] = text[i]
  <2> DEFINE rep == f.replacement
  <2>1. rep \in Seq(Byte)
    BY <1>1
  <2> HIDE DEF rep
  <2>2. mid = head \o rep
    BY DEF rep
  <2> HIDE DEF mid
  <2>3. /\ mid \in Seq(Byte)
        /\ Len(mid) = Len(head) + Len(rep)
        /\ \A i \in 1..Len(head) : mid[i] = head[i]
    <3>1. head \in Seq(Byte)
      BY <1>2
    <3>2. /\ head \o rep \in Seq(Byte)
          /\ Len(head \o rep) = Len(head) + Len(rep)
          /\ \A i \in 1..(Len(head) + Len(rep)) :
               (head \o rep)[i] = IF i <= Len(head) THEN head[i] ELSE rep[i - Len(head)]
      BY <2>1, <3>1, ConcatProperties, Zenon
    <3>3. Len(head) \in Nat /\ Len(rep) \in Nat
      BY <2>1, <3>1
    <3>4. \A i \in 1..Len(head) : i \in 1..(Len(head) + Len(rep)) /\ i <= Len(head)
      BY <3>3
    <3>5. \A i \in 1..Len(head) : (head \o rep)[i] = head[i]
      BY <3>2, <3>4, Zenon
    <3> QED BY <2>2, <3>2, <3>5, Zenon
  <2> QED BY <1>1, <1>2, <2>1, <2>3
<1> HIDE DEF mid
<1>7. ReplaceRange(text, f) = mid \o tail
  BY <1>4 DEF mid
<1> QED BY <1>1, <1>3, <1>6, <1>7

LEMMA EditTyped ==
  ASSUME TypeOK, NEW k \in 1..Len(fixes)
  PROVE  EditAt(k).start_byte \in Nat /\ EditAt(k).end_byte \in Nat
<1>1. fixes \in Seq(Fix) /\ queue[k] \in 1..Len(fixes)
  BY InputAssumption DEF TypeOK
<1>2. EditAt(k) \in Fix
  BY <1>1 DEF EditAt
<1> QED BY <1>2 DEF Fix

\* A boundary of the edited text at or below the floor is one of the original.
LEMMA BoundaryBelowFloor ==
  ASSUME IInv, NEW at \in Nat, at <= floor, at <= Len(out), IsCharBoundary(out, at)
  PROVE  at <= Len(source) /\ IsCharBoundary(source, at)
<1>1. CASE taken = {}
  BY <1>1 DEF IInv, FloorIsMet
<1>2. CASE taken # {}
  <2>1. floor <= Len(source) /\ floor <= Len(out) /\ IsCharBoundary(source, floor)
    BY <1>2 DEF IInv, FloorIsMet
  <2>2. floor \in Nat /\ Len(source) \in Nat /\ Len(out) \in Nat
    BY InputAssumption DEF IInv, TypeOK
  <2>3. CASE at = floor
    BY <2>1, <2>3
  <2>4. CASE at < floor
    <3>1. at + 1 \in 1..Len(source) /\ at + 1 <= floor
      BY <2>1, <2>2, <2>4
    <3>2. out[at + 1] = source[at + 1]
      BY <3>1 DEF IInv, PrefixUntouched
    <3> QED BY <2>1, <2>2, <2>4, <3>2 DEF IsCharBoundary
  <2> QED BY <2>2, <2>3, <2>4
<1> QED BY <1>1, <1>2

LEMMA InitInv == Init => IInv
<1> SUFFICES ASSUME Init PROVE IInv
  OBVIOUS
<1>1. source \in Seq(Byte) /\ Len(source) \in Nat /\ Len(fixes) \in Nat
  BY InputAssumption DEF Init
<1>2. TypeOK
  BY <1>1, UsizeAssumption DEF Init, TypeOK, Sorted
<1>3. PrefixUntouched /\ EditsDisjoint /\ EditsOnCharBoundaries /\ FloorIsMet
  BY <1>1 DEF Init, PrefixUntouched, EditsDisjoint, EditsOnCharBoundaries, FloorIsMet
<1> QED BY <1>2, <1>3 DEF IInv

\* One turn that applies its edit (the loop body of fix::apply).
LEMMA TakeInv == ASSUME IInv, Take PROVE IInv'
<1> DEFINE f == EditAt(next)
<1>1. /\ source \in Seq(Byte) /\ Len(source) \in Nat
      /\ out \in Seq(Byte) /\ Len(out) \in Nat
      /\ Len(fixes) \in Nat /\ next \in 1..Len(fixes) /\ next \in Nat
      /\ floor \in Nat
      /\ taken \subseteq 1..(next - 1)
  BY InputAssumption DEF IInv, TypeOK, Take
<1>2. f \in Fix
  BY <1>1, InputAssumption DEF IInv, TypeOK, EditAt
<1>3. f.start_byte \in Nat /\ f.end_byte \in Nat
  BY <1>2 DEF Fix
<1>4. /\ f.end_byte <= floor /\ f.start_byte <= f.end_byte /\ f.end_byte <= Len(out)
      /\ IsCharBoundary(out, f.start_byte) /\ IsCharBoundary(out, f.end_byte)
  BY DEF Take, Accepts, InBounds, OnBoundaries
<1>5. /\ out' = ReplaceRange(out, f)
      /\ floor' = f.start_byte
      /\ taken' = taken \cup {next}
      /\ next' = next + 1
      /\ UNCHANGED <<source, fixes, queue>>
  BY DEF Take
<1>6. /\ f.end_byte <= Len(source)
      /\ IsCharBoundary(source, f.start_byte)
      /\ IsCharBoundary(source, f.end_byte)
  BY <1>3, <1>4, <1>1, BoundaryBelowFloor
<1>7. /\ out' \in Seq(Byte)
      /\ f.start_byte <= Len(out')
      /\ \A i \in 1..f.start_byte : out'[i] = out[i]
  BY <1>1, <1>2, <1>4, <1>5, ReplaceRangeProps
<1>8. \A k : EditAt(k)' = EditAt(k)
  BY <1>5 DEF EditAt
<1>9. f = EditAt(next)
  OBVIOUS
<1> HIDE DEF f
<1>10. \A k \in taken : f.end_byte <= EditAt(k).start_byte
  <2>1. \A k \in taken : EditAt(k).start_byte \in Nat
    BY <1>1, EditTyped DEF IInv
  <2>2. \A k \in taken : floor <= EditAt(k).start_byte
    BY DEF IInv, FloorIsMet
  <2> QED BY <2>1, <2>2, <1>1, <1>3, <1>4
<1>11. TypeOK'
  BY <1>1, <1>3, <1>5, <1>7 DEF IInv, TypeOK
<1>12. PrefixUntouched'
  <2> SUFFICES ASSUME NEW i \in 1..Len(source), i <= f.start_byte
               PROVE  i <= Len(out') /\ out'[i] = source[i]
    BY <1>5 DEF PrefixUntouched
  <2>1. i <= floor /\ i \in 1..f.start_byte
    BY <1>1, <1>3, <1>4
  <2>2. out[i] = source[i]
    BY <2>1 DEF IInv, PrefixUntouched
  <2>3. i <= Len(out')
    BY <1>3, <1>7, <1>1, <2>1
  <2> QED BY <1>7, <2>1, <2>2, <2>3
<1>13. EditsDisjoint'
  <2> SUFFICES ASSUME NEW j \in taken \cup {next}, NEW k \in taken \cup {next}, j < k
               PROVE  EditAt(k).end_byte <= EditAt(j).start_byte
    BY <1>5, <1>8 DEF EditsDisjoint
  <2>1. j \in taken
    BY <1>1
  <2>2. CASE k \in taken
    BY <2>1, <2>2 DEF IInv, EditsDisjoint
  <2>3. CASE k = next
    BY <2>1, <2>3, <1>9, <1>10
  <2> QED BY <2>2, <2>3
<1>14. EditsOnCharBoundaries'
  BY <1>5, <1>6, <1>8, <1>9 DEF IInv, EditsOnCharBoundaries
<1>15. FloorIsMet'
  <2>1. \A k \in taken \cup {next} : f.start_byte <= EditAt(k).start_byte
    <3>1. \A k \in taken : EditAt(k).start_byte \in Nat
      BY <1>1, EditTyped DEF IInv
    <3> QED BY <1>3, <1>4, <1>9, <1>10, <3>1
  <2>2. f.start_byte <= Len(source)
    BY <1>1, <1>3, <1>4, <1>6
  <2> QED BY <1>5, <1>6, <1>7, <1>8, <2>1, <2>2 DEF FloorIsMet
<1> QED BY <1>11, <1>12, <1>13, <1>14, <1>15 DEF IInv

\* One turn that passes its edit over.
LEMMA SkipInv == ASSUME IInv, Skip PROVE IInv'
<1>1. /\ Len(fixes) \in Nat /\ next \in 1..Len(fixes) /\ next' = next + 1
      /\ UNCHANGED <<source, fixes, queue, out, floor, taken>>
  BY InputAssumption DEF IInv, TypeOK, Skip
<1>2. TypeOK'
  BY <1>1 DEF IInv, TypeOK
<1>3. \A k : EditAt(k)' = EditAt(k)
  BY <1>1 DEF EditAt
<1>4. PrefixUntouched' /\ EditsDisjoint' /\ EditsOnCharBoundaries' /\ FloorIsMet'
  BY <1>1, <1>3 DEF IInv, PrefixUntouched, EditsDisjoint, EditsOnCharBoundaries, FloorIsMet
<1> QED BY <1>2, <1>4 DEF IInv

LEMMA StutterInv == ASSUME IInv, UNCHANGED vars PROVE IInv'
  BY DEF vars, IInv, TypeOK, PrefixUntouched, EditsDisjoint, EditsOnCharBoundaries,
     FloorIsMet, EditAt

\* The loop of fix::apply keeps IInv, for every text and every list of edits.
THEOREM ApplyInvariant == Spec => []IInv
<1>1. IInv /\ [Next]_vars => IInv'
  <2> SUFFICES ASSUME IInv, [Next]_vars PROVE IInv'
    OBVIOUS
  <2>1. CASE Take
    BY <2>1, TakeInv
  <2>2. CASE Skip
    BY <2>2, SkipInv
  <2>3. CASE UNCHANGED vars
    BY <2>3, StutterInv
  <2> QED BY <2>1, <2>2, <2>3 DEF Next
<1> QED BY <1>1, InitInv, PTL DEF Spec

\* An applied edit begins and ends at a character of the text it was given.
THEOREM EditsKeepCharacters == Spec => []EditsOnCharBoundaries
<1>1. IInv => EditsOnCharBoundaries
  BY DEF IInv
<1> QED BY <1>1, ApplyInvariant, PTL

-----------------------------------------------------------------------------
(* No edit is dropped in vain.                                             *)

\* After a replacement its start is still a boundary (String::replace_range).
LEMMA StartIsBoundary ==
  ASSUME NEW text \in Seq(Byte), NEW f \in Fix,
         f.start_byte <= f.end_byte, f.end_byte <= Len(text),
         IsCharBoundary(text, f.end_byte), StartsCharacter(f.replacement)
  PROVE  IsCharBoundary(ReplaceRange(text, f), f.start_byte)
<1> DEFINE at == f.start_byte
           to == f.end_byte
           rep == f.replacement
           head == SubSeq(text, 1, at)
           tail == SubSeq(text, to + 1, Len(text))
<1>1. at \in Nat /\ to \in Nat /\ rep \in Seq(Byte) /\ Len(text) \in Nat
  BY DEF Fix
<1>2. at <= to /\ to <= Len(text) /\ IsCharBoundary(text, to) /\ StartsCharacter(rep)
  OBVIOUS
<1>3. ReplaceRange(text, f) = (head \o rep) \o tail
  BY DEF ReplaceRange
<1> HIDE DEF at, to, rep
<1>4. head \in Seq(Byte) /\ Len(head) = at
  BY <1>1, <1>2
<1>5. /\ tail \in Seq(Byte)
      /\ Len(tail) = Len(text) - to
      /\ to < Len(text) => tail[1] = text[to + 1]
  BY <1>1, <1>2
<1> HIDE DEF head, tail
<1>6. CASE rep = <<>>
  <2>1. head \o rep = head
    BY <1>4, <1>6
  <2> DEFINE new == head \o tail
  <2>2. /\ Len(new) = Len(head) + Len(tail)
        /\ \A i \in 1..(Len(head) + Len(tail)) :
             new[i] = IF i <= Len(head) THEN head[i] ELSE tail[i - Len(head)]
    BY <1>4, <1>5, ConcatProperties, Zenon
  <2> HIDE DEF new
  <2>3. IsCharBoundary(new, at)
    <3>1. CASE to = Len(text)
      BY <1>1, <1>4, <1>5, <2>2, <3>1 DEF IsCharBoundary
    <3>2. CASE to < Len(text)
      <4>1. to = 0 \/ text[to + 1] \notin Continuation
        BY <1>1, <1>2, <3>2 DEF IsCharBoundary
      <4>2. new[at + 1] = tail[1]
        <5>1. /\ at + 1 \in 1..(Len(head) + Len(tail))
              /\ ~(at + 1 <= Len(head)) /\ (at + 1) - Len(head) = 1
          BY <1>1, <1>2, <1>4, <1>5, <3>2
        <5> QED BY <2>2, <5>1
      <4>3. at < Len(new)
        BY <1>1, <1>2, <1>4, <1>5, <2>2, <3>2
      <4>4. at = 0 \/ new[at + 1] \notin Continuation
        BY <1>1, <1>2, <1>5, <3>2, <4>1, <4>2
      <4> QED BY <4>3, <4>4 DEF IsCharBoundary
    <3> QED BY <1>1, <1>2, <3>1, <3>2
  <2> QED BY <1>3, <2>1, <2>3 DEF new, at
<1>7. CASE rep # <<>>
  <2>1. Len(rep) \in Nat /\ Len(rep) > 0
    BY <1>1, <1>7
  <2> DEFINE mid == head \o rep
  <2>2. /\ mid \in Seq(Byte)
        /\ Len(mid) = Len(head) + Len(rep)
        /\ \A i \in 1..(Len(head) + Len(rep)) :
             mid[i] = IF i <= Len(head) THEN head[i] ELSE rep[i - Len(head)]
    BY <1>1, <1>4, ConcatProperties, Zenon
  <2> HIDE DEF mid
  <2>3. mid[at + 1] = rep[1] /\ at + 1 \in 1..Len(mid)
    BY <1>1, <1>4, <2>1, <2>2
  <2> DEFINE new == mid \o tail
  <2>4. /\ Len(new) = Len(mid) + Len(tail)
        /\ \A i \in 1..(Len(mid) + Len(tail)) :
             new[i] = IF i <= Len(mid) THEN mid[i] ELSE tail[i - Len(mid)]
    <3>1. mid \in Seq(Byte)
      BY <2>2
    <3>2. tail \in Seq(Byte)
      BY <1>5
    <3> QED BY <3>1, <3>2, ConcatProperties, Zenon
  <2> HIDE DEF new
  <2>5. new[at + 1] = rep[1] /\ at < Len(new)
    <3>1. /\ Len(head) = at /\ at \in Nat /\ Len(rep) \in Nat /\ Len(rep) > 0
          /\ Len(tail) \in Nat /\ Len(mid) = at + Len(rep)
      BY <1>1, <1>2, <1>4, <1>5, <2>1, <2>2
    <3>2. at < Len(new) /\ at + 1 \in 1..(Len(mid) + Len(tail)) /\ at + 1 <= Len(mid)
      BY <3>1, <2>4
    <3>3. new[at + 1] = mid[at + 1]
      BY <3>2, <2>4, Zenon
    <3> QED BY <2>3, <3>2, <3>3
  <2>6. rep[1] \notin Continuation
    BY <1>2, <1>7 DEF StartsCharacter
  <2>7. IsCharBoundary(new, at)
    BY <2>5, <2>6 DEF IsCharBoundary
  <2> QED BY <1>3, <2>7 DEF new, mid, at
<1> QED BY <1>6, <1>7

\* A well placed edit the loop would not accept reaches above the floor, and
\* so overlaps the edit that set it: had it started with that edit and been
\* the longer one, it would have been tried first.
LEMMA RefusedOverlaps ==
  ASSUME SkipIInv, next <= Len(fixes), ~Accepts(out, floor, EditAt(next)),
         WellPlaced(EditAt(next))
  PROVE  \E j \in taken : Overlap(EditAt(j), EditAt(next))
<1> DEFINE f == EditAt(next)
<1>1. /\ source \in Seq(Byte) /\ Len(source) \in Nat /\ Len(source) <= MaxUsize
      /\ Len(out) \in Nat
      /\ Len(fixes) \in Nat /\ next \in 1..Len(fixes)
      /\ floor \in Nat /\ MaxUsize \in Nat
      /\ taken \subseteq 1..(next - 1)
  BY InputAssumption, UsizeAssumption DEF SkipIInv, IInv, TypeOK
<1>2. f.start_byte \in Nat /\ f.end_byte \in Nat
  BY <1>1, EditTyped DEF SkipIInv, IInv
<1>3. /\ f.start_byte <= f.end_byte /\ f.end_byte <= Len(source)
      /\ IsCharBoundary(source, f.start_byte) /\ IsCharBoundary(source, f.end_byte)
  BY DEF WellPlaced
<1>4. f = EditAt(next) /\ ~Accepts(out, floor, f)
  OBVIOUS
<1> HIDE DEF f
<1>5. taken # {}
  <2> SUFFICES ASSUME taken = {} PROVE FALSE
    OBVIOUS
  <2>1. out = source /\ floor = MaxUsize
    BY DEF SkipIInv, IInv, FloorIsMet
  <2> QED BY <1>1, <1>2, <1>3, <1>4, <2>1 DEF Accepts, InBounds, OnBoundaries
<1>6. /\ floor <= Len(source) /\ floor <= Len(out)
      /\ IsCharBoundary(out, floor)
  BY <1>5 DEF SkipIInv, IInv, FloorIsMet
<1>7. ~(f.end_byte <= floor)
  <2> SUFFICES ASSUME f.end_byte <= floor PROVE FALSE
    OBVIOUS
  <2>1. ASSUME NEW at \in Nat, at <= floor, IsCharBoundary(source, at)
        PROVE  IsCharBoundary(out, at)
    <3>1. CASE at = floor
      BY <1>6, <3>1
    <3>2. CASE at < floor
      <4>1. at + 1 \in 1..Len(source) /\ at + 1 <= floor /\ at < Len(out)
        BY <1>1, <1>6, <3>2
      <4>2. out[at + 1] = source[at + 1]
        BY <4>1 DEF SkipIInv, IInv, PrefixUntouched
      <4> QED BY <1>1, <2>1, <4>1, <4>2 DEF IsCharBoundary
    <3> QED BY <1>1, <2>1, <3>1, <3>2
  <2>2. f.start_byte <= floor /\ f.end_byte <= Len(out)
    BY <1>1, <1>2, <1>3, <1>6
  <2>3. OnBoundaries(out, f)
    BY <1>2, <1>3, <2>1, <2>2 DEF OnBoundaries
  <2> QED BY <1>3, <1>4, <2>2, <2>3 DEF Accepts, InBounds
<1>8. PICK j \in taken : EditAt(j).start_byte = floor
  BY <1>5 DEF SkipIInv
<1>9. j \in 1..Len(fixes) /\ j < next
  BY <1>1, <1>8
<1>10. EditAt(j).end_byte \in Nat /\ floor <= EditAt(j).end_byte
  BY <1>8, <1>9, EditTyped DEF SkipIInv, IInv
<1>11. \/ f.start_byte < floor
       \/ f.start_byte = floor /\ f.end_byte <= EditAt(j).end_byte
  <2>1. Before(fixes, queue[j], queue[next])
    BY <1>1, <1>9 DEF SkipIInv, Sorted
  <2> QED BY <2>1, <1>2, <1>8, <1>10, <1>4 DEF Before, EditAt
<1>12. floor < f.end_byte /\ f.start_byte < EditAt(j).end_byte
  BY <1>1, <1>2, <1>7, <1>10, <1>11
<1> QED BY <1>4, <1>8, <1>12 DEF Overlap

LEMMA SkipInitInv == Init => SkipIInv
  BY InitInv DEF Init, SkipIInv, SkippedOnlyForOverlap

LEMMA SkipStepInv == ASSUME SkipIInv, [Next]_vars PROVE SkipIInv'
<1>1. IInv'
  BY TakeInv, SkipInv, StutterInv DEF SkipIInv, Next
<1>2. /\ Len(fixes) \in Nat /\ next \in Nat /\ taken \subseteq 1..(next - 1)
  BY InputAssumption DEF SkipIInv, IInv, TypeOK
<1>3. CASE Take
  <2>1. /\ next' = next + 1 /\ taken' = taken \cup {next}
        /\ floor' = EditAt(next).start_byte
        /\ out' = ReplaceRange(out, EditAt(next))
        /\ UNCHANGED <<source, fixes, queue>>
    BY <1>3 DEF Take
  <2>2. \A k : EditAt(k)' = EditAt(k)
    BY <2>1 DEF EditAt
  <2>3. /\ EditAt(next).start_byte <= EditAt(next).end_byte
        /\ EditAt(next).end_byte <= Len(out)
        /\ IsCharBoundary(out, EditAt(next).end_byte)
    BY <1>3 DEF Take, Accepts, InBounds, OnBoundaries
  <2>4. /\ fixes \in FixLists /\ fixes \in Seq(Fix) /\ queue[next] \in 1..Len(fixes)
    BY <1>2, <1>3, InputAssumption DEF Take, SkipIInv, IInv, TypeOK
  <2>5. EditAt(next) \in Fix /\ StartsCharacter(EditAt(next).replacement)
    BY <2>4, InputAssumption DEF EditAt
  <2>6. out \in Seq(Byte)
    BY DEF SkipIInv, IInv, TypeOK
  <2>7. IsCharBoundary(out', floor')
    BY <2>1, <2>3, <2>5, <2>6, StartIsBoundary
  <2>8. SkippedOnlyForOverlap'
    <3> SUFFICES ASSUME NEW k \in 1..next, k \notin taken \cup {next}, WellPlaced(EditAt(k))
                 PROVE  \E j \in taken \cup {next} : Overlap(EditAt(j), EditAt(k))
      BY <1>2, <2>1, <2>2 DEF SkippedOnlyForOverlap, WellPlaced
    <3>1. k \in 1..(next - 1) /\ k \notin taken
      BY <1>2
    <3> QED BY <3>1 DEF SkipIInv, SkippedOnlyForOverlap
  <2>9. \A k \in taken' : EditAt(k)'.start_byte <= EditAt(k)'.end_byte
    BY <2>1, <2>2, <2>3 DEF SkipIInv
  <2>10. \E j \in taken' : EditAt(j)'.start_byte = floor'
    BY <2>1, <2>2
  <2> QED BY <1>1, <2>1, <2>7, <2>8, <2>9, <2>10 DEF SkipIInv
<1>4. CASE Skip
  <2>1. /\ next' = next + 1 /\ next <= Len(fixes)
        /\ ~Accepts(out, floor, EditAt(next))
        /\ UNCHANGED <<source, fixes, queue, out, floor, taken>>
    BY <1>4 DEF Skip
  <2>2. \A k : EditAt(k)' = EditAt(k)
    BY <2>1 DEF EditAt
  <2>3. SkippedOnlyForOverlap'
    <3> SUFFICES ASSUME NEW k \in 1..next, k \notin taken, WellPlaced(EditAt(k))
                 PROVE  \E j \in taken : Overlap(EditAt(j), EditAt(k))
      BY <1>2, <2>1, <2>2 DEF SkippedOnlyForOverlap, WellPlaced
    <3>1. CASE k = next
      BY <2>1, <3>1, RefusedOverlaps
    <3>2. CASE k # next
      <4>1. k \in 1..(next - 1)
        BY <1>2, <3>2
      <4> QED BY <4>1 DEF SkipIInv, SkippedOnlyForOverlap
    <3> QED BY <3>1, <3>2
  <2> QED BY <1>1, <2>1, <2>2, <2>3 DEF SkipIInv
<1>5. CASE UNCHANGED vars
  BY <1>1, <1>5 DEF vars, SkipIInv, SkippedOnlyForOverlap, WellPlaced, EditAt
<1> QED BY <1>3, <1>4, <1>5 DEF Next

\* fix::apply passes an edit over only when it cannot be made: whatever else
\* it skips overlaps an edit it made.
THEOREM NothingDroppedInVain == Spec => []SkippedOnlyForOverlap
<1>1. SkipIInv /\ [Next]_vars => SkipIInv'
  BY SkipStepInv
<1>2. SkipIInv => SkippedOnlyForOverlap
  BY DEF SkipIInv
<1> QED BY <1>1, <1>2, SkipInitInv, PTL DEF Spec
-----------------------------------------------------------------------------
(* FlattenSeq, step by step.                                               *)

LEMMA LeastElement ==
  ASSUME NEW T \in SUBSET Nat, T # {}
  PROVE  \E x \in T : \A y \in T : ~(y < x)
<1> DEFINE R == OpToRel(<,Nat)
<1>1. IsWellFoundedOn(R, Nat)
  BY NatLessThanWellFounded
<1>2. \A x, y \in Nat : (<<x, y>> \in R) = (x < y)
  BY DEF OpToRel
<1> HIDE DEF R
<1>3. \E x \in T : \A y \in T : ~ (<<y, x>> \in R)
  BY <1>1, WFMin
<1> QED BY <1>2, <1>3

LEMMA Induction ==
  ASSUME NEW P \in SUBSET Nat, 0 \in P, \A n \in P : n + 1 \in P
  PROVE  P = Nat
<1> SUFFICES ASSUME P # Nat PROVE FALSE
  OBVIOUS
<1>1. PICK x \in Nat \ P : \A y \in Nat \ P : ~(y < x)
  BY LeastElement
<1>2. x # 0 /\ x - 1 \in Nat /\ x - 1 < x
  OBVIOUS
<1>3. x - 1 \in P
  BY <1>1, <1>2
<1>4. (x - 1) + 1 \in P
  BY <1>3
<1> QED BY <1>4

LEMMA BoundedInduction ==
  ASSUME NEW n \in Nat, NEW P, 0 \in P, \A i \in 1..n : i - 1 \in P => i \in P
  PROVE  0..n \subseteq P
<1> DEFINE Q == {i \in Nat : i <= n => i \in P}
<1>1. Q \in SUBSET Nat /\ 0 \in Q
  OBVIOUS
<1>2. ASSUME NEW i \in Q PROVE i + 1 \in Q
  <2>1. CASE i + 1 <= n
    <3>1. i \in P /\ i + 1 \in 1..n /\ (i + 1) - 1 = i
      BY <2>1
    <3>2. i + 1 \in P
      BY <3>1
    <3> QED BY <3>2
  <2>2. CASE ~(i + 1 <= n)
    BY <2>2
  <2> QED BY <2>1, <2>2
<1>3. Q = Nat
  <2> HIDE DEF Q
  <2> QED BY <1>1, <1>2, Induction
<1> QED BY <1>3


\* f[i] is what the first i of the sequences s make together.
Joins(f, s, n, S) ==
  /\ f \in [0..n -> Seq(S)] /\ f[0] = <<>>
  /\ \A i \in 1..n : f[i] = f[i - 1] \o s[i]

LEMMA JoinsExist ==
  ASSUME NEW S, NEW n \in Nat, NEW s \in [1..n -> Seq(S)]
  PROVE  \E f : Joins(f, s, n, S)
<1> DEFINE P == {m \in 0..n : \E f : Joins(f, s, m, S)}
<1>1. 0 \in P
  <2>1. [i \in 0..0 |-> <<>>] \in [0..0 -> Seq(S)] /\ [i \in 0..0 |-> <<>>][0] = <<>>
    OBVIOUS
  <2>2. Joins([i \in 0..0 |-> <<>>], s, 0, S)
    BY <2>1 DEF Joins
  <2> QED BY <2>2
<1>2. ASSUME NEW m \in 1..n, m - 1 \in P PROVE m \in P
  <2>1. PICK f : Joins(f, s, m - 1, S)
    BY <1>2
  <2> DEFINE g == [i \in 0..m |-> IF i = m THEN f[m - 1] \o s[m] ELSE f[i]]
  <2>2. f[m - 1] \in Seq(S) /\ s[m] \in Seq(S)
    BY <2>1 DEF Joins
  <2>3. \A i \in 0..m : i # m => i \in 0..(m - 1) /\ f[i] \in Seq(S)
    BY <2>1 DEF Joins
  <2>4. f[m - 1] \o s[m] \in Seq(S)
    BY <2>2
  <2>5. g \in [0..m -> Seq(S)]
    BY <2>3, <2>4
  <2>6. g[0] = <<>>
    BY <2>1 DEF Joins
  <2>7. ASSUME NEW i \in 1..m PROVE g[i] = g[i - 1] \o s[i]
    <3>1. CASE i = m
      <4>1. m \in 0..m /\ m - 1 \in 0..m /\ m - 1 # m
        OBVIOUS
      <4>2. g[m] = f[m - 1] \o s[m] /\ g[m - 1] = f[m - 1]
        BY <4>1
      <4> QED BY <3>1, <4>2
    <3>2. CASE i # m
      <4>1. i \in 1..(m - 1) /\ g[i] = f[i] /\ g[i - 1] = f[i - 1]
        BY <3>2
      <4> QED BY <4>1, <2>1 DEF Joins
    <3> QED BY <3>1, <3>2
  <2> HIDE DEF g
  <2>8. Joins(g, s, m, S)
    BY <2>5, <2>6, <2>7 DEF Joins
  <2> QED BY <2>8
<1>3. 0..n \subseteq P
  <2> HIDE DEF P
  <2> QED BY <1>1, <1>2, BoundedInduction
<1> QED BY <1>3

\* FlattenSeq joins all of them.
LEMMA FlattenJoins ==
  ASSUME NEW S, NEW n \in Nat, NEW s \in [1..n -> Seq(S)], NEW f, Joins(f, s, n, S)
  PROVE  FlattenSeq(s) = f[n]
<1>0. Len(s) = n
  OBVIOUS
<1>1. CASE n = 0
  <2>1. s = <<>>
    BY <1>1
  <2> QED BY <1>0, <1>1, <2>1 DEF FlattenSeq, Joins
<1>2. CASE n # 0
  <2> DEFINE h == [i \in 1..n |-> f[i]]
  <2>1. \A i \in 1..n : h[i] = IF i = 1 THEN s[i] ELSE h[i - 1] \o s[i]
    <3>0. 1 \in 1..n /\ 1 - 1 = 0
      BY <1>2
    <3>1. f[1] = <<>> \o s[1] /\ s[1] \in Seq(S)
      BY <3>0 DEF Joins
    <3>2. f[1] = s[1]
      BY <3>1
    <3>3. \A i \in 1..n : i # 1 => i - 1 \in 1..n
      OBVIOUS
    <3> QED BY <3>2, <3>3 DEF Joins
  <2>2. h = [i \in 1..n |-> IF i = 1 THEN s[i] ELSE h[i - 1] \o s[i]]
    BY <2>1
  <2> HIDE DEF h
  <2>3. PICK g : /\ g = [i \in 1..n |-> IF i = 1 THEN s[i] ELSE g[i - 1] \o s[i]]
                 /\ FlattenSeq(s) = g[n]
    BY <1>0, <1>2, <2>2 DEF FlattenSeq
  <2> DEFINE P == {i \in 0..n : i = 0 \/ g[i] = h[i]}
  <2>4. ASSUME NEW i \in 1..n, i - 1 \in P PROVE i \in P
    <3>1. g[i] = IF i = 1 THEN s[i] ELSE g[i - 1] \o s[i]
      BY <2>3
    <3>2. h[i] = IF i = 1 THEN s[i] ELSE h[i - 1] \o s[i]
      BY <2>1
    <3>3. i # 1 => g[i - 1] = h[i - 1]
      BY <2>4
    <3> QED BY <3>1, <3>2, <3>3
  <2>5. n \in P
    <3>1. 0 \in P
      OBVIOUS
    <3> HIDE DEF P
    <3>2. 0..n \subseteq P
      BY <2>4, <3>1, BoundedInduction
    <3> QED BY <3>2
  <2>6. g[n] = h[n]
    BY <1>2, <2>5
  <2> QED BY <1>2, <2>3, <2>6 DEF h
<1> QED BY <1>1, <1>2

Regroups(S) == \A x, y, z \in Seq(S) : (x \o y) \o z = x \o (y \o z)

LEMMA Regroup == ASSUME NEW S PROVE Regroups(S)
BY ConcatAssociative DEF Regroups

LEMMA JoinsNothing ==
  ASSUME NEW S, NEW n \in Nat, NEW s \in [1..n -> Seq(S)], \A i \in 1..n : s[i] = <<>>
  PROVE  FlattenSeq(s) = <<>>
<1>1. PICK f : Joins(f, s, n, S)
  BY JoinsExist
<1> DEFINE P == {i \in 0..n : f[i] = <<>>}
<1>2. 0 \in P
  BY <1>1 DEF Joins
<1>3. ASSUME NEW i \in 1..n, i - 1 \in P PROVE i \in P
  <2>1. f[i] = f[i - 1] \o s[i]
    BY <1>1 DEF Joins
  <2> QED BY <1>3, <2>1
<1>4. n \in P
  <2> HIDE DEF P
  <2>1. 0..n \subseteq P
    BY <1>2, <1>3, BoundedInduction
  <2> QED BY <2>1
<1> QED BY <1>1, <1>4, FlattenJoins

\* Of s, nothing up to k is not empty, and t differs from it at k alone.
HasFirst(t, s, k, n, S) ==
  /\ n \in Nat /\ k \in 1..n /\ s \in [1..n -> Seq(S)] /\ t \in [1..n -> Seq(S)]
  /\ \A i \in 1..n : (i <= k => s[i] = <<>>) /\ (i < k => t[i] = <<>>) /\ (i > k => t[i] = s[i])

ComesFirst(x, s, t) == FlattenSeq(t) = x \o FlattenSeq(s)

\* What is joined first comes first.
LEMMA JoinsFirst ==
  ASSUME NEW S, NEW n, NEW s, NEW t, NEW k, HasFirst(t, s, k, n, S)
  PROVE  ComesFirst(t[k], s, t)
<1> SUFFICES ASSUME n \in Nat, k \in 1..n, s \in [1..n -> Seq(S)], t \in [1..n -> Seq(S)],
                    \A i \in 1..n : i <= k => s[i] = <<>>, \A i \in 1..n : i < k => t[i] = <<>>,
                    \A i \in 1..n : i > k => t[i] = s[i]
             PROVE  FlattenSeq(t) = t[k] \o FlattenSeq(s)
  BY DEF HasFirst, ComesFirst
<1>1. PICK f : Joins(f, s, n, S)
  BY JoinsExist
<1>2. PICK g : Joins(g, t, n, S)
  BY JoinsExist
<1> DEFINE first == t[k]
<1>3. first \in Seq(S) /\ first \o <<>> = first
  OBVIOUS
<1>0. \A u, v, w \in Seq(S) : (u \o v) \o w = u \o (v \o w)
  <2>1. Regroups(S)
    BY Regroup
  <2> QED BY <2>1 DEF Regroups
<1> DEFINE Right(i) == IF i < k THEN f[i] = <<>> /\ g[i] = <<>> ELSE g[i] = first \o f[i]
           P == {i \in 0..n : Right(i)}
<1> HIDE DEF first
<1>4. 0 \in P
  BY <1>1, <1>2 DEF Joins
<1>5. ASSUME NEW i \in 1..n, i - 1 \in P PROVE i \in P
  <2>1. Right(i - 1)
    BY <1>5
  <2>2. f[i] = f[i - 1] \o s[i] /\ g[i] = g[i - 1] \o t[i]
    BY <1>1, <1>2 DEF Joins
  <2> DEFINE x == f[i - 1]
             y == s[i]
  <2>3. x \in Seq(S)
    BY <1>1 DEF Joins
  <2>4. y \in Seq(S)
    OBVIOUS
  <2>5. CASE i < k
    <3>1. f[i - 1] = <<>> /\ g[i - 1] = <<>> /\ s[i] = <<>> /\ t[i] = <<>>
      BY <2>1, <2>5
    <3>2. f[i] = <<>> /\ g[i] = <<>>
      BY <2>2, <3>1
    <3> QED BY <2>5, <3>2
  <2>6. CASE i = k
    <3>1. f[i - 1] = <<>> /\ g[i - 1] = <<>> /\ s[i] = <<>> /\ t[i] = first
      BY <2>1, <2>6 DEF first
    <3>2. f[i] = <<>> /\ g[i] = <<>> \o first
      BY <2>2, <3>1
    <3>3. g[i] = first \o f[i]
      BY <1>3, <3>2
    <3> QED BY <2>6, <3>3
  <2>7. CASE i > k
    <3>0. ~(i - 1 < k) /\ ~(i < k) /\ t[i] = s[i]
      BY <2>7
    <3>1. g[i - 1] = first \o x /\ t[i] = y
      BY <2>1, <3>0, Zenon
    <3>2. f[i] = x \o y /\ g[i] = (first \o x) \o y
      BY <2>2, <3>1
    <3> HIDE DEF x, y
    <3>3. (first \o x) \o y = first \o (x \o y)
      BY <1>3, <1>0, <2>3, <2>4
    <3>4. g[i] = first \o f[i]
      BY <3>2, <3>3
    <3>5. Right(i)
      BY <3>0, <3>4, Zenon
    <3> HIDE DEF Right
    <3> QED BY <3>5
  <2> HIDE DEF P
  <2> QED BY <2>5, <2>6, <2>7
<1>6. n \in P
  <2> HIDE DEF P
  <2>1. 0..n \subseteq P
    BY <1>4, <1>5, BoundedInduction
  <2> QED BY <2>1
<1>7. g[n] = first \o f[n]
  BY <1>6
<1>8. FlattenSeq(s) = f[n] /\ FlattenSeq(t) = g[n]
  BY <1>1, <1>2, FlattenJoins
<1> QED BY <1>7, <1>8 DEF first

LEMMA NextOfPrefix ==
  ASSUME NEW S, NEW src \in Seq(S), NEW i \in 1..Len(src)
  PROVE  /\ SubSeq(src, 1, i - 1) \in Seq(S) /\ SubSeq(src, 1, i) \in Seq(S)
         /\ SubSeq(src, 1, i) = SubSeq(src, 1, i - 1) \o <<src[i]>>
<1>1. Len(src) \in Nat /\ 1 \in 1..Len(src) /\ i \in 1..Len(src) /\ i \in Nat
  OBVIOUS
<1>2. SubSeq(src, 1, i) = SubSeq(src, 1, i - 1) \o <<src[i]>>
  BY <1>1, SubSeqRecursiveSecond
<1> QED BY <1>1, <1>2

\* The pieces p are the bytes of src up to b; those of q are the same up to a,
\* and r for what is between; after b they do not differ.
Edited(p, q, src, a, b, r) ==
  /\ \A i \in 1..b : p[i] = <<src[i]>>
  /\ \A i \in 1..a : q[i] = p[i]
  /\ a < b => q[a + 1] = r /\ q[b + 1] = p[b + 1]
  /\ a = b => q[a + 1] = r \o p[a + 1]
  /\ \A i \in 1..Len(src) + 1 : (i > a + 1 /\ i <= b => q[i] = <<>>) /\ (i > b + 1 => q[i] = p[i])

ArePieces(p, src, S) == src \in Seq(S) /\ p \in [1..Len(src) + 1 -> Seq(S)]

\* The texts u and v go on with the same after b and after the replacement.
GoOnAlike(u, v, src, a, b, r, S) ==
  \E rest \in Seq(S) : u = SubSeq(src, 1, b) \o rest /\ v = (SubSeq(src, 1, a) \o r) \o rest

LEMMA EditedJoins ==
  ASSUME NEW S, NEW src, NEW p, NEW q, NEW b, NEW a, NEW r,
         ArePieces(p, src, S), ArePieces(q, src, S),
         b \in 0..Len(src), a \in 0..b, r \in Seq(S), Edited(p, q, src, a, b, r)
  PROVE  GoOnAlike(FlattenSeq(p), FlattenSeq(q), src, a, b, r, S)
<1> SUFFICES ASSUME src \in Seq(S), p \in [1..Len(src) + 1 -> Seq(S)],
                    q \in [1..Len(src) + 1 -> Seq(S)]
             PROVE  \E rest \in Seq(S) :
                      /\ FlattenSeq(p) = SubSeq(src, 1, b) \o rest
                      /\ FlattenSeq(q) = (SubSeq(src, 1, a) \o r) \o rest
  BY DEF ArePieces, GoOnAlike
<1> DEFINE n == Len(src) + 1
           Upto(i) == SubSeq(src, 1, i)
<1>0. n \in Nat /\ Len(src) \in Nat /\ a \in Nat /\ b \in Nat /\ a <= b /\ b < n
  OBVIOUS
<1>13. \A x, y, z \in Seq(S) : (x \o y) \o z = x \o (y \o z)
  <2>1. Regroups(S)
    BY Regroup
  <2> QED BY <2>1 DEF Regroups
<1>1. PICK f : Joins(f, p, n, S)
  BY <1>0, JoinsExist
<1>2. PICK g : Joins(g, q, n, S)
  BY <1>0, JoinsExist
<1>3. \A i \in 0..Len(src) : Upto(i) \in Seq(S)
  OBVIOUS
<1>4. \A i \in 1..Len(src) : Upto(i) = Upto(i - 1) \o <<src[i]>>
  BY NextOfPrefix
<1>5. Upto(0) = <<>>
  OBVIOUS
<1>6. Upto(b) \in Seq(S) /\ Upto(a) \in Seq(S) /\ Upto(a) \o r \in Seq(S)
  BY <1>0, <1>3
<1> DEFINE low  == Upto(a)
           high == Upto(b)
           left == low \o r
<1>7. low \in Seq(S) /\ high \in Seq(S) /\ left \in Seq(S)
  BY <1>6
<1> HIDE DEF Upto, low, high, left, n
<1> DEFINE After(i) == \E rest \in Seq(S) : f[i] = high \o rest /\ g[i] = left \o rest
           Right(i) ==
             /\ i <= b => f[i] = Upto(i)
             /\ i <= a => g[i] = Upto(i)
             /\ a < i /\ i <= b => g[i] = left
             /\ b < i => After(i)
           P == {i \in 0..n : Right(i)}
<1>8. 0 \in P
  BY <1>0, <1>1, <1>2, <1>5 DEF Joins
<1>9. ASSUME NEW i \in 1..n, i - 1 \in P PROVE i \in P
  <2>0. i \in Nat /\ i <= Len(src) + 1
    BY DEF n
  <2>1. f[i] = f[i - 1] \o p[i] /\ g[i] = g[i - 1] \o q[i]
    BY <1>0, <1>1, <1>2 DEF Joins
  <2>2. p[i] \in Seq(S) /\ q[i] \in Seq(S)
    BY DEF n
  <2>3. Right(i - 1)
    BY <1>9
  <2>4. CASE i <= a
    <3>1. f[i - 1] = Upto(i - 1) /\ g[i - 1] = Upto(i - 1)
      BY <1>0, <2>0, <2>3, <2>4
    <3>2. p[i] = <<src[i]>> /\ q[i] = p[i]
      BY <1>0, <2>0, <2>4 DEF Edited
    <3>3. Upto(i) = Upto(i - 1) \o <<src[i]>>
      BY <1>0, <1>4, <2>0, <2>4
    <3>4. f[i] = Upto(i) /\ g[i] = Upto(i)
      BY <2>1, <3>1, <3>2, <3>3
    <3> HIDE DEF After
    <3> QED BY <1>0, <2>0, <2>4, <3>4
  <2>5. CASE a < i /\ i <= b
    <3>1. f[i - 1] = Upto(i - 1)
      BY <1>0, <2>0, <2>3, <2>5
    <3>2. p[i] = <<src[i]>>
      BY <1>0, <2>0, <2>5 DEF Edited
    <3>3. Upto(i) = Upto(i - 1) \o <<src[i]>>
      BY <1>0, <1>4, <2>0, <2>5
    <3>4. f[i] = Upto(i)
      BY <2>1, <3>1, <3>2, <3>3
    <3>5. g[i] = left
      <4>1. CASE i = a + 1
        <5>1. g[i - 1] = low /\ q[i] = r
          BY <1>0, <2>0, <2>3, <2>5, <4>1 DEF Edited, low
        <5> QED BY <2>1, <5>1 DEF left
      <4>2. CASE i # a + 1
        <5>1. g[i - 1] = left /\ q[i] = <<>>
          BY <1>0, <2>0, <2>3, <2>5, <4>2 DEF Edited
        <5> QED BY <1>7, <2>1, <5>1
      <4> QED BY <4>1, <4>2
    <3> HIDE DEF After
    <3> QED BY <1>0, <2>0, <2>5, <3>4, <3>5
  <2> DEFINE y == p[i]
  <2>6. y \in Seq(S)
    BY <2>2
  <2>7. CASE i = b + 1
    <3>1. f[i - 1] = high
      BY <1>0, <2>0, <2>3, <2>7 DEF high
    <3>2. f[i] = high \o y
      BY <2>1, <3>1
    <3>3. g[i] = left \o y
      <4>1. CASE a < b
        <5>1. g[i - 1] = left /\ q[i] = y
          BY <1>0, <2>0, <2>3, <2>7, <4>1 DEF Edited
        <5> QED BY <2>1, <5>1
      <4>2. CASE a = b
        <5>1. g[i - 1] = low /\ q[i] = r \o y
          BY <1>0, <2>0, <2>3, <2>7, <4>2 DEF Edited, low
        <5>2. g[i] = low \o (r \o y)
          BY <2>1, <5>1
        <5> HIDE DEF y
        <5>3. low \o (r \o y) = (low \o r) \o y
          BY <1>7, <1>13, <2>6, Zenon
        <5> QED BY <5>2, <5>3 DEF left
      <4> QED BY <1>0, <4>1, <4>2
    <3>4. After(i)
      <4> HIDE DEF y
      <4> QED BY <2>6, <3>2, <3>3
    <3> HIDE DEF After
    <3> QED BY <1>0, <2>0, <2>7, <3>4
  <2>8. CASE i > b + 1
    <3>1. After(i - 1)
      <4> HIDE DEF After
      <4> QED BY <1>0, <2>0, <2>3, <2>8
    <3>2. PICK rest \in Seq(S) : f[i - 1] = high \o rest /\ g[i - 1] = left \o rest
      BY <3>1
    <3>3. f[i] = (high \o rest) \o y /\ g[i] = (left \o rest) \o y
      <4>1. q[i] = y
        BY <2>0, <2>8 DEF Edited
      <4> QED BY <2>1, <3>2, <4>1
    <3> HIDE DEF y
    <3>4. f[i] = high \o (rest \o y) /\ g[i] = left \o (rest \o y)
      <4>0. high \in Seq(S) /\ left \in Seq(S) /\ rest \in Seq(S)
        BY <1>7
      <4>1. (high \o rest) \o y = high \o (rest \o y)
        BY <4>0, <1>13, <2>6
      <4>2. (left \o rest) \o y = left \o (rest \o y)
        BY <4>0, <1>13, <2>6
      <4> QED BY <3>3, <4>1, <4>2
    <3>5. rest \o y \in Seq(S)
      BY <2>6
    <3>6. After(i)
      BY <3>4, <3>5
    <3> HIDE DEF After
    <3> QED BY <1>0, <2>0, <2>8, <3>6
  <2> HIDE DEF P
  <2> QED BY <1>0, <2>0, <2>4, <2>5, <2>7, <2>8
<1>10. n \in P
  <2> HIDE DEF P
  <2>1. 0..n \subseteq P
    BY <1>0, <1>8, <1>9, BoundedInduction
  <2> QED BY <1>0, <2>1
<1>11. After(n)
  <2> HIDE DEF After
  <2> QED BY <1>0, <1>10
<1>12. FlattenSeq(p) = f[n] /\ FlattenSeq(q) = g[n]
  BY <1>0, <1>1, <1>2, FlattenJoins DEF n
<1> QED BY <1>11, <1>12 DEF left, low, high, Upto

LEMMA FlattenTyped ==
  ASSUME NEW S, NEW n \in Nat, NEW s \in [1..n -> Seq(S)]
  PROVE  FlattenSeq(s) \in Seq(S)
<1>1. PICK f : Joins(f, s, n, S)
  BY JoinsExist
<1>2. f[n] \in Seq(S)
  BY <1>1 DEF Joins
<1> QED BY <1>1, <1>2, FlattenJoins

\* The pieces of a text in which nothing is edited.
LEMMA UneditedJoins ==
  ASSUME NEW S, NEW src \in Seq(S), NEW p \in [1..Len(src) + 1 -> Seq(S)],
         \A i \in 1..Len(src) : p[i] = <<src[i]>>, p[Len(src) + 1] = <<>>
  PROVE  FlattenSeq(p) = src
<1> DEFINE n == Len(src) + 1
           Upto(i) == SubSeq(src, 1, i)
<1>0. n \in Nat /\ Len(src) \in Nat
  OBVIOUS
<1>1. PICK f : Joins(f, p, n, S)
  BY <1>0, JoinsExist
<1>2. Upto(0) = <<>> /\ Upto(Len(src)) = src
  BY SubSeqFull
<1>3. \A i \in 1..Len(src) : Upto(i) = Upto(i - 1) \o <<src[i]>>
  BY NextOfPrefix
<1> HIDE DEF Upto, n
<1> DEFINE P == {i \in 0..Len(src) : f[i] = Upto(i)}
<1>4. 0 \in P
  BY <1>0, <1>1, <1>2 DEF Joins
<1>5. ASSUME NEW i \in 1..Len(src), i - 1 \in P PROVE i \in P
  <2>1. i \in 1..n
    BY <1>0 DEF n
  <2>2. f[i] = f[i - 1] \o p[i]
    BY <1>1, <2>1 DEF Joins
  <2>3. f[i - 1] = Upto(i - 1) /\ p[i] = <<src[i]>>
    BY <1>5
  <2>4. f[i] = Upto(i)
    BY <1>3, <2>2, <2>3
  <2> QED BY <2>4
<1>6. f[Len(src)] = src
  <2> HIDE DEF P
  <2>1. 0..Len(src) \subseteq P
    BY <1>0, <1>4, <1>5, BoundedInduction
  <2>2. Len(src) \in P
    BY <1>0, <2>1
  <2> QED BY <1>2, <2>2 DEF P
<1>7. f[n] = f[n - 1] \o p[n] /\ p[n] = <<>> /\ n - 1 = Len(src)
  <2>1. n \in 1..n /\ n - 1 = Len(src) /\ p[n] = <<>>
    BY <1>0 DEF n
  <2>2. f[n] = f[n - 1] \o p[n]
    BY <1>1, <2>1 DEF Joins
  <2> QED BY <2>1, <2>2
<1>8. f[n] = src
  BY <1>6, <1>7
<1> QED BY <1>0, <1>1, <1>8, FlattenJoins DEF n

\* Splicing a text that goes on as the original up to the end of the edit.
LEMMA ReplaceInPrefix ==
  ASSUME NEW src \in Seq(Byte), NEW rest \in Seq(Byte), NEW e \in Fix,
         e.start_byte <= e.end_byte, e.end_byte <= Len(src)
  PROVE  ReplaceRange(SubSeq(src, 1, e.end_byte) \o rest, e)
           = (SubSeq(src, 1, e.start_byte) \o e.replacement) \o rest
<1> DEFINE a == e.start_byte
           b == e.end_byte
           u == SubSeq(src, 1, b)
           text == u \o rest
<1>1. a \in Nat /\ b \in Nat /\ a <= b /\ b <= Len(src) /\ Len(src) \in Nat
  BY DEF Fix
<1>2. ReplaceRange(text, e)
        = (SubSeq(text, 1, a) \o e.replacement) \o SubSeq(text, b + 1, Len(text))
  BY DEF ReplaceRange
<1> HIDE DEF a, b
<1>3. u \in Seq(Byte) /\ Len(u) = b /\ \A i \in 1..b : u[i] = src[i]
  BY <1>1
<1>4. Len(rest) \in Nat
  OBVIOUS
<1> HIDE DEF u
<1>5. /\ text \in Seq(Byte) /\ Len(text) = Len(u) + Len(rest)
      /\ \A i \in 1..(Len(u) + Len(rest)) :
           text[i] = IF i <= Len(u) THEN u[i] ELSE rest[i - Len(u)]
  BY <1>3, ConcatProperties, Zenon
<1> HIDE DEF text
<1>6. /\ text \in Seq(Byte) /\ Len(text) = b + Len(rest)
      /\ \A i \in 1..b : text[i] = src[i]
      /\ \A i \in 1..Len(rest) : text[b + i] = rest[i]
  <2>1. \A i \in 1..b : text[i] = src[i]
    BY <1>1, <1>3, <1>4, <1>5
  <2>2. ASSUME NEW i \in 1..Len(rest) PROVE text[b + i] = rest[i]
    <3>1. b + i \in 1..(Len(u) + Len(rest)) /\ ~(b + i <= Len(u)) /\ (b + i) - Len(u) = i
      BY <1>1, <1>3, <1>4
    <3> QED BY <1>5, <3>1
  <2> QED BY <1>3, <1>5, <2>1, <2>2
<1>7. SubSeq(text, 1, a) = SubSeq(src, 1, a)
  <2>1. SubSeq(text, 1, a) \in Seq(Byte) /\ Len(SubSeq(text, 1, a)) = a
        /\ \A i \in 1..a : SubSeq(text, 1, a)[i] = text[i]
    BY <1>1, <1>4, <1>6
  <2>2. SubSeq(src, 1, a) \in Seq(Byte) /\ Len(SubSeq(src, 1, a)) = a
        /\ \A i \in 1..a : SubSeq(src, 1, a)[i] = src[i]
    BY <1>1
  <2>3. \A i \in 1..a : i \in 1..b
    BY <1>1
  <2> QED BY <1>6, <2>1, <2>2, <2>3, SeqEqual
<1>8. SubSeq(text, b + 1, Len(text)) = rest
  <2> DEFINE t == SubSeq(text, b + 1, Len(text))
  <2>1. t \in Seq(Byte) /\ Len(t) = Len(rest) /\ \A i \in 1..Len(rest) : t[i] = text[b + i]
    BY <1>1, <1>4, <1>6
  <2> HIDE DEF t
  <2>2. \A i \in 1..Len(t) : t[i] = rest[i]
    BY <1>6, <2>1
  <2>3. t = rest
    BY <2>1, <2>2, SeqEqual
  <2> QED BY <2>3 DEF t
<1> QED BY <1>2, <1>7, <1>8 DEF text, u, a, b

-----------------------------------------------------------------------------
(* The text is the original with the applied edits made at once.           *)

\* What InsertedAt joins: the replacements of the edits at g, the last turn first.
Entry(g, k) ==
  LET l == Len(fixes) + 1 - k
  IN  IF l \in taken /\ EditAt(l).start_byte = g THEN EditAt(l).replacement ELSE <<>>

LEMMA EntryTyped ==
  ASSUME TypeOK
  PROVE  \A g : [k \in 1..Len(fixes) |-> Entry(g, k)] \in [1..Len(fixes) -> Seq(Byte)]
<1> SUFFICES ASSUME NEW g, NEW k \in 1..Len(fixes) PROVE Entry(g, k) \in Seq(Byte)
  OBVIOUS
<1>1. fixes \in Seq(Fix) /\ Len(fixes) \in Nat
  BY InputAssumption DEF TypeOK
<1> DEFINE l == Len(fixes) + 1 - k
<1>2. l \in 1..Len(fixes)
  BY <1>1
<1>3. queue[l] \in 1..Len(fixes)
  BY <1>2 DEF TypeOK
<1>4. EditAt(l) \in Fix
  BY <1>1, <1>3 DEF EditAt
<1>5. EditAt(l).replacement \in Seq(Byte) /\ <<>> \in Seq(Byte)
  BY <1>4 DEF Fix
<1> HIDE DEF l
<1> QED BY <1>5 DEF Entry, l

LEMMA InsertedIsFlat == \A g : InsertedAt(g) = FlattenSeq([k \in 1..Len(fixes) |-> Entry(g, k)])
BY DEF InsertedAt, Entry

\* The pieces that SplicedExactly joins.
Pieces == [g \in 1..(Len(source) + 1) |-> InsertedAt(g - 1) \o KeptAfter(g - 1)]

LEMMA PiecesTyped ==
  ASSUME TypeOK
  PROVE  /\ \A g : InsertedAt(g) \in Seq(Byte)
         /\ \A g \in 0..Len(source) : KeptAfter(g) \in Seq(Byte)
         /\ Pieces \in [1..(Len(source) + 1) -> Seq(Byte)]
<1>1. source \in Seq(Byte) /\ Len(source) \in Nat /\ Len(fixes) \in Nat
  BY InputAssumption DEF TypeOK
<1>2. ASSUME NEW g PROVE InsertedAt(g) \in Seq(Byte)
  <2> DEFINE s == [k \in 1..Len(fixes) |-> Entry(g, k)]
  <2>1. s \in [1..Len(fixes) -> Seq(Byte)]
    BY EntryTyped
  <2>2. InsertedAt(g) = FlattenSeq(s)
    BY InsertedIsFlat
  <2> HIDE DEF s
  <2> QED BY <1>1, <2>1, <2>2, FlattenTyped
<1>3. ASSUME NEW g \in 0..Len(source) PROVE KeptAfter(g) \in Seq(Byte)
  <2>1. g # Len(source) => source[g + 1] \in Byte
    BY <1>1
  <2>2. KeptAfter(g) \in {<<>>, <<source[g + 1]>>} /\ (KeptAfter(g) = <<>> \/ g # Len(source))
    BY DEF KeptAfter
  <2>3. <<>> \in Seq(Byte) /\ (source[g + 1] \in Byte => <<source[g + 1]>> \in Seq(Byte))
    OBVIOUS
  <2> QED BY <2>1, <2>2, <2>3
<1>4. ASSUME NEW i \in 1..(Len(source) + 1)
      PROVE  InsertedAt(i - 1) \o KeptAfter(i - 1) \in Seq(Byte)
  <2> DEFINE x == InsertedAt(i - 1)
             y == KeptAfter(i - 1)
  <2>1. i - 1 \in 0..Len(source)
    BY <1>1
  <2>2. x \in Seq(Byte) /\ y \in Seq(Byte)
    BY <1>2, <1>3, <2>1
  <2> HIDE DEF x, y
  <2>3. x \o y \in Seq(Byte)
    BY <2>2
  <2> QED BY <2>3 DEF x, y
<1>5. Pieces \in [1..(Len(source) + 1) -> Seq(Byte)]
  BY <1>4 DEF Pieces
<1> QED BY <1>2, <1>3, <1>5

\* Where no edit starts nothing is inserted.
LEMMA InsertedNothing ==
  ASSUME TypeOK, NEW g, \A k \in taken : EditAt(k).start_byte # g
  PROVE  InsertedAt(g) = <<>>
<1> DEFINE s == [k \in 1..Len(fixes) |-> Entry(g, k)]
<1>1. Len(fixes) \in Nat
  BY InputAssumption DEF TypeOK
<1>2. s \in [1..Len(fixes) -> Seq(Byte)]
  BY EntryTyped
<1>3. \A k \in 1..Len(fixes) : s[k] = <<>>
  BY DEF Entry
<1>4. InsertedAt(g) = FlattenSeq(s)
  BY InsertedIsFlat
<1> HIDE DEF s
<1> QED BY <1>1, <1>2, <1>3, <1>4, JoinsNothing

\* Below the floor the pieces are the bytes of the original.
LEMMA PiecesBelow ==
  ASSUME IInv, NEW i \in 1..Len(source), i <= floor
  PROVE  Pieces[i] = <<source[i]>> /\ InsertedAt(i - 1) = <<>>
<1>1. source \in Seq(Byte) /\ Len(source) \in Nat /\ Len(fixes) \in Nat /\ floor \in Nat
      /\ taken \subseteq 1..Len(fixes) /\ TypeOK
  BY InputAssumption DEF IInv, TypeOK
<1>2. \A k \in taken : i <= EditAt(k).start_byte /\ EditAt(k).start_byte \in Nat
  <2> SUFFICES ASSUME NEW k \in taken
               PROVE i <= EditAt(k).start_byte /\ EditAt(k).start_byte \in Nat
    OBVIOUS
  <2>1. floor <= EditAt(k).start_byte
    BY DEF IInv, FloorIsMet
  <2>2. EditAt(k).start_byte \in Nat
    BY <1>1, EditTyped
  <2> QED BY <1>1, <2>1, <2>2
<1>3. InsertedAt(i - 1) = <<>>
  <2>1. \A k \in taken : EditAt(k).start_byte # i - 1
    BY <1>2
  <2> QED BY <1>1, <2>1, InsertedNothing
<1>4. KeptAfter(i - 1) = <<source[i]>>
  <2>1. \A k \in taken : ~(EditAt(k).start_byte <= i - 1)
    BY <1>2
  <2>2. i - 1 # Len(source) /\ (i - 1) + 1 = i
    OBVIOUS
  <2> QED BY <2>1, <2>2 DEF KeptAfter
<1>5. i \in 1..(Len(source) + 1)
  BY <1>1
<1>6. Pieces[i] = <<>> \o <<source[i]>>
  BY <1>3, <1>4, <1>5 DEF Pieces
<1> QED BY <1>3, <1>6

LEMMA InitSpliced == Init => SplicedExactly
<1> SUFFICES ASSUME Init PROVE SplicedExactly
  OBVIOUS
<1>1. IInv
  BY InitInv
<1>2. source \in Seq(Byte) /\ Len(source) \in Nat /\ Len(source) <= floor /\ TypeOK
  BY <1>1, InputAssumption DEF Init, IInv, TypeOK
<1>3. Pieces \in [1..(Len(source) + 1) -> Seq(Byte)]
  BY <1>2, PiecesTyped
<1>4. \A i \in 1..Len(source) : Pieces[i] = <<source[i]>>
  <2> SUFFICES ASSUME NEW i \in 1..Len(source) PROVE Pieces[i] = <<source[i]>>
    OBVIOUS
  <2>1. i <= floor
    BY <1>2, InputAssumption DEF IInv, TypeOK
  <2> QED BY <1>1, <2>1, PiecesBelow
<1>5. Pieces[Len(source) + 1] = <<>>
  <2>1. InsertedAt(Len(source)) = <<>>
    BY <1>2, InsertedNothing DEF Init
  <2>2. KeptAfter(Len(source)) = <<>>
    BY DEF KeptAfter
  <2>3. Len(source) + 1 \in 1..(Len(source) + 1) /\ (Len(source) + 1) - 1 = Len(source)
    BY <1>2
  <2>4. Pieces[Len(source) + 1] = <<>> \o <<>>
    BY <2>1, <2>2, <2>3 DEF Pieces
  <2> QED BY <2>4
<1>6. FlattenSeq(Pieces) = source
  BY <1>2, <1>3, <1>4, <1>5, UneditedJoins
<1> QED BY <1>6 DEF SplicedExactly, Pieces, Init

\* What one more applied edit inserts: its replacement, before what the turns
\* ahead of it inserted there.
LEMMA TakeInserts ==
  ASSUME IInv, Take, NEW g
  PROVE  InsertedAt(g)' = IF g = EditAt(next).start_byte
                          THEN EditAt(next).replacement \o InsertedAt(g) ELSE InsertedAt(g)
<1>1. /\ Len(fixes) \in Nat /\ next \in 1..Len(fixes) /\ taken \subseteq 1..(next - 1) /\ TypeOK
      /\ taken' = taken \cup {next} /\ UNCHANGED <<fixes, queue>>
  BY InputAssumption DEF IInv, TypeOK, Take
<1>2. \A k : EditAt(k)' = EditAt(k)
  BY <1>1 DEF EditAt
<1> DEFINE n == Len(fixes)
           r == EditAt(next).replacement
           new == [k \in 1..n |->
                     LET l == n + 1 - k
                     IN  IF l \in taken \cup {next} /\ EditAt(l).start_byte = g
                         THEN EditAt(l).replacement ELSE <<>>]
           old == [k \in 1..n |-> Entry(g, k)]
           turn == n + 1 - next
<1>3. InsertedAt(g)' = FlattenSeq(new)
  BY <1>1, <1>2 DEF InsertedAt
<1>4. InsertedAt(g) = FlattenSeq(old)
  BY InsertedIsFlat
<1>5. old \in [1..n -> Seq(Byte)]
  BY <1>1, EntryTyped
<1>6. turn \in 1..n /\ n + 1 - turn = next /\ next \notin taken
  BY <1>1
<1>7. \A k \in 1..n : k # turn => new[k] = old[k]
  <2> SUFFICES ASSUME NEW k \in 1..n, k # turn PROVE new[k] = old[k]
    OBVIOUS
  <2>1. n + 1 - k # next
    BY <1>1
  <2> QED BY <2>1 DEF Entry
<1>8. \A k \in 1..n : k <= turn => old[k] = <<>>
  <2> SUFFICES ASSUME NEW k \in 1..n, k <= turn PROVE old[k] = <<>>
    OBVIOUS
  <2>1. ~(n + 1 - k \in taken)
    BY <1>1
  <2> QED BY <2>1 DEF Entry
<1>9. new[turn] = IF EditAt(next).start_byte = g THEN r ELSE <<>>
  BY <1>6
<1>10. r \in Seq(Byte)
  <2>1. queue[next] \in 1..Len(fixes) /\ fixes \in Seq(Fix)
    BY <1>1, InputAssumption DEF TypeOK
  <2>2. EditAt(next) \in Fix
    BY <2>1 DEF EditAt
  <2> QED BY <2>2 DEF Fix
<1>11. /\ DOMAIN new = 1..n /\ DOMAIN old = 1..n
       /\ old = [k \in 1..n |-> old[k]] /\ new = [k \in 1..n |-> new[k]]
  OBVIOUS
<1> HIDE DEF n, new, old, turn
<1>12. CASE EditAt(next).start_byte = g
  <2>1. new[turn] = r
    BY <1>9, <1>12
  <2>2. \A k \in 1..n : k < turn => new[k] = <<>>
    <3>1. \A k \in 1..n : k < turn => k <= turn /\ k # turn
      BY <1>1, <1>6 DEF n
    <3> QED BY <1>7, <1>8, <3>1
  <2>3. \A k \in 1..n : k > turn => new[k] = old[k]
    <3>1. \A k \in 1..n : k > turn => k # turn
      BY <1>1, <1>6 DEF n
    <3> QED BY <1>7, <3>1
  <2>4. new \in [1..n -> Seq(Byte)]
    <3>1. \A k \in 1..n : new[k] \in Seq(Byte)
      BY <1>5, <1>7, <1>10, <2>1
    <3> QED BY <1>11, <3>1
  <2>5. n \in Nat
    BY <1>1 DEF n
  <2>6. FlattenSeq(new) = new[turn] \o FlattenSeq(old)
    <3>1. HasFirst(new, old, turn, n, Byte)
      BY <1>5, <1>6, <1>8, <2>2, <2>3, <2>4, <2>5 DEF HasFirst
    <3>2. ComesFirst(new[turn], old, new)
      BY <3>1, JoinsFirst
    <3> QED BY <3>2 DEF ComesFirst
  <2> QED BY <1>3, <1>4, <1>12, <2>1, <2>6
<1>13. CASE EditAt(next).start_byte # g
  <2>1. \A k \in 1..n : new[k] = old[k]
    BY <1>6, <1>7, <1>8, <1>9, <1>13
  <2>2. new = old
    BY <1>11, <2>1
  <2> QED BY <1>3, <1>4, <1>13, <2>2
<1> QED BY <1>12, <1>13

\* What it no longer keeps: the bytes it covers.
LEMMA TakeKeeps ==
  ASSUME IInv, Take, NEW g
  PROVE  KeptAfter(g)' = IF EditAt(next).start_byte <= g /\ g < EditAt(next).end_byte
                         THEN <<>> ELSE KeptAfter(g)
<1>1. taken' = taken \cup {next} /\ UNCHANGED <<source, fixes, queue>>
  BY DEF Take
<1>2. \A k : EditAt(k)' = EditAt(k)
  BY <1>1 DEF EditAt
<1> QED BY <1>1, <1>2 DEF KeptAfter

LEMMA TakeSpliced == ASSUME IInv, SplicedExactly, Take PROVE SplicedExactly'
<1> DEFINE a == EditAt(next).start_byte
           b == EditAt(next).end_byte
           r == EditAt(next).replacement
<1>1. /\ source \in Seq(Byte) /\ Len(source) \in Nat /\ Len(fixes) \in Nat /\ floor \in Nat
      /\ next \in 1..Len(fixes) /\ TypeOK /\ source' = source
      /\ out' = ReplaceRange(out, EditAt(next))
  BY InputAssumption DEF IInv, TypeOK, Take
<1>2. EditAt(next) \in Fix
  BY <1>1, InputAssumption DEF TypeOK, EditAt
<1>3. a \in Nat /\ b \in Nat /\ r \in Seq(Byte)
  BY <1>2 DEF Fix
<1>4. a <= b /\ b <= floor /\ b <= Len(source)
  <2>1. IInv'
    BY TakeInv
  <2>2. next \in taken' /\ UNCHANGED <<source, fixes, queue>>
    BY DEF Take
  <2>3. b <= Len(source)
    BY <2>1, <2>2 DEF IInv, EditsOnCharBoundaries, EditAt
  <2> QED BY <2>3 DEF Take, Accepts, InBounds
<1>5. TypeOK'
  BY TakeInv DEF IInv
<1>6. PICK p : p = Pieces
  OBVIOUS
<1>7. PICK q : q = Pieces'
  OBVIOUS
<1>8. p \in [1..(Len(source) + 1) -> Seq(Byte)]
  BY <1>1, <1>6, PiecesTyped
<1>9. \A i \in 1..(Len(source) + 1) :
        q[i] = (IF i - 1 = a THEN r \o InsertedAt(i - 1) ELSE InsertedAt(i - 1))
                 \o (IF a <= i - 1 /\ i - 1 < b THEN <<>> ELSE KeptAfter(i - 1))
  BY <1>1, <1>7, TakeInserts, TakeKeeps DEF Pieces
<1>10. \A i \in 1..(Len(source) + 1) : p[i] = InsertedAt(i - 1) \o KeptAfter(i - 1)
  <2> SUFFICES ASSUME NEW i \in 1..(Len(source) + 1)
               PROVE  p[i] = InsertedAt(i - 1) \o KeptAfter(i - 1)
    OBVIOUS
  <2> QED BY <1>6 DEF Pieces
<1>11. \A i \in 1..b : p[i] = <<source[i]>> /\ InsertedAt(i - 1) = <<>>
  <2> SUFFICES ASSUME NEW i \in 1..b PROVE p[i] = <<source[i]>> /\ InsertedAt(i - 1) = <<>>
    OBVIOUS
  <2>1. i \in 1..Len(source) /\ i <= floor
    BY <1>1, <1>3, <1>4
  <2> QED BY <1>6, <2>1, PiecesBelow
<1>12. \A i \in 1..(Len(source) + 1) :
         InsertedAt(i - 1) \in Seq(Byte) /\ KeptAfter(i - 1) \in Seq(Byte)
  <2>1. \A i \in 1..(Len(source) + 1) : i - 1 \in 0..Len(source)
    BY <1>1
  <2> QED BY <1>1, <2>1, PiecesTyped
<1> HIDE DEF a, b, r
\* From here on the pieces are values.
<1> DEFINE n == Len(source) + 1
           x == [i \in 1..n |-> InsertedAt(i - 1)]
           y == [i \in 1..n |-> KeptAfter(i - 1)]
<1>13. x \in [1..n -> Seq(Byte)] /\ y \in [1..n -> Seq(Byte)]
  BY <1>12
<1>14. \A i \in 1..n : p[i] = x[i] \o y[i]
  BY <1>10
<1>15. \A i \in 1..n : q[i] = (IF i - 1 = a THEN r \o x[i] ELSE x[i])
                                \o (IF a <= i - 1 /\ i - 1 < b THEN <<>> ELSE y[i])
  BY <1>9
<1>16. \A i \in 1..b : i \in 1..n => p[i] = <<source[i]>> /\ x[i] = <<>>
  BY <1>11
<1>17. n \in Nat /\ b + 1 \in 1..n /\ a + 1 \in 1..n /\ \A i \in 1..b : i \in 1..n
  BY <1>1, <1>3, <1>4
<1> HIDE DEF x, y, n
<1>18. \A i \in 1..n : (i - 1 # a /\ ~(a <= i - 1 /\ i - 1 < b)) => q[i] = p[i]
  BY <1>14, <1>15
<1>19. \A i \in 1..a : q[i] = p[i]
  <2>1. \A i \in 1..a : i \in 1..n /\ i - 1 # a /\ ~(a <= i - 1 /\ i - 1 < b)
    BY <1>3, <1>4, <1>17
  <2> QED BY <1>18, <2>1
<1>20. ASSUME a < b PROVE q[a + 1] = r /\ q[b + 1] = p[b + 1]
  <2>1. a + 1 \in 1..b /\ (a + 1) - 1 = a /\ (b + 1) - 1 = b /\ b # a
        /\ a <= a
    BY <1>3, <1>20
  <2>2. x[a + 1] = <<>>
    BY <1>16, <1>17, <2>1
  <2>3. q[a + 1] = (r \o <<>>) \o <<>>
    BY <1>15, <1>17, <1>20, <2>1, <2>2
  <2>4. q[b + 1] = p[b + 1]
    BY <1>3, <1>17, <1>18, <2>1
  <2> QED BY <1>3, <2>3, <2>4
<1>21. ASSUME a = b PROVE q[a + 1] = r \o p[a + 1]
  <2> DEFINE u == x[a + 1]
             v == y[a + 1]
  <2>1. u \in Seq(Byte) /\ v \in Seq(Byte)
    BY <1>13, <1>17
  <2>2. q[a + 1] = (r \o u) \o v /\ p[a + 1] = u \o v
    <3>1. (a + 1) - 1 = a /\ ~(a < b)
      BY <1>3, <1>21
    <3> QED BY <1>14, <1>15, <1>17, <3>1
  <2> HIDE DEF u, v
  <2>3. (r \o u) \o v = r \o (u \o v)
    BY <1>3, <2>1, Regroup DEF Regroups
  <2> QED BY <2>2, <2>3
<1>22. ASSUME NEW i \in 1..n
       PROVE  (i > a + 1 /\ i <= b => q[i] = <<>>) /\ (i > b + 1 => q[i] = p[i])
  <2>1. CASE i > a + 1 /\ i <= b
    <3>1. i \in 1..b /\ i - 1 # a /\ a <= i - 1 /\ i - 1 < b
      BY <1>3, <1>17, <2>1
    <3>2. x[i] = <<>>
      BY <1>16, <3>1
    <3>3. q[i] = <<>> \o <<>>
      BY <1>15, <3>1, <3>2
    <3>4. ~(i > b + 1)
      BY <1>3, <2>1
    <3> QED BY <3>3, <3>4
  <2>2. CASE i > b + 1
    <3>1. i - 1 # a /\ ~(a <= i - 1 /\ i - 1 < b)
      BY <1>3, <1>4, <2>2
    <3>2. ~(i <= b)
      BY <1>3, <2>2
    <3> QED BY <1>18, <3>1, <3>2
  <2> QED BY <2>1, <2>2
<1>23. Edited(p, q, source, a, b, r)
  BY <1>16, <1>17, <1>19, <1>20, <1>21, <1>22 DEF Edited, n
<1>24. q \in [1..n -> Seq(Byte)]
  <2>1. \A i \in 1..n : q[i] \in Seq(Byte)
    <3> SUFFICES ASSUME NEW i \in 1..n PROVE q[i] \in Seq(Byte)
      OBVIOUS
    <3> DEFINE u == x[i]
               v == y[i]
    <3>1. u \in Seq(Byte) /\ v \in Seq(Byte) /\ <<>> \in Seq(Byte)
      BY <1>13
    <3>2. q[i] \in {u \o v, (r \o u) \o v, u \o <<>>, (r \o u) \o <<>>}
      BY <1>15
    <3> HIDE DEF u, v
    <3>3. r \o u \in Seq(Byte)
      BY <1>3, <3>1
    <3>4. u \o v \in Seq(Byte) /\ u \o <<>> \in Seq(Byte)
      BY <3>1
    <3>5. (r \o u) \o v \in Seq(Byte) /\ (r \o u) \o <<>> \in Seq(Byte)
      BY <3>1, <3>3
    <3> QED BY <3>2, <3>4, <3>5
  <2>2. q = [i \in 1..n |-> q[i]]
    BY <1>1, <1>7 DEF Pieces, n
  <2> QED BY <2>1, <2>2
<1>25. PICK rest \in Seq(Byte) : /\ FlattenSeq(p) = SubSeq(source, 1, b) \o rest
                                 /\ FlattenSeq(q) = (SubSeq(source, 1, a) \o r) \o rest
  <2>1. b \in 0..Len(source) /\ a \in 0..b
    BY <1>1, <1>3, <1>4
  <2>2. ArePieces(p, source, Byte) /\ ArePieces(q, source, Byte)
    BY <1>1, <1>8, <1>24 DEF ArePieces, n
  <2>3. GoOnAlike(FlattenSeq(p), FlattenSeq(q), source, a, b, r, Byte)
    BY <1>3, <1>23, <2>1, <2>2, EditedJoins
  <2> QED BY <2>3 DEF GoOnAlike
<1>26. out = SubSeq(source, 1, b) \o rest
  BY <1>6, <1>25 DEF SplicedExactly, Pieces
<1>27. out' = (SubSeq(source, 1, a) \o r) \o rest
  BY <1>1, <1>2, <1>4, <1>26, ReplaceInPrefix DEF a, b, r
<1>28. SplicedExactly' <=> out' = FlattenSeq(q)
  BY <1>7 DEF SplicedExactly, Pieces
<1> QED BY <1>25, <1>27, <1>28

LEMMA SkipSpliced == ASSUME SplicedExactly, Skip \/ UNCHANGED vars PROVE SplicedExactly'
<1>1. UNCHANGED <<source, fixes, queue, out, taken>>
  BY DEF Skip, vars
<1>2. \A k : EditAt(k)' = EditAt(k)
  BY <1>1 DEF EditAt
<1>3. \A g : InsertedAt(g)' = InsertedAt(g) /\ KeptAfter(g)' = KeptAfter(g)
  BY <1>1, <1>2 DEF InsertedAt, KeptAfter
<1> QED BY <1>1, <1>3 DEF SplicedExactly

\* The text so far is the original with the applied edits made all at once, for
\* every text and every list of edits (the loop of fix::apply).
THEOREM EditsAreSpliced == Spec => []SplicedExactly
<1>1. IInv /\ SplicedExactly /\ [Next]_vars => SplicedExactly'
  BY TakeSpliced, SkipSpliced DEF Next
<1> QED BY <1>1, InitSpliced, ApplyInvariant, PTL DEF Spec

-----------------------------------------------------------------------------
(* Folds over a sequence, turn by turn.                                    *)

\* The greatest of finitely many numbers.
LEMMA MaxOfTurns ==
  ASSUME NEW n \in Nat, NEW T \in SUBSET (1..n), T # {}
  PROVE  Max(T) \in T /\ \A y \in T : y <= Max(T)
<1> DEFINE U == {x \in Nat : \E t \in T : x + t = n}
<1>1. U \in SUBSET Nat
  OBVIOUS
<1>2. U # {}
  <2>1. PICK t \in T : TRUE
    OBVIOUS
  <2>2. n - t \in Nat /\ (n - t) + t = n
    BY <2>1
  <2> QED BY <2>2
<1> HIDE DEF U
<1>3. PICK u \in U : \A v \in U : ~(v < u)
  BY <1>1, <1>2, LeastElement
<1>4. PICK x \in T : u + x = n
  BY <1>3 DEF U
<1>5. ASSUME NEW y \in T PROVE x >= y
  <2>1. n - y \in U
    BY DEF U
  <2>2. ~(n - y < u) /\ x \in Nat /\ y \in Nat /\ u \in Nat
    BY <2>1, <1>1, <1>3
  <2> QED BY <2>2, <1>4
<1>6. \E m \in T : \A y \in T : m >= y
  BY <1>5
<1>7. Max(T) \in T /\ \A y \in T : Max(T) >= y
  <2> HIDE <1>5, <1>4, <1>3
  <2> QED BY <1>6 DEF Max
<1>8. T \subseteq Nat
  OBVIOUS
<1> QED BY <1>7, <1>8

\* h is the fold of each part of S by step, pick[T] being the last element of T.
Folds(h, S, base, step, pick) ==
  \A T \in SUBSET S : h[T] = IF T = {} THEN base ELSE step[<<pick[T], h[T \ {pick[T]}]>>]

\* A fold obeys its equation: pick takes the elements of S one by one.
LEMMA Folding ==
  ASSUME NEW S, IsFiniteSet(S), NEW A, NEW base \in A, NEW step \in [S \X A -> A],
         NEW pick, \A T \in SUBSET S : T # {} => pick[T] \in T
  PROVE  \E h \in [SUBSET S -> A] : Folds(h, S, base, step, pick)
<1> DEFINE Eq(h, T) == h[T] = IF T = {} THEN base ELSE step[<<pick[T], h[T \ {pick[T]}]>>]
           Fits(h, i) == \A T \in SUBSET S : Cardinality(T) <= i => Eq(h, T)
           P == {i \in Nat : \E h \in [SUBSET S -> A] : Fits(h, i)}
<1>1. \A T \in SUBSET S : IsFiniteSet(T) /\ Cardinality(T) \in Nat
  BY FS_Subset, FS_CardinalityType
<1>2. \A T \in SUBSET S : T # {} => /\ T \ {pick[T]} \in SUBSET S
                                    /\ Cardinality(T \ {pick[T]}) = Cardinality(T) - 1
  BY <1>1, FS_RemoveElement
<1>3. \A h \in [SUBSET S -> A] : \A T \in SUBSET S :
        T # {} => step[<<pick[T], h[T \ {pick[T]}]>>] \in A
  <2> SUFFICES ASSUME NEW h \in [SUBSET S -> A], NEW T \in SUBSET S, T # {}
               PROVE  step[<<pick[T], h[T \ {pick[T]}]>>] \in A
    OBVIOUS
  <2>1. pick[T] \in S /\ h[T \ {pick[T]}] \in A
    BY <1>2
  <2> QED BY <2>1
<1>4. 0 \in P
  <2> DEFINE g == [T \in SUBSET S |-> base]
  <2>1. \A T \in SUBSET S : Cardinality(T) <= 0 => T = {}
    BY <1>1, FS_EmptySet
  <2>2. g \in [SUBSET S -> A] /\ Fits(g, 0)
    BY <2>1
  <2> QED BY <2>2
<1>5. ASSUME NEW i \in P PROVE i + 1 \in P
  <2>0. i \in Nat /\ i + 1 \in Nat
    OBVIOUS
  <2>1. PICK h \in [SUBSET S -> A] : Fits(h, i)
    OBVIOUS
  <2> DEFINE g == [T \in SUBSET S |->
                    IF T = {} THEN base
                    ELSE IF Cardinality(T) <= i THEN h[T]
                    ELSE step[<<pick[T], h[T \ {pick[T]}]>>]]
  <2>2. g \in [SUBSET S -> A]
    <3>1. \A T \in SUBSET S : T # {} => step[<<pick[T], h[T \ {pick[T]}]>>] \in A
      BY <1>3
    <3> QED BY <3>1
  <2>3. h[{}] = base
    <3>1. {} \in SUBSET S /\ Cardinality({}) <= i
      BY FS_EmptySet
    <3>2. Eq(h, {})
      BY <2>1, <3>1
    <3> QED BY <3>2
  <2>4. \A T \in SUBSET S : Cardinality(T) <= i => g[T] = h[T]
    BY <2>3
  <2>5. ASSUME NEW T \in SUBSET S, Cardinality(T) <= i + 1, T # {}
        PROVE g[T] = step[<<pick[T], g[T \ {pick[T]}]>>]
    <3>1. g[T \ {pick[T]}] = h[T \ {pick[T]}]
      <4>1. T \ {pick[T]} \in SUBSET S /\ Cardinality(T \ {pick[T]}) <= i
        BY <1>1, <1>2, <2>5
      <4> HIDE DEF g
      <4> QED BY <4>1, <2>4
    <3>2. g[T] = step[<<pick[T], h[T \ {pick[T]}]>>]
      BY <2>1, <2>5
    <3> QED BY <3>1, <3>2
  <2>6. Fits(g, i + 1)
    <3>1. g[{}] = base
      OBVIOUS
    <3> HIDE DEF g
    <3> QED BY <2>5, <3>1
  <2>7. \E x \in [SUBSET S -> A] : Fits(x, i + 1)
    <3> HIDE DEF g, Fits
    <3> QED BY <2>2, <2>6
  <2> HIDE DEF Fits
  <2> QED BY <2>0, <2>7
<1>6. Cardinality(S) \in P
  <2> HIDE DEF P
  <2>1. P \in SUBSET Nat
    BY DEF P
  <2>2. P = Nat
    BY <1>4, <1>5, <2>1, Induction
  <2>3. Cardinality(S) \in Nat
    BY <1>1
  <2> QED BY <2>2, <2>3
<1>7. PICK h \in [SUBSET S -> A] : Fits(h, Cardinality(S))
  BY <1>6
<1>8. \A T \in SUBSET S : Cardinality(T) <= Cardinality(S)
  BY FS_Subset
<1>9. \A T \in SUBSET S : Eq(h, T)
  BY <1>7, <1>8
<1> QED BY <1>9 DEF Folds

LEMMA Prefix ==
  ASSUME NEW n \in Nat, NEW i \in 1..n
  PROVE  /\ 1..i \in SUBSET (1..n) /\ 1..i # {}
         /\ Max(1..i) = i
         /\ (1..i) \ {i} = 1..(i - 1)
<1>1. 1..i \in SUBSET (1..n) /\ i \in 1..i
  OBVIOUS
<1>2. Max(1..i) \in 1..i /\ i <= Max(1..i)
  BY <1>1, MaxOfTurns
<1> QED BY <1>1, <1>2

\* h is the fold of the turns of 1 .. n, the last one last.
FoldsTurns(h, n, base, step) ==
  \A T \in SUBSET (1..n) : h[T] = IF T = {} THEN base ELSE step[<<Max(T), h[T \ {Max(T)}]>>]

LEMMA FoldingTurns ==
  ASSUME NEW n \in Nat, NEW A, NEW base \in A, NEW step \in [(1..n) \X A -> A]
  PROVE  \E h \in [SUBSET (1..n) -> A] :
           FoldsTurns(h, n, base, step)
<1> DEFINE pick == [T \in SUBSET (1..n) |-> Max(T)]
<1>1. \A T \in SUBSET (1..n) : T # {} => pick[T] \in T
  BY MaxOfTurns
<1>2. IsFiniteSet(1..n)
  BY FS_Interval
<1>3. PICK h \in [SUBSET (1..n) -> A] : Folds(h, 1..n, base, step, pick)
  <2> HIDE DEF pick
  <2> QED BY <1>1, <1>2, Folding
<1> QED BY <1>3 DEF Folds, FoldsTurns

\* The values a fold passes through: f[i] is that of the first i turns.
StaysIn(g, n, A) == g[1..0] \in A /\ \A i \in 1..n : g[1..(i - 1)] \in A => g[1..i] \in A

Passes(f, g, n)  == \A i \in 0..n : f[i] = g[1..i]

LEMMA PassingTurns ==
  ASSUME NEW n \in Nat, NEW A, NEW g, StaysIn(g, n, A)
  PROVE  \E f \in [0..n -> A] : Passes(f, g, n)
<1> DEFINE P == {i \in 0..n : g[1..i] \in A}
<1>1. 0 \in P /\ \A i \in 1..n : i - 1 \in P => i \in P
  BY DEF StaysIn
<1> HIDE DEF P
<1>2. 0..n \subseteq P
  BY <1>1, BoundedInduction
<1>3. [i \in 0..n |-> g[1..i]] \in [0..n -> A]
  BY <1>2 DEF P
<1>4. Passes([i \in 0..n |-> g[1..i]], g, n)
  BY DEF Passes
<1> QED BY <1>3, <1>4

-----------------------------------------------------------------------------
(* Parentheses.                                                            *)

Positions(text, x, i, j) == {k \in i..j : text[k] = x}

LEMMA PositionsSplit ==
  ASSUME NEW text, NEW x, NEW c \in Nat, NEW d \in Nat, NEW i \in Nat, c <= d, d <= i + 1
  PROVE  /\ Cardinality(Positions(text, x, c, d - 1)) \in Nat
         /\ Cardinality(Positions(text, x, d, i)) \in Nat
         /\ Cardinality(Positions(text, x, c, i)) =
              Cardinality(Positions(text, x, c, d - 1)) + Cardinality(Positions(text, x, d, i))
<1> DEFINE L == Positions(text, x, c, d - 1)
           R == Positions(text, x, d, i)
<1>1. Positions(text, x, c, i) = L \cup R /\ L \cap R = {}
  BY DEF Positions
<1>2. IsFiniteSet(c..(d - 1)) /\ IsFiniteSet(d..i)
  BY FS_Interval
<1>3. IsFiniteSet(L) /\ IsFiniteSet(R)
  BY <1>2, FS_Subset DEF Positions
<1> HIDE DEF L, R
<1>4. Cardinality(L \cup R) = Cardinality(L) + Cardinality(R) - Cardinality({})
  BY <1>1, <1>3, FS_Union
<1>5. Cardinality(L) \in Nat /\ Cardinality(R) \in Nat
  BY <1>3, FS_CardinalityType
<1>6. Cardinality({}) = 0
  BY FS_EmptySet
<1>7. Cardinality(L \cup R) = Cardinality(L) + Cardinality(R)
  BY <1>4, <1>5, <1>6
<1> QED BY <1>1, <1>5, <1>7 DEF L, R

\* What is open after i was open before d, or opened since.
LEMMA DepthSplits ==
  ASSUME NEW text, NEW c \in Nat, NEW d \in Nat, NEW i \in Nat, c <= d, d <= i + 1
  PROVE  /\ Depth(text, c, i) = Depth(text, c, d - 1) + Depth(text, d, i)
         /\ Depth(text, c, d - 1) \in Int /\ Depth(text, d, i) \in Int
<1>1. \A x : /\ Cardinality(Positions(text, x, c, d - 1)) \in Nat
             /\ Cardinality(Positions(text, x, d, i)) \in Nat
             /\ Cardinality(Positions(text, x, c, i)) =
                  Cardinality(Positions(text, x, c, d - 1)) + Cardinality(Positions(text, x, d, i))
  BY PositionsSplit
<1> DEFINE D(a, b) ==
             Cardinality(Positions(text, "(", a, b)) - Cardinality(Positions(text, ")", a, b))
<1>2. Depth(text, c, i) = D(c, i) /\ Depth(text, c, d - 1) = D(c, d - 1)
        /\ Depth(text, d, i) = D(d, i)
  BY DEF Depth, Positions
<1>3. D(c, i) = D(c, d - 1) + D(d, i) /\ D(c, d - 1) \in Int /\ D(d, i) \in Int
  BY <1>1
<1> QED BY <1>2, <1>3

LEMMA DepthAtStart ==
  ASSUME NEW text, NEW c \in Nat, text[c] \notin {"(", ")"}, text[c + 1] = "("
  PROVE  Depth(text, c, c + 1) = 1
<1>1. Positions(text, "(", c, c + 1) = {c + 1} /\ Positions(text, ")", c, c + 1) = {}
  BY DEF Positions
<1>2. Depth(text, c, c + 1) =
        Cardinality(Positions(text, "(", c, c + 1)) - Cardinality(Positions(text, ")", c, c + 1))
  BY DEF Depth, Positions
<1>3. Cardinality({c + 1}) = 1 /\ Cardinality({}) = 0
  BY FS_Singleton, FS_EmptySet
<1> QED BY <1>1, <1>2, <1>3

LEMMA LeastOf ==
  ASSUME NEW T \in SUBSET Nat, T # {}
  PROVE  Min(T) \in T /\ \A y \in T : Min(T) <= y
<1>1. PICK x \in T : \A y \in T : ~(y < x)
  BY LeastElement
<1>2. x \in Nat /\ \A y \in T : y \in Nat
  OBVIOUS
<1>3. \A y \in T : x <= y
  BY <1>1, <1>2
<1> QED BY <1>3 DEF Min

LEMMA CloseIs ==
  ASSUME NEW text, Len(text) \in Nat, NEW c \in 1..Len(text), Closings(text, c) # {}
  PROVE  /\ Close(text, c) \in (c + 2)..Len(text)
         /\ \A j \in (c + 2)..Len(text) : Depth(text, c, j) = 0 => Close(text, c) <= j
<1>1. Closings(text, c) \in SUBSET Nat
  BY DEF Closings
<1>2. Close(text, c) \in Closings(text, c)
  BY <1>1, LeastOf DEF Close
<1>3. \A y \in Closings(text, c) : Close(text, c) <= y
  BY <1>1, LeastOf DEF Close
<1> QED BY <1>2, <1>3 DEF Closings

Parenthesis == {"(", ")"}

\* One more token opens a parenthesis, closes one, or does neither.
LEMMA DepthStep ==
  ASSUME NEW text, NEW c \in Nat, NEW i \in Nat, c <= i
  PROVE  /\ Depth(text, c, i - 1) \in Int /\ Depth(text, c, i) \in Int
         /\ Depth(text, c, i) = Depth(text, c, i - 1)
              + IF text[i] = "(" THEN 1 ELSE IF text[i] = ")" THEN -1 ELSE 0
<1>1. Depth(text, c, i) = Depth(text, c, i - 1) + Depth(text, i, i)
      /\ Depth(text, c, i - 1) \in Int /\ Depth(text, i, i) \in Int
  BY DepthSplits
<1> DEFINE opened == Positions(text, "(", i, i)
           closed == Positions(text, ")", i, i)
<1>2. Depth(text, i, i) = Cardinality(opened) - Cardinality(closed)
  BY DEF Depth, Positions
<1>3. opened = (IF text[i] = "(" THEN {i} ELSE {}) /\ closed = (IF text[i] = ")" THEN {i} ELSE {})
  BY DEF Positions
<1>4. Cardinality({i}) = 1 /\ Cardinality({}) = 0
  BY FS_Singleton, FS_EmptySet
<1> HIDE DEF opened, closed
<1>5. Depth(text, i, i) = IF text[i] = "(" THEN 1 ELSE IF text[i] = ")" THEN -1 ELSE 0
  <2>1. CASE text[i] = "("
    <3>1. opened = {i} /\ closed = {}
      BY <1>3, <2>1
    <3> QED BY <1>2, <1>4, <2>1, <3>1
  <2>2. CASE text[i] = ")"
    <3>1. opened = {} /\ closed = {i}
      BY <1>3, <2>2
    <3> QED BY <1>2, <1>4, <2>2, <3>1
  <2>3. CASE text[i] # "(" /\ text[i] # ")"
    <3>1. opened = {} /\ closed = {}
      BY <1>3, <2>3
    <3> QED BY <1>2, <1>4, <2>3, <3>1
  <2> QED BY <2>1, <2>2, <2>3
<1> QED BY <1>1, <1>5

\* A call by a name that is closed.
Opens(text, c) ==
  /\ Len(text) \in Nat /\ c \in 1..Len(text) /\ text[c] \notin Parenthesis
  /\ text[c + 1] = "(" /\ Closings(text, c) # {}

\* Inside of a call something is open; its end closes the last.
LEMMA InsideIsOpen ==
  ASSUME NEW text, NEW c, Opens(text, c)
  PROVE  /\ Close(text, c) \in (c + 2)..Len(text) /\ text[Close(text, c)] = ")"
         /\ \A j \in (c + 1)..(Close(text, c) - 1) : Depth(text, c, j) \in Nat \ {0}
         /\ Depth(text, c, Close(text, c) - 1) = 1 /\ Depth(text, c, Close(text, c)) = 0
         /\ Depth(text, c, c + 1) = 1 /\ Depth(text, c, c) = 0
<1> DEFINE z == Close(text, c)
           n == z - c - 2
<1>1. /\ z \in (c + 2)..Len(text) /\ c \in Nat /\ c >= 1 /\ Len(text) \in Nat /\ n \in Nat
      /\ \A j \in (c + 2)..Len(text) : Depth(text, c, j) = 0 => z <= j
  BY CloseIs DEF Opens
<1>2. Depth(text, c, z) = 0
  <2>1. Closings(text, c) \in SUBSET Nat
    BY DEF Closings, Opens
  <2>2. z \in Closings(text, c)
    BY <2>1, LeastOf DEF Close, Opens
  <2> QED BY <2>2 DEF Closings
<1> HIDE DEF z
<1>3. Depth(text, c, c + 1) = 1
  BY DepthAtStart DEF Opens, Parenthesis
<1> DEFINE P == {k \in 0..n : Depth(text, c, c + 1 + k) \in Nat \ {0}}
<1>4. 0 \in P
  BY <1>1, <1>3
<1>5. ASSUME NEW k \in 1..n, k - 1 \in P PROVE k \in P
  <2> DEFINE j == c + 1 + k
  <2>1. j \in Nat /\ c <= j /\ j \in (c + 2)..Len(text) /\ ~(z <= j) /\ j - 1 = c + 1 + (k - 1)
    BY <1>1
  <2>2. Depth(text, c, j - 1) \in Nat \ {0}
    BY <1>5, <2>1
  <2> HIDE DEF j
  <2>3. Depth(text, c, j) # 0
    BY <1>1, <2>1
  <2>4. Depth(text, c, j) \in Int /\ Depth(text, c, j) = Depth(text, c, j - 1)
          + IF text[j] = "(" THEN 1 ELSE IF text[j] = ")" THEN -1 ELSE 0
    BY <1>1, <2>1, DepthStep
  <2>5. Depth(text, c, j) \in Nat \ {0}
    BY <2>2, <2>3, <2>4
  <2> QED BY <2>5 DEF j
<1>6. 0..n \subseteq P
  <2> HIDE DEF P, n
  <2> QED BY <1>1, <1>4, <1>5, BoundedInduction
<1>7. ASSUME NEW j \in (c + 1)..(z - 1) PROVE Depth(text, c, j) \in Nat \ {0}
  <2>1. j - c - 1 \in 0..n /\ c + 1 + (j - c - 1) = j
    BY <1>1
  <2>2. j - c - 1 \in P
    BY <1>6, <2>1
  <2> QED BY <2>1, <2>2
<1>8. Depth(text, c, z - 1) \in Nat \ {0}
  BY <1>1, <1>7
<1>9. Depth(text, c, z) = Depth(text, c, z - 1)
          + IF text[z] = "(" THEN 1 ELSE IF text[z] = ")" THEN -1 ELSE 0
  BY <1>1, DepthStep
<1>10. text[z] = ")" /\ Depth(text, c, z - 1) = 1
  BY <1>2, <1>8, <1>9
<1>11. Depth(text, c, c) = 0
  <2>1. Depth(text, c, c + 1) = Depth(text, c, (c + 1) - 1) + 1
        /\ Depth(text, c, (c + 1) - 1) \in Int
    BY <1>1, DepthStep DEF Opens
  <2> QED BY <1>1, <1>3, <2>1
<1> QED BY <1>1, <1>2, <1>3, <1>7, <1>10, <1>11 DEF z

\* The tokens of an argument list are where they are looked for.
LEMMA ArgumentIsThere ==
  ASSUME NEW text, Len(text) \in Nat, NEW c \in 1..Len(text), Closings(text, c) # {},
         NEW kw, kw # "none", HasKeywordArg(text, c, kw)
  PROVE  \E j \in (c + 2)..Close(text, c) : Depth(text, c, j) = 1 /\ Keyword(text[j]) = kw
<1> DEFINE n == Close(text, c) - c - 2
           At(k) == c + 1 + k
           S == {text[j] : j \in {j \in (c + 2)..Close(text, c) : Depth(text, c, j) = 1}}
           s == [k \in 1..n |-> IF Depth(text, c, At(k)) = 1 /\ text[At(k)] \notin {")"}
                                THEN <<text[At(k)]>> ELSE <<>>]
<1>1. Close(text, c) \in (c + 2)..Len(text) /\ n \in Nat
  BY CloseIs
<1>2. s \in [1..n -> Seq(S)]
  <2> SUFFICES ASSUME NEW k \in 1..n PROVE s[k] \in Seq(S)
    OBVIOUS
  <2>1. At(k) \in (c + 2)..Close(text, c)
    BY <1>1
  <2>2. Depth(text, c, At(k)) = 1 => text[At(k)] \in S
    BY <2>1
  <2> HIDE DEF S
  <2> QED BY <2>2
<1>3. ArgumentList(text, c) = FlattenSeq(s)
  BY DEF ArgumentList, ArgumentsBut
<1>4. ArgumentList(text, c) \in Seq(S)
  <2> HIDE DEF s, n, S
  <2> QED BY <1>1, <1>2, <1>3, FlattenTyped
<1>5. PICK k \in DOMAIN ArgumentList(text, c) : Keyword(ArgumentList(text, c)[k]) = kw
  BY DEF HasKeywordArg
<1>6. ArgumentList(text, c)[k] \in S
  <2> HIDE DEF S
  <2> QED BY <1>4, <1>5
<1> QED BY <1>5, <1>6

\* A token is an argument of one call at most.
Argues(text, c, i) ==
  /\ text[c] \notin {"(", ")"} /\ text[c + 1] = "(" /\ Closings(text, c) # {}
  /\ i \in c..Close(text, c) /\ Depth(text, c, i) = 1

LEMMA OneCallPerArgument ==
  ASSUME NEW text, Len(text) \in Nat, NEW c \in 1..Len(text), NEW d \in 1..Len(text), c < d,
         NEW i \in Nat, Argues(text, c, i), Argues(text, d, i)
  PROVE  FALSE
<1>1. Close(text, c) \in (c + 2)..Len(text)
      /\ \A j \in (c + 2)..Len(text) : Depth(text, c, j) = 0 => Close(text, c) <= j
  BY CloseIs DEF Argues
<1>2. d <= i /\ i <= Close(text, c) /\ c + 1 \in Nat /\ d - 1 \in Nat
  BY <1>1, CloseIs DEF Argues
<1>3. d >= c + 2
  BY DEF Argues
<1>4. Depth(text, c, i) = Depth(text, c, d - 1) + Depth(text, d, i) /\ Depth(text, c, d - 1) \in Int
  BY <1>2, DepthSplits
<1>5. Depth(text, c, d - 1) = 0
  BY <1>4 DEF Argues
<1>6. CASE d = c + 2
  <2>1. Depth(text, c, c + 1) = 1
    BY DepthAtStart DEF Argues
  <2> QED BY <1>5, <1>6, <2>1
<1>7. CASE d # c + 2
  <2>1. d - 1 \in (c + 2)..Len(text)
    BY <1>3, <1>7
  <2>2. Close(text, c) <= d - 1
    BY <1>1, <1>5, <2>1
  <2> QED BY <1>1, <1>2, <2>2
<1> QED BY <1>6, <1>7

-----------------------------------------------------------------------------
(* The sort.                                                               *)

HasOffsets(edits) ==
  /\ Len(edits) \in Nat
  /\ \A i \in 1..Len(edits) : edits[i].start_byte \in Nat /\ edits[i].end_byte \in Nat

LEMMA BeforeIsOrder ==
  ASSUME NEW edits, HasOffsets(edits)
  PROVE  \A i, j, k \in 1..Len(edits) :
           /\ ~Before(edits, i, i)
           /\ Before(edits, i, j) /\ Before(edits, j, k) => Before(edits, i, k)
           /\ i # j => Before(edits, i, j) \/ Before(edits, j, i)
BY DEF HasOffsets, Before

LEMMA SortExists ==
  ASSUME NEW edits, HasOffsets(edits)
  PROVE  Sorted(edits) # {}
<1> DEFINE n == Len(edits)
           Ahead(i) == {j \in 1..n : Before(edits, j, i)}
           rank == [i \in 1..n |-> Cardinality(Ahead(i)) + 1]
<1>0. n \in Nat
  BY DEF HasOffsets
<1>1. IsFiniteSet(1..n) /\ Cardinality(1..n) = n
  BY <1>0, FS_Interval
<1>2. ASSUME NEW i \in 1..n PROVE IsFiniteSet(Ahead(i)) /\ Cardinality(Ahead(i)) + 1 \in 1..n
  <2>1. Ahead(i) \in SUBSET ((1..n) \ {i})
    BY BeforeIsOrder
  <2>2. IsFiniteSet((1..n) \ {i}) /\ Cardinality((1..n) \ {i}) = n - 1
    BY <1>1, FS_RemoveElement
  <2> HIDE DEF Ahead
  <2>3. IsFiniteSet(Ahead(i)) /\ Cardinality(Ahead(i)) <= n - 1
    BY <2>1, <2>2, FS_Subset
  <2>4. Cardinality(Ahead(i)) \in Nat
    BY <2>3, FS_CardinalityType
  <2> QED BY <1>0, <2>3, <2>4
<1>3. ASSUME NEW i \in 1..n, NEW j \in 1..n, Before(edits, i, j)
      PROVE  Cardinality(Ahead(i)) < Cardinality(Ahead(j))
  <2>1. Ahead(i) \in SUBSET Ahead(j) /\ i \in Ahead(j) /\ i \notin Ahead(i)
    BY <1>3, BeforeIsOrder
  <2>2. IsFiniteSet(Ahead(j)) /\ IsFiniteSet(Ahead(i))
    BY <1>2
  <2> HIDE DEF Ahead
  <2>3. Cardinality(Ahead(i)) <= Cardinality(Ahead(j))
        /\ (Cardinality(Ahead(j)) = Cardinality(Ahead(i)) => Ahead(j) = Ahead(i))
    BY <2>1, <2>2, FS_Subset
  <2>4. Cardinality(Ahead(i)) \in Nat /\ Cardinality(Ahead(j)) \in Nat
    BY <2>2, FS_CardinalityType
  <2> QED BY <2>1, <2>3, <2>4
<1>4. rank \in [1..n -> 1..n]
  BY <1>2
<1>5. \A i, j \in 1..n : Before(edits, i, j) => rank[i] < rank[j]
  <2> SUFFICES ASSUME NEW i \in 1..n, NEW j \in 1..n, Before(edits, i, j)
               PROVE  rank[i] < rank[j]
    OBVIOUS
  <2>1. Cardinality(Ahead(i)) < Cardinality(Ahead(j))
    BY <1>3
  <2>2. Cardinality(Ahead(i)) + 1 \in 1..n /\ Cardinality(Ahead(j)) + 1 \in 1..n
    BY <1>2
  <2>3. Cardinality(Ahead(i)) \in Int /\ Cardinality(Ahead(j)) \in Int
    <3>1. Cardinality(Ahead(i)) \in Nat /\ Cardinality(Ahead(j)) \in Nat
      BY <1>2, FS_CardinalityType
    <3> QED BY <3>1
  <2> HIDE DEF Ahead
  <2> QED BY <2>1, <2>3
<1> HIDE DEF rank
<1>6. \A i, j \in 1..n : i # j => rank[i] # rank[j]
  <2> SUFFICES ASSUME NEW i \in 1..n, NEW j \in 1..n, i # j PROVE rank[i] # rank[j]
    OBVIOUS
  <2>1. Before(edits, i, j) \/ Before(edits, j, i)
    BY BeforeIsOrder
  <2>2. rank[i] \in Int /\ rank[j] \in Int
    BY <1>4
  <2>3. rank[i] < rank[j] \/ rank[j] < rank[i]
    BY <1>5, <2>1
  <2> QED BY <2>2, <2>3
<1>7. rank \in Injection(1..n, 1..n)
  BY <1>4, <1>6 DEF Injection, IsInjective
<1>8. rank \in Surjection(1..n, 1..n)
  BY <1>1, <1>7, FS_Injection
<1>9. \A k \in 1..n : \E i \in 1..n : rank[i] = k
  BY <1>8 DEF Surjection
<1> DEFINE q == [k \in 1..n |-> CHOOSE i \in 1..n : rank[i] = k]
<1>10. q \in [1..n -> 1..n] /\ \A k \in 1..n : rank[q[k]] = k
  BY <1>9
<1> HIDE DEF q
<1>11. ASSUME NEW i \in 1..n, NEW j \in 1..n, i < j PROVE Before(edits, q[i], q[j])
  <2>1. q[i] \in 1..n /\ q[j] \in 1..n /\ rank[q[i]] = i /\ rank[q[j]] = j
    BY <1>10
  <2>2. q[i] # q[j]
    BY <1>11, <2>1
  <2>3. Before(edits, q[i], q[j]) \/ Before(edits, q[j], q[i])
    BY <2>1, <2>2, BeforeIsOrder
  <2>4. ~Before(edits, q[j], q[i])
    <3>1. Before(edits, q[j], q[i]) => j < i
      BY <1>5, <2>1
    <3> QED BY <1>11, <3>1
  <2> QED BY <2>3, <2>4
<1>12. q \in Sorted(edits)
  BY <1>10, <1>11 DEF Sorted
<1> QED BY <1>12

-----------------------------------------------------------------------------
(* The edits of the rules.                                                 *)

\* What a rule replaces is neither a parenthesis nor one that a rule still replaces.
Replaceable == {"math_sqrt", "matrix", "applymap", "dask=allowed"}
Replacing == {"np_sqrt", "array", "map", "dask=parallelized"}

LEMMA ReplacedTokens ==
  /\ \A token : Modulo(token) = token \/ (token \in Replaceable /\ Modulo(token) \in Replacing)
  /\ \A token : token \in Replaceable => Modulo(token) \in Replacing
  /\ \A token \in Written : Modulo(token) = token
  /\ \A token \in DOMAIN NewName : token \in Replaceable /\ Modulo(token) = NewName[token]
  /\ Modulo("dask=allowed") = "dask=parallelized" /\ "dask=allowed" \in Replaceable
  /\ Replacing \subseteq Written
<1>1. DOMAIN NewName = {"math_sqrt", "matrix", "applymap"}
  BY DEF NewName
<1>2. NewName["math_sqrt"] = "np_sqrt" /\ NewName["matrix"] = "array" /\ NewName["applymap"] = "map"
  BY DEF NewName
<1>3. ASSUME NEW token, token \in DOMAIN NewName
      PROVE  /\ Modulo(token) \in Replacing /\ token \in Replaceable /\ token \notin Written
             /\ Modulo(token) = NewName[token]
  <2>1. token # "dask=allowed"
    BY <1>1, <1>3
  <2>2. Modulo(token) = NewName[token]
    BY <1>3, <2>1 DEF Modulo
  <2> QED BY <1>1, <1>2, <1>3, <2>2 DEF Replacing, Replaceable, Written
<1>4. ASSUME NEW token, token \notin DOMAIN NewName
      PROVE  Modulo(token) = IF token = "dask=allowed" THEN "dask=parallelized" ELSE token
  BY <1>4 DEF Modulo
<1>5. "dask=allowed" \notin DOMAIN NewName /\ "dask=allowed" \notin Written
  BY <1>1 DEF Written
<1>6. Replaceable = DOMAIN NewName \cup {"dask=allowed"} /\ "dask=parallelized" \in Replacing
  BY <1>1 DEF Replaceable, Replacing
<1>7. Modulo("dask=allowed") = "dask=parallelized"
  BY <1>4, <1>5
<1>8. \A token : Modulo(token) = token \/ (token \in Replaceable /\ Modulo(token) \in Replacing)
  <2> TAKE token
  <2>1. CASE token \in DOMAIN NewName
    BY <1>3, <2>1
  <2>2. CASE token \notin DOMAIN NewName
    <3>1. CASE token = "dask=allowed"
      BY <1>6, <1>7, <3>1
    <3>2. CASE token # "dask=allowed"
      BY <1>4, <2>2, <3>2
    <3> QED BY <3>1, <3>2
  <2> QED BY <2>1, <2>2
<1>9. \A token : token \in Replaceable => Modulo(token) \in Replacing
  BY <1>3, <1>6, <1>7
<1>10. \A token \in Written : Modulo(token) = token
  <2> TAKE token \in Written
  <2>1. token \notin DOMAIN NewName /\ token # "dask=allowed"
    BY <1>3, <1>5
  <2> QED BY <1>4, <2>1
<1>11. Replacing \subseteq Written
  BY DEF Replacing, Written
<1>12. "dask=allowed" \in Replaceable
  BY DEF Replaceable
<1> QED BY <1>3, <1>7, <1>8, <1>9, <1>10, <1>11, <1>12

\* An edit of a text either replaces a token that a rule is about, or inserts
\* tokens before the end of a call.
Replaces(text, f) ==
  /\ f.end_byte = f.start_byte + 1 /\ text[f.end_byte] \in Replaceable
  /\ f.replacement = <<Modulo(text[f.end_byte])>>

Inserts(f) == f.end_byte = f.start_byte

InsertsAtEnd(text, f) ==
  /\ Inserts(f) /\ f.replacement # <<>>
  /\ f.end_byte \in 1..(Len(text) - 1) /\ text[f.end_byte + 1] = ")"

EditsOf(text) ==
  {f \in [start_byte : Nat, end_byte : Nat, replacement : Seq(Written)] :
     f.end_byte <= Len(text) /\ (Replaces(text, f) \/ InsertsAtEnd(text, f))}

\* Call c is the one whose rules replace token i.
Owns(text, c, i) ==
  \/ i = c /\ text[c] \in DOMAIN NewName
  \/ text[c] = "apply_ufunc" /\ Keyword(text[i]) = "dask" /\ Argues(text, c, i)

LEMMA OneOwner ==
  ASSUME NEW text, Len(text) \in Nat, NEW c \in 1..Len(text), NEW d \in 1..Len(text),
         NEW i \in Nat, Owns(text, c, i), Owns(text, d, i)
  PROVE  c = d
<1>0. /\ text[i] \in DOMAIN NewName => Keyword(text[i]) # "dask"
      /\ "apply_ufunc" \notin DOMAIN NewName
  BY DEF NewName, Keyword
<1>1. CASE i = c /\ i = d
  BY <1>1
<1>2. CASE Argues(text, c, i) /\ Argues(text, d, i)
  BY <1>2, OneCallPerArgument
<1> QED BY <1>0, <1>1, <1>2 DEF Owns

LEMMA InsertionSays ==
  ASSUME NEW text, NEW c, Opens(text, c), NEW keyword
  PROVE  LET f == Insertion(text, c, keyword)
         IN  /\ Inserts(f) /\ f.end_byte = Close(text, c) - 1 /\ f.start_byte = f.end_byte
             /\ Len(f.replacement) \in Nat \ {0} /\ f.replacement[Len(f.replacement)] = keyword
<1> DEFINE f == Insertion(text, c, keyword)
           at == Close(text, c) - 1
           r == Separator(text, c) \o <<keyword>>
<1>1. f = [start_byte |-> at, end_byte |-> at, replacement |-> r]
  BY DEF Insertion
<1>2. Separator(text, c) \in {<<>>, <<",">>}
  BY DEF Separator, SeparatorAfter
<1>3. Len(r) \in Nat \ {0} /\ r[Len(r)] = keyword
  <2>1. CASE Separator(text, c) = <<>>
    <3>1. r = <<keyword>>
      BY <2>1
    <3> QED BY <3>1
  <2>2. CASE Separator(text, c) = <<",">>
    <3> DEFINE comma == ","
    <3>1. r = <<comma>> \o <<keyword>>
      BY <2>2
    <3> HIDE DEF comma, r
    <3> DEFINE S == {comma, keyword}
               first == <<comma>>
               last == <<keyword>>
    <3>2. /\ first \in Seq(S) /\ last \in Seq(S) /\ Len(first) = 1 /\ Len(last) = 1
          /\ last[1] = keyword
      OBVIOUS
    <3>3. r = first \o last
      BY <3>1
    <3> HIDE DEF first, last, S
    <3>4. Len(r) = 2 /\ r[2] = last[1]
      BY <3>2, <3>3, ConcatProperties
    <3> QED BY <3>2, <3>4
  <2> QED BY <1>2, <2>1, <2>2
<1> HIDE DEF r, at, f
<1> QED BY <1>1, <1>3 DEF Inserts, at, r, f

LEMMA InsertionIs ==
  ASSUME NEW text, NEW c, Opens(text, c), NEW keyword \in Written
  PROVE  Insertion(text, c, keyword) \in EditsOf(text) /\ Inserts(Insertion(text, c, keyword))
<1>1. Close(text, c) \in (c + 2)..Len(text) /\ text[Close(text, c)] = ")" /\ c >= 1 /\ c \in Nat
      /\ Len(text) \in Nat
  BY InsideIsOpen DEF Opens
<1>2. Separator(text, c) \in {<<>>, <<",">>}
  BY DEF Separator, SeparatorAfter
<1>3. Separator(text, c) \o <<keyword>> \in Seq(Written)
  <2>1. "," \in Written
    BY DEF Written
  <2> DEFINE comma == ","
  <2>2. <<>> \in Seq(Written) /\ <<comma>> \in Seq(Written)
    <3> HIDE DEF comma
    <3>1. comma \in Written
      BY <2>1 DEF comma
    <3> QED BY <3>1
  <2>3. Separator(text, c) \in Seq(Written)
    BY <1>2, <2>2
  <2> QED BY <2>3
<1> DEFINE at == Close(text, c) - 1
           f == Insertion(text, c, keyword)
<1>4. at \in 1..(Len(text) - 1) /\ at + 1 = Close(text, c)
  BY <1>1
<1>5. f = [start_byte |-> at, end_byte |-> at, replacement |-> Separator(text, c) \o <<keyword>>]
  BY DEF Insertion
<1>6. Len(f.replacement) # 0
  BY InsertionSays
<1> HIDE DEF at, f
<1>7. f \in [start_byte : Nat, end_byte : Nat, replacement : Seq(Written)]
      /\ f.end_byte = at /\ f.start_byte = at
  BY <1>3, <1>4, <1>5
<1>8. f.replacement # <<>>
  BY <1>6
<1>9. InsertsAtEnd(text, f) /\ f.end_byte <= Len(text)
  BY <1>1, <1>4, <1>7, <1>8 DEF InsertsAtEnd, Inserts
<1> QED BY <1>7, <1>9 DEF EditsOf, InsertsAtEnd, f

LEMMA ReplacementIs ==
  ASSUME NEW text, Len(text) \in Nat, NEW c, NEW i \in 1..Len(text), text[i] \in Replaceable
  PROVE  \E f \in EditsOf(text) :
           Replacement(text, c, i, Modulo(text[i])) = <<f>> /\ f.end_byte = i /\ Replaces(text, f)
<1> DEFINE token == Modulo(text[i])
           f == [start_byte |-> i - 1, end_byte |-> i, replacement |-> <<token>>]
<1>1. token \in Written
  BY ReplacedTokens
<1> HIDE DEF token
<1>2. f \in [start_byte : Nat, end_byte : Nat, replacement : Seq(Written)]
  BY <1>1
<1>3. f.end_byte = f.start_byte + 1 /\ f.end_byte = i /\ f.replacement = <<token>>
  OBVIOUS
<1>4. Replacement(text, c, i, token) = <<f>>
  BY DEF Replacement
<1> HIDE DEF f
<1>5. Replaces(text, f)
  BY <1>3 DEF Replaces, token
<1>6. f \in EditsOf(text)
  BY <1>2, <1>3, <1>5 DEF EditsOf
<1> QED BY <1>3, <1>4, <1>5, <1>6 DEF token

\* What the rules say of one call.
Piece(text, rules, c) ==
  IF c \notin Calls(text) THEN <<>>
  ELSE (IF "XR001" \in rules THEN XR001(text, c) ELSE <<>>)
    \o (IF "XR008" \in rules THEN XR008(text, c) ELSE <<>>)
    \o (IF "XR009" \in rules THEN XR009(text, c) ELSE <<>>)
    \o (IF "DK007" \in rules THEN DK007(text, c) ELSE <<>>)
    \o (IF text[c] \in DOMAIN NewName /\ NameRule[text[c]] \in rules
        THEN Rename(text, c) ELSE <<>>)

LEMMA FixesAreJoined ==
  ASSUME NEW text, NEW rules
  PROVE  Fixes(text, rules) = FlattenSeq([c \in 1..Len(text) |-> Piece(text, rules, c)])
BY DEF Fixes, Piece

LEMMA RenameIs ==
  ASSUME NEW text, Len(text) \in Nat, NEW c \in 1..Len(text), text[c] \in DOMAIN NewName
  PROVE  \E f \in EditsOf(text) : Rename(text, c) = <<f>> /\ f.end_byte = c /\ Replaces(text, f)
<1>1. text[c] \in Replaceable /\ Modulo(text[c]) = NewName[text[c]]
  BY ReplacedTokens
<1> QED BY <1>1, ReplacementIs DEF Rename

LEMMA XR009Is ==
  ASSUME NEW text, Len(text) \in Nat, NEW c \in 1..Len(text), Closings(text, c) # {},
         text[c + 1] = "("
  PROVE  \/ XR009(text, c) = <<>>
         \/ \E f \in EditsOf(text) : XR009(text, c) = <<f>> /\ Owns(text, c, f.end_byte)
<1> SUFFICES ASSUME text[c] = "apply_ufunc", HasKeywordArg(text, c, "dask"), XR009(text, c) # <<>>
             PROVE  \E f \in EditsOf(text) : XR009(text, c) = <<f>> /\ Owns(text, c, f.end_byte)
  BY DEF XR009
<1> DEFINE T == {k \in c..Close(text, c) : Depth(text, c, k) = 1 /\ Keyword(text[k]) = "dask"}
           i == Min(T)
<1>1. Close(text, c) \in (c + 2)..Len(text)
  BY CloseIs
<1>2. T # {} /\ T \in SUBSET Nat
  <2>1. PICK j \in (c + 2)..Close(text, c) : Depth(text, c, j) = 1 /\ Keyword(text[j]) = "dask"
    BY ArgumentIsThere
  <2>2. j \in c..Close(text, c)
    BY <1>1, <2>1
  <2> QED BY <1>1, <2>1, <2>2
<1>3. i \in T
  <2> HIDE DEF T
  <2> QED BY <1>2, LeastOf
<1>4. i \in 1..Len(text) /\ i \in c..Close(text, c) /\ Depth(text, c, i) = 1
      /\ Keyword(text[i]) = "dask"
  BY <1>1, <1>3
<1>5. XR009(text, c) =
        IF text[i] = "dask=allowed" THEN Replacement(text, c, i, "dask=parallelized") ELSE <<>>
  BY DEF XR009
<1> HIDE DEF i
<1>6. text[i] = "dask=allowed" /\ XR009(text, c) = Replacement(text, c, i, "dask=parallelized")
  BY <1>5
<1>7. text[i] \in Replaceable /\ Modulo(text[i]) = "dask=parallelized"
  BY <1>6, ReplacedTokens
<1>8. PICK f \in EditsOf(text) :
        Replacement(text, c, i, Modulo(text[i])) = <<f>> /\ f.end_byte = i /\ Replaces(text, f)
  <2>1. Len(text) \in Nat /\ i \in 1..Len(text) /\ text[i] \in Replaceable
    BY <1>4, <1>7
  <2> QED BY <2>1, ReplacementIs
<1>9. Owns(text, c, i)
  BY <1>4 DEF Owns, Argues
<1> QED BY <1>6, <1>7, <1>8, <1>9

IsReplacing(f) == f.end_byte # f.start_byte

\* The edits of one call: it replaces one token at most, its own.
OfOneCall(text, c, s) ==
  /\ s \in Seq(EditsOf(text))
  /\ \A x \in 1..Len(s) : IsReplacing(s[x]) => Owns(text, c, s[x].end_byte)
  /\ \A x, y \in 1..Len(s) : IsReplacing(s[x]) /\ IsReplacing(s[y]) => x = y

Quiet(text, s) == s \in Seq(EditsOf(text)) /\ \A x \in 1..Len(s) : ~IsReplacing(s[x])

LEMMA QuietJoins ==
  ASSUME NEW text, NEW s, NEW t, Quiet(text, s), Quiet(text, t)
  PROVE  Quiet(text, s \o t)
<1> DEFINE A == {f \in EditsOf(text) : ~IsReplacing(f)}
<1>1. s \in Seq(A) /\ t \in Seq(A)
  BY DEF Quiet
<1>2. s \o t \in Seq(A)
  BY <1>1
<1>3. A \subseteq EditsOf(text) /\ \A f \in A : ~IsReplacing(f)
  OBVIOUS
<1> HIDE DEF A
<1> QED BY <1>2, <1>3 DEF Quiet

LEMMA QuietNothing ==
  ASSUME NEW text PROVE Quiet(text, <<>>)
BY DEF Quiet

LEMMA QuietInsertion ==
  ASSUME NEW text, NEW c, Opens(text, c), NEW keyword \in Written
  PROVE  Quiet(text, <<Insertion(text, c, keyword)>>)
<1> DEFINE f == Insertion(text, c, keyword)
<1>1. f \in EditsOf(text) /\ ~IsReplacing(f)
  BY InsertionIs DEF Inserts, IsReplacing
<1> HIDE DEF f
<1>2. <<f>> \in Seq(EditsOf(text)) /\ Len(<<f>>) = 1 /\ <<f>>[1] = f
  BY <1>1
<1>3. Quiet(text, <<f>>)
  BY <1>1, <1>2 DEF Quiet
<1> QED BY <1>3 DEF f

LEMMA OneReplacement ==
  ASSUME NEW text, NEW c, NEW f \in EditsOf(text), Owns(text, c, f.end_byte)
  PROVE  OfOneCall(text, c, <<f>>)
BY DEF OfOneCall

LEMMA PieceIs ==
  ASSUME NEW text, Len(text) \in Nat, NEW c \in 1..Len(text), NEW rules,
         c \in Calls(text) => Closings(text, c) # {}
  PROVE  OfOneCall(text, c, Piece(text, rules, c))
<1> DEFINE p1 == IF "XR001" \in rules THEN XR001(text, c) ELSE <<>>
           p2 == IF "XR008" \in rules THEN XR008(text, c) ELSE <<>>
           p3 == IF "XR009" \in rules THEN XR009(text, c) ELSE <<>>
           p4 == IF "DK007" \in rules THEN DK007(text, c) ELSE <<>>
           p5 == IF text[c] \in DOMAIN NewName /\ NameRule[text[c]] \in rules
                 THEN Rename(text, c) ELSE <<>>
<1>0. \A s : Quiet(text, s) => OfOneCall(text, c, s)
  BY DEF Quiet, OfOneCall
<1>1. CASE c \notin Calls(text)
  <2>1. Piece(text, rules, c) = <<>>
    BY <1>1 DEF Piece
  <2> QED BY <1>0, <2>1, QuietNothing
<1>2. CASE c \in Calls(text)
  <2>1. Piece(text, rules, c) = p1 \o p2 \o p3 \o p4 \o p5
    BY <1>2 DEF Piece
  <2>2. Closings(text, c) # {} /\ text[c + 1] = "("
    BY <1>2 DEF Calls
  <2>3. "chunks" \in Written /\ "parallel=True" \in Written
    BY DEF Written
  <2>4. Quiet(text, p1)
    <3>1. \/ XR001(text, c) = <<>>
          \/ XR001(text, c) = <<Insertion(text, c, "chunks")>> /\ text[c] \notin Parenthesis
      BY DEF XR001, Parenthesis
    <3> QED BY <2>2, <2>3, <3>1, QuietNothing, QuietInsertion DEF Opens
  <2>5. Quiet(text, p2)
    <3>1. \/ XR008(text, c) = <<>>
          \/ XR008(text, c) = <<Insertion(text, c, "parallel=True")>> /\ text[c] \notin Parenthesis
      BY DEF XR008, Parenthesis
    <3> QED BY <2>2, <2>3, <3>1, QuietNothing, QuietInsertion DEF Opens
  <2>6. Quiet(text, p4)
    <3>1. \/ DK007(text, c) = <<>>
          \/ DK007(text, c) = <<Insertion(text, c, "chunks")>> /\ text[c] \notin Parenthesis
      BY DEF DK007, Parenthesis
    <3> QED BY <2>2, <2>3, <3>1, QuietNothing, QuietInsertion DEF Opens
  <2>7. DOMAIN NewName = {"math_sqrt", "matrix", "applymap"}
    BY DEF NewName
  <2>8. CASE text[c] \in DOMAIN NewName
    <3>1. p1 = <<>> /\ p2 = <<>> /\ p3 = <<>> /\ p4 = <<>>
      BY <2>7, <2>8 DEF XR001, XR008, XR009, DK007
    <3>2. PICK f \in EditsOf(text) : Rename(text, c) = <<f>> /\ f.end_byte = c
      BY <2>8, RenameIs
    <3>3. p5 = <<>> \/ p5 = <<f>>
      BY <3>2
    <3>4. OfOneCall(text, c, <<f>>)
      BY <2>8, <3>2, OneReplacement DEF Owns
    <3> HIDE DEF p1, p2, p3, p4, p5
    <3>5. Piece(text, rules, c) = p5
      BY <2>1, <3>1, <3>3
    <3> QED BY <1>0, <3>3, <3>4, <3>5, QuietNothing
  <2>9. CASE text[c] = "apply_ufunc"
    <3>1. p1 = <<>> /\ p2 = <<>> /\ p4 = <<>> /\ p5 = <<>>
      BY <2>7, <2>9 DEF XR001, XR008, DK007
    <3>2. p3 = <<>> \/ \E f \in EditsOf(text) : p3 = <<f>> /\ Owns(text, c, f.end_byte)
      BY <2>2, XR009Is
    <3> HIDE DEF p1, p2, p3, p4, p5
    <3>3. Piece(text, rules, c) = p3
      BY <2>1, <3>1, <3>2
    <3> QED BY <1>0, <3>2, <3>3, QuietNothing, OneReplacement
  <2>10. CASE text[c] \notin DOMAIN NewName /\ text[c] # "apply_ufunc"
    <3>1. p3 = <<>> /\ p5 = <<>>
      BY <2>10 DEF XR009
    <3> HIDE DEF p1, p2, p3, p4, p5
    <3>2. Quiet(text, p1 \o p2)
      BY <2>4, <2>5, QuietJoins
    <3>3. Quiet(text, (p1 \o p2) \o p4)
      BY <2>6, <3>2, QuietJoins
    <3>4. p1 \o p2 \in Seq(EditsOf(text)) /\ (p1 \o p2) \o p4 \in Seq(EditsOf(text))
      BY <3>2, <3>3 DEF Quiet
    <3>5. Piece(text, rules, c) = (p1 \o p2) \o p4
      <4> DEFINE u == p1 \o p2
                 w == u \o p4
      <4>1. u \in Seq(EditsOf(text)) /\ w \in Seq(EditsOf(text))
        BY <3>4
      <4>2. Piece(text, rules, c) = ((u \o <<>>) \o p4) \o <<>>
        BY <2>1, <3>1
      <4> HIDE DEF u
      <4>3. u \o <<>> = u /\ w \o <<>> = w
        BY <4>1
      <4> HIDE DEF w
      <4> QED BY <4>2, <4>3 DEF w, u
    <3> QED BY <1>0, <3>3, <3>5
  <2> QED BY <2>8, <2>9, <2>10
<1> QED BY <1>1, <1>2

\* No two edits replace the same token.
Distinct(s) ==
  \A x, y \in 1..Len(s) :
    IsReplacing(s[x]) /\ IsReplacing(s[y]) /\ s[x].end_byte = s[y].end_byte => x = y

LEMMA FixesAre ==
  ASSUME NEW text \in Seq(Byte), Parses(text), NEW rules
  PROVE  Fixes(text, rules) \in Seq(EditsOf(text)) /\ Distinct(Fixes(text, rules))
<1> DEFINE n == Len(text)
           E == EditsOf(text)
           s == [c \in 1..n |-> Piece(text, rules, c)]
<1>0. n \in Nat
  OBVIOUS
<1>1. \A c \in 1..n : OfOneCall(text, c, s[c])
  <2>1. \A c \in 1..n : c \in Calls(text) => Closings(text, c) # {}
    BY DEF Parses, CallParses
  <2> QED BY <1>0, <2>1, PieceIs
<1>2. s \in [1..n -> Seq(E)]
  BY <1>1 DEF OfOneCall
<1>3. Fixes(text, rules) = FlattenSeq(s)
  BY FixesAreJoined
<1> HIDE DEF E, n
<1>4. PICK f : Joins(f, s, n, E)
  <2> HIDE DEF s
  <2> QED BY <1>0, <1>2, JoinsExist
<1>5. FlattenSeq(s) = f[n]
  <2> HIDE DEF s
  <2> QED BY <1>0, <1>2, <1>4, FlattenJoins
<1> DEFINE Owned(m) == \A x \in 1..Len(f[m]) :
             IsReplacing(f[m][x]) => \E c \in 1..m : Owns(text, c, f[m][x].end_byte)
           P == {m \in 0..n : Owned(m) /\ Distinct(f[m])}
<1>6. 0 \in P
  BY <1>0, <1>4 DEF Joins, Distinct
<1>7. ASSUME NEW m \in 1..n, m - 1 \in P PROVE m \in P
  <2> DEFINE u == f[m - 1]
             v == s[m]
             w == f[m]
  <2>1. u \in Seq(E) /\ v \in Seq(E) /\ w \in Seq(E)
    BY <1>0, <1>2, <1>4 DEF Joins
  <2>2. w = u \o v
    BY <1>4 DEF Joins
  <2>3. OfOneCall(text, m, v) /\ Owned(m - 1) /\ Distinct(u)
    BY <1>1, <1>7
  <2>4. \A x \in 1..Len(u) : IsReplacing(u[x]) => \E c \in 1..(m - 1) : Owns(text, c, u[x].end_byte)
    BY <2>3
  <2> HIDE DEF u, v, w, s
  <2>5. Len(w) = Len(u) + Len(v) /\ Len(u) \in Nat /\ Len(v) \in Nat
        /\ \A x \in 1..Len(w) : w[x] = IF x <= Len(u) THEN u[x] ELSE v[x - Len(u)]
    BY <2>1, <2>2
  <2>6. \A x \in 1..Len(w) :
          \/ x \in 1..Len(u) /\ w[x] = u[x]
          \/ x - Len(u) \in 1..Len(v) /\ w[x] = v[x - Len(u)]
    BY <2>5
  <2>7. \A x \in 1..Len(w) : w[x].end_byte \in Nat
    BY <2>1 DEF E, EditsOf
  <2>8. \A x \in 1..Len(w) : IsReplacing(w[x]) =>
          \/ \E c \in 1..(m - 1) : x \in 1..Len(u) /\ w[x] = u[x] /\ Owns(text, c, w[x].end_byte)
          \/ x - Len(u) \in 1..Len(v) /\ w[x] = v[x - Len(u)] /\ Owns(text, m, w[x].end_byte)
    BY <2>3, <2>4, <2>6 DEF OfOneCall
  <2>9. \A x \in 1..Len(w) : IsReplacing(w[x]) => \E c \in 1..m : Owns(text, c, w[x].end_byte)
    <3>1. 1..(m - 1) \subseteq 1..m /\ m \in 1..m
      BY <1>0
    <3> QED BY <2>8, <3>1
  <2>10. Distinct(w)
    <3> SUFFICES ASSUME NEW x \in 1..Len(w), NEW y \in 1..Len(w),
                        IsReplacing(w[x]), IsReplacing(w[y]), w[x].end_byte = w[y].end_byte
                 PROVE  x = y
      BY DEF Distinct
    <3>0. /\ Len(text) \in Nat /\ m \in 1..Len(text)
          /\ 1..(m - 1) \subseteq 1..Len(text) /\ m \notin 1..(m - 1)
      BY <1>0 DEF n
    <3>1. \A c \in 1..(m - 1) : ~(Owns(text, c, w[x].end_byte) /\ Owns(text, m, w[x].end_byte))
      BY <2>7, <3>0, OneOwner
    <3>2. CASE x \in 1..Len(u) /\ w[x] = u[x] /\ y \in 1..Len(u) /\ w[y] = u[y]
      BY <2>3, <3>2 DEF Distinct
    <3>3. CASE /\ x - Len(u) \in 1..Len(v) /\ w[x] = v[x - Len(u)]
               /\ y - Len(u) \in 1..Len(v) /\ w[y] = v[y - Len(u)]
      <4>1. x - Len(u) = y - Len(u)
        BY <2>3, <3>3 DEF OfOneCall
      <4> QED BY <2>5, <4>1
    <3> QED BY <2>8, <3>1, <3>2, <3>3
  <2> HIDE DEF P
  <2>11. Owned(m) /\ Distinct(f[m])
    BY <2>9, <2>10 DEF w
  <2> HIDE DEF Owned
  <2> QED BY <2>11 DEF P
<1>8. n \in P
  <2> HIDE DEF P
  <2>1. 0..n \subseteq P
    BY <1>0, <1>6, <1>7, BoundedInduction
  <2> QED BY <1>0, <2>1
<1>9. f[n] \in Seq(E)
  BY <1>0, <1>4 DEF Joins
<1> QED BY <1>3, <1>5, <1>8, <1>9 DEF E

-----------------------------------------------------------------------------
(* The loop of fix::apply on these edits.                                  *)

EditState == [out : Seq(Byte), floor : Nat, skipped : Nat]

LEMMA EditIs ==
  ASSUME NEW text, Len(text) \in Nat, NEW f \in EditsOf(text)
  PROVE  /\ f \in Fix /\ f.start_byte \in Nat /\ f.end_byte \in Nat
         /\ f.replacement \in Seq(Written) /\ f.replacement \in Seq(Byte)
         /\ f.start_byte <= f.end_byte /\ f.end_byte <= Len(text) /\ f.end_byte <= f.start_byte + 1
         /\ Replaces(text, f) \/ InsertsAtEnd(text, f)
<1>1. /\ f \in [start_byte : Nat, end_byte : Nat, replacement : Seq(Written)]
      /\ f.end_byte <= Len(text) /\ (Replaces(text, f) \/ InsertsAtEnd(text, f))
  BY DEF EditsOf
<1>2. f.start_byte \in Nat /\ f.end_byte \in Nat /\ f.replacement \in Seq(Written)
  BY <1>1
<1>3. Written \subseteq Byte
  BY TextAssumption
<1>4. Seq(Written) \subseteq Seq(Byte)
  BY <1>3, SeqMonotonic
<1>5. f \in Fix
  BY <1>1, <1>4 DEF Fix
<1>6. f.start_byte <= f.end_byte /\ f.end_byte <= f.start_byte + 1
  BY <1>1, <1>2 DEF Replaces, InsertsAtEnd, Inserts
<1> QED BY <1>1, <1>2, <1>4, <1>5, <1>6

\* Where the parts of a spliced text are.
LEMMA SpliceIs ==
  ASSUME NEW text \in Seq(Byte), NEW f \in Fix,
         f.start_byte <= f.end_byte, f.end_byte <= Len(text)
  PROVE  LET new == ReplaceRange(text, f)
             a   == f.start_byte
             r   == f.replacement
         IN  /\ new \in Seq(Byte)
             /\ Len(new) = (a + Len(r)) + (Len(text) - f.end_byte)
             /\ \A i \in 1..Len(new) :
                  new[i] = IF i <= a THEN text[i]
                           ELSE IF i <= a + Len(r) THEN r[i - a]
                           ELSE text[f.end_byte + (i - (a + Len(r)))]
<1> DEFINE a == f.start_byte
           b == f.end_byte
           r == f.replacement
           n == Len(text)
           head == SubSeq(text, 1, a)
           tail == SubSeq(text, b + 1, n)
           new == ReplaceRange(text, f)
<1>1. a \in Nat /\ b \in Nat /\ r \in Seq(Byte) /\ n \in Nat /\ a <= b /\ b <= n
  BY DEF Fix
<1>2. head \in Seq(Byte) /\ Len(head) = a /\ \A i \in 1..a : head[i] = text[i]
  BY <1>1
<1>3. tail \in Seq(Byte) /\ Len(tail) = n - b /\ \A i \in 1..(n - b) : tail[i] = text[b + i]
  <2>1. CASE b = n
    BY <1>1, <2>1
  <2>2. CASE b < n
    <3>1. b + 1 \in 1..n /\ n \in 1..n
      BY <1>1, <2>2
    <3> QED BY <1>1, <2>2, <3>1
  <2> QED BY <1>1, <2>1, <2>2
<1>4. new = (head \o r) \o tail
  BY DEF ReplaceRange
<1> HIDE DEF head, tail, r, a, b, n, new
<1> DEFINE mid == head \o r
<1>5. mid \in Seq(Byte) /\ Len(mid) = a + Len(r) /\ Len(r) \in Nat
      /\ \A i \in 1..Len(mid) : mid[i] = IF i <= a THEN head[i] ELSE r[i - a]
  BY <1>1, <1>2
<1>6. new = mid \o tail
  BY <1>4
<1> HIDE DEF mid
<1>7. new \in Seq(Byte) /\ Len(new) = Len(mid) + Len(tail)
      /\ \A i \in 1..Len(new) : new[i] = IF i <= Len(mid) THEN mid[i] ELSE tail[i - Len(mid)]
  <2>1. /\ mid \o tail \in Seq(Byte) /\ Len(mid \o tail) = Len(mid) + Len(tail)
        /\ \A i \in 1..Len(mid) + Len(tail) :
             (mid \o tail)[i] = IF i <= Len(mid) THEN mid[i] ELSE tail[i - Len(mid)]
    <3>1. mid \in Seq(Byte) /\ tail \in Seq(Byte)
      BY <1>3, <1>5
    <3> QED BY <3>1, ConcatProperties
  <2> QED BY <1>6, <2>1
<1>8. Len(new) = (a + Len(r)) + (n - b)
  BY <1>3, <1>5, <1>7
<1>9. ASSUME NEW i \in 1..Len(new)
      PROVE  new[i] = IF i <= a THEN text[i] ELSE IF i <= a + Len(r) THEN r[i - a]
                      ELSE text[b + (i - (a + Len(r)))]
  <2>1. CASE i <= a
    BY <1>1, <1>2, <1>5, <1>7, <2>1
  <2>2. CASE ~(i <= a) /\ i <= a + Len(r)
    BY <1>1, <1>5, <1>7, <2>2
  <2>3. CASE ~(i <= a + Len(r))
    <3>1. i - Len(mid) \in 1..(n - b)
      BY <1>1, <1>5, <1>8, <2>3
    <3>2. new[i] = tail[i - Len(mid)]
      BY <1>5, <1>7, <2>3
    <3> QED BY <1>1, <1>3, <1>5, <2>3, <3>1, <3>2
  <2> QED BY <1>1, <1>5, <2>1, <2>2, <2>3
<1> QED BY <1>7, <1>8, <1>9 DEF new, a, r, b, n

\* One text contains the other: h says where its tokens are, in their order, up
\* to what the rules replace; up to the floor nothing has changed.
IsPlacing(h, text, edited, lowest) ==
  /\ h \in [1..Len(text) -> Nat]
  /\ \A i \in 1..Len(text) :
       /\ h[i] \in 1..Len(edited) /\ Modulo(edited[h[i]]) = Modulo(text[i])
       /\ i <= lowest => h[i] = i /\ edited[i] = text[i]
  /\ \A i, j \in 1..Len(text) : i < j => h[i] < h[j]

Carries(text, edited, lowest) == \E h : IsPlacing(h, text, edited, lowest)

\* After one run, all else was written by the rules, and never before an opening
\* parenthesis.
IsImage(h, text, edited) ==
  /\ h \in [1..Len(text) -> Nat]
  /\ \A i \in 1..Len(text) : h[i] \in 1..Len(edited) /\ edited[h[i]] \in {text[i], Modulo(text[i])}
  /\ \A i, j \in 1..Len(text) : i < j => h[i] < h[j]
  /\ \A j \in 1..Len(edited) : edited[j] \in Written \/ \E i \in 1..Len(text) : h[i] = j
  /\ \A i \in 1..Len(text) :
       text[i] = "(" => h[i] = IF i = 1 THEN 1 ELSE h[i - 1] + 1

\* An edit has been applied.
IsDone(h, text, edited, f) ==
  /\ Inserts(f) => \E j \in 1..Len(edited) :
       /\ h[f.end_byte] < j /\ j < h[f.end_byte + 1]
       /\ edited[j] = f.replacement[Len(f.replacement)]
  /\ Replaces(text, f) => edited[h[f.end_byte]] \in Replacing

\* No token came from elsewhere.
OfTheseTokens(text, edited) ==
  \A j \in 1..Len(edited) : edited[j] \in Written \/ \E i \in 1..Len(text) : edited[j] = text[i]

LEMMA ImageIsOfTokens ==
  ASSUME NEW text, NEW edited, NEW h, IsImage(h, text, edited)
  PROVE  OfTheseTokens(text, edited)
<1> SUFFICES ASSUME NEW j \in 1..Len(edited), edited[j] \notin Written
             PROVE  \E i \in 1..Len(text) : edited[j] = text[i]
  BY DEF OfTheseTokens
<1>1. PICK i \in 1..Len(text) : h[i] = j
  BY DEF IsImage
<1>2. edited[j] = text[i] \/ edited[j] = Modulo(text[i])
  BY <1>1 DEF IsImage
<1> DEFINE token == text[i]
<1>3. Modulo(token) = token \/ Modulo(token) \in Replacing
  BY ReplacedTokens
<1>4. Replacing \subseteq Written
  BY ReplacedTokens
<1> QED BY <1>2, <1>3, <1>4

\* Where a splice leaves the tokens of the text: what is above it moves up.
Moved(h, f) ==
  [i \in DOMAIN h |->
     IF i <= f.start_byte THEN h[i]
     ELSE h[i] + (Len(f.replacement) - (f.end_byte - f.start_byte))]

\* The tokens of a text before and after an edit below the floor.
Spliced(h, text, old, lowest, f) ==
  /\ text \in Seq(Byte) /\ old \in Seq(Byte) /\ lowest \in Nat /\ f \in EditsOf(text)
  /\ Accepts(old, lowest, f) /\ IsPlacing(h, text, old, lowest)

LEMMA SpliceMoves ==
  ASSUME NEW h, NEW text, NEW old, NEW lowest, NEW f, Spliced(h, text, old, lowest, f)
  PROVE  LET new   == ReplaceRange(old, f)
             k     == Moved(h, f)
             a     == f.start_byte
             b     == f.end_byte
             r     == f.replacement
             shift == Len(r) - (b - a)
         IN  /\ a \in Nat /\ b \in Nat /\ a <= b /\ b <= a + 1 /\ b <= lowest /\ b <= Len(text)
             /\ Len(text) \in Nat /\ Len(old) \in Nat /\ Len(r) \in Nat /\ shift \in Nat
             /\ r \in Seq(Written) /\ Len(r) > 0 /\ Len(new) = Len(old) + shift /\ Len(new) \in Nat
             /\ k \in [1..Len(text) -> Nat]
             /\ \A i \in 1..Len(text) :
                  /\ h[i] \in 1..Len(old) /\ k[i] \in 1..Len(new)
                  /\ i <= b => h[i] = i /\ k[i] = i /\ old[i] = text[i]
                  /\ i > b => h[i] > b /\ k[i] = h[i] + shift
             /\ \A i \in 1..a : new[i] = old[i]
             /\ \A i \in 1..Len(r) : new[a + i] = r[i]
             /\ \A i \in 1..Len(old) : i > b => new[i + shift] = old[i]
<1> DEFINE a == f.start_byte
           b == f.end_byte
           r == f.replacement
           shift == Len(r) - (b - a)
           new == ReplaceRange(old, f)
           k == Moved(h, f)
<1>1. /\ a \in Nat /\ b \in Nat /\ a <= b /\ b <= Len(text) /\ b <= a + 1
      /\ Len(text) \in Nat /\ Len(old) \in Nat /\ old \in Seq(Byte)
      /\ f \in Fix /\ r \in Seq(Written) /\ Len(r) \in Nat
      /\ (Replaces(text, f) \/ InsertsAtEnd(text, f))
  BY EditIs DEF Spliced
<1>2. b <= lowest /\ b <= Len(old) /\ lowest \in Nat
  BY DEF Accepts, InBounds, Spliced
<1>3. Len(r) > 0 /\ (b = a \/ Len(r) = 1)
  <2>1. CASE Replaces(text, f)
    BY <2>1 DEF Replaces
  <2>2. CASE InsertsAtEnd(text, f)
    <3>1. r # <<>> /\ b = a
      BY <2>2 DEF InsertsAtEnd, Inserts
    <3> HIDE DEF r
    <3>2. Len(r) # 0
      BY <1>1, <3>1
    <3> QED BY <1>1, <3>1, <3>2
  <2> QED BY <1>1, <2>1, <2>2
<1>4. /\ Len(new) = (a + Len(r)) + (Len(old) - b)
      /\ \A i \in 1..Len(new) :
           new[i] = IF i <= a THEN old[i] ELSE IF i <= a + Len(r) THEN r[i - a]
                    ELSE old[b + (i - (a + Len(r)))]
  BY <1>1, <1>2, SpliceIs
<1>5. /\ h \in [1..Len(text) -> Nat]
      /\ \A i \in 1..Len(text) :
           h[i] \in 1..Len(old) /\ (i <= lowest => h[i] = i /\ old[i] = text[i])
      /\ \A i, j \in 1..Len(text) : i < j => h[i] < h[j]
  BY DEF IsPlacing, Spliced
<1>6. \A i \in 1..Len(text) : k[i] = IF i <= a THEN h[i] ELSE h[i] + shift
  BY <1>5 DEF Moved
<1>7. DOMAIN k = 1..Len(text) /\ k = [i \in DOMAIN k |-> k[i]]
  BY <1>5 DEF Moved
<1> HIDE DEF new, a, b, r, shift, k
<1>8. shift \in Nat /\ (b # a => b = a + 1 /\ shift = 0)
  <2> DEFINE m == Len(r)
  <2>1. m \in Nat /\ m > 0 /\ (b = a \/ m = 1) /\ shift = m - (b - a)
    BY <1>1, <1>3 DEF shift
  <2> HIDE DEF m
  <2>2. CASE b = a
    BY <1>1, <2>1, <2>2
  <2>3. CASE b # a
    <3>1. b = a + 1 /\ m = 1
      BY <1>1, <2>1, <2>3
    <3>2. shift = 0
      BY <1>1, <2>1, <3>1
    <3> QED BY <2>3, <3>1, <3>2
  <2> QED BY <2>2, <2>3
<1>9. Len(new) = Len(old) + shift /\ Len(new) \in Nat
  BY <1>1, <1>2, <1>4, <1>8 DEF shift
<1>10. ASSUME NEW i \in 1..Len(text)
       PROVE  /\ h[i] \in 1..Len(old) /\ k[i] \in 1..Len(new) /\ k[i] \in Nat
              /\ i <= b => h[i] = i /\ k[i] = i /\ old[i] = text[i]
              /\ i > b => h[i] > b /\ k[i] = h[i] + shift
  <2>1. h[i] \in 1..Len(old) /\ k[i] = IF i <= a THEN h[i] ELSE h[i] + shift
    BY <1>5, <1>6
  <2>2. k[i] \in 1..Len(new)
    BY <1>1, <1>8, <1>9, <2>1
  <2>3. i <= b => h[i] = i /\ old[i] = text[i]
    BY <1>1, <1>2, <1>5
  <2>4. i <= b => k[i] = i
    BY <1>1, <1>8, <2>1, <2>3
  <2>5. i > b => h[i] > b
    <3>1. CASE b = 0
      BY <1>1, <2>1, <3>1
    <3>2. CASE b # 0
      <4>1. b \in 1..Len(text) /\ b <= lowest
        BY <1>1, <1>2, <3>2
      <4>2. h[b] = b
        BY <1>5, <4>1
      <4>3. b < i => h[b] < h[i]
        BY <1>5, <4>1
      <4> QED BY <1>1, <2>1, <4>2, <4>3
    <3> QED BY <3>1, <3>2
  <2>6. i > b => k[i] = h[i] + shift
    BY <1>1, <2>1
  <2> QED BY <1>9, <2>1, <2>2, <2>3, <2>4, <2>5, <2>6
<1>11. k \in [1..Len(text) -> Nat]
  BY <1>7, <1>10
<1>12. ASSUME NEW i \in 1..a PROVE new[i] = old[i]
  <2>1. i \in 1..Len(new) /\ i <= a
    BY <1>1, <1>2, <1>8, <1>9
  <2> QED BY <1>4, <2>1
<1>13. ASSUME NEW i \in 1..Len(r) PROVE new[a + i] = r[i]
  <2>1. a + i \in 1..Len(new) /\ ~(a + i <= a) /\ a + i <= a + Len(r) /\ (a + i) - a = i
    BY <1>1, <1>2, <1>4
  <2> QED BY <1>4, <2>1
<1>14. ASSUME NEW i \in 1..Len(old), i > b PROVE new[i + shift] = old[i]
  <2>1. /\ i + shift \in 1..Len(new) /\ ~(i + shift <= a) /\ ~(i + shift <= a + Len(r))
        /\ b + ((i + shift) - (a + Len(r))) = i
    BY <1>1, <1>8, <1>9, <1>14 DEF shift
  <2> QED BY <1>4, <2>1
<1> QED BY <1>1, <1>2, <1>3, <1>8, <1>9, <1>10, <1>11, <1>12, <1>13, <1>14
           DEF new, a, b, r, shift, k

LEMMA SpliceCarries ==
  ASSUME NEW h, NEW text, NEW old, NEW lowest, NEW f, Spliced(h, text, old, lowest, f)
  PROVE  IsPlacing(Moved(h, f), text, ReplaceRange(old, f), f.start_byte)
<1> DEFINE a == f.start_byte
           b == f.end_byte
           r == f.replacement
           shift == Len(r) - (b - a)
           new == ReplaceRange(old, f)
           k == Moved(h, f)
<1>1. /\ a \in Nat /\ b \in Nat /\ a <= b /\ b <= a + 1 /\ b <= Len(text)
      /\ Len(text) \in Nat /\ Len(r) \in Nat /\ shift \in Nat /\ Len(r) > 0
      /\ k \in [1..Len(text) -> Nat]
      /\ \A i \in 1..Len(text) :
           /\ h[i] \in 1..Len(old) /\ k[i] \in 1..Len(new)
           /\ i <= b => h[i] = i /\ k[i] = i /\ old[i] = text[i]
           /\ i > b => h[i] > b /\ k[i] = h[i] + shift
      /\ \A i \in 1..a : new[i] = old[i]
      /\ \A i \in 1..Len(r) : new[a + i] = r[i]
      /\ \A i \in 1..Len(old) : i > b => new[i + shift] = old[i]
  BY SpliceMoves
<1>2. /\ \A i \in 1..Len(text) : Modulo(old[h[i]]) = Modulo(text[i])
      /\ \A i, j \in 1..Len(text) : i < j => h[i] < h[j]
  BY DEF IsPlacing, Spliced
<1>3. b # a => Replaces(text, f)
  BY EditIs DEF Spliced, InsertsAtEnd, Inserts
<1> HIDE DEF new, a, b, r, shift, k
<1>4. ASSUME NEW i \in 1..Len(text)
      PROVE  Modulo(new[k[i]]) = Modulo(text[i]) /\ (i <= a => k[i] = i /\ new[i] = text[i])
  <2>1. CASE i <= a
    BY <1>1, <1>2, <2>1
  <2>2. CASE i > a /\ i <= b
    <3>1. i = b /\ i = a + 1 /\ k[i] = i
      BY <1>1, <2>2
    <3>2. text[b] \in Replaceable /\ r = <<Modulo(text[b])>>
      BY <1>3, <2>2, <3>1 DEF Replaces, b, r
    <3> DEFINE token == Modulo(text[i])
    <3>3. 1 \in 1..Len(r) /\ r[1] = token
      <4>1. r = <<token>>
        BY <3>1, <3>2
      <4> HIDE DEF token
      <4> QED BY <4>1
    <3>4. new[k[i]] = Modulo(text[i])
      BY <1>1, <3>1, <3>3
    <3>5. Modulo(text[i]) \in Written
      BY <3>1, <3>2, ReplacedTokens
    <3> QED BY <1>1, <2>2, <3>4, <3>5, ReplacedTokens
  <2>3. CASE i > b
    <3>1. new[k[i]] = old[h[i]]
      BY <1>1, <2>3
    <3> QED BY <1>1, <1>2, <2>3, <3>1
  <2> QED BY <1>1, <2>1, <2>2, <2>3
<1>5. ASSUME NEW i \in 1..Len(text), NEW j \in 1..Len(text), i < j PROVE k[i] < k[j]
  <2>1. h[i] < h[j] /\ h[i] \in Nat /\ h[j] \in Nat
    BY <1>1, <1>2, <1>5
  <2>2. CASE j <= b
    <3>1. k[i] = i /\ k[j] = j
      BY <1>1, <1>5, <2>2
    <3> QED BY <1>5, <3>1
  <2>3. CASE j > b
    <3>1. k[j] = h[j] + shift /\ h[j] > b
      BY <1>1, <2>3
    <3>2. k[i] = h[i] + shift \/ k[i] = h[i]
      <4>1. i <= b \/ i > b
        BY <1>1
      <4> QED BY <1>1, <4>1
    <3> QED BY <1>1, <2>1, <3>1, <3>2
  <2> QED BY <1>1, <2>2, <2>3
<1>6. IsPlacing(k, text, new, a)
  BY <1>1, <1>4, <1>5 DEF IsPlacing
<1> QED BY <1>6 DEF k, new, a

LEMMA SpliceKeepsImage ==
  ASSUME NEW h, NEW text, NEW old, NEW lowest, NEW f, Spliced(h, text, old, lowest, f),
         IsImage(h, text, old)
  PROVE  IsImage(Moved(h, f), text, ReplaceRange(old, f))
<1> DEFINE a == f.start_byte
           b == f.end_byte
           r == f.replacement
           shift == Len(r) - (b - a)
           new == ReplaceRange(old, f)
           k == Moved(h, f)
<1>1. /\ a \in Nat /\ b \in Nat /\ a <= b /\ b <= a + 1 /\ b <= Len(text)
      /\ Len(text) \in Nat /\ Len(old) \in Nat /\ Len(r) \in Nat /\ shift \in Nat /\ Len(r) > 0
      /\ r \in Seq(Written) /\ Len(new) = Len(old) + shift
      /\ k \in [1..Len(text) -> Nat]
      /\ \A i \in 1..Len(text) :
           /\ h[i] \in 1..Len(old) /\ k[i] \in 1..Len(new)
           /\ i <= b => h[i] = i /\ k[i] = i /\ old[i] = text[i]
           /\ i > b => h[i] > b /\ k[i] = h[i] + shift
      /\ \A i \in 1..a : new[i] = old[i]
      /\ \A i \in 1..Len(r) : new[a + i] = r[i]
      /\ \A i \in 1..Len(old) : i > b => new[i + shift] = old[i]
  BY SpliceMoves
<1>2. /\ \A i \in 1..Len(text) : old[h[i]] \in {text[i], Modulo(text[i])}
      /\ \A j \in 1..Len(old) : old[j] \in Written \/ \E i \in 1..Len(text) : h[i] = j
      /\ \A i \in 1..Len(text) : text[i] = "(" => h[i] = IF i = 1 THEN 1 ELSE h[i - 1] + 1
  BY DEF IsImage
<1>3. /\ b # a => Replaces(text, f)
      /\ b = a => text[a + 1] = ")"
  BY EditIs DEF Spliced, InsertsAtEnd, Inserts, Replaces
<1>4. shift + b = a + Len(r)
  BY <1>1
<1>5. \A i, j \in 1..Len(text) : i < j => k[i] < k[j]
  BY SpliceCarries DEF IsPlacing
<1> HIDE DEF new, a, b, r, shift, k
<1>6. ASSUME NEW i \in 1..Len(text) PROVE new[k[i]] \in {text[i], Modulo(text[i])}
  <2>1. CASE i <= a
    BY <1>1, <2>1
  <2>2. CASE i > a /\ i <= b
    <3>1. i = b /\ i = a + 1 /\ k[i] = i
      BY <1>1, <2>2
    <3>2. r = <<Modulo(text[b])>>
      BY <1>3, <2>2, <3>1 DEF Replaces, b, r
    <3> DEFINE token == Modulo(text[i])
    <3>3. 1 \in 1..Len(r) /\ r[1] = token
      <4>1. r = <<token>>
        BY <3>1, <3>2
      <4> HIDE DEF token
      <4> QED BY <4>1
    <3>4. new[k[i]] = Modulo(text[i])
      BY <1>1, <3>1, <3>3
    <3> QED BY <3>4
  <2>3. CASE i > b
    <3>1. new[k[i]] = old[h[i]]
      BY <1>1, <2>3
    <3> QED BY <1>2, <3>1
  <2> QED BY <1>1, <2>1, <2>2, <2>3
<1>7. ASSUME NEW j \in 1..Len(new) PROVE new[j] \in Written \/ \E i \in 1..Len(text) : k[i] = j
  <2>1. CASE j <= a
    <3>1. j \in 1..Len(text) /\ j <= b
      BY <1>1, <2>1
    <3> QED BY <1>1, <3>1
  <2>2. CASE j > a /\ j <= a + Len(r)
    <3>1. j - a \in 1..Len(r) /\ a + (j - a) = j
      BY <1>1, <2>2
    <3>2. new[j] = r[j - a]
      BY <1>1, <3>1
    <3> QED BY <1>1, <3>1, <3>2
  <2>3. CASE j > a + Len(r)
    <3> DEFINE m == j - shift
    <3>1. m \in 1..Len(old) /\ m > b /\ m + shift = j
      BY <1>1, <1>4, <2>3
    <3> HIDE DEF m
    <3>2. new[j] = old[m]
      BY <1>1, <3>1
    <3>3. CASE old[m] \in Written
      BY <3>2, <3>3
    <3>4. CASE old[m] \notin Written
      <4>1. PICK i \in 1..Len(text) : h[i] = m
        BY <1>2, <3>1, <3>4
      <4>2. ~(i <= b)
        BY <1>1, <3>1, <4>1
      <4>3. k[i] = j
        BY <1>1, <3>1, <4>1, <4>2
      <4> QED BY <4>3
    <3> QED BY <3>3, <3>4
  <2> QED BY <1>1, <2>1, <2>2, <2>3
<1>8. ASSUME NEW i \in 1..Len(text), text[i] = "(" PROVE k[i] = IF i = 1 THEN 1 ELSE k[i - 1] + 1
  <2>1. h[i] = IF i = 1 THEN 1 ELSE h[i - 1] + 1
    BY <1>2, <1>8
  <2>2. i # a + 1
    <3>1. b # a => text[a + 1] \in Replaceable
      <4> SUFFICES ASSUME b # a PROVE text[a + 1] \in Replaceable
        OBVIOUS
      <4>1. b = a + 1
        BY <1>1
      <4> QED BY <1>3, <4>1 DEF Replaces, b
    <3>2. "(" \notin Replaceable
      BY DEF Replaceable
    <3> QED BY <1>3, <1>8, <3>1, <3>2
  <2>3. CASE i <= a
    <3>1. i # 1 => i - 1 \in 1..Len(text) /\ i - 1 <= b /\ i <= b
      BY <1>1, <2>3
    <3>2. i <= b
      BY <1>1, <2>3
    <3> QED BY <1>1, <3>1, <3>2
  <2>4. CASE i > a + 1
    <3>1. i # 1 /\ i - 1 \in 1..Len(text) /\ i > b
      BY <1>1, <2>4
    <3>2. k[i] = h[i] + shift /\ h[i] = h[i - 1] + 1 /\ h[i - 1] \in Nat
      BY <1>1, <2>1, <3>1
    <3>3. CASE i - 1 > b
      <4>1. k[i - 1] = h[i - 1] + shift
        BY <1>1, <3>1, <3>3
      <4> QED BY <1>1, <3>1, <3>2, <4>1
    <3>4. CASE ~(i - 1 > b)
      <4>1. b = a + 1 /\ i - 1 <= b
        BY <1>1, <2>4, <3>4
      <4>2. shift = 0
        <5>1. r = <<Modulo(text[b])>>
          BY <1>3, <4>1, <1>1 DEF Replaces, b, r
        <5>2. Len(r) = 1
          BY <5>1
        <5> QED BY <1>1, <1>4, <4>1, <5>2
      <4>3. k[i - 1] = h[i - 1]
        BY <1>1, <3>1, <4>1
      <4> QED BY <1>1, <3>1, <3>2, <4>2, <4>3
    <3> QED BY <3>3, <3>4
  <2> QED BY <1>1, <2>2, <2>3, <2>4
<1>9. IsImage(k, text, new)
  BY <1>1, <1>5, <1>6, <1>7, <1>8 DEF IsImage
<1> QED BY <1>9 DEF k, new

LEMMA SpliceIsDone ==
  ASSUME NEW h, NEW text, NEW old, NEW lowest, NEW f, Spliced(h, text, old, lowest, f)
  PROVE  /\ IsDone(Moved(h, f), text, ReplaceRange(old, f), f)
         /\ \A g \in EditsOf(text) : lowest <= g.start_byte /\ IsDone(h, text, old, g) =>
              IsDone(Moved(h, f), text, ReplaceRange(old, f), g)
<1> DEFINE a == f.start_byte
           b == f.end_byte
           r == f.replacement
           shift == Len(r) - (b - a)
           new == ReplaceRange(old, f)
           k == Moved(h, f)
<1>1. /\ a \in Nat /\ b \in Nat /\ a <= b /\ b <= a + 1 /\ b <= lowest /\ b <= Len(text)
      /\ Len(text) \in Nat /\ Len(old) \in Nat /\ Len(r) \in Nat /\ shift \in Nat /\ Len(r) > 0
      /\ Len(new) = Len(old) + shift
      /\ k \in [1..Len(text) -> Nat]
      /\ \A i \in 1..Len(text) :
           /\ h[i] \in 1..Len(old) /\ k[i] \in 1..Len(new)
           /\ i <= b => h[i] = i /\ k[i] = i /\ old[i] = text[i]
           /\ i > b => h[i] > b /\ k[i] = h[i] + shift
      /\ \A i \in 1..Len(r) : new[a + i] = r[i]
      /\ \A i \in 1..Len(old) : i > b => new[i + shift] = old[i]
  BY SpliceMoves
<1>2. shift + b = a + Len(r) /\ lowest \in Nat
  BY <1>1 DEF Spliced
<1>3. /\ Inserts(f) => b = a /\ b \in 1..(Len(text) - 1)
      /\ Replaces(text, f) => b = a + 1 /\ text[b] \in Replaceable /\ r = <<Modulo(text[b])>>
  BY <1>1, EditIs DEF Spliced, InsertsAtEnd, Inserts, Replaces
<1> HIDE DEF new, a, b, r, shift, k
<1>4. IsDone(k, text, new, f)
  <2>1. ASSUME Inserts(f)
        PROVE  \E j \in 1..Len(new) : k[b] < j /\ j < k[b + 1] /\ new[j] = r[Len(r)]
    <3>1. b = a /\ b \in 1..Len(text) /\ b + 1 \in 1..Len(text)
      BY <1>1, <1>3, <2>1
    <3>2. k[b] = b /\ k[b + 1] = h[b + 1] + shift /\ h[b + 1] > b /\ h[b + 1] \in 1..Len(old)
      <4> DEFINE m == b + 1
      <4>1. m \in 1..Len(text) /\ m > b /\ b <= b
        BY <1>1, <3>1
      <4> HIDE DEF m
      <4>2. k[m] = h[m] + shift /\ h[m] > b /\ h[m] \in 1..Len(old) /\ k[b] = b
        BY <1>1, <3>1, <4>1
      <4> QED BY <4>2 DEF m
    <3>3. a + Len(r) \in 1..Len(new) /\ b < a + Len(r) /\ a + Len(r) < k[b + 1]
      BY <1>1, <1>2, <3>1, <3>2
    <3>4. new[a + Len(r)] = r[Len(r)]
      <4>1. Len(r) \in 1..Len(r)
        BY <1>1
      <4> QED BY <1>1, <4>1
    <3> QED BY <3>2, <3>3, <3>4
  <2>2. ASSUME Replaces(text, f) PROVE new[k[b]] \in Replacing
    <3>1. b = a + 1 /\ b \in 1..Len(text) /\ k[b] = b /\ r = <<Modulo(text[b])>>
          /\ text[b] \in Replaceable
      BY <1>1, <1>3, <2>2
    <3>2. 1 \in 1..Len(r) /\ r[1] = Modulo(text[b])
      BY <1>1, <3>1
    <3>3. new[k[b]] = Modulo(text[b])
      BY <1>1, <3>1, <3>2
    <3> QED BY <3>1, <3>3, ReplacedTokens
  <2> QED BY <2>1, <2>2 DEF IsDone, b, r
<1>5. ASSUME NEW g \in EditsOf(text), lowest <= g.start_byte, IsDone(h, text, old, g)
      PROVE  IsDone(k, text, new, g)
  <2> DEFINE i == g.end_byte
             last == g.replacement[Len(g.replacement)]
  <2>1. g.start_byte \in Nat /\ i \in Nat /\ (Replaces(text, g) \/ InsertsAtEnd(text, g))
        /\ g.start_byte <= i /\ i <= Len(text)
    BY <1>1, EditIs
  <2>2. ASSUME Inserts(g)
        PROVE  \E j \in 1..Len(new) : k[i] < j /\ j < k[i + 1] /\ new[j] = last
    <3>1. i = g.start_byte /\ i \in 1..(Len(text) - 1)
      BY <2>1, <2>2 DEF InsertsAtEnd, Inserts, Replaces
    <3>2. PICK j \in 1..Len(old) : h[i] < j /\ j < h[i + 1] /\ old[j] = last
      BY <1>5, <2>2 DEF IsDone
    <3> HIDE DEF i, last
    <3>3. b <= i /\ i \in 1..Len(text) /\ i + 1 \in 1..Len(text) /\ i + 1 > b
      BY <1>1, <1>2, <1>5, <3>1
    <3>4. h[i] >= b /\ h[i] \in Nat /\ (k[i] = h[i] \/ k[i] = h[i] + shift)
      <4>1. CASE i > b
        BY <1>1, <3>3, <4>1
      <4>2. CASE ~(i > b)
        <5>1. i <= b /\ i >= b
          BY <1>1, <3>3, <4>2
        <5> QED BY <1>1, <3>3, <5>1
      <4> QED BY <4>1, <4>2
    <3>5. k[i + 1] = h[i + 1] + shift /\ h[i + 1] \in 1..Len(old)
      BY <1>1, <3>3
    <3>6. j > b
      BY <1>1, <3>2, <3>4
    <3>7. new[j + shift] = last
      BY <1>1, <3>2, <3>6
    <3>8. j + shift \in 1..Len(new) /\ k[i] < j + shift /\ j + shift < k[i + 1]
      BY <1>1, <3>2, <3>4, <3>5
    <3> QED BY <3>7, <3>8
  <2>3. ASSUME Replaces(text, g) PROVE new[k[i]] \in Replacing
    <3>1. i = g.start_byte + 1 /\ old[h[i]] \in Replacing
      BY <1>5, <2>3 DEF IsDone, Replaces
    <3> HIDE DEF i
    <3>2. i \in 1..Len(text) /\ i > b
      BY <1>1, <1>2, <1>5, <2>1, <3>1
    <3>3. new[k[i]] = old[h[i]]
      BY <1>1, <3>2
    <3> QED BY <3>1, <3>3
  <2> QED BY <2>2, <2>3 DEF IsDone
<1> QED BY <1>4, <1>5 DEF k, new

LEMMA TurnIs ==
  ASSUME NEW st \in EditState, NEW f
  PROVE  /\ Accepts(st.out, st.floor, f) =>
              /\ Turn(st, f).out = ReplaceRange(st.out, f)
              /\ Turn(st, f).floor = f.start_byte
              /\ Turn(st, f).skipped = st.skipped
         /\ Accepts(st.out, st.floor, f) /\ f \in Fix => Turn(st, f) \in EditState
         /\ ~Accepts(st.out, st.floor, f) => Turn(st, f) \in EditState
<1>1. st.out \in Seq(Byte) /\ st.floor \in Nat /\ st.skipped \in Nat
      /\ st = [out |-> st.out, floor |-> st.floor, skipped |-> st.skipped]
  BY DEF EditState
<1>2. CASE Accepts(st.out, st.floor, f)
  <2> DEFINE new == ReplaceRange(st.out, f)
  <2>1. Turn(st, f) = [out |-> new, floor |-> f.start_byte, skipped |-> st.skipped]
    BY <1>1, <1>2 DEF Turn, EditState
  <2>2. f \in Fix => new \in Seq(Byte)
    BY <1>1, <1>2, SpliceIs DEF Accepts, InBounds
  <2>3. f \in Fix => f.start_byte \in Nat
    BY DEF Fix
  <2> HIDE DEF new
  <2>4. f \in Fix => Turn(st, f) \in EditState
    BY <1>1, <2>1, <2>2, <2>3 DEF EditState
  <2> QED BY <1>2, <2>1, <2>4 DEF new
<1>3. CASE ~Accepts(st.out, st.floor, f)
  BY <1>1, <1>3 DEF Turn, EditState
<1> QED BY <1>2, <1>3

\* The loop takes the edits in turn.
Loops(g, text, sorted) ==
  /\ g \in [0..Len(sorted) -> EditState]
  /\ g[0] = [out |-> text, floor |-> MaxUsize, skipped |-> 0]
  /\ \A i \in 1..Len(sorted) : g[i] = Turn(g[i - 1], sorted[i])

LEMMA LoopTurns ==
  ASSUME NEW text \in Seq(Byte), NEW sorted \in Seq(Fix)
  PROVE  \E g : /\ Loops(g, text, sorted)
                /\ FoldLeft(Turn, [out |-> text, floor |-> MaxUsize, skipped |-> 0], sorted)
                     = g[Len(sorted)]
<1> DEFINE n == Len(sorted)
           base == [out |-> text, floor |-> MaxUsize, skipped |-> 0]
           step == [p \in (1..n) \X EditState |-> Turn(p[2], sorted[p[1]])]
<1>0. n \in Nat /\ DOMAIN sorted = 1..n /\ base \in EditState
  BY UsizeAssumption DEF EditState
<1>1. \A i \in 1..n, a \in EditState : Turn(a, sorted[i]) \in EditState
  BY <1>0, TurnIs
<1>2. step \in [(1..n) \X EditState -> EditState]
      /\ \A i \in 1..n, a \in EditState : step[<<i, a>>] = Turn(a, sorted[i])
  BY <1>1
<1> HIDE DEF step, n, base
<1>3. PICK h \in [SUBSET (1..n) -> EditState] : FoldsTurns(h, n, base, step)
  BY <1>0, <1>2, FoldingTurns
<1>4. h = [T \in SUBSET (1..n) |->
             IF T = {} THEN base ELSE Turn(h[T \ {Max(T)}], sorted[Max(T)])]
  <2>1. \A T \in SUBSET (1..n) : T # {} => Max(T) \in 1..n /\ h[T \ {Max(T)}] \in EditState
    BY MaxOfTurns, <1>0
  <2> QED BY <1>2, <1>3, <2>1 DEF FoldsTurns
<1>5. PICK g : /\ g = [T \in SUBSET (1..n) |->
                         IF T = {} THEN base ELSE Turn(g[T \ {Max(T)}], sorted[Max(T)])]
               /\ FoldLeft(Turn, base, sorted) = g[1..n]
  BY <1>0, <1>4 DEF FoldLeft, MapThenFoldSet
<1>6. g[1..0] = base /\ \A i \in 1..n : g[1..i] = Turn(g[1..(i - 1)], sorted[i])
  <2>1. 1..0 = {}
    OBVIOUS
  <2> QED BY <2>1, <1>0, <1>5, Prefix
<1>7. PICK f \in [0..n -> EditState] : Passes(f, g, n)
  <2>1. StaysIn(g, n, EditState)
    BY <1>0, <1>1, <1>6 DEF StaysIn
  <2> QED BY <1>0, <2>1, PassingTurns
<1>8. n \in 0..n /\ 0 \in 0..n /\ \A i \in 1..n : i - 1 \in 0..n /\ i \in 0..n
  BY <1>0
<1>9. f[0] = base /\ f[n] = g[1..n] /\ \A i \in 1..n : f[i] = Turn(f[i - 1], sorted[i])
  BY <1>6, <1>7, <1>8 DEF Passes
<1>10. Loops(f, text, sorted) /\ FoldLeft(Turn, base, sorted) = f[n]
  BY <1>5, <1>7, <1>9 DEF Loops, n, base
<1> QED BY <1>10 DEF n, base

\* What the edited text is of the text it was.
Kept(text, edited) ==
  /\ edited \in Seq(Byte) /\ OfTheseTokens(text, edited)
  /\ \E lowest \in Nat : Carries(text, edited, lowest)

\* The keywords that a rule adds to a call (XR001, XR008, DK007).
AddedKeywords == {"chunks", "parallel=True"}

\* What an insertion adds.
Added(f) == f.replacement[Len(f.replacement)]

\* It adds one keyword, with a comma unless the list is bare of one at its end.
IsAddition(f, bare) ==
  /\ Added(f) \in AddedKeywords
  /\ Len(f.replacement) = IF f.end_byte \in bare THEN 1 ELSE 2
  /\ f.end_byte \notin bare => f.replacement[1] = ","

\* Between the images of two neighbours lies what the edits in D inserted: a
\* keyword, or keywords that differ and a comma before each.
Gapped(h, text, edited, bare, D) ==
  \A a \in 1..(Len(text) - 1) :
    /\ a \notin bare => (h[a + 1] - h[a]) % 2 = 1
    /\ \A j \in (h[a] + 1)..(h[a + 1] - 1) :
         /\ \E f \in D : Inserts(f) /\ f.end_byte = a /\ edited[j] \in {",", Added(f)}
         /\ edited[j] = "," <=> a \notin bare /\ (j - h[a]) % 2 = 1
         /\ a \in bare => j = h[a] + 1
         /\ \A l \in (j + 1)..(h[a + 1] - 1) : edited[l] # "," => edited[j] # edited[l]

\* An insertion that goes well with those in D.
Suits(f, bare, D) ==
  Inserts(f) => /\ IsAddition(f, bare)
                /\ \A g \in D : Inserts(g) /\ g.end_byte = f.end_byte =>
                     f.end_byte \notin bare /\ Added(g) # Added(f)

\* One more edit of that kind leaves its tokens in the gap at its offset, in
\* front of those that were inserted there before.
LEMMA SpliceGaps ==
  ASSUME NEW h, NEW text, NEW old, NEW lowest, NEW f, Spliced(h, text, old, lowest, f),
         NEW bare, NEW D, Gapped(h, text, old, bare, D), Suits(f, bare, D)
  PROVE  Gapped(Moved(h, f), text, ReplaceRange(old, f), bare, D \cup {f})
<1> DEFINE a == f.start_byte
           b == f.end_byte
           r == f.replacement
           shift == Len(r) - (b - a)
           new == ReplaceRange(old, f)
           k == Moved(h, f)
<1>1. /\ a \in Nat /\ b \in Nat /\ a <= b /\ b <= a + 1 /\ b <= lowest /\ b <= Len(text)
      /\ Len(text) \in Nat /\ Len(old) \in Nat /\ Len(r) \in Nat /\ shift \in Nat
      /\ r \in Seq(Written) /\ Len(r) > 0 /\ Len(new) = Len(old) + shift /\ Len(new) \in Nat
      /\ k \in [1..Len(text) -> Nat]
      /\ \A i \in 1..Len(text) :
           /\ h[i] \in 1..Len(old) /\ k[i] \in 1..Len(new)
           /\ i <= b => h[i] = i /\ k[i] = i /\ old[i] = text[i]
           /\ i > b => h[i] > b /\ k[i] = h[i] + shift
      /\ \A i \in 1..a : new[i] = old[i]
      /\ \A i \in 1..Len(r) : new[a + i] = r[i]
      /\ \A i \in 1..Len(old) : i > b => new[i + shift] = old[i]
  BY SpliceMoves, SMTT(30)
<1>2. shift = Len(r) - (b - a)
  OBVIOUS
<1>3. /\ b = a => Inserts(f) /\ shift = Len(r)
      /\ b # a => b = a + 1 /\ Len(r) = 1 /\ shift = 0
  <2>1. Replaces(text, f) => Len(r) = 1
    BY DEF Replaces
  <2>2. b # a => Replaces(text, f)
    BY EditIs DEF Spliced, InsertsAtEnd, Inserts
  <2>3. b = a => Inserts(f)
    BY DEF Inserts
  <2>4. Len(f.replacement) = Len(r)
    OBVIOUS
  <2> HIDE DEF a, b, r, shift
  <2>5. b = a => shift = Len(r)
    BY <1>1, <1>2
  <2>6. b # a => b = a + 1
    BY <1>1
  <2>7. b # a => Len(r) = 1
    BY <2>1, <2>2, <2>4
  <2>8. b # a => shift = 0
    <3>1. b # a => shift = 1 - ((a + 1) - a)
      BY <1>2, <2>6, <2>7
    <3> QED BY <1>1, <3>1
  <2> QED BY <2>3, <2>5, <2>6, <2>7, <2>8
<1>4. \A i \in 1..Len(text), j \in 1..Len(text) : i < j => h[i] < h[j]
  BY DEF IsPlacing, Spliced
<1>5. /\ Inserts(f) => /\ Added(f) \in AddedKeywords /\ Added(f) = r[Len(r)]
                       /\ Len(r) = IF b \in bare THEN 1 ELSE 2
                       /\ b \notin bare => r[1] = ","
                       /\ \A g \in D : Inserts(g) /\ g.end_byte = b =>
                            b \notin bare /\ Added(g) # Added(f)
  BY DEF IsAddition, Added, Suits
<1>6. "," \notin AddedKeywords
  BY DEF AddedKeywords
<1> HIDE DEF new, a, b, r, shift, k
<1> SUFFICES ASSUME NEW i \in 1..(Len(text) - 1)
             PROVE  /\ i \notin bare => (k[i + 1] - k[i]) % 2 = 1
                    /\ \A j \in (k[i] + 1)..(k[i + 1] - 1) :
                         /\ \E g \in D \cup {f} : /\ Inserts(g) /\ g.end_byte = i
                                                  /\ new[j] \in {",", Added(g)}
                         /\ new[j] = "," <=> i \notin bare /\ (j - k[i]) % 2 = 1
                         /\ i \in bare => j = k[i] + 1
                         /\ \A l \in (j + 1)..(k[i + 1] - 1) : new[l] # "," => new[j] # new[l]
  BY DEF Gapped, k, new
<1> DEFINE x == h[i]
           y == h[i + 1]
<1>7. i \in 1..Len(text) /\ i + 1 \in 1..Len(text) /\ i < i + 1
  BY <1>1
<1>8. x \in 1..Len(old) /\ y \in 1..Len(old) /\ x < y
  BY <1>1, <1>4, <1>7
<1>9. /\ i \notin bare => (y - x) % 2 = 1
      /\ \A j \in (x + 1)..(y - 1) :
           /\ \E g \in D : Inserts(g) /\ g.end_byte = i /\ old[j] \in {",", Added(g)}
           /\ old[j] = "," <=> i \notin bare /\ (j - x) % 2 = 1
           /\ i \in bare => j = x + 1
           /\ \A l \in (j + 1)..(y - 1) : old[l] # "," => old[j] # old[l]
  BY DEF Gapped
<1>10. CASE i < b
  <2>1. k[i] = i /\ k[i + 1] = i + 1
    <3>1. i <= b /\ i + 1 <= b
      BY <1>1, <1>10
    <3> QED BY <1>1, <1>7, <3>1
  <2>2. (k[i] + 1)..(k[i + 1] - 1) = {} /\ (k[i + 1] - k[i]) % 2 = 1
    BY <2>1
  <2> QED BY <2>2
<1>11. CASE i > b \/ (i = b /\ b # a)
  <2>1. k[i + 1] = y + shift /\ y > b
    <3>1. i + 1 > b
      BY <1>1, <1>11
    <3> QED BY <1>1, <1>7, <3>1
  <2>2. k[i] = x + shift /\ x >= b
    <3>1. CASE i > b
      BY <1>1, <1>7, <3>1
    <3>2. CASE i = b /\ b # a
      <4>1. k[i] = i /\ x = i
        BY <1>1, <1>7, <3>2
      <4> QED BY <1>1, <1>3, <3>2, <4>1
    <3> QED BY <1>11, <3>1, <3>2
  <2> HIDE DEF x, y
  <2>3. i \notin bare => (k[i + 1] - k[i]) % 2 = 1
    <3>1. k[i + 1] - k[i] = y - x
      BY <1>1, <1>8, <2>1, <2>2
    <3> QED BY <1>9, <3>1
  <2>4. ASSUME NEW j \in (k[i] + 1)..(k[i + 1] - 1)
        PROVE  /\ j - shift \in (x + 1)..(y - 1) /\ new[j] = old[j - shift]
               /\ j - k[i] = (j - shift) - x
    <3> DEFINE m == j - shift
    <3>1. m \in (x + 1)..(y - 1) /\ m \in 1..Len(old) /\ m > b /\ m + shift = j /\ j - k[i] = m - x
      BY <1>1, <1>8, <2>1, <2>2
    <3> HIDE DEF m
    <3>2. new[m + shift] = old[m]
      BY <1>1, <3>1
    <3> QED BY <3>1, <3>2 DEF m
  <2>5. ASSUME NEW j \in (k[i] + 1)..(k[i + 1] - 1)
        PROVE  /\ \E g \in D \cup {f} : /\ Inserts(g) /\ g.end_byte = i
                                        /\ new[j] \in {",", Added(g)}
               /\ new[j] = "," <=> i \notin bare /\ (j - k[i]) % 2 = 1
               /\ i \in bare => j = k[i] + 1
               /\ \A l \in (j + 1)..(k[i + 1] - 1) : new[l] # "," => new[j] # new[l]
    <3> DEFINE m == j - shift
    <3>1. m \in (x + 1)..(y - 1) /\ new[j] = old[m] /\ j - k[i] = m - x
      BY <2>4
    <3>2. /\ \E g \in D : Inserts(g) /\ g.end_byte = i /\ old[m] \in {",", Added(g)}
          /\ old[m] = "," <=> i \notin bare /\ (m - x) % 2 = 1
          /\ i \in bare => m = x + 1
      BY <1>9, <3>1
    <3>3. ASSUME NEW l \in (j + 1)..(k[i + 1] - 1), new[l] # "," PROVE new[j] # new[l]
      <4>1. l \in (k[i] + 1)..(k[i + 1] - 1)
        BY <1>8, <2>1, <2>2, <1>1
      <4>2. l - shift \in (x + 1)..(y - 1) /\ new[l] = old[l - shift]
        BY <2>4, <4>1
      <4>3. l - shift \in (m + 1)..(y - 1)
        BY <1>1, <1>8, <4>2
      <4> HIDE DEF m
      <4> QED BY <1>9, <3>1, <3>3, <4>2, <4>3
    <3>4. i \in bare => j = k[i] + 1
      <4>1. i \in bare => m = x + 1 /\ j - k[i] = 1
        <5>1. i \in bare => m = x + 1
          BY <3>2
        <5>2. m = x + 1 => j - k[i] = 1
          <6> HIDE DEF m
          <6> QED BY <1>8, <3>1
        <5> QED BY <5>1, <5>2
      <4>2. k[i] \in Nat /\ j \in Int
        <5>1. k[i] \in Nat
          BY <1>1, <1>7
        <5> QED BY <5>1
      <4> HIDE DEF m
      <4>3. j - k[i] = 1 => j = k[i] + 1
        BY <4>2
      <4> QED BY <4>1, <4>3
    <3> HIDE DEF m
    <3> QED BY <3>1, <3>2, <3>3, <3>4
  <2> QED BY <2>3, <2>5
<1>12. CASE i = b /\ b = a
  <2>1. x = b /\ k[i] = b /\ shift = Len(r) /\ Inserts(f)
    BY <1>1, <1>3, <1>7, <1>12
  <2>2. k[i + 1] = y + shift /\ y > b
    <3>1. i + 1 > b
      BY <1>1, <1>12
    <3> QED BY <1>1, <1>7, <3>1
  <2>3. /\ Added(f) \in AddedKeywords /\ Added(f) = r[Len(r)] /\ Added(f) # ","
        /\ b \in bare => Len(r) = 1
        /\ b \notin bare => Len(r) = 2 /\ r[1] = ","
        /\ \A g \in D : Inserts(g) /\ g.end_byte = b => b \notin bare /\ Added(g) # Added(f)
    BY <1>5, <1>6, <2>1
  <2> HIDE DEF x, y
  <2>4. \A j \in (x + 1)..(x + shift) : new[j] = r[j - x]
    <3> TAKE j \in (x + 1)..(x + shift)
    <3> DEFINE m == j - x
    <3>1. m \in 1..Len(r) /\ a + m = j
      BY <1>1, <1>8, <1>12, <2>1
    <3> HIDE DEF m
    <3>2. new[a + m] = r[m]
      BY <1>1, <3>1
    <3> QED BY <3>1, <3>2 DEF m
  <2>5. \A j \in (x + shift + 1)..(k[i + 1] - 1) :
          j - shift \in (x + 1)..(y - 1) /\ new[j] = old[j - shift]
    <3> TAKE j \in (x + shift + 1)..(k[i + 1] - 1)
    <3> DEFINE m == j - shift
    <3>1. m \in (x + 1)..(y - 1) /\ m \in 1..Len(old) /\ m > b /\ m + shift = j
      BY <1>1, <1>8, <2>1, <2>2
    <3> HIDE DEF m
    <3>2. new[m + shift] = old[m]
      BY <1>1, <3>1
    <3> QED BY <3>1, <3>2 DEF m
  <2>6. CASE b \in bare
    <3>1. shift = 1 /\ y = x + 1
      <4>1. (x + 1)..(y - 1) = {}
        BY <1>9, <1>12, <2>3, <2>6
      <4>2. Len(r) = 1
        BY <2>3, <2>6
      <4> QED BY <1>8, <2>1, <4>1, <4>2
    <3>2. \A j \in (k[i] + 1)..(k[i + 1] - 1) : j = x + 1 /\ j = k[i] + 1
      BY <1>8, <2>1, <2>2, <3>1
    <3>3. new[x + 1] = Added(f)
      <4>1. x + 1 \in (x + 1)..(x + shift) /\ (x + 1) - x = Len(r)
        BY <1>8, <2>1, <3>1
      <4> DEFINE j == x + 1
      <4>2. new[j] = r[j - x]
        BY <2>4, <4>1
      <4> QED BY <2>3, <4>1, <4>2
    <3>4. \A j \in (k[i] + 1)..(k[i + 1] - 1) : (j + 1)..(k[i + 1] - 1) = {}
      BY <1>8, <2>1, <2>2, <3>1, <3>2
    <3>5. ASSUME NEW j \in (k[i] + 1)..(k[i + 1] - 1)
          PROVE  /\ \E g \in D \cup {f} : /\ Inserts(g) /\ g.end_byte = i
                                          /\ new[j] \in {",", Added(g)}
                 /\ new[j] # "," /\ j = k[i] + 1
                 /\ \A l \in (j + 1)..(k[i + 1] - 1) : new[l] # "," => new[j] # new[l]
      <4>1. f \in D \cup {f} /\ f.end_byte = i /\ Inserts(f)
        BY <1>12, <2>1 DEF b
      <4>2. j = x + 1 /\ j = k[i] + 1 /\ (j + 1)..(k[i + 1] - 1) = {}
        BY <3>2, <3>4
      <4>3. new[j] = Added(f) /\ new[j] # ","
        BY <2>3, <3>3, <4>2
      <4> QED BY <4>1, <4>2, <4>3
    <3>6. i \in bare
      BY <1>12, <2>6
    <3> QED BY <3>5, <3>6
  <2>7. CASE b \notin bare
    <3>1. shift = 2
      BY <2>1, <2>3, <2>7
    <3>2. new[x + 1] = "," /\ new[x + 2] = Added(f)
      <4> DEFINE j == x + 1
                 l == x + 2
      <4>1. j \in (x + 1)..(x + shift) /\ j - x = 1 /\ l \in (x + 1)..(x + shift) /\ l - x = 2
            /\ Len(r) = 2
        BY <1>8, <2>1, <3>1
      <4> HIDE DEF j, l
      <4>2. new[j] = "," /\ new[l] = Added(f)
        BY <2>3, <2>4, <2>7, <4>1
      <4> QED BY <4>2 DEF j, l
    <3>3. (k[i + 1] - k[i]) % 2 = 1
      <4>1. k[i + 1] - k[i] = (y - x) + 2 /\ (y - x) % 2 = 1
        <5>1. i \notin bare /\ k[i] = x
          BY <1>12, <2>1, <2>7
        <5>2. (y - x) % 2 = 1
          BY <1>9, <5>1
        <5> QED BY <1>8, <2>2, <3>1, <5>1, <5>2
      <4> QED BY <1>8, <4>1
    <3>4. \A j \in (k[i] + 1)..(k[i + 1] - 1) :
            \/ j = x + 1
            \/ j = x + 2
            \/ /\ j \in (x + shift + 1)..(k[i + 1] - 1) /\ j > x + 2
               /\ j - 2 \in (x + 1)..(y - 1) /\ new[j] = old[j - 2]
      BY <1>8, <2>1, <2>2, <2>5, <3>1
    <3>5. ASSUME NEW j \in (k[i] + 1)..(k[i + 1] - 1)
          PROVE  /\ \E g \in D \cup {f} : /\ Inserts(g) /\ g.end_byte = i
                                          /\ new[j] \in {",", Added(g)}
                 /\ new[j] = "," <=> (j - k[i]) % 2 = 1
                 /\ \A l \in (j + 1)..(k[i + 1] - 1) : new[l] # "," => new[j] # new[l]
      <4>1. k[i] = x /\ i = b /\ i \notin bare
        BY <1>12, <2>1, <2>7
      <4>2. f \in D \cup {f} /\ Inserts(f) /\ f.end_byte = i
        BY <2>1, <4>1 DEF b
      <4>3. CASE j = x + 1
        <5>1. (j - k[i]) % 2 = 1
          BY <1>8, <4>1, <4>3
        <5>2. new[j] = ","
          BY <3>2, <4>3
        <5> QED BY <4>2, <5>1, <5>2
      <4>4. CASE j = x + 2
        <5>1. ~((j - k[i]) % 2 = 1)
          BY <1>8, <4>1, <4>4
        <5>2. ASSUME NEW l \in (j + 1)..(k[i + 1] - 1), new[l] # "," PROVE new[j] # new[l]
          <6>1. l \in (k[i] + 1)..(k[i + 1] - 1) /\ l # x + 1 /\ l # x + 2
            BY <1>8, <2>1, <2>2, <3>1, <4>1, <4>4
          <6>2. l - 2 \in (x + 1)..(y - 1) /\ new[l] = old[l - 2]
            BY <3>4, <6>1
          <6>3. PICK g \in D : Inserts(g) /\ g.end_byte = i /\ old[l - 2] \in {",", Added(g)}
            BY <1>9, <6>2
          <6>4. Added(g) # Added(f)
            BY <2>3, <4>1, <6>3
          <6> QED BY <3>2, <4>4, <5>2, <6>2, <6>3, <6>4
        <5>3. new[j] = Added(f) /\ new[j] # ","
          BY <2>3, <3>2, <4>4
        <5> QED BY <4>2, <5>1, <5>2, <5>3
      <4>5. CASE j # x + 1 /\ j # x + 2
        <5> DEFINE m == j - 2
        <5>1. m \in (x + 1)..(y - 1) /\ new[j] = old[m] /\ j = m + 2
          BY <3>4, <4>5
        <5> HIDE DEF m
        <5>2. /\ \E g \in D : Inserts(g) /\ g.end_byte = i /\ old[m] \in {",", Added(g)}
              /\ old[m] = "," <=> (m - x) % 2 = 1
              /\ \A l \in (m + 1)..(y - 1) : old[l] # "," => old[m] # old[l]
          BY <1>9, <4>1, <5>1
        <5>3. (m - x) % 2 = 1 <=> (j - k[i]) % 2 = 1
          BY <1>8, <4>1, <5>1
        <5>4. ASSUME NEW l \in (j + 1)..(k[i + 1] - 1), new[l] # "," PROVE new[j] # new[l]
          <6>1. l \in (k[i] + 1)..(k[i + 1] - 1) /\ l # x + 1 /\ l # x + 2
            BY <1>8, <2>1, <2>2, <3>1, <4>1, <5>1
          <6>2. l - 2 \in (x + 1)..(y - 1) /\ new[l] = old[l - 2]
            BY <3>4, <6>1
          <6>3. l - 2 \in (m + 1)..(y - 1)
            BY <1>8, <5>1, <6>2
          <6> QED BY <5>1, <5>2, <5>4, <6>2, <6>3
        <5> QED BY <5>1, <5>2, <5>3, <5>4
      <4> QED BY <4>3, <4>4, <4>5
    <3> QED BY <1>12, <2>7, <3>3, <3>5
  <2> QED BY <2>6, <2>7
<1>13. i < b \/ (i > b \/ (i = b /\ b # a)) \/ (i = b /\ b = a)
  BY <1>1, <1>7
<1> QED BY <1>10, <1>11, <1>12, <1>13

\* The insertions go well with each other.
EditSet(edits) == {edits[x] : x \in 1..Len(edits)}

\* Every edit of a list goes well with the others.
Regular(edits, bare) ==
  \A x \in 1..Len(edits) : Suits(edits[x], bare, {edits[y] : y \in (1..Len(edits)) \ {x}})

LEMMA CarriesItself ==
  ASSUME NEW text \in Seq(Byte), NEW lowest, NEW bare, NEW D
  PROVE  \E h : /\ IsPlacing(h, text, text, lowest) /\ IsImage(h, text, text)
               /\ Gapped(h, text, text, bare, D)
<1> DEFINE h == [i \in 1..Len(text) |-> i]
<1>1. IsPlacing(h, text, text, lowest)
  BY DEF IsPlacing
<1>2. IsImage(h, text, text)
  BY DEF IsImage
<1>3. Gapped(h, text, text, bare, D)
  <2>1. \A a \in 1..(Len(text) - 1) : a \in 1..Len(text) /\ a + 1 \in 1..Len(text) /\ a \in Nat
    OBVIOUS
  <2>2. \A a \in 1..(Len(text) - 1) :
          (h[a + 1] - h[a]) % 2 = 1 /\ (h[a] + 1)..(h[a + 1] - 1) = {}
    BY <2>1
  <2> HIDE DEF h
  <2> QED BY <2>2 DEF Gapped
<1> HIDE DEF h
<1> QED BY <1>1, <1>2, <1>3

\* In the order of the sort each edit ends where the one before starts, or below.
LEMMA SortedEditsStep ==
  ASSUME NEW text, Len(text) \in Nat, NEW edits \in Seq(EditsOf(text)), Distinct(edits),
         NEW i \in 1..Len(edits), NEW j \in 1..Len(edits), Before(edits, i, j)
  PROVE  edits[j].end_byte <= edits[i].start_byte
<1> DEFINE e == edits[i]
           f == edits[j]
<1>1. e \in EditsOf(text) /\ f \in EditsOf(text)
  OBVIOUS
<1>2. /\ e.start_byte \in Nat /\ e.end_byte \in Nat /\ f.start_byte \in Nat /\ f.end_byte \in Nat
      /\ e.start_byte <= e.end_byte /\ e.end_byte <= e.start_byte + 1
      /\ f.start_byte <= f.end_byte /\ f.end_byte <= f.start_byte + 1
  BY <1>1, EditIs
<1>3. \/ e.start_byte > f.start_byte
      \/ e.start_byte = f.start_byte /\ e.end_byte > f.end_byte
      \/ e.start_byte = f.start_byte /\ e.end_byte = f.end_byte /\ i < j
  BY DEF Before
<1>4. i < j => ~(IsReplacing(e) /\ IsReplacing(f) /\ e.end_byte = f.end_byte)
  BY DEF Distinct
<1> HIDE DEF e, f
<1>5. f.end_byte <= e.start_byte
  BY <1>2, <1>3, <1>4 DEF IsReplacing
<1> QED BY <1>5 DEF e, f

\* An edit below the floor is applied.
LEMMA NothingInTheWay ==
  ASSUME NEW text \in Seq(Byte), NEW old \in Seq(Byte), NEW lowest \in Nat,
         Carries(text, old, lowest), NEW f \in EditsOf(text), f.end_byte <= lowest
  PROVE  Accepts(old, lowest, f)
<1>1. f.start_byte \in Nat /\ f.end_byte \in Nat /\ f.start_byte <= f.end_byte
      /\ f.end_byte <= Len(text) /\ Len(text) \in Nat /\ Len(old) \in Nat
  BY EditIs
<1>2. f.end_byte <= Len(old)
  <2>1. CASE f.end_byte = 0
    BY <1>1, <2>1
  <2>2. CASE f.end_byte # 0
    <3>1. f.end_byte \in 1..Len(text)
      BY <1>1, <2>2
    <3>2. f.end_byte \in 1..Len(old)
      BY <3>1 DEF Carries, IsPlacing
    <3> QED BY <1>1, <3>2
  <2> QED BY <2>1, <2>2
<1>3. \A at \in 0..Len(old) : IsCharBoundary(old, at)
  BY <1>1, TextAssumption DEF IsCharBoundary
<1> QED BY <1>1, <1>2, <1>3 DEF Accepts, InBounds, OnBoundaries

\* Every edit has its turn.
LEMMA SortedHasAll ==
  ASSUME NEW edits, HasOffsets(edits), NEW order \in Sorted(edits), NEW x \in 1..Len(edits)
  PROVE  \E k \in 1..Len(edits) : order[k] = x
<1> DEFINE n == Len(edits)
<1>1. n \in Nat /\ order \in [1..n -> 1..n]
      /\ \A i, j \in 1..n : i < j => Before(edits, order[i], order[j])
  BY DEF Sorted, HasOffsets
<1>2. ASSUME NEW i \in 1..n, NEW j \in 1..n, order[i] = order[j] PROVE i = j
  <2>1. order[i] \in 1..n /\ ~Before(edits, order[i], order[i])
    BY <1>1, BeforeIsOrder
  <2>2. ~(i < j) /\ ~(j < i)
    BY <1>1, <1>2, <2>1
  <2> QED BY <1>1, <2>2
<1>3. order \in Injection(1..n, 1..n)
  BY <1>1, <1>2 DEF Injection, IsInjective
<1>4. IsFiniteSet(1..n)
  BY <1>1, FS_Interval
<1>5. order \in Surjection(1..n, 1..n)
  BY <1>3, <1>4, FS_Injection
<1> QED BY <1>5 DEF Surjection

AllDone(h, text, edited, s) == \A x \in 1..Len(s) : IsDone(h, text, edited, s[x])

LEMMA ApplyKeeps ==
  ASSUME NEW text \in Seq(Byte), Len(text) <= MaxUsize,
         NEW edits \in Seq(EditsOf(text)), Distinct(edits), NEW bare
  PROVE  /\ Apply(text, edits).skipped = 0 /\ Kept(text, Apply(text, edits).out)
         /\ \E h : /\ IsImage(h, text, Apply(text, edits).out)
                   /\ AllDone(h, text, Apply(text, edits).out, edits)
                   /\ Regular(edits, bare) =>
                        Gapped(h, text, Apply(text, edits).out, bare, EditSet(edits))
<1> DEFINE n == Len(edits)
           order == CHOOSE q \in Sorted(edits) : TRUE
           sorted == [k \in 1..n |-> edits[order[k]]]
<1>1. n \in Nat /\ Len(text) \in Nat /\ MaxUsize \in Nat
  BY UsizeAssumption
<1>2. order \in Sorted(edits) /\ HasOffsets(edits)
  <2>1. HasOffsets(edits)
    BY EditIs DEF HasOffsets
  <2> QED BY <2>1, SortExists
<1>3. order \in [1..n -> 1..n] /\ \A i, j \in 1..n : i < j => Before(edits, order[i], order[j])
  BY <1>2 DEF Sorted
<1>4. \A i \in 1..n : sorted[i] \in EditsOf(text) /\ sorted[i] = edits[order[i]]
  BY <1>3
<1>5. sorted \in Seq(Fix) /\ Len(sorted) = n
  BY <1>1, <1>4, EditIs
<1>6. PICK g : /\ Loops(g, text, sorted)
               /\ FoldLeft(Turn, [out |-> text, floor |-> MaxUsize, skipped |-> 0], sorted) = g[n]
  <2> HIDE DEF sorted, n
  <2> QED BY <1>5, LoopTurns
<1>7. Apply(text, edits) = g[n]
  BY <1>6 DEF Apply
<1> HIDE DEF order, sorted, n
<1>8. /\ g \in [0..n -> EditState] /\ g[0] = [out |-> text, floor |-> MaxUsize, skipped |-> 0]
      /\ \A i \in 1..n : g[i] = Turn(g[i - 1], sorted[i])
  BY <1>5, <1>6 DEF Loops
<1>9. ASSUME NEW i \in 1..n, NEW j \in 1..n, i < j
      PROVE  sorted[j].end_byte <= sorted[i].start_byte
  <2>1. Before(edits, order[i], order[j]) /\ order[i] \in 1..n /\ order[j] \in 1..n
    BY <1>3, <1>9
  <2>2. edits[order[j]].end_byte <= edits[order[i]].start_byte
    BY <1>1, <2>1, SortedEditsStep DEF n
  <2> QED BY <1>4, <2>2
<1> DEFINE Tracked(h, i) ==
             /\ IsPlacing(h, text, g[i].out, g[i].floor) /\ IsImage(h, text, g[i].out)
             /\ \A k \in 1..i : IsDone(h, text, g[i].out, sorted[k])
             /\ Regular(edits, bare) =>
                  Gapped(h, text, g[i].out, bare, {sorted[k] : k \in 1..i})
           Right(i) ==
             /\ g[i].skipped = 0 /\ \E h : Tracked(h, i)
             /\ g[i].floor = IF i = 0 THEN MaxUsize ELSE sorted[i].start_byte
           P == {i \in 0..n : Right(i)}
<1>10. 0 \in P
  <2>1. PICK h : /\ IsPlacing(h, text, text, MaxUsize) /\ IsImage(h, text, text)
                 /\ Gapped(h, text, text, bare, {sorted[k] : k \in 1..0})
    BY CarriesItself
  <2>2. Tracked(h, 0)
    BY <1>8, <2>1
  <2> HIDE DEF Tracked
  <2> QED BY <1>1, <1>8, <2>2
<1>11. ASSUME NEW i \in 1..n, i - 1 \in P PROVE i \in P
  <2> DEFINE st == g[i - 1]
             f == sorted[i]
             new == ReplaceRange(st.out, f)
  <2>1. st \in EditState /\ f \in EditsOf(text) /\ g[i] = Turn(st, f)
    BY <1>1, <1>4, <1>8
  <2>2. Right(i - 1)
    BY <1>11
  <2>3. st.skipped = 0 /\ st.floor = (IF i = 1 THEN MaxUsize ELSE sorted[i - 1].start_byte)
    BY <1>1, <2>2
  <2>4. PICK h : Tracked(h, i - 1)
    BY <2>2
  <2>5. /\ IsPlacing(h, text, st.out, st.floor) /\ IsImage(h, text, st.out)
        /\ \A k \in 1..(i - 1) : IsDone(h, text, st.out, sorted[k])
        /\ Regular(edits, bare) =>
             Gapped(h, text, st.out, bare, {sorted[k] : k \in 1..(i - 1)})
    BY <2>4
  <2>6. st.out \in Seq(Byte) /\ st.floor \in Nat
    BY <2>1 DEF EditState
  <2>7. f.end_byte \in Nat /\ f.start_byte \in Nat /\ f.end_byte <= Len(text)
    BY <1>1, <2>1, EditIs
  <2>8. f.end_byte <= st.floor
    <3>1. CASE i = 1
      BY <1>1, <2>3, <2>7, <3>1
    <3>2. CASE i # 1
      <4>1. i - 1 \in 1..n /\ i - 1 < i
        BY <1>1, <3>2
      <4> QED BY <1>9, <2>3, <3>2, <4>1
    <3> QED BY <3>1, <3>2
  <2> HIDE DEF st, f, new
  <2>9. Accepts(st.out, st.floor, f)
    BY <2>1, <2>5, <2>6, <2>8, NothingInTheWay DEF Carries
  <2>10. g[i].out = new /\ g[i].floor = f.start_byte /\ g[i].skipped = 0
    BY <2>1, <2>3, <2>9, TurnIs DEF new
  <2>11. Spliced(h, text, st.out, st.floor, f)
    BY <2>1, <2>5, <2>6, <2>9 DEF Spliced
  <2>12. /\ IsPlacing(Moved(h, f), text, new, f.start_byte) /\ IsImage(Moved(h, f), text, new)
         /\ IsDone(Moved(h, f), text, new, f)
    BY <2>5, <2>11, SpliceCarries, SpliceKeepsImage, SpliceIsDone DEF new
  <2>13. ASSUME NEW k \in 1..(i - 1) PROVE IsDone(Moved(h, f), text, new, sorted[k])
    <3>1. k \in 1..n /\ i - 1 \in 1..n /\ i # 1 /\ sorted[k] \in EditsOf(text)
          /\ sorted[i - 1] \in EditsOf(text)
      BY <1>1, <1>4
    <3>2. st.floor = sorted[i - 1].start_byte
      BY <2>3, <3>1
    <3>3. k = i - 1 \/ sorted[i - 1].end_byte <= sorted[k].start_byte
      <4>1. k = i - 1 \/ k < i - 1
        BY <1>1
      <4> QED BY <1>9, <3>1, <4>1
    <3>4. /\ sorted[k].start_byte \in Nat /\ sorted[i - 1].start_byte \in Nat
          /\ sorted[i - 1].end_byte \in Nat /\ sorted[i - 1].start_byte <= sorted[i - 1].end_byte
      BY <1>1, <3>1, EditIs
    <3>5. st.floor <= sorted[k].start_byte
      BY <3>2, <3>3, <3>4
    <3> QED BY <2>5, <2>11, <3>1, <3>5, SpliceIsDone DEF new
  <2>14. Regular(edits, bare) => Gapped(Moved(h, f), text, new, bare, {sorted[k] : k \in 1..i})
    <3> DEFINE D == {sorted[k] : k \in 1..(i - 1)}
    <3>1. {sorted[k] : k \in 1..i} = D \cup {f}
      <4>1. 1..i = 1..(i - 1) \cup {i}
        BY <1>1
      <4> QED BY <4>1 DEF f
    <3>2. \A k \in 1..(i - 1) : /\ k \in 1..n /\ order[k] \in 1..n /\ order[k] # order[i]
                               /\ sorted[k] = edits[order[k]]
      <4> TAKE k \in 1..(i - 1)
      <4>1. k \in 1..n /\ k < i
        BY <1>1
      <4>2. Before(edits, order[k], order[i]) /\ order[k] \in 1..n
        BY <1>3, <4>1
      <4>3. ~Before(edits, order[k], order[k])
        BY <1>2, <4>2, BeforeIsOrder DEF n
      <4> QED BY <1>4, <4>1, <4>2, <4>3
    <3>3. Regular(edits, bare) => Suits(f, bare, D)
      <4>1. order[i] \in 1..n /\ f = edits[order[i]]
        BY <1>3, <1>4 DEF f
      <4>2. D \subseteq {edits[y] : y \in (1..n) \ {order[i]}}
        BY <3>2
      <4> HIDE DEF D
      <4> QED BY <4>1, <4>2 DEF Regular, Suits, n
    <3>4. Regular(edits, bare) => Gapped(h, text, st.out, bare, D)
      BY <2>5
    <3> HIDE DEF D
    <3>5. Regular(edits, bare) =>
            Gapped(Moved(h, f), text, ReplaceRange(st.out, f), bare, D \cup {f})
      BY <2>11, <3>3, <3>4, SpliceGaps
    <3> QED BY <3>1, <3>5 DEF new
  <2>15. Tracked(Moved(h, f), i)
    <3>1. \A k \in 1..i : k = i \/ k \in 1..(i - 1)
      BY <1>1
    <3> QED BY <2>10, <2>12, <2>13, <2>14, <3>1 DEF f
  <2> HIDE DEF Tracked
  <2>16. Right(i)
    BY <1>1, <2>10, <2>15 DEF f
  <2> HIDE DEF Right
  <2> QED BY <2>16
<1>12. n \in P
  <2> HIDE DEF P
  <2>1. 0..n \subseteq P
    BY <1>1, <1>10, <1>11, BoundedInduction
  <2> QED BY <1>1, <2>1
<1>13. g[n].out \in Seq(Byte) /\ g[n].floor \in Nat
  BY <1>1, <1>8 DEF EditState
<1>14. PICK h : Tracked(h, n)
  BY <1>12
<1>15. IsPlacing(h, text, g[n].out, g[n].floor) /\ IsImage(h, text, g[n].out)
  BY <1>14
<1>16. AllDone(h, text, g[n].out, edits)
  <2> SUFFICES ASSUME NEW x \in 1..Len(edits) PROVE IsDone(h, text, g[n].out, edits[x])
    BY DEF AllDone
  <2>1. PICK k \in 1..n : order[k] = x
    BY <1>2, SortedHasAll DEF n
  <2>2. IsDone(h, text, g[n].out, sorted[k])
    BY <1>14
  <2> QED BY <1>4, <2>1, <2>2
<1>17. Regular(edits, bare) => Gapped(h, text, g[n].out, bare, EditSet(edits))
  <2>1. {sorted[k] : k \in 1..n} \subseteq EditSet(edits)
    BY <1>3, <1>4 DEF EditSet, n
  <2>2. Regular(edits, bare) => Gapped(h, text, g[n].out, bare, {sorted[k] : k \in 1..n})
    BY <1>14
  <2> DEFINE D == {sorted[k] : k \in 1..n}
  <2> HIDE DEF D
  <2>3. D \subseteq EditSet(edits) /\ Gapped(h, text, g[n].out, bare, D) =>
          Gapped(h, text, g[n].out, bare, EditSet(edits))
    BY DEF Gapped
  <2> QED BY <2>1, <2>2, <2>3 DEF D
<1>18. Kept(text, g[n].out)
  BY <1>13, <1>15, ImageIsOfTokens DEF Kept, Carries
<1>19. g[n].skipped = 0
  BY <1>12
<1> QED BY <1>7, <1>15, <1>16, <1>18, <1>19, <1>17

-----------------------------------------------------------------------------
(* What is taken out of a text is found in it, front to back.              *)

Finds(f, before, after) ==
  /\ f \in [0..Len(after) -> Nat] /\ f[0] = 0
  /\ \A i \in 1..Len(after) : f[i] = FoundNext(before, f[i - 1], after[i])

LEMMA FindingTurns ==
  ASSUME NEW S, NEW before \in Seq(S), NEW after \in Seq(S)
  PROVE  \E f : /\ Finds(f, before, after)
                /\ OnlyInsertedInto(before, after) <=> f[Len(after)] = Len(before)
<1> DEFINE n == Len(after)
           step == [p \in (1..n) \X Nat |-> FoundNext(before, p[2], after[p[1]])]
<1>0. n \in Nat /\ DOMAIN after = 1..n /\ 0 \in Nat
  OBVIOUS
<1>1. \A i \in 1..n, a \in Nat : FoundNext(before, a, after[i]) \in Nat
  BY DEF FoundNext
<1>2. step \in [(1..n) \X Nat -> Nat]
      /\ \A i \in 1..n, a \in Nat : step[<<i, a>>] = FoundNext(before, a, after[i])
  BY <1>1
<1> HIDE DEF step, n
<1>3. PICK h \in [SUBSET (1..n) -> Nat] : FoldsTurns(h, n, 0, step)
  BY <1>0, <1>2, FoldingTurns, Zenon
<1>4. h = [T \in SUBSET (1..n) |->
             IF T = {} THEN 0 ELSE FoundNext(before, h[T \ {Max(T)}], after[Max(T)])]
  <2>1. \A T \in SUBSET (1..n) : T # {} => Max(T) \in 1..n /\ h[T \ {Max(T)}] \in Nat
    BY MaxOfTurns, <1>0
  <2> QED BY <1>2, <1>3, <2>1 DEF FoldsTurns
<1>5. PICK g : /\ g = [T \in SUBSET (1..n) |->
                         IF T = {} THEN 0 ELSE FoundNext(before, g[T \ {Max(T)}], after[Max(T)])]
               /\ OnlyInsertedInto(before, after) <=> g[1..n] = Len(before)
  BY <1>0, <1>4 DEF OnlyInsertedInto, FoldLeft, MapThenFoldSet
<1>6. g[1..0] = 0 /\ \A i \in 1..n : g[1..i] = FoundNext(before, g[1..(i - 1)], after[i])
  <2>1. 1..0 = {} /\ {} \in SUBSET (1..n)
    OBVIOUS
  <2>2. g[{}] = 0
    BY <1>5
  <2>3. ASSUME NEW i \in 1..n PROVE g[1..i] = FoundNext(before, g[1..(i - 1)], after[i])
    <3>1. 1..i \in SUBSET (1..n) /\ 1..i # {} /\ Max(1..i) = i /\ (1..i) \ {i} = 1..(i - 1)
      BY <1>0, Prefix
    <3>2. g[1..i] = FoundNext(before, g[(1..i) \ {Max(1..i)}], after[Max(1..i)])
      BY <1>5, <3>1
    <3> QED BY <3>1, <3>2
  <2> QED BY <2>1, <2>2, <2>3
<1>7. PICK f \in [0..n -> Nat] : Passes(f, g, n)
  <2>1. ASSUME NEW i \in 1..n, g[1..(i - 1)] \in Nat PROVE g[1..i] \in Nat
    <3>1. g[1..i] = FoundNext(before, g[1..(i - 1)], after[i])
      BY <1>6
    <3> QED BY <1>1, <2>1, <3>1
  <2>2. StaysIn(g, n, Nat)
    BY <1>0, <1>6, <2>1 DEF StaysIn
  <2> QED BY <1>0, <2>2, PassingTurns, Zenon
<1>8. n \in 0..n /\ 0 \in 0..n /\ \A i \in 1..n : i - 1 \in 0..n /\ i \in 0..n
  BY <1>0
<1>9. f[0] = 0 /\ f[n] = g[1..n] /\ \A i \in 1..n : f[i] = FoundNext(before, f[i - 1], after[i])
  BY <1>6, <1>7, <1>8 DEF Passes
<1>10. Finds(f, before, after) /\ (OnlyInsertedInto(before, after) <=> f[n] = Len(before))
  BY <1>5, <1>7, <1>9 DEF Finds, n
<1> QED BY <1>10 DEF n

LEMMA CarriedIsFound ==
  ASSUME NEW S, NEW before \in Seq(S), NEW after \in Seq(S), Carries(before, after, 0)
  PROVE  OnlyInsertedInto(before, after)
<1> DEFINE n == Len(after)
           m == Len(before)
<1>0. n \in Nat /\ m \in Nat
  OBVIOUS
<1>1. PICK f : Finds(f, before, after) /\ (OnlyInsertedInto(before, after) <=> f[n] = m)
  BY FindingTurns
<1>2. PICK h : IsPlacing(h, before, after, 0)
  BY DEF Carries
<1>3. /\ h \in [1..m -> Nat]
      /\ \A i \in 1..m : h[i] \in 1..n /\ Modulo(after[h[i]]) = Modulo(before[i])
      /\ \A i, j \in 1..m : i < j => h[i] < h[j]
  BY <1>2 DEF IsPlacing
<1> HIDE DEF n, m
<1> DEFINE Right(j) == f[j] <= m /\ \A i \in 1..m : h[i] <= j => i <= f[j]
           P == {j \in 0..n : Right(j)}
<1>4. 0 \in P
  <2>1. f[0] = 0
    BY <1>1 DEF Finds
  <2>2. \A i \in 1..m : ~(h[i] <= 0)
    BY <1>0, <1>3
  <2> QED BY <1>0, <2>1, <2>2
<1>5. ASSUME NEW j \in 1..n, j - 1 \in P PROVE j \in P
  <2>1. Right(j - 1) /\ j \in Nat
    BY <1>0, <1>5
  <2>2. f[j - 1] \in Nat /\ f[j] = FoundNext(before, f[j - 1], after[j])
    BY <1>0, <1>1 DEF Finds, n
  <2>3. f[j] = IF f[j - 1] < m /\ Modulo(after[j]) = Modulo(before[f[j - 1] + 1])
               THEN f[j - 1] + 1 ELSE f[j - 1]
    BY <2>2 DEF FoundNext, m
  <2>4. f[j - 1] <= f[j] /\ f[j] <= m
    BY <1>0, <2>1, <2>2, <2>3
  <2>5. ASSUME NEW i \in 1..m, h[i] <= j PROVE i <= f[j]
    <3>1. h[i] \in Nat /\ i \in Nat
      BY <1>0, <1>3
    <3>2. CASE h[i] <= j - 1
      <4>1. i <= f[j - 1]
        BY <2>1, <3>2
      <4> QED BY <2>2, <2>3, <2>4, <3>1, <4>1
    <3>3. CASE ~(h[i] <= j - 1)
      <4>1. h[i] = j
        BY <2>1, <2>5, <3>1, <3>3
      <4>2. i - 1 <= f[j - 1]
        <5>1. CASE i = 1
          BY <2>2, <5>1
        <5>2. CASE i # 1
          <6>1. i - 1 \in 1..m /\ i - 1 < i
            BY <1>0, <5>2
          <6>2. h[i - 1] < h[i] /\ h[i - 1] \in Nat
            BY <1>3, <6>1
          <6>3. h[i - 1] <= j - 1
            BY <2>1, <4>1, <6>2
          <6> QED BY <2>1, <6>1, <6>3
        <5> QED BY <5>1, <5>2
      <4>3. CASE i <= f[j - 1]
        BY <2>2, <2>3, <3>1, <4>3
      <4>4. CASE f[j - 1] = i - 1
        <5>1. f[j - 1] < m /\ f[j - 1] + 1 = i
          BY <1>0, <3>1, <4>4
        <5>2. Modulo(after[j]) = Modulo(before[i])
          BY <1>3, <4>1
        <5> QED BY <2>3, <3>1, <5>1, <5>2
      <4> QED BY <2>2, <3>1, <4>2, <4>3, <4>4
    <3> QED BY <3>2, <3>3
  <2>6. Right(j)
    BY <2>4, <2>5
  <2> HIDE DEF Right
  <2> QED BY <2>6
<1>6. n \in P
  <2> HIDE DEF P
  <2>1. 0..n \subseteq P
    BY <1>0, <1>4, <1>5, BoundedInduction
  <2> QED BY <1>0, <2>1
<1>7. f[n] = m
  <2>1. f[n] \in Nat /\ f[n] <= m
    BY <1>0, <1>1, <1>6 DEF Finds, n
  <2>2. CASE m = 0
    BY <1>0, <2>1, <2>2
  <2>3. CASE m # 0
    <3>1. m \in 1..m
      BY <1>0, <2>3
    <3>2. h[m] <= n
      BY <1>0, <1>3, <3>1
    <3> QED BY <1>0, <1>6, <2>1, <3>1, <3>2
  <2> QED BY <2>2, <2>3
<1> QED BY <1>1, <1>7 DEF n, m

LEMMA CarriesOn ==
  ASSUME NEW a, NEW b, NEW c, Carries(a, b, 0), NEW lowest \in Nat, Carries(b, c, lowest),
         Len(a) \in Nat, Len(b) \in Nat, Len(c) \in Nat
  PROVE  Carries(a, c, 0)
<1>1. PICK h : IsPlacing(h, a, b, 0)
  BY DEF Carries
<1>2. PICK k : IsPlacing(k, b, c, lowest)
  BY DEF Carries
<1> DEFINE both == [i \in 1..Len(a) |-> k[h[i]]]
<1>3. \A i \in 1..Len(a) :
        /\ h[i] \in 1..Len(b) /\ k[h[i]] \in 1..Len(c) /\ k[h[i]] \in Nat
        /\ Modulo(c[k[h[i]]]) = Modulo(a[i])
  BY <1>1, <1>2 DEF IsPlacing
<1>4. \A i, j \in 1..Len(a) : i < j => k[h[i]] < k[h[j]]
  BY <1>1, <1>2 DEF IsPlacing
<1>5. IsPlacing(both, a, c, 0)
  BY <1>3, <1>4 DEF IsPlacing
<1> HIDE DEF both
<1> QED BY <1>5 DEF Carries

-----------------------------------------------------------------------------
(* The calls of the edited text are those of the text, and settled.        *)

\* What a rule replaces stays the same keyword, and parentheses stay where they are.
LEMMA ImageTokens ==
  ASSUME NEW h, NEW text, NEW edited, IsImage(h, text, edited), NEW i \in 1..Len(text)
  PROVE  /\ edited[h[i]] = text[i] \/ (text[i] \in Replaceable /\ edited[h[i]] \in Replacing)
         /\ \A x \in Parenthesis : edited[h[i]] = x <=> text[i] = x
         /\ Keyword(edited[h[i]]) = Keyword(text[i])
         /\ edited[h[i]] = "**kw" <=> text[i] = "**kw"
<1>1. edited[h[i]] = text[i] \/ (text[i] \in Replaceable /\ edited[h[i]] \in Replacing)
  <2>1. edited[h[i]] \in {text[i], Modulo(text[i])}
    BY DEF IsImage
  <2> DEFINE old == text[i]
             new == edited[h[i]]
  <2>2. new = old \/ new = Modulo(old)
    BY <2>1
  <2> HIDE DEF old, new
  <2>3. Modulo(old) = old \/ (old \in Replaceable /\ Modulo(old) \in Replacing)
    BY ReplacedTokens, Zenon
  <2>4. new = old \/ (old \in Replaceable /\ new \in Replacing)
    BY <2>2, <2>3
  <2> QED BY <2>4 DEF old, new
<1>2. Replaceable \cap (Parenthesis \cup {"**kw"}) = {}
      /\ Replacing \cap (Parenthesis \cup {"**kw"}) = {}
  BY DEF Replaceable, Replacing, Parenthesis
<1>3. Keyword(edited[h[i]]) = Keyword(text[i])
  <2>1. edited[h[i]] \in {text[i], Modulo(text[i])}
    BY DEF IsImage
  <2>2. CASE text[i] = "dask=allowed"
    <3>1. Keyword("dask=allowed") = "dask" /\ Keyword("dask=parallelized") = "dask"
      BY DEF Keyword
    <3> QED BY <2>1, <2>2, <3>1, ReplacedTokens
  <2>3. CASE text[i] \in DOMAIN NewName
    <3>1. DOMAIN NewName = {"math_sqrt", "matrix", "applymap"}
      BY DEF NewName
    <3>2. NewName["math_sqrt"] = "np_sqrt" /\ NewName["matrix"] = "array"
          /\ NewName["applymap"] = "map"
      BY DEF NewName
    <3>3. \A token \in {"math_sqrt", "matrix", "applymap", "np_sqrt", "array", "map"} :
            Keyword(token) = "none"
      BY DEF Keyword
    <3>4. text[i] # "dask=allowed"
      BY <2>3, <3>1
    <3>5. Modulo(text[i]) = NewName[text[i]]
      BY <2>3, <3>4 DEF Modulo
    <3> QED BY <2>1, <2>3, <3>1, <3>2, <3>3, <3>5
  <2>4. CASE text[i] \notin DOMAIN NewName /\ text[i] # "dask=allowed"
    <3>1. Modulo(text[i]) = text[i]
      BY <2>4 DEF Modulo
    <3> QED BY <2>1, <3>1
  <2> QED BY <2>2, <2>3, <2>4
<1> QED BY <1>1, <1>2, <1>3

\* Two sets between which there is a bijection have as many elements.
LEMMA SameNumber ==
  ASSUME NEW S, NEW T, IsFiniteSet(T), NEW f \in [S -> T],
         \A x, y \in S : f[x] = f[y] => x = y, \A z \in T : \E x \in S : f[x] = z
  PROVE  Cardinality(S) = Cardinality(T)
<1>1. f \in Injection(S, T)
  BY DEF Injection, IsInjective
<1>2. f \in Surjection(S, T)
  BY DEF Surjection
<1> QED BY <1>1, <1>2, FS_Injection

\* j is at token i of the text, or behind it and before the next.
IsBehind(h, text, edited, i, j) ==
  /\ i \in 1..Len(text) /\ j \in 1..Len(edited)
  /\ h[i] <= j /\ \A k \in 1..Len(text) : h[k] <= j => k <= i

\* As many parentheses lie between the images as between the tokens.
LEMMA ParenthesesAreKept ==
  ASSUME NEW text, NEW edited, NEW h,
         IsImage(h, text, edited), Len(text) \in Nat, Len(edited) \in Nat,
         NEW c \in 1..Len(text), NEW i, NEW j, c <= i, IsBehind(h, text, edited, i, j),
         NEW x \in Parenthesis
  PROVE  Cardinality(Positions(text, x, c, i)) = Cardinality(Positions(edited, x, h[c], j))
<1> DEFINE S == Positions(text, x, c, i)
           T == Positions(edited, x, h[c], j)
           f == [k \in S |-> h[k]]
<1>1. /\ h \in [1..Len(text) -> Nat] /\ i \in 1..Len(text) /\ j \in 1..Len(edited) /\ h[i] <= j
      /\ \A k \in 1..Len(text) : h[k] \in 1..Len(edited) /\ (h[k] <= j => k <= i)
      /\ \A k, m \in 1..Len(text) : k < m => h[k] < h[m]
  BY DEF IsImage, IsBehind
<1>2. \A k \in 1..Len(text) : edited[h[k]] = x <=> text[k] = x
  BY ImageTokens
<1>3. ASSUME NEW k \in S PROVE h[k] \in T /\ k \in 1..Len(text)
  <2>1. k \in c..i /\ k \in 1..Len(text) /\ text[k] = x
    BY <1>1, <1>3 DEF Positions
  <2>2. h[c] <= h[k] /\ h[k] <= h[i] /\ h[k] \in Nat /\ h[c] \in Nat /\ h[i] \in Nat
    <3>1. k = c \/ c < k
      BY <2>1
    <3>2. k = i \/ k < i
      BY <1>1, <2>1
    <3> QED BY <1>1, <2>1, <3>1, <3>2
  <2>3. h[k] \in h[c]..j
    BY <1>1, <2>2
  <2> QED BY <1>2, <2>1, <2>3 DEF Positions
<1>4. f \in [S -> T]
  BY <1>3
<1>5. ASSUME NEW k \in S, NEW m \in S, f[k] = f[m] PROVE k = m
  <2>1. k \in 1..Len(text) /\ m \in 1..Len(text) /\ h[k] = h[m] /\ h[k] \in Nat /\ h[m] \in Nat
    BY <1>1, <1>3, <1>5
  <2> QED BY <1>1, <2>1
<1>6. ASSUME NEW z \in T PROVE \E k \in S : f[k] = z
  <2>1. z \in h[c]..j /\ edited[z] = x /\ h[c] \in Nat /\ z \in 1..Len(edited)
    BY <1>1, <1>6 DEF Positions
  <2>2. x \notin Written
    BY DEF Written, Parenthesis
  <2>3. PICK k \in 1..Len(text) : h[k] = z
    BY <2>1, <2>2 DEF IsImage
  <2>4. k <= i /\ c <= k
    <3>1. k < c => h[k] < h[c]
      BY <1>1
    <3> QED BY <1>1, <2>1, <2>3, <3>1
  <2>5. text[k] = x
    BY <1>2, <2>1, <2>3
  <2>6. k \in S
    BY <2>4, <2>5 DEF Positions
  <2> QED BY <2>3, <2>6
<1>7. IsFiniteSet(T)
  <2>1. h[c] \in Int /\ j \in Int
    BY <1>1
  <2>2. IsFiniteSet(h[c]..j)
    BY <2>1, FS_Interval
  <2> QED BY <2>2, FS_Subset DEF Positions
<1> HIDE DEF S, T, f
<1>8. Cardinality(S) = Cardinality(T)
  BY <1>4, <1>5, <1>6, <1>7, SameNumber
<1> QED BY <1>8 DEF S, T

\* As many parentheses are open at the image of a token as at the token.
LEMMA DepthIsKept ==
  ASSUME NEW text, NEW edited, NEW h,
         IsImage(h, text, edited), Len(text) \in Nat, Len(edited) \in Nat,
         NEW c \in 1..Len(text), NEW i, NEW j, c <= i, IsBehind(h, text, edited, i, j)
  PROVE  Depth(edited, h[c], j) = Depth(text, c, i)
<1>1. \A x \in Parenthesis :
        Cardinality(Positions(text, x, c, i)) = Cardinality(Positions(edited, x, h[c], j))
  BY ParenthesesAreKept
<1>2. "(" \in Parenthesis /\ ")" \in Parenthesis
  BY DEF Parenthesis
<1>3. Depth(text, c, i) =
        Cardinality(Positions(text, "(", c, i)) - Cardinality(Positions(text, ")", c, i))
  BY DEF Depth, Positions
<1>4. Depth(edited, h[c], j) =
        Cardinality(Positions(edited, "(", h[c], j)) - Cardinality(Positions(edited, ")", h[c], j))
  BY DEF Depth, Positions
<1> QED BY <1>1, <1>2, <1>3, <1>4

\* A token is behind itself, and every position from a token on is behind some.
LEMMA BehindItself ==
  ASSUME NEW text, NEW edited, NEW h,
         IsImage(h, text, edited), Len(text) \in Nat, Len(edited) \in Nat,
         NEW i \in 1..Len(text)
  PROVE  IsBehind(h, text, edited, i, h[i])
<1>1. /\ \A k \in 1..Len(text) : h[k] \in 1..Len(edited)
      /\ \A k, m \in 1..Len(text) : k < m => h[k] < h[m]
  BY DEF IsImage
<1>2. ASSUME NEW k \in 1..Len(text), h[k] <= h[i] PROVE k <= i
  <2>1. h[k] \in Nat /\ h[i] \in Nat
    BY <1>1
  <2>2. i < k => h[i] < h[k]
    BY <1>1
  <2> QED BY <1>2, <2>1, <2>2
<1>3. h[i] <= h[i]
  BY <1>1
<1> QED BY <1>1, <1>2, <1>3 DEF IsBehind

LEMMA SomeIsBefore ==
  ASSUME NEW text, NEW edited, NEW h,
         IsImage(h, text, edited), Len(text) \in Nat, Len(edited) \in Nat,
         NEW z \in 1..Len(text), NEW j \in 1..Len(edited), h[1] <= j, j < h[z]
  PROVE  \E i \in 1..(z - 1) : IsBehind(h, text, edited, i, j) /\ i + 1 \in 1..z /\ j < h[i + 1]
<1> DEFINE A == {k \in 1..z : j < h[k]}
<1>1. /\ \A k \in 1..Len(text) : h[k] \in Nat
      /\ \A k, m \in 1..Len(text) : k < m => h[k] < h[m]
  BY DEF IsImage
<1>2. A \in SUBSET Nat /\ z \in A
  OBVIOUS
<1>3. PICK k \in A : \A y \in A : ~(y < k)
  <2> HIDE DEF A
  <2> QED BY <1>2, LeastElement
<1>4. k \in 1..z /\ j < h[k] /\ k # 1 /\ 1 \in 1..Len(text)
  BY <1>1
<1>5. k - 1 \in 1..(z - 1) /\ k - 1 \in 1..Len(text) /\ ~(j < h[k - 1]) /\ h[k - 1] \in Nat
  <2>1. k - 1 \in 1..z /\ k - 1 < k
    BY <1>4
  <2>2. k - 1 \notin A
    BY <1>3, <2>1
  <2> QED BY <1>1, <1>4, <2>1, <2>2
<1>6. h[k - 1] <= j
  BY <1>5
<1>7. ASSUME NEW m \in 1..Len(text), h[m] <= j PROVE m <= k - 1
  <2>1. m = k \/ k < m => h[k] <= h[m]
    BY <1>1, <1>4
  <2>2. h[m] \in Nat /\ h[k] \in Nat
    BY <1>1, <1>4
  <2> QED BY <1>4, <1>7, <2>1, <2>2
<1>8. IsBehind(h, text, edited, k - 1, j)
  BY <1>5, <1>6, <1>7 DEF IsBehind
<1> QED BY <1>4, <1>5, <1>8

\* Every call of the edited text is one of the text.
LEMMA CallsAreKept ==
  ASSUME NEW text, NEW edited, NEW h,
         IsImage(h, text, edited), Len(text) \in Nat, Len(edited) \in Nat,
         NEW d \in Calls(edited)
  PROVE  \E c \in Calls(text) : h[c] = d
<1>1. d \in 1..(Len(edited) - 1) /\ edited[d + 1] = "(" /\ d + 1 \in 1..Len(edited)
  BY DEF Calls
<1>2. "(" \notin Written /\ "(" \in Parenthesis
  BY DEF Written, Parenthesis
<1>3. PICK i \in 1..Len(text) : h[i] = d + 1
  BY <1>1, <1>2 DEF IsImage
<1>4. text[i] = "("
  BY <1>1, <1>2, <1>3, ImageTokens
<1>5. h[i] = IF i = 1 THEN 1 ELSE h[i - 1] + 1
  BY <1>4 DEF IsImage
<1>6. i # 1 /\ i - 1 \in 1..Len(text)
  BY <1>1, <1>3, <1>5
<1>7. h[i - 1] = d
  <2>1. h[i - 1] \in Nat
    BY <1>6 DEF IsImage
  <2> QED BY <1>1, <1>3, <1>5, <1>6, <2>1
<1>8. i - 1 \in Calls(text)
  BY <1>4, <1>6 DEF Calls
<1> QED BY <1>7, <1>8

\* The image of a call is closed where the call was.
LEMMA CloseIsKept ==
  ASSUME NEW text, NEW edited, NEW h, IsImage(h, text, edited), Len(edited) \in Nat,
         NEW c, Opens(text, c)
  PROVE  Opens(edited, h[c]) /\ Close(edited, h[c]) = h[Close(text, c)] /\ h[c + 1] = h[c] + 1
<1> DEFINE z == Close(text, c)
<1>1. /\ z \in (c + 2)..Len(text) /\ c \in 1..Len(text) /\ Len(text) \in Nat
      /\ text[c] \notin Parenthesis /\ text[c + 1] = "("
  BY InsideIsOpen DEF Opens
<1>2. /\ \A j \in (c + 1)..(z - 1) : Depth(text, c, j) \in Nat \ {0}
      /\ Depth(text, c, z) = 0
  BY InsideIsOpen
<1> HIDE DEF z
<1>3. c + 1 \in 1..Len(text) /\ z \in 1..Len(text) /\ c < c + 1 /\ c + 1 < z /\ 1 \in 1..Len(text)
      /\ (c + 1) - 1 = c /\ c + 1 # 1
  BY <1>1
<1>4. /\ \A k \in 1..Len(text) : h[k] \in 1..Len(edited)
      /\ \A k, m \in 1..Len(text) : k < m => h[k] < h[m]
  BY DEF IsImage
<1>5. h[c + 1] = h[c] + 1
  <2>1. h[c + 1] = IF c + 1 = 1 THEN 1 ELSE h[(c + 1) - 1] + 1
    BY <1>1, <1>3 DEF IsImage
  <2> QED BY <1>3, <2>1
<1> DEFINE d == h[c]
           y == h[z]
<1>6. d \in 1..Len(edited) /\ y \in (d + 2)..Len(edited) /\ h[1] <= d
  <2>1. h[c + 1] < h[z] /\ (c = 1 \/ h[1] < h[c])
    BY <1>1, <1>3, <1>4
  <2>2. h[c] \in 1..Len(edited) /\ h[z] \in 1..Len(edited) /\ h[1] \in 1..Len(edited)
    BY <1>1, <1>3, <1>4
  <2> QED BY <1>5, <2>1, <2>2
<1>7. edited[d] \notin Parenthesis /\ edited[d + 1] = "("
  <2>1. "(" \in Parenthesis
    BY DEF Parenthesis
  <2> QED BY <1>1, <1>3, <1>5, <2>1, ImageTokens
<1>8. Depth(edited, d, y) = 0
  <2>1. IsBehind(h, text, edited, z, y)
    BY <1>1, <1>3, BehindItself
  <2>2. c <= z
    BY <1>1
  <2> QED BY <1>1, <1>2, <2>1, <2>2, DepthIsKept
<1>9. y \in Closings(edited, d)
  BY <1>6, <1>8 DEF Closings
<1>10. Opens(edited, d)
  BY <1>6, <1>7, <1>9 DEF Opens
<1>11. ASSUME NEW j \in (d + 2)..(y - 1) PROVE Depth(edited, d, j) # 0
  <2>1. j \in 1..Len(edited) /\ h[1] <= j /\ j < h[z] /\ h[c + 1] <= j
    <3>1. h[1] \in Nat
      BY <1>3, <1>4
    <3> QED BY <1>5, <1>6, <3>1
  <2> HIDE DEF d, y
  <2>2. PICK i \in 1..(z - 1) : IsBehind(h, text, edited, i, j)
    BY <1>1, <1>3, <2>1, SomeIsBefore
  <2>3. c + 1 <= i
    BY <1>3, <2>1, <2>2 DEF IsBehind
  <2>4. i \in (c + 1)..(z - 1) /\ c <= i
    BY <1>1, <2>3
  <2>5. Depth(edited, h[c], j) = Depth(text, c, i)
    BY <1>1, <2>2, <2>4, DepthIsKept
  <2> QED BY <1>2, <2>4, <2>5 DEF d
<1>12. Close(edited, d) \in (d + 2)..Len(edited) /\ Depth(edited, d, Close(edited, d)) = 0
       /\ Close(edited, d) <= y
  <2>1. /\ Close(edited, d) \in (d + 2)..Len(edited)
        /\ \A j \in (d + 2)..Len(edited) : Depth(edited, d, j) = 0 => Close(edited, d) <= j
    BY <1>10, CloseIs DEF Opens
  <2>2. Depth(edited, d, Close(edited, d)) = 0
    BY <1>10, InsideIsOpen
  <2> QED BY <1>6, <1>8, <2>1, <2>2
<1>13. Close(edited, d) = y
  <2>1. Close(edited, d) \notin (d + 2)..(y - 1)
    BY <1>11, <1>12
  <2> QED BY <1>6, <1>12, <2>1
<1> QED BY <1>5, <1>10, <1>13 DEF z

\* What is joined keeps all it is joined from.
HasAll(s, t) == \A x \in 1..Len(s) : \E y \in 1..Len(t) : t[y] = s[x]

LEMMA JoinHas ==
  ASSUME NEW S, NEW s \in Seq(S), NEW t \in Seq(S)
  PROVE  HasAll(s, s \o t) /\ HasAll(t, s \o t)
<1> DEFINE u == s \o t
<1>1. Len(u) = Len(s) + Len(t) /\ Len(s) \in Nat /\ Len(t) \in Nat
      /\ \A y \in 1..Len(u) : u[y] = IF y <= Len(s) THEN s[y] ELSE t[y - Len(s)]
  BY ConcatProperties
<1> HIDE DEF u
<1>2. ASSUME NEW x \in 1..Len(s) PROVE \E y \in 1..Len(u) : u[y] = s[x]
  <2>1. x \in 1..Len(u) /\ x <= Len(s)
    BY <1>1
  <2> QED BY <1>1, <2>1
<1>3. ASSUME NEW x \in 1..Len(t) PROVE \E y \in 1..Len(u) : u[y] = t[x]
  <2>1. x + Len(s) \in 1..Len(u) /\ ~(x + Len(s) <= Len(s)) /\ (x + Len(s)) - Len(s) = x
    BY <1>1
  <2> QED BY <1>1, <2>1
<1> QED BY <1>2, <1>3 DEF HasAll, u

LEMMA FlattenHas ==
  ASSUME NEW S, NEW n \in Nat, NEW s \in [1..n -> Seq(S)], NEW c \in 1..n
  PROVE  HasAll(s[c], FlattenSeq(s))
<1>1. PICK f : Joins(f, s, n, S)
  BY JoinsExist
<1>2. FlattenSeq(s) = f[n]
  BY <1>1, FlattenJoins
<1> DEFINE P == {m \in 0..n : m >= c => HasAll(s[c], f[m])}
<1>3. 0 \in P
  OBVIOUS
<1>4. ASSUME NEW m \in 1..n, m - 1 \in P PROVE m \in P
  <2> DEFINE u == f[m - 1]
             v == s[m]
             w == s[c]
  <2>0. m - 1 \in 0..n /\ m \in 0..n
    OBVIOUS
  <2>1. f[m] = u \o v /\ u \in Seq(S) /\ v \in Seq(S)
    BY <1>1, <2>0 DEF Joins
  <2>2. m - 1 >= c => HasAll(w, u)
    BY <1>4
  <2>3. m >= c /\ ~(m - 1 >= c) => w = v
    <3>1. m >= c /\ ~(m - 1 >= c) => m = c
      OBVIOUS
    <3> QED BY <3>1
  <2> HIDE DEF u, v, w
  <2>4. HasAll(u, u \o v) /\ HasAll(v, u \o v)
    BY <2>1, JoinHas
  <2>5. HasAll(w, u) => HasAll(w, u \o v)
    BY <2>4 DEF HasAll
  <2>6. m >= c => HasAll(w, u \o v)
    BY <2>2, <2>3, <2>4, <2>5
  <2>7. m >= c => HasAll(w, f[m])
    BY <2>1, <2>6
  <2> QED BY <2>0, <2>7 DEF w
<1>5. n \in P
  <2> HIDE DEF P
  <2>1. 0..n \subseteq P
    BY <1>3, <1>4, BoundedInduction
  <2> QED BY <2>1
<1> QED BY <1>2, <1>5

\* The arguments of a call, by their places.
Argument(text, c, i) ==
  i \in (c + 2)..(Close(text, c) - 1) /\ Depth(text, c, i) = 1 /\ text[i] # ")"

\* A call's argument list holds its arguments and nothing else.
LEMMA ArgumentsAre ==
  ASSUME NEW text, NEW c, Opens(text, c)
  PROVE  /\ \A i : Argument(text, c, i) =>
              \E k \in DOMAIN ArgumentList(text, c) : ArgumentList(text, c)[k] = text[i]
         /\ \A k \in DOMAIN ArgumentList(text, c) :
              \E i : Argument(text, c, i) /\ ArgumentList(text, c)[k] = text[i]
         /\ DOMAIN ArgumentList(text, c) = 1..Len(ArgumentList(text, c))
<1> DEFINE n == Close(text, c) - c - 2
           At(k) == c + 1 + k
           S == {text[i] : i \in {i \in (c + 2)..Close(text, c) : Argument(text, c, i)}}
           s == [k \in 1..n |-> IF Depth(text, c, At(k)) = 1 /\ text[At(k)] \notin {")"}
                                THEN <<text[At(k)]>> ELSE <<>>]
           list == ArgumentList(text, c)
<1>1. Close(text, c) \in (c + 2)..Len(text) /\ c \in 1..Len(text) /\ Len(text) \in Nat /\ n \in Nat
  BY InsideIsOpen DEF Opens
<1>2. s \in [1..n -> Seq(S)]
  <2> SUFFICES ASSUME NEW k \in 1..n PROVE s[k] \in Seq(S)
    OBVIOUS
  <2>1. At(k) \in (c + 2)..(Close(text, c) - 1) /\ At(k) \in (c + 2)..Close(text, c)
    BY <1>1
  <2>2. Depth(text, c, At(k)) = 1 /\ text[At(k)] # ")" => text[At(k)] \in S
    BY <2>1 DEF Argument
  <2> HIDE DEF S
  <2> QED BY <2>2
<1>3. list = FlattenSeq(s)
  BY DEF ArgumentList, ArgumentsBut
<1>4. list \in Seq(S)
  <2> HIDE DEF s, n, S, list
  <2> QED BY <1>1, <1>2, <1>3, FlattenTyped
<1>5. ASSUME NEW k \in DOMAIN list PROVE \E i : Argument(text, c, i) /\ list[k] = text[i]
  <2>1. list[k] \in S
    <3> HIDE DEF S, list
    <3> QED BY <1>4, <1>5
  <2> QED BY <2>1
<1>6. ASSUME NEW i, Argument(text, c, i) PROVE \E k \in DOMAIN list : list[k] = text[i]
  <2>1. i - c - 1 \in 1..n /\ At(i - c - 1) = i /\ Depth(text, c, i) = 1 /\ text[i] # ")"
    BY <1>1, <1>6 DEF Argument
  <2>2. s[i - c - 1] = <<text[i]>>
    BY <2>1
  <2>3. HasAll(s[i - c - 1], list)
    <3> HIDE DEF s, n, S, list
    <3> QED BY <1>1, <1>2, <1>3, <2>1, FlattenHas
  <2> HIDE DEF s, S, list
  <2>4. 1 \in 1..Len(<<text[i]>>) /\ <<text[i]>>[1] = text[i]
    OBVIOUS
  <2>5. \E y \in 1..Len(list) : list[y] = text[i]
    BY <2>2, <2>3, <2>4 DEF HasAll
  <2> QED BY <1>4, <2>5
<1>7. DOMAIN list = 1..Len(list)
  <2> HIDE DEF S, list
  <2> QED BY <1>4
<1> QED BY <1>5, <1>6, <1>7

\* To have a keyword is to have an argument that is one.
LEMMA KeywordIsArgument ==
  ASSUME NEW text, NEW c, Opens(text, c), NEW kw
  PROVE  /\ HasKeywordArg(text, c, kw) <=> \E i : Argument(text, c, i) /\ Keyword(text[i]) = kw
         /\ Contains(ArgumentList(text, c), "**kw") <=>
              \E i : Argument(text, c, i) /\ text[i] = "**kw"
<1> DEFINE list == ArgumentList(text, c)
<1>1. /\ \A i : Argument(text, c, i) => \E k \in DOMAIN list : list[k] = text[i]
      /\ \A k \in DOMAIN list : \E i : Argument(text, c, i) /\ list[k] = text[i]
      /\ DOMAIN list = 1..Len(list)
  BY ArgumentsAre
<1>2. HasKeywordArg(text, c, kw) <=> \E k \in DOMAIN list : Keyword(list[k]) = kw
  BY DEF HasKeywordArg
<1>3. Contains(list, "**kw") <=> \E k \in DOMAIN list : list[k] = "**kw"
  BY <1>1 DEF Contains
<1> HIDE DEF list
<1>4. (\E k \in DOMAIN list : Keyword(list[k]) = kw)
        <=> \E i : Argument(text, c, i) /\ Keyword(text[i]) = kw
  <2>1. ASSUME NEW k \in DOMAIN list, Keyword(list[k]) = kw
        PROVE  \E i : Argument(text, c, i) /\ Keyword(text[i]) = kw
    <3>1. PICK i : Argument(text, c, i) /\ list[k] = text[i]
      BY <1>1
    <3> QED BY <2>1, <3>1
  <2>2. ASSUME NEW i, Argument(text, c, i), Keyword(text[i]) = kw
        PROVE  \E k \in DOMAIN list : Keyword(list[k]) = kw
    <3>1. PICK k \in DOMAIN list : list[k] = text[i]
      BY <1>1, <2>2
    <3> QED BY <2>2, <3>1
  <2> QED BY <2>1, <2>2
<1>5. (\E k \in DOMAIN list : list[k] = "**kw")
        <=> \E i : Argument(text, c, i) /\ text[i] = "**kw"
  <2>1. ASSUME NEW k \in DOMAIN list, list[k] = "**kw"
        PROVE  \E i : Argument(text, c, i) /\ text[i] = "**kw"
    <3>1. PICK i : Argument(text, c, i) /\ list[k] = text[i]
      BY <1>1
    <3> QED BY <2>1, <3>1
  <2>2. ASSUME NEW i, Argument(text, c, i), text[i] = "**kw"
        PROVE  \E k \in DOMAIN list : list[k] = "**kw"
    <3>1. PICK k \in DOMAIN list : list[k] = text[i]
      BY <1>1, <2>2
    <3> QED BY <2>2, <3>1
  <2> QED BY <2>1, <2>2
<1> QED BY <1>2, <1>3, <1>4, <1>5 DEF list

\* The arguments of a call are arguments of its image.
LEMMA ArgumentIsKept ==
  ASSUME NEW text, NEW edited, NEW h, IsImage(h, text, edited), Len(edited) \in Nat,
         NEW c, Opens(text, c), NEW i, Argument(text, c, i)
  PROVE  /\ Argument(edited, h[c], h[i]) /\ i \in 1..Len(text)
         /\ Keyword(edited[h[i]]) = Keyword(text[i])
         /\ edited[h[i]] = "**kw" <=> text[i] = "**kw"
<1> DEFINE z == Close(text, c)
<1>1. /\ z \in (c + 2)..Len(text) /\ c \in 1..Len(text) /\ Len(text) \in Nat
      /\ i \in (c + 2)..(z - 1) /\ Depth(text, c, i) = 1 /\ text[i] # ")"
  BY InsideIsOpen DEF Opens, Argument
<1>2. Close(edited, h[c]) = h[z] /\ h[c + 1] = h[c] + 1
  BY CloseIsKept
<1> HIDE DEF z
<1>3. i \in 1..Len(text) /\ c + 1 \in 1..Len(text) /\ c + 1 < i /\ i < z /\ z \in 1..Len(text)
      /\ c <= i
  BY <1>1
<1>4. h[c + 1] < h[i] /\ h[i] < h[z] /\ h[c] \in Nat /\ h[i] \in Nat /\ h[z] \in Nat
  BY <1>1, <1>3 DEF IsImage
<1>5. h[i] \in (h[c] + 2)..(h[z] - 1)
  BY <1>2, <1>4
<1>6. Depth(edited, h[c], h[i]) = 1
  <2>1. IsBehind(h, text, edited, i, h[i])
    BY <1>1, <1>3, BehindItself
  <2> QED BY <1>1, <1>3, <2>1, DepthIsKept
<1>7. edited[h[i]] # ")"
  <2>1. ")" \in Parenthesis
    BY DEF Parenthesis
  <2> QED BY <1>1, <1>3, <2>1, ImageTokens
<1> QED BY <1>2, <1>3, <1>5, <1>6, <1>7, ImageTokens DEF Argument

\* A keyword that a call had, or may have had, it still has.
LEMMA KnownIsKept ==
  ASSUME NEW text, NEW edited, NEW h, IsImage(h, text, edited), Len(edited) \in Nat,
         NEW c, Opens(text, c), NEW kw
  PROVE  /\ HasKeywordArg(text, c, kw) => HasKeywordArg(edited, h[c], kw)
         /\ KeywordArgPresentOrUnknown(text, c, kw) => KeywordArgPresentOrUnknown(edited, h[c], kw)
<1>1. Opens(edited, h[c])
  BY CloseIsKept
<1>2. ASSUME HasKeywordArg(text, c, kw) PROVE HasKeywordArg(edited, h[c], kw)
  <2>1. PICK i : Argument(text, c, i) /\ Keyword(text[i]) = kw
    BY <1>2, KeywordIsArgument
  <2>2. Argument(edited, h[c], h[i]) /\ Keyword(edited[h[i]]) = kw
    BY <2>1, ArgumentIsKept
  <2> QED BY <1>1, <2>2, KeywordIsArgument
<1>3. ASSUME Contains(ArgumentList(text, c), "**kw")
      PROVE  Contains(ArgumentList(edited, h[c]), "**kw")
  <2>1. PICK i : Argument(text, c, i) /\ text[i] = "**kw"
    BY <1>3, KeywordIsArgument
  <2>2. Argument(edited, h[c], h[i]) /\ edited[h[i]] = "**kw"
    BY <2>1, ArgumentIsKept
  <2> QED BY <1>1, <2>2, KeywordIsArgument
<1> QED BY <1>2, <1>3 DEF KeywordArgPresentOrUnknown

\* What is written just before the end of a call is an argument of it.
LEMMA WrittenIsArgument ==
  ASSUME NEW text, NEW edited, NEW h, IsImage(h, text, edited), Len(edited) \in Nat,
         NEW c, Opens(text, c), NEW j \in 1..Len(edited), edited[j] # ")",
         h[Close(text, c) - 1] < j, j < h[Close(text, c)]
  PROVE  Argument(edited, h[c], j)
<1> DEFINE z == Close(text, c)
<1>1. /\ z \in (c + 2)..Len(text) /\ c \in 1..Len(text) /\ Len(text) \in Nat
      /\ Depth(text, c, z - 1) = 1 /\ h[z - 1] < j /\ j < h[z]
  BY InsideIsOpen DEF Opens
<1>2. Close(edited, h[c]) = h[z] /\ h[c + 1] = h[c] + 1
  BY CloseIsKept
<1> HIDE DEF z
<1>3. z - 1 \in 1..Len(text) /\ c + 1 \in 1..Len(text) /\ z \in 1..Len(text)
      /\ (c + 1 = z - 1 \/ c + 1 < z - 1) /\ c <= z - 1
  BY <1>1
<1>4. /\ h[c + 1] <= h[z - 1] /\ h[c] \in Nat /\ h[z - 1] \in Nat /\ h[z] \in Nat
      /\ \A k \in 1..Len(text) : h[k] \in Nat
  BY <1>1, <1>3 DEF IsImage
<1>5. j \in (h[c] + 2)..(h[z] - 1)
  BY <1>1, <1>2, <1>4
<1>6. ASSUME NEW k \in 1..Len(text), h[k] <= j PROVE k <= z - 1
  <2>1. h[z] <= h[k] => FALSE
    BY <1>1, <1>4, <1>6
  <2>2. k = z \/ z < k => h[z] <= h[k]
    BY <1>3, <1>4 DEF IsImage
  <2> QED BY <1>1, <2>1, <2>2
<1>7. IsBehind(h, text, edited, z - 1, j)
  BY <1>1, <1>3, <1>4, <1>6 DEF IsBehind
<1>8. Depth(edited, h[c], j) = 1
  BY <1>1, <1>3, <1>7, DepthIsKept
<1> QED BY <1>2, <1>5, <1>8 DEF Argument

\* A call to which a keyword was added has it.
LEMMA AddedIsKnown ==
  ASSUME NEW text, NEW edited, NEW h, IsImage(h, text, edited), Len(edited) \in Nat,
         NEW c, Opens(text, c), NEW kw, NEW keyword, Keyword(keyword) = kw, keyword # ")",
         KeywordArgPresentOrUnknown(text, c, kw)
         \/ IsDone(h, text, edited, Insertion(text, c, keyword))
  PROVE  KeywordArgPresentOrUnknown(edited, h[c], kw)
<1>1. CASE KeywordArgPresentOrUnknown(text, c, kw)
  BY <1>1, KnownIsKept
<1>2. CASE IsDone(h, text, edited, Insertion(text, c, keyword))
  <2>1. Close(text, c) \in Nat
    BY InsideIsOpen DEF Opens
  <2>2. PICK j \in 1..Len(edited) : /\ h[Close(text, c) - 1] < j /\ j < h[Close(text, c)]
                                    /\ edited[j] = keyword
    <3>1. (Close(text, c) - 1) + 1 = Close(text, c)
      BY <2>1
    <3> QED BY <1>2, <3>1, InsertionSays DEF IsDone
  <2>3. Argument(edited, h[c], j)
    BY <2>2, WrittenIsArgument
  <2>4. Opens(edited, h[c])
    BY CloseIsKept
  <2>5. HasKeywordArg(edited, h[c], kw)
    BY <2>2, <2>3, <2>4, KeywordIsArgument
  <2> QED BY <2>5 DEF KeywordArgPresentOrUnknown
<1> QED BY <1>1, <1>2

\* What one rule says of one call.
Finding(text, c, id) ==
  CASE id = "XR001" -> XR001(text, c)
    [] id = "XR008" -> XR008(text, c)
    [] id = "XR009" -> XR009(text, c)
    [] id = "DK007" -> DK007(text, c)
    [] OTHER -> IF text[c] \in DOMAIN NewName /\ NameRule[text[c]] = id
                THEN Rename(text, c) ELSE <<>>

\* No rule speaks of a parenthesis that is called.
SpokenOf == {"open_dataset", "open_mfdataset", "from_array", "apply_ufunc",
             "math_sqrt", "matrix", "applymap"}

LEMMA SpokenNames ==
  /\ SpokenOf \cap Parenthesis = {} /\ SpokenOf \cap Replacing = {}
  /\ DOMAIN NewName = {"math_sqrt", "matrix", "applymap"}
  /\ \A text, c, id : text[c] \notin SpokenOf => Finding(text, c, id) = <<>>
<1>1. DOMAIN NewName = {"math_sqrt", "matrix", "applymap"}
  BY DEF NewName
<1>2. SpokenOf \cap Parenthesis = {} /\ SpokenOf \cap Replacing = {}
  BY DEF SpokenOf, Parenthesis, Replacing
<1>3. ASSUME NEW text, NEW c, NEW id, text[c] \notin SpokenOf PROVE Finding(text, c, id) = <<>>
  <2>1. XR001(text, c) = <<>> /\ XR008(text, c) = <<>> /\ XR009(text, c) = <<>>
        /\ DK007(text, c) = <<>>
        /\ text[c] \notin DOMAIN NewName
    BY <1>1, <1>3 DEF XR001, XR008, XR009, DK007, SpokenOf
  <2> QED BY <2>1 DEF Finding
<1> QED BY <1>1, <1>2, <1>3

LEMMA OneDone ==
  ASSUME NEW h, NEW text, NEW edited, NEW f, AllDone(h, text, edited, <<f>>)
  PROVE  IsDone(h, text, edited, f)
<1>1. 1 \in 1..Len(<<f>>) /\ <<f>>[1] = f
  OBVIOUS
<1> QED BY <1>1 DEF AllDone

\* A rule that said nothing of a call, or whose edits of it were applied, says
\* nothing of it in the edited text.
Settles(h, text, edited, c, id) ==
  /\ IsImage(h, text, edited) /\ Len(edited) \in Nat /\ Opens(text, c)
  /\ Finding(text, c, id) = <<>> \/ AllDone(h, text, edited, Finding(text, c, id))

LEMMA XR001Settles ==
  ASSUME NEW h, NEW text, NEW edited, NEW c, Settles(h, text, edited, c, "XR001"),
         edited[h[c]] = text[c]
  PROVE  Finding(edited, h[c], "XR001") = <<>>
<1>1. Finding(text, c, "XR001") = XR001(text, c)
      /\ Finding(edited, h[c], "XR001") = XR001(edited, h[c])
  BY DEF Finding
<1>2. "chunks" # ")" /\ Keyword("chunks") = "chunks"
  BY DEF Keyword
<1> SUFFICES ASSUME text[c] \in {"open_dataset", "open_mfdataset"}
             PROVE  KeywordArgPresentOrUnknown(edited, h[c], "chunks")
  BY <1>1 DEF XR001
<1>3. KeywordArgPresentOrUnknown(text, c, "chunks")
      \/ XR001(text, c) = <<Insertion(text, c, "chunks")>>
  BY DEF XR001
<1>4. KeywordArgPresentOrUnknown(text, c, "chunks")
      \/ IsDone(h, text, edited, Insertion(text, c, "chunks"))
  <2> DEFINE f == Insertion(text, c, "chunks")
  <2> HIDE DEF f
  <2>1. <<f>> # <<>> /\ (AllDone(h, text, edited, <<f>>) => IsDone(h, text, edited, f))
    BY OneDone
  <2>2. Finding(text, c, "XR001") = <<>> \/ AllDone(h, text, edited, Finding(text, c, "XR001"))
    BY DEF Settles
  <2>3. CASE XR001(text, c) = <<f>>
    BY <1>1, <2>1, <2>2, <2>3 DEF f
  <2>4. CASE XR001(text, c) # <<f>>
    BY <1>3, <2>4 DEF f
  <2> QED BY <2>3, <2>4
<1> QED BY <1>2, <1>4, AddedIsKnown DEF Settles

LEMMA XR008Settles ==
  ASSUME NEW h, NEW text, NEW edited, NEW c, Settles(h, text, edited, c, "XR008"),
         edited[h[c]] = text[c]
  PROVE  Finding(edited, h[c], "XR008") = <<>>
<1>1. Finding(text, c, "XR008") = XR008(text, c)
      /\ Finding(edited, h[c], "XR008") = XR008(edited, h[c])
  BY DEF Finding
<1>2. "parallel=True" # ")" /\ Keyword("parallel=True") = "parallel"
  BY DEF Keyword
<1> SUFFICES ASSUME text[c] = "open_mfdataset"
             PROVE  KeywordArgPresentOrUnknown(edited, h[c], "parallel")
  BY <1>1 DEF XR008
<1>3. KeywordArgPresentOrUnknown(text, c, "parallel")
      \/ XR008(text, c) = <<Insertion(text, c, "parallel=True")>>
  BY DEF XR008
<1>4. KeywordArgPresentOrUnknown(text, c, "parallel")
      \/ IsDone(h, text, edited, Insertion(text, c, "parallel=True"))
  <2> DEFINE f == Insertion(text, c, "parallel=True")
  <2> HIDE DEF f
  <2>1. <<f>> # <<>> /\ (AllDone(h, text, edited, <<f>>) => IsDone(h, text, edited, f))
    BY OneDone
  <2>2. Finding(text, c, "XR008") = <<>> \/ AllDone(h, text, edited, Finding(text, c, "XR008"))
    BY DEF Settles
  <2>3. CASE XR008(text, c) = <<f>>
    BY <1>1, <2>1, <2>2, <2>3 DEF f
  <2>4. CASE XR008(text, c) # <<f>>
    BY <1>3, <2>4 DEF f
  <2> QED BY <2>3, <2>4
<1> QED BY <1>2, <1>4, AddedIsKnown DEF Settles

LEMMA DK007Settles ==
  ASSUME NEW h, NEW text, NEW edited, NEW c, Settles(h, text, edited, c, "DK007"),
         edited[h[c]] = text[c]
  PROVE  Finding(edited, h[c], "DK007") = <<>>
<1>1. Finding(text, c, "DK007") = DK007(text, c)
      /\ Finding(edited, h[c], "DK007") = DK007(edited, h[c])
  BY DEF Finding
<1>2. "chunks" # ")" /\ Keyword("chunks") = "chunks"
  BY DEF Keyword
<1> SUFFICES ASSUME text[c] = "from_array"
             PROVE  KeywordArgPresentOrUnknown(edited, h[c], "chunks")
  BY <1>1 DEF DK007
<1>3. KeywordArgPresentOrUnknown(text, c, "chunks")
      \/ DK007(text, c) = <<Insertion(text, c, "chunks")>>
  BY DEF DK007
<1>4. KeywordArgPresentOrUnknown(text, c, "chunks")
      \/ IsDone(h, text, edited, Insertion(text, c, "chunks"))
  <2> DEFINE f == Insertion(text, c, "chunks")
  <2> HIDE DEF f
  <2>1. <<f>> # <<>> /\ (AllDone(h, text, edited, <<f>>) => IsDone(h, text, edited, f))
    BY OneDone
  <2>2. Finding(text, c, "DK007") = <<>> \/ AllDone(h, text, edited, Finding(text, c, "DK007"))
    BY DEF Settles
  <2>3. CASE DK007(text, c) = <<f>>
    BY <1>1, <2>1, <2>2, <2>3 DEF f
  <2>4. CASE DK007(text, c) # <<f>>
    BY <1>3, <2>4 DEF f
  <2> QED BY <2>3, <2>4
<1> QED BY <1>2, <1>4, AddedIsKnown DEF Settles

LEMMA RenameSettles ==
  ASSUME NEW h, NEW text, NEW edited, NEW c, NEW id, Settles(h, text, edited, c, id),
         id \notin {"XR001", "XR008", "XR009", "DK007"}, edited[h[c]] = text[c]
  PROVE  Finding(edited, h[c], id) = <<>>
<1> SUFFICES ASSUME text[c] \in DOMAIN NewName, NameRule[text[c]] = id PROVE FALSE
  BY DEF Finding
<1>1. Finding(text, c, id) = Rename(text, c)
  BY DEF Finding
<1>2. Len(text) \in Nat /\ c \in 1..Len(text)
  BY DEF Settles, Opens
<1>4. PICK f \in EditsOf(text) : Rename(text, c) = <<f>> /\ f.end_byte = c /\ Replaces(text, f)
  BY <1>2, RenameIs
<1>5. IsDone(h, text, edited, f)
  BY <1>1, <1>4, OneDone DEF Settles
<1>6. edited[h[c]] \in Replacing
  BY <1>4, <1>5 DEF IsDone
<1>7. text[c] \in SpokenOf
  BY SpokenNames DEF SpokenOf
<1> QED BY <1>6, <1>7, SpokenNames

LEMMA XR009Settles ==
  ASSUME NEW h, NEW text, NEW edited, NEW c, Settles(h, text, edited, c, "XR009"),
         edited[h[c]] = text[c]
  PROVE  Finding(edited, h[c], "XR009") = <<>>
<1> DEFINE d == h[c]
           z == Close(text, c)
           Asked(x, at) == {k \in at..Close(x, at) : Depth(x, at, k) = 1 /\ Keyword(x[k]) = "dask"}
           i == Min(Asked(text, c))
           j == Min(Asked(edited, d))
<1>1. Finding(text, c, "XR009") = XR009(text, c) /\ Finding(edited, d, "XR009") = XR009(edited, d)
  BY DEF Finding
<1> SUFFICES ASSUME text[c] = "apply_ufunc", HasKeywordArg(edited, d, "dask"),
                    edited[j] = "dask=allowed"
             PROVE  FALSE
  BY <1>1 DEF XR009
<1>2. /\ IsImage(h, text, edited) /\ Len(edited) \in Nat /\ Opens(text, c) /\ Opens(edited, d)
      /\ Len(text) \in Nat /\ c \in 1..Len(text) /\ d \in 1..Len(edited) /\ Close(edited, d) = h[z]
  BY CloseIsKept DEF Settles, Opens
<1>3. /\ z \in (c + 2)..Len(text) /\ text[z] = ")" /\ Depth(text, c, c) = 0 /\ text[c + 1] = "("
      /\ Close(edited, d) \in (d + 2)..Len(edited)
  BY <1>2, InsideIsOpen DEF Opens
<1>4. j \in Asked(edited, d) /\ \A y \in Asked(edited, d) : j <= y
  <2>1. PICK k \in (d + 2)..Close(edited, d) :
          Depth(edited, d, k) = 1 /\ Keyword(edited[k]) = "dask"
    BY <1>2, ArgumentIsThere DEF Opens
  <2>2. k \in Asked(edited, d) /\ Asked(edited, d) \in SUBSET Nat
    BY <1>2, <1>3, <2>1
  <2> HIDE DEF Asked
  <2>3. Asked(edited, d) # {} /\ Asked(edited, d) \in SUBSET Nat
    BY <2>2
  <2> DEFINE A == Asked(edited, d)
  <2> HIDE DEF A
  <2>4. A # {} /\ A \in SUBSET Nat
    BY <2>3 DEF A
  <2>5. Min(A) \in A /\ \A y \in A : Min(A) <= y
    BY <2>4, LeastOf
  <2> QED BY <2>5 DEF A
<1> HIDE DEF i, j, z, d
<1>5. j \in d..h[z] /\ Depth(edited, d, j) = 1 /\ j \in 1..Len(edited)
  BY <1>2, <1>3, <1>4
<1>6. "dask=allowed" \notin Written /\ "dask=allowed" \notin Replacing
      /\ Keyword("dask=allowed") = "dask"
      /\ Keyword("(") = "none" /\ Keyword(")") = "none"
  BY DEF Written, Replacing, Keyword
<1>7. PICK k \in 1..Len(text) : h[k] = j
  BY <1>2, <1>5, <1>6 DEF IsImage
<1>8. text[k] = "dask=allowed"
  BY <1>2, <1>6, <1>7, ImageTokens
<1>9. k \in c..z
  <2>1. /\ k < c => h[k] < h[c]
        /\ z < k => h[z] < h[k]
        /\ h[k] \in Nat /\ h[c] \in Nat /\ h[z] \in Nat
    BY <1>2, <1>3 DEF IsImage
  <2> QED BY <1>2, <1>3, <1>5, <1>7, <2>1 DEF d
<1>10. Depth(text, c, k) = 1
  <2>1. IsBehind(h, text, edited, k, h[k])
    BY <1>2, BehindItself
  <2>2. c <= k
    BY <1>2, <1>3, <1>9
  <2> QED BY <1>2, <1>5, <1>7, <2>1, <2>2, DepthIsKept DEF d
<1>11. Argument(text, c, k)
  <2>1. k # c /\ k # c + 1 /\ k # z
    BY <1>3, <1>6, <1>8, <1>10
  <2>2. k \in (c + 2)..(z - 1)
    BY <1>2, <1>3, <1>9, <2>1
  <2>3. text[k] # ")"
    BY <1>8
  <2> QED BY <1>10, <2>2, <2>3 DEF Argument, z
<1>12. HasKeywordArg(text, c, "dask")
  BY <1>2, <1>6, <1>8, <1>11, KeywordIsArgument
<1>13. i = k
  <2> DEFINE A == Asked(text, c)
  <2>1. k \in A /\ A \in SUBSET Nat
    BY <1>2, <1>3, <1>6, <1>8, <1>9, <1>10 DEF z
  <2>2. i \in A /\ i <= k
    <3> HIDE DEF A
    <3>1. Min(A) \in A /\ \A y \in A : Min(A) <= y
      BY <2>1, LeastOf
    <3> QED BY <2>1, <3>1 DEF i, A
  <2>3. i \in c..z /\ Depth(text, c, i) = 1 /\ Keyword(text[i]) = "dask" /\ i \in 1..Len(text)
        /\ c <= i
    BY <1>2, <1>3, <2>2 DEF z
  <2>4. h[i] \in d..h[z]
    <3>1. (i = c \/ c < i) /\ (i = z \/ i < z) /\ z \in 1..Len(text)
      BY <1>2, <1>3, <2>3
    <3>2. h[c] <= h[i] /\ h[i] <= h[z] /\ h[i] \in Nat /\ h[c] \in Nat /\ h[z] \in Nat
      BY <1>2, <2>3, <3>1 DEF IsImage
    <3> QED BY <3>2 DEF d
  <2>5. Depth(edited, d, h[i]) = 1
    <3>1. IsBehind(h, text, edited, i, h[i])
      BY <1>2, <2>3, BehindItself
    <3> QED BY <1>2, <2>3, <3>1, DepthIsKept DEF d
  <2>6. Keyword(edited[h[i]]) = "dask"
    BY <1>2, <2>3, ImageTokens
  <2>7. j <= h[i]
    BY <1>2, <1>4, <2>4, <2>5, <2>6
  <2>8. i < k => h[i] < h[k]
    BY <1>2, <2>3 DEF IsImage
  <2>9. h[i] \in Nat /\ h[k] \in Nat /\ k \in Nat /\ i \in Nat
    BY <1>2, <2>3 DEF IsImage
  <2> QED BY <1>7, <2>2, <2>7, <2>8, <2>9
<1>14. XR009(text, c) = Replacement(text, c, i, "dask=parallelized")
  BY <1>8, <1>12, <1>13 DEF XR009, i
<1>15. text[k] \in Replaceable /\ Modulo(text[k]) = "dask=parallelized"
  BY <1>8, ReplacedTokens DEF Replaceable
<1>16. PICK f \in EditsOf(text) :
         Replacement(text, c, k, Modulo(text[k])) = <<f>> /\ f.end_byte = k /\ Replaces(text, f)
  BY <1>2, <1>15, ReplacementIs
<1>17. IsDone(h, text, edited, f)
  <2>1. Finding(text, c, "XR009") = <<f>> /\ <<f>> # <<>>
    BY <1>1, <1>13, <1>14, <1>15, <1>16
  <2>2. AllDone(h, text, edited, <<f>>)
    BY <2>1 DEF Settles
  <2> QED BY <2>2, OneDone
<1>18. edited[h[k]] \in Replacing
  BY <1>16, <1>17 DEF IsDone
<1> QED BY <1>6, <1>7, <1>18

\* One call, one rule: nothing is said of the image of the call.
LEMMA FindingSettles ==
  ASSUME NEW h, NEW text, NEW edited, NEW c, NEW id, IsImage(h, text, edited), Len(edited) \in Nat,
         Len(text) \in Nat, c \in 1..Len(text), text[c + 1] = "(", Closings(text, c) # {},
         Finding(text, c, id) = <<>> \/ AllDone(h, text, edited, Finding(text, c, id))
  PROVE  Finding(edited, h[c], id) = <<>>
<1>1. CASE edited[h[c]] \notin SpokenOf
  BY <1>1, SpokenNames
<1>2. CASE edited[h[c]] \in SpokenOf
  <2>1. edited[h[c]] = text[c]
    BY <1>2, ImageTokens, SpokenNames
  <2>2. Opens(text, c)
    BY <1>2, <2>1, SpokenNames DEF Opens
  <2>3. Settles(h, text, edited, c, id)
    BY <2>2 DEF Settles
  <2> QED BY <2>1, <2>3, XR001Settles, XR008Settles, XR009Settles, DK007Settles, RenameSettles
<1> QED BY <1>1, <1>2

LEMMA AllJoin ==
  ASSUME NEW S, NEW a \in Seq(S), NEW b \in Seq(S), NEW c \in Seq(S), NEW d \in Seq(S),
         NEW e \in Seq(S)
  PROVE  LET all == a \o b \o c \o d \o e
         IN  HasAll(a, all) /\ HasAll(b, all) /\ HasAll(c, all) /\ HasAll(d, all) /\ HasAll(e, all)
<1> DEFINE u == a \o b
           v == u \o c
           w == v \o d
           all == w \o e
<1>1. u \in Seq(S) /\ HasAll(a, u) /\ HasAll(b, u)
  BY JoinHas
<1> HIDE DEF u
<1>2. v \in Seq(S) /\ HasAll(u, v) /\ HasAll(c, v)
  BY <1>1, JoinHas
<1> HIDE DEF v
<1>3. w \in Seq(S) /\ HasAll(v, w) /\ HasAll(d, w)
  BY <1>2, JoinHas
<1> HIDE DEF w
<1>4. HasAll(w, all) /\ HasAll(e, all)
  BY <1>3, JoinHas
<1> HIDE DEF all
<1>5. \A x, y, z : HasAll(x, y) /\ HasAll(y, z) => HasAll(x, z)
  BY DEF HasAll
<1>6. HasAll(a, all) /\ HasAll(b, all) /\ HasAll(c, all) /\ HasAll(d, all) /\ HasAll(e, all)
  <2>1. HasAll(v, all) /\ HasAll(d, all) /\ HasAll(e, all)
    BY <1>3, <1>4, <1>5
  <2>2. HasAll(u, all) /\ HasAll(c, all)
    BY <1>2, <1>5, <2>1
  <2>3. HasAll(a, all) /\ HasAll(b, all)
    BY <1>1, <1>5, <2>2
  <2> QED BY <2>1, <2>2, <2>3
<1> QED BY <1>6 DEF all, w, v, u

OneAtMost(s) == s = <<>> \/ \E f : s = <<f>>

\* A rule says at most one thing of a call.
LEMMA RulesSayOne ==
  ASSUME NEW text, NEW c
  PROVE  /\ OneAtMost(XR001(text, c)) /\ OneAtMost(XR008(text, c)) /\ OneAtMost(XR009(text, c))
         /\ OneAtMost(DK007(text, c)) /\ OneAtMost(Rename(text, c))
<1>1. \A i, token : OneAtMost(Replacement(text, c, i, token))
  BY DEF Replacement, OneAtMost
<1>2. OneAtMost(<<>>)
  BY DEF OneAtMost
<1>3. OneAtMost(XR001(text, c)) /\ OneAtMost(XR008(text, c)) /\ OneAtMost(DK007(text, c))
  <2>1. \A keyword : OneAtMost(<<Insertion(text, c, keyword)>>)
    BY DEF OneAtMost
  <2> QED BY <1>2, <2>1 DEF XR001, XR008, DK007
<1>4. OneAtMost(XR009(text, c)) /\ OneAtMost(Rename(text, c))
  BY <1>1, <1>2 DEF XR009, Rename
<1> QED BY <1>3, <1>4

LEMMA OneTyped ==
  ASSUME NEW s, OneAtMost(s)
  PROVE  s \in Seq({s[i] : i \in 1..Len(s)})
<1>1. CASE s = <<>>
  BY <1>1
<1>2. CASE s # <<>>
  <2>1. PICK f : s = <<f>>
    BY <1>2 DEF OneAtMost
  <2>2. Len(s) = 1 /\ s[1] = f
    BY <2>1
  <2>3. f \in {s[i] : i \in 1..Len(s)}
    BY <2>2
  <2> QED BY <2>1, <2>3
<1> QED BY <1>1, <1>2

\* The edits of a call are those of each of its rules.
LEMMA PieceSays ==
  ASSUME NEW text, NEW rules, NEW c \in Calls(text)
  PROVE  /\ \A id \in rules : HasAll(Finding(text, c, id), Piece(text, rules, c))
         /\ (\A id \in rules : Finding(text, c, id) = <<>>) => Piece(text, rules, c) = <<>>
<1> DEFINE p1 == IF "XR001" \in rules THEN XR001(text, c) ELSE <<>>
           p2 == IF "XR008" \in rules THEN XR008(text, c) ELSE <<>>
           p3 == IF "XR009" \in rules THEN XR009(text, c) ELSE <<>>
           p4 == IF "DK007" \in rules THEN DK007(text, c) ELSE <<>>
           p5 == IF text[c] \in DOMAIN NewName /\ NameRule[text[c]] \in rules
                 THEN Rename(text, c) ELSE <<>>
           Of(s) == {s[i] : i \in 1..Len(s)}
           S == Of(p1) \cup Of(p2) \cup Of(p3) \cup Of(p4) \cup Of(p5)
<1>1. Piece(text, rules, c) = p1 \o p2 \o p3 \o p4 \o p5
  BY DEF Piece
<1>2. OneAtMost(<<>>)
  BY DEF OneAtMost
<1>3. OneAtMost(p1) /\ OneAtMost(p2) /\ OneAtMost(p3) /\ OneAtMost(p4) /\ OneAtMost(p5)
  BY <1>2, RulesSayOne
<1>4. \A id \in rules :
        Finding(text, c, id) = <<>> \/ Finding(text, c, id) = p1 \/ Finding(text, c, id) = p2
        \/ Finding(text, c, id) = p3 \/ Finding(text, c, id) = p4 \/ Finding(text, c, id) = p5
  <2> TAKE id \in rules
  <2>1. CASE id = "XR001"
    BY <2>1 DEF Finding
  <2>2. CASE id = "XR008"
    BY <2>2 DEF Finding
  <2>3. CASE id = "XR009"
    BY <2>3 DEF Finding
  <2>4. CASE id = "DK007"
    BY <2>4 DEF Finding
  <2>5. CASE id \notin {"XR001", "XR008", "XR009", "DK007"}
    BY <2>5 DEF Finding
  <2> QED BY <2>1, <2>2, <2>3, <2>4, <2>5
<1>5. (\A id \in rules : Finding(text, c, id) = <<>>) =>
        p1 = <<>> /\ p2 = <<>> /\ p3 = <<>> /\ p4 = <<>> /\ p5 = <<>>
  <2> SUFFICES ASSUME \A id \in rules : Finding(text, c, id) = <<>>
               PROVE  p1 = <<>> /\ p2 = <<>> /\ p3 = <<>> /\ p4 = <<>> /\ p5 = <<>>
    OBVIOUS
  <2>1. /\ Finding(text, c, "XR001") = XR001(text, c) /\ Finding(text, c, "XR008") = XR008(text, c)
        /\ Finding(text, c, "XR009") = XR009(text, c) /\ Finding(text, c, "DK007") = DK007(text, c)
    BY DEF Finding
  <2>2. p1 = <<>> /\ p2 = <<>> /\ p3 = <<>> /\ p4 = <<>>
    BY <2>1
  <2>3. p5 = <<>>
    <3> SUFFICES ASSUME text[c] \in DOMAIN NewName, NameRule[text[c]] \in rules
                 PROVE  Rename(text, c) = <<>>
      OBVIOUS
    <3>1. NameRule[text[c]] \notin {"XR001", "XR008", "XR009", "DK007"}
      BY SpokenNames DEF NameRule
    <3>2. Finding(text, c, NameRule[text[c]]) = Rename(text, c)
      BY <3>1 DEF Finding
    <3> QED BY <3>2
  <2> QED BY <2>2, <2>3
<1> HIDE DEF p1, p2, p3, p4, p5
<1>6. /\ p1 \in Seq(Of(p1)) /\ p2 \in Seq(Of(p2)) /\ p3 \in Seq(Of(p3)) /\ p4 \in Seq(Of(p4))
      /\ p5 \in Seq(Of(p5))
  BY <1>3, OneTyped
<1>7. /\ Of(p1) \subseteq S /\ Of(p2) \subseteq S /\ Of(p3) \subseteq S /\ Of(p4) \subseteq S
      /\ Of(p5) \subseteq S
  OBVIOUS
<1> HIDE DEF S, Of
<1>8. p1 \in Seq(S) /\ p2 \in Seq(S) /\ p3 \in Seq(S) /\ p4 \in Seq(S) /\ p5 \in Seq(S)
  BY <1>6, <1>7, SeqMonotonic
<1> DEFINE all == Piece(text, rules, c)
<1>9. HasAll(p1, all) /\ HasAll(p2, all) /\ HasAll(p3, all) /\ HasAll(p4, all) /\ HasAll(p5, all)
  BY <1>1, <1>8, AllJoin
<1>10. HasAll(<<>>, all)
  BY DEF HasAll
<1>11. p1 = <<>> /\ p2 = <<>> /\ p3 = <<>> /\ p4 = <<>> /\ p5 = <<>> => all = <<>>
  BY <1>1
<1> HIDE DEF all
<1>12. \A id \in rules : HasAll(Finding(text, c, id), all)
  BY <1>4, <1>9, <1>10
<1> QED BY <1>5, <1>11, <1>12 DEF all

\* What a rule says of a call is among the edits of the file.
LEMMA FixesSay ==
  ASSUME NEW text \in Seq(Byte), Parses(text), NEW rules, NEW c \in Calls(text), NEW id \in rules
  PROVE  HasAll(Finding(text, c, id), Fixes(text, rules))
<1> DEFINE n == Len(text)
           s == [d \in 1..n |-> Piece(text, rules, d)]
<1>0. n \in Nat /\ c \in 1..n
  BY DEF Calls
<1>1. s \in [1..n -> Seq(EditsOf(text))]
  <2>1. \A d \in 1..n : d \in Calls(text) => Closings(text, d) # {}
    BY DEF Parses, CallParses
  <2>2. \A d \in 1..n : OfOneCall(text, d, Piece(text, rules, d))
    BY <1>0, <2>1, PieceIs
  <2> QED BY <2>2 DEF OfOneCall
<1>2. Fixes(text, rules) = FlattenSeq(s) /\ s[c] = Piece(text, rules, c)
  BY <1>0, FixesAreJoined
<1> HIDE DEF n, s
<1>3. HasAll(s[c], FlattenSeq(s))
  BY <1>0, <1>1, FlattenHas
<1>4. HasAll(Finding(text, c, id), s[c])
  BY <1>2, PieceSays
<1>5. HasAll(Finding(text, c, id), FlattenSeq(s))
  BY <1>3, <1>4 DEF HasAll
<1> QED BY <1>2, <1>5

\* When no rule has anything to say of a call, the file has no edits.
LEMMA FixesNothing ==
  ASSUME NEW text, Len(text) \in Nat, NEW rules,
         \A c \in Calls(text), id \in rules : Finding(text, c, id) = <<>>
  PROVE  Fixes(text, rules) = <<>>
<1> DEFINE n == Len(text)
           s == [c \in 1..n |-> Piece(text, rules, c)]
<1>1. \A c \in 1..n : Piece(text, rules, c) = <<>>
  <2> TAKE c \in 1..n
  <2>1. CASE c \in Calls(text)
    BY <2>1, PieceSays
  <2>2. CASE c \notin Calls(text)
    BY <2>2 DEF Piece
  <2> QED BY <2>1, <2>2
<1>2. s \in [1..n -> Seq({})] /\ \A c \in 1..n : s[c] = <<>>
  <2>1. <<>> \in Seq({})
    OBVIOUS
  <2> QED BY <1>1, <2>1
<1>3. Fixes(text, rules) = FlattenSeq(s)
  BY FixesAreJoined
<1> HIDE DEF s
<1> QED BY <1>2, <1>3, JoinsNothing

\* One run with some rules leaves nothing to edit for them, nor for those that had
\* nothing to edit before.
LEMMA RunSettles ==
  ASSUME NEW text \in Seq(Byte), Parses(text), NEW edited, Len(edited) \in Nat, NEW h,
         IsImage(h, text, edited), NEW old, Fixes(text, old) = <<>>,
         NEW rules, AllDone(h, text, edited, Fixes(text, rules))
  PROVE  Fixes(edited, old \cup rules) = <<>>
<1>0. Len(text) \in Nat
  OBVIOUS
<1>1. ASSUME NEW d \in Calls(edited), NEW id \in old \cup rules PROVE Finding(edited, d, id) = <<>>
  <2>1. PICK c \in Calls(text) : h[c] = d
    BY <1>0, CallsAreKept
  <2>2. c \in 1..Len(text) /\ text[c + 1] = "(" /\ Closings(text, c) # {}
    <3>1. Closings(text, c) # {}
      BY DEF Parses, CallParses
    <3> QED BY <1>0, <3>1 DEF Calls
  <2>3. Finding(text, c, id) = <<>> \/ AllDone(h, text, edited, Finding(text, c, id))
    <3>1. CASE id \in old
      <4>1. HasAll(Finding(text, c, id), <<>>)
        BY <3>1, FixesSay
      <4>2. AllDone(h, text, edited, Finding(text, c, id))
        BY <4>1 DEF HasAll, AllDone
      <4> QED BY <4>2
    <3>2. CASE id \in rules
      <4>1. HasAll(Finding(text, c, id), Fixes(text, rules))
        BY <3>2, FixesSay
      <4>2. AllDone(h, text, edited, Finding(text, c, id))
        BY <4>1 DEF HasAll, AllDone
      <4> QED BY <4>2
    <3> QED BY <3>1, <3>2
  <2> QED BY <1>0, <2>1, <2>2, <2>3, FindingSettles
<1> QED BY <1>1, FixesNothing

-----------------------------------------------------------------------------
(* The argument lists of a text, by the places of their tokens.            *)

\* How many numbers of a set lie from one to another.
Count(K, a, i) == Cardinality(K \cap (a..i))

\* Those of two neighbouring stretches are counted apart.
LEMMA CountSplits ==
  ASSUME NEW K, NEW a \in Nat, NEW b \in Nat, NEW i \in Nat, a <= b, b <= i + 1
  PROVE  /\ Count(K, a, b - 1) \in Nat /\ Count(K, b, i) \in Nat
         /\ Count(K, a, i) = Count(K, a, b - 1) + Count(K, b, i)
<1> DEFINE L == K \cap (a..(b - 1))
           R == K \cap (b..i)
<1>1. IsFiniteSet(a..(b - 1)) /\ IsFiniteSet(b..i)
  BY FS_Interval
<1>2. IsFiniteSet(L) /\ IsFiniteSet(R)
  BY <1>1, FS_Subset
<1>3. L \cap R = {} /\ K \cap (a..i) = L \cup R
  OBVIOUS
<1>4. Cardinality(L) \in Nat /\ Cardinality(R) \in Nat
  BY <1>2, FS_CardinalityType
<1> HIDE DEF L, R
<1>5. Cardinality(L \cup R) = Cardinality(L) + Cardinality(R)
  <2>1. Cardinality(L \cap R) = 0
    BY <1>3, FS_EmptySet
  <2>2. Cardinality(L \cup R) = Cardinality(L) + Cardinality(R) - Cardinality(L \cap R)
    BY <1>2, FS_Union
  <2> QED BY <1>4, <2>1, <2>2
<1> QED BY <1>3, <1>4, <1>5 DEF Count, L, R

\* One more number is counted, or it is not in the set.
LEMMA CountStep ==
  ASSUME NEW K, NEW a \in Nat, NEW i \in Nat, a <= i
  PROVE  /\ Count(K, a, i - 1) \in Nat /\ Count(K, a, i) \in Nat
         /\ Count(K, a, i) = Count(K, a, i - 1) + IF i \in K THEN 1 ELSE 0
<1>1. /\ Count(K, a, i - 1) \in Nat /\ Count(K, i, i) \in Nat
      /\ Count(K, a, i) = Count(K, a, i - 1) + Count(K, i, i)
  BY CountSplits
<1>2. Count(K, i, i) = IF i \in K THEN 1 ELSE 0
  <2>1. K \cap (i..i) = IF i \in K THEN {i} ELSE {}
    OBVIOUS
  <2> QED BY <2>1, FS_Singleton, FS_EmptySet DEF Count
<1> QED BY <1>1, <1>2

\* A number of the set that is further up is counted later.
LEMMA CountGrows ==
  ASSUME NEW K, NEW a \in Nat, NEW i \in Nat, NEW j \in Nat, a <= i, i < j
  PROVE  /\ Count(K, a, i) \in Nat /\ Count(K, a, j) \in Nat /\ Count(K, a, i) <= Count(K, a, j)
         /\ j \in K => Count(K, a, i) < Count(K, a, j)
<1> DEFINE m == i + 1
           l == j - 1
<1>1. m \in Nat /\ l \in Nat /\ a <= m /\ m <= l + 1
  OBVIOUS
<1>2. m - 1 = i /\ l = j - 1
  OBVIOUS
<1> HIDE DEF m, l
<1>3. /\ Count(K, a, m - 1) \in Nat /\ Count(K, m, l) \in Nat
      /\ Count(K, a, l) = Count(K, a, m - 1) + Count(K, m, l)
  BY <1>1, CountSplits
<1>4. /\ Count(K, a, j - 1) \in Nat /\ Count(K, a, j) \in Nat
      /\ Count(K, a, j) = Count(K, a, j - 1) + IF j \in K THEN 1 ELSE 0
  BY CountStep
<1> QED BY <1>2, <1>3, <1>4

\* A join of tokens or nothing, one per index from a on, has those of the indices
\* in K: each where it is counted.
Chosen(K, a, n, v, s) ==
  \A k \in 1..n : s[k] = IF a + k \in K THEN <<v[a + k]>> ELSE <<>>

\* A list has the tokens at the indices in K, each where it is counted.
Listed(K, a, z, v, list) ==
  /\ Len(list) = Count(K, a, z) /\ DOMAIN list = 1..Len(list) /\ Len(list) \in Nat
  /\ \A i \in K \cap (a..z) : Count(K, a, i) \in 1..Len(list) /\ list[Count(K, a, i)] = v[i]
  /\ \A y \in 1..Len(list) : \E i \in K \cap (a..z) : Count(K, a, i) = y

\* Joined one by one, they are that list.
LEMMA ChosenAreListed ==
  ASSUME NEW S, NEW K, NEW a \in Nat, NEW n \in Nat, NEW v, NEW s \in [1..n -> Seq(S)],
         Chosen(K, a, n, v, s)
  PROVE  Listed(K, a + 1, a + n, v, FlattenSeq(s))
<1>1. PICK f : Joins(f, s, n, S)
  BY JoinsExist
<1>2. FlattenSeq(s) = f[n]
  BY <1>1, FlattenJoins
<1>3. \A m \in 0..n : f[m] \in Seq(S)
  BY <1>1 DEF Joins
<1> DEFINE P == {m \in 0..n : Listed(K, a + 1, a + m, v, f[m])}
<1>4. 0 \in P
  <2>1. f[0] = <<>>
    BY <1>1 DEF Joins
  <2>2. (a + 1)..(a + 0) = {}
    OBVIOUS
  <2>3. Count(K, a + 1, a + 0) = 0
    BY <2>2, FS_EmptySet DEF Count
  <2>4. Listed(K, a + 1, a + 0, v, <<>>)
    BY <2>2, <2>3 DEF Listed
  <2> QED BY <2>1, <2>4
<1>5. ASSUME NEW m \in 1..n, m - 1 \in P PROVE m \in P
  <2> DEFINE i == a + m
             u == f[m - 1]
             w == f[m]
             b == a + 1
  <2>1. i \in Nat /\ b <= i /\ b \in Nat
    OBVIOUS
  <2>2. /\ i - 1 = a + (m - 1) /\ m - 1 \in 0..n /\ m \in 0..n
        /\ i \in b..i /\ i \notin b..(i - 1)
        /\ \A x \in b..i : x = i \/ x \in b..(i - 1)
        /\ \A x \in b..(i - 1) : x \in b..i
    OBVIOUS
  <2>3. Listed(K, b, i - 1, v, u)
    BY <1>5, <2>2
  <2>4. u \in Seq(S) /\ w \in Seq(S) /\ s[m] \in Seq(S) /\ w = u \o s[m]
    BY <1>1, <1>3, <2>2 DEF Joins
  <2>5. s[m] = IF i \in K THEN <<v[i]>> ELSE <<>>
    BY DEF Chosen
  <2> HIDE DEF i, b, u, w
  <2>6. /\ Count(K, b, i - 1) \in Nat /\ Count(K, b, i) \in Nat
        /\ Count(K, b, i) = Count(K, b, i - 1) + IF i \in K THEN 1 ELSE 0
    BY <2>1, CountStep
  <2>7. ASSUME i \notin K PROVE Listed(K, b, i, v, w)
    <3>1. w = u
      BY <2>4, <2>5, <2>7
    <3>2. K \cap (b..i) = K \cap (b..(i - 1))
      BY <2>2, <2>7
    <3> QED BY <2>3, <3>1, <3>2 DEF Listed, Count
  <2>8. ASSUME i \in K PROVE Listed(K, b, i, v, w)
    <3> DEFINE one == v[i]
    <3>1. s[m] = <<one>> /\ <<one>> \in Seq(S)
      BY <2>4, <2>5, <2>8
    <3> HIDE DEF one
    <3>2. /\ Len(w) = Len(u) + 1 /\ Len(u) \in Nat
          /\ \A y \in 1..Len(w) : w[y] = IF y <= Len(u) THEN u[y] ELSE one
          /\ DOMAIN w = 1..Len(w)
      BY <2>4, <3>1
    <3>3. /\ Len(u) = Count(K, b, i - 1)
          /\ \A x \in K \cap (b..(i - 1)) :
               Count(K, b, x) \in 1..Len(u) /\ u[Count(K, b, x)] = v[x]
          /\ \A y \in 1..Len(u) : \E x \in K \cap (b..(i - 1)) : Count(K, b, x) = y
      BY <2>3 DEF Listed
    <3>4. Len(w) = Count(K, b, i)
      BY <2>6, <2>8, <3>2, <3>3
    <3>5. ASSUME NEW x \in K \cap (b..i)
          PROVE  Count(K, b, x) \in 1..Len(w) /\ w[Count(K, b, x)] = v[x]
      <4>1. CASE x = i
        <5>1. Count(K, b, x) = Len(w) /\ Len(w) \in 1..Len(w) /\ ~(Len(w) <= Len(u))
          BY <3>2, <3>4, <4>1
        <5>2. w[Len(w)] = one
          BY <3>2, <5>1
        <5> QED BY <4>1, <5>1, <5>2 DEF one
      <4>2. CASE x # i
        <5>1. x \in K \cap (b..(i - 1))
          BY <2>2, <4>2
        <5>2. Count(K, b, x) \in 1..Len(u) /\ u[Count(K, b, x)] = v[x]
          BY <3>3, <5>1
        <5> QED BY <3>2, <5>2
      <4> QED BY <4>1, <4>2
    <3>6. ASSUME NEW y \in 1..Len(w)
          PROVE  \E x \in K \cap (b..i) : Count(K, b, x) = y
      <4>1. CASE y <= Len(u)
        <5>1. PICK x \in K \cap (b..(i - 1)) : Count(K, b, x) = y
          BY <3>2, <3>3, <4>1
        <5>2. x \in K \cap (b..i)
          BY <2>2
        <5> QED BY <5>1, <5>2
      <4>2. CASE ~(y <= Len(u))
        <5>1. y = Len(w)
          BY <3>2, <4>2
        <5>2. i \in K \cap (b..i)
          BY <2>2, <2>8
        <5> QED BY <3>4, <5>1, <5>2
      <4> QED BY <4>1, <4>2
    <3> QED BY <3>2, <3>4, <3>5, <3>6 DEF Listed
  <2> QED BY <2>7, <2>8 DEF i, b, w
<1>6. n \in P
  <2> HIDE DEF P
  <2>1. 0..n \subseteq P
    BY <1>4, <1>5, BoundedInduction
  <2> QED BY <2>1
<1> QED BY <1>2, <1>6

\* Where the arguments of a call are, but for the tokens set apart.
Selected(text, c, apart) ==
  {i \in (c + 2)..(Close(text, c) - 1) : Depth(text, c, i) = 1 /\ text[i] \notin apart}

\* ArgumentsBut lists the arguments at these places.
LEMMA ArgumentsAreListed ==
  ASSUME NEW text, NEW c, Opens(text, c), NEW apart
  PROVE  /\ Listed(Selected(text, c, apart), c + 2, Close(text, c) - 1, text,
                   ArgumentsBut(text, c, apart))
         /\ \E S : ArgumentsBut(text, c, apart) \in Seq(S)
<1> DEFINE n == Close(text, c) - c - 2
           a == c + 1
           S == {text[i] : i \in 1..Len(text)}
           K == Selected(text, c, apart)
           s == [k \in 1..n |-> IF Depth(text, c, c + 1 + k) = 1 /\ text[c + 1 + k] \notin apart
                                THEN <<text[c + 1 + k]>> ELSE <<>>]
<1>1. Close(text, c) \in (c + 2)..Len(text) /\ c \in 1..Len(text) /\ Len(text) \in Nat /\ n \in Nat
  BY InsideIsOpen DEF Opens
<1>2. a \in Nat /\ a + 1 = c + 2 /\ a + n = Close(text, c) - 1
      /\ \A k \in 1..n : c + 1 + k = a + k /\ a + k \in 1..Len(text)
                         /\ a + k \in (c + 2)..(Close(text, c) - 1)
  BY <1>1
<1>3. s \in [1..n -> Seq(S)]
  <2> SUFFICES ASSUME NEW k \in 1..n PROVE s[k] \in Seq(S)
    OBVIOUS
  <2> DEFINE one == text[c + 1 + k]
  <2>1. one \in S
    BY <1>2
  <2> HIDE DEF S, one
  <2>2. <<one>> \in Seq(S) /\ <<>> \in Seq(S)
    BY <2>1
  <2>3. s[k] \in {<<one>>, <<>>}
    BY DEF one
  <2> QED BY <2>2, <2>3
<1>4. Chosen(K, a, n, text, s)
  <2> SUFFICES ASSUME NEW k \in 1..n
               PROVE  s[k] = IF a + k \in K THEN <<text[a + k]>> ELSE <<>>
    BY DEF Chosen
  <2>1. a + k \in K <=> Depth(text, c, a + k) = 1 /\ text[a + k] \notin apart
    BY <1>2 DEF Selected
  <2> QED BY <1>2, <2>1
<1>5. ArgumentsBut(text, c, apart) = FlattenSeq(s)
  BY DEF ArgumentsBut
<1> HIDE DEF s, K, S, n, a
<1>6. Listed(K, a + 1, a + n, text, FlattenSeq(s))
  BY <1>1, <1>2, <1>3, <1>4, ChosenAreListed
<1>7. FlattenSeq(s) \in Seq(S)
  BY <1>1, <1>3, FlattenTyped
<1> QED BY <1>2, <1>5, <1>6, <1>7 DEF K

\* The last of a list is the one furthest up.
LEMMA LastIsListed ==
  ASSUME NEW K, NEW a \in Nat, NEW z \in Nat, NEW v, NEW S, NEW list \in Seq(S),
         Listed(K, a, z, v, list), K \subseteq a..z
  PROVE  /\ list = <<>> <=> Len(list) = 0
         /\ list # <<>> =>
              \E i \in K : /\ \A k \in K : k <= i
                           /\ v[i] = Last(list) /\ Count(K, a, i) = Len(list)
         /\ \A i \in K : (\A k \in K : k <= i) =>
              list # <<>> /\ v[i] = Last(list) /\ Count(K, a, i) = Len(list)
<1>1. Len(list) \in Nat /\ (list = <<>> <=> Len(list) = 0) /\ Last(list) = list[Len(list)]
  BY DEF Last
<1>2. /\ \A i \in K : Count(K, a, i) \in 1..Len(list) /\ list[Count(K, a, i)] = v[i]
      /\ \A y \in 1..Len(list) : \E i \in K : Count(K, a, i) = y
  BY DEF Listed
<1>3. ASSUME NEW i \in K, NEW k \in K, i < k PROVE Count(K, a, i) < Count(K, a, k)
  <2>1. i \in Nat /\ k \in Nat /\ a <= i
    OBVIOUS
  <2> QED BY <1>3, <2>1, CountGrows
<1>4. ASSUME Len(list) # 0
      PROVE  \E i \in K : (\A k \in K : k <= i) /\ v[i] = Last(list) /\ Count(K, a, i) = Len(list)
  <2>1. PICK i \in K : Count(K, a, i) = Len(list)
    BY <1>1, <1>2, <1>4
  <2>2. ASSUME NEW k \in K PROVE k <= i
    <3>1. ~(i < k)
      BY <1>1, <1>2, <1>3, <2>1
    <3> QED BY <3>1
  <2> QED BY <1>1, <1>2, <2>1, <2>2
<1>5. ASSUME NEW i \in K, \A k \in K : k <= i
      PROVE  Len(list) # 0 /\ v[i] = Last(list) /\ Count(K, a, i) = Len(list)
  <2>1. Len(list) # 0
    BY <1>1, <1>2
  <2>2. PICK m \in K : (\A k \in K : k <= m) /\ v[m] = Last(list) /\ Count(K, a, m) = Len(list)
    BY <1>4, <2>1
  <2>3. m = i
    <3>1. m <= i /\ i <= m /\ m \in a..z /\ i \in a..z
      BY <1>5, <2>2
    <3> QED BY <3>1
  <2> QED BY <2>1, <2>2, <2>3
<1> QED BY <1>1, <1>4, <1>5

\* Where the items of a call are, and what is written in its list at all.
ItemsOf(text, c) == Selected(text, c, {")"} \cup Newline \cup Comment)
WrittenOf(text, c) == Selected(text, c, {")"} \cup Newline)

\* Which item of the call's list a token is, and how many there are.
Rank(text, c, i) == Count(ItemsOf(text, c), c + 2, i)
Number(text, c) == Rank(text, c, Close(text, c) - 1)

\* What CallParses, EndIsInSight and RoomForOne say, by the places of the tokens.
IsNamed(token) == Keyword(token) # "none" \/ token = "**kw"

\* Arguments and commas take turns, an argument first.
Alternates(text, c) == \A i \in ItemsOf(text, c) : text[i] = "," <=> Rank(text, c, i) % 2 = 0

\* A token x of a list goes before a token y: no keyword twice, no positional
\* argument after a keyword.
GoesBefore(x, y) ==
  y # "," => /\ IsNamed(x) => IsNamed(y)
             /\ Keyword(x) # "none" => Keyword(x) # Keyword(y)

InOrder(text, c) == \A i, j \in ItemsOf(text, c) : i < j => GoesBefore(text[i], text[j])

\* The last thing written is no comment that hides how the list ends.
EndIsSeen(text, c) ==
  \A w \in WrittenOf(text, c) : (\A k \in WrittenOf(text, c) : k <= w) /\ text[w] \in Comment =>
    Number(text, c) % 2 = 1 /\ text[w] # "#,"

\* One of the keywords that open_mfdataset() is given, or what may hold them.
IsEither(token) == Keyword(token) \in {"chunks", "parallel"} \/ token = "**kw"

\* An open_mfdataset() that ends in no argument has one of them.
HasRoom(text, c) ==
  text[c] = "open_mfdataset" /\ Number(text, c) % 2 = 0 =>
    \E i \in ItemsOf(text, c) : IsEither(text[i])

\* The items of a call are the tokens at these places, in this order.
LEMMA ItemsAreListed ==
  ASSUME NEW text, NEW c, Opens(text, c)
  PROVE  /\ \A i \in ItemsOf(text, c) :
              /\ Rank(text, c, i) \in 1..Len(Items(text, c)) /\ i \in 1..Len(text)
              /\ i \in (c + 2)..(Close(text, c) - 1)
              /\ Items(text, c)[Rank(text, c, i)] = text[i]
         /\ \A y \in DOMAIN Items(text, c) : \E i \in ItemsOf(text, c) : Rank(text, c, i) = y
         /\ \A i, j \in ItemsOf(text, c) : i < j <=> Rank(text, c, i) < Rank(text, c, j)
         /\ DOMAIN Items(text, c) = 1..Len(Items(text, c)) /\ Len(Items(text, c)) \in Nat
         /\ Number(text, c) = Len(Items(text, c))
         /\ Items(text, c) # <<>> =>
              \E i \in ItemsOf(text, c) : /\ \A k \in ItemsOf(text, c) : k <= i
                                          /\ text[i] = Last(Items(text, c))
                                          /\ Rank(text, c, i) = Number(text, c)
         /\ Items(text, c) = <<>> <=> Number(text, c) = 0
<1> DEFINE K == ItemsOf(text, c)
           a == c + 2
           z == Close(text, c) - 1
           list == Items(text, c)
<1>1. Listed(K, a, z, text, list) /\ \E S : list \in Seq(S)
  BY ArgumentsAreListed DEF Items, ItemsOf
<1>2. /\ Close(text, c) \in (c + 2)..Len(text) /\ c \in 1..Len(text) /\ Len(text) \in Nat
      /\ K \subseteq a..z /\ a \in Nat /\ z \in Nat /\ a..z \subseteq 1..Len(text)
  BY InsideIsOpen DEF Opens, ItemsOf, Selected
<1>3. \A i : Rank(text, c, i) = Count(K, a, i)
  BY DEF Rank
<1>4. Number(text, c) = Count(K, a, z)
  BY DEF Number, Rank
<1> HIDE DEF K, a, z, list
<1>5. PICK S : list \in Seq(S)
  BY <1>1
<1>6. /\ list = <<>> <=> Len(list) = 0
      /\ list # <<>> =>
           \E i \in K : /\ \A k \in K : k <= i
                        /\ text[i] = Last(list) /\ Count(K, a, i) = Len(list)
      /\ \A i \in K : (\A k \in K : k <= i) =>
           list # <<>> /\ text[i] = Last(list) /\ Count(K, a, i) = Len(list)
  <2>1. Listed(K, a, z, text, list) /\ K \subseteq a..z /\ a \in Nat /\ z \in Nat
    BY <1>1, <1>2
  <2> QED BY <1>5, <2>1, LastIsListed
<1>7. ASSUME NEW i \in K, NEW j \in K PROVE i < j <=> Count(K, a, i) < Count(K, a, j)
  <2>1. i \in Nat /\ j \in Nat /\ a <= i /\ a <= j
    BY <1>2
  <2>2. i < j => Count(K, a, i) < Count(K, a, j)
    BY <1>2, <2>1, CountGrows
  <2>3. j < i => Count(K, a, j) < Count(K, a, i)
    BY <1>2, <2>1, CountGrows
  <2>4. Count(K, a, i) \in Nat /\ Count(K, a, j) \in Nat
    BY <1>1, <1>2 DEF Listed
  <2> QED BY <2>1, <2>2, <2>3, <2>4
<1>8. /\ Len(list) = Count(K, a, z) /\ DOMAIN list = 1..Len(list) /\ Len(list) \in Nat
      /\ \A i \in K \cap (a..z) : Count(K, a, i) \in 1..Len(list) /\ list[Count(K, a, i)] = text[i]
      /\ \A y \in 1..Len(list) : \E i \in K \cap (a..z) : Count(K, a, i) = y
  BY <1>1 DEF Listed
<1>9. /\ \A i \in K : Rank(text, c, i) \in 1..Len(list) /\ i \in 1..Len(text) /\ i \in a..z
                      /\ list[Rank(text, c, i)] = text[i]
      /\ \A y \in DOMAIN list : \E i \in K : Rank(text, c, i) = y
      /\ \A i, j \in K : i < j <=> Rank(text, c, i) < Rank(text, c, j)
  BY <1>2, <1>3, <1>7, <1>8
<1>10. /\ DOMAIN list = 1..Len(list) /\ Len(list) \in Nat /\ Number(text, c) = Len(list)
       /\ list # <<>> => \E i \in K : /\ \A k \in K : k <= i
                                      /\ text[i] = Last(list) /\ Rank(text, c, i) = Number(text, c)
       /\ list = <<>> <=> Number(text, c) = 0
  BY <1>3, <1>4, <1>6, <1>8
<1> QED BY <1>9, <1>10 DEF K, a, z, list

\* CallParses by the places of the tokens.
LEMMA ParsesByPlace ==
  ASSUME NEW text, NEW c, Opens(text, c)
  PROVE  CallParses(text, c) <=> Alternates(text, c) /\ InOrder(text, c)
<1> DEFINE K == ItemsOf(text, c)
           list == Items(text, c)
           named(k) == Keyword(list[k]) # "none" \/ list[k] = "**kw"
           R(i) == Rank(text, c, i)
<1>1. /\ \A i \in K : R(i) \in DOMAIN list /\ list[R(i)] = text[i]
      /\ \A y \in DOMAIN list : \E i \in K : R(i) = y
      /\ \A i, j \in K : i < j <=> R(i) < R(j)
  BY ItemsAreListed
<1>2. CallParses(text, c) <=>
        /\ \A k \in DOMAIN list : (list[k] = ",") <=> (k % 2 = 0)
        /\ \A j, k \in DOMAIN list : j < k => GoesBefore(list[j], list[k])
  BY DEF CallParses, Opens, GoesBefore, IsNamed
<1>3. Alternates(text, c) <=> \A i \in K : text[i] = "," <=> R(i) % 2 = 0
  BY DEF Alternates
<1>4. InOrder(text, c) <=> \A i, j \in K : i < j => GoesBefore(text[i], text[j])
  BY DEF InOrder
<1> HIDE DEF K, list, R
<1>5. (\A k \in DOMAIN list : (list[k] = ",") <=> (k % 2 = 0)) <=> Alternates(text, c)
  BY <1>1, <1>3
<1>6. (\A j, k \in DOMAIN list : j < k => GoesBefore(list[j], list[k])) <=> InOrder(text, c)
  <2>1. ASSUME \A j, k \in DOMAIN list : j < k => GoesBefore(list[j], list[k]),
               NEW i \in K, NEW j \in K, i < j
        PROVE  GoesBefore(text[i], text[j])
    <3>1. R(i) \in DOMAIN list /\ R(j) \in DOMAIN list /\ R(i) < R(j)
      BY <1>1, <2>1
    <3>2. GoesBefore(list[R(i)], list[R(j)])
      BY <2>1, <3>1
    <3> QED BY <1>1, <3>2
  <2>2. ASSUME InOrder(text, c), NEW x \in DOMAIN list, NEW y \in DOMAIN list, x < y
        PROVE  GoesBefore(list[x], list[y])
    <3>1. PICK i \in K : R(i) = x
      BY <1>1
    <3>2. PICK j \in K : R(j) = y
      BY <1>1
    <3>3. GoesBefore(text[i], text[j])
      BY <1>1, <1>4, <2>2, <3>1, <3>2
    <3> QED BY <1>1, <3>1, <3>2, <3>3
  <2> QED BY <1>4, <2>1, <2>2
<1> QED BY <1>2, <1>5, <1>6

\* EndIsInSight and RoomForOne by the places of the tokens.
LEMMA EndByPlace ==
  ASSUME NEW text, NEW c, Opens(text, c), Alternates(text, c)
  PROVE  /\ EndIsInSight(text, c) <=> EndIsSeen(text, c)
         /\ RoomForOne(text, c) <=> HasRoom(text, c)
<1> DEFINE K == ItemsOf(text, c)
           W == WrittenOf(text, c)
           list == Items(text, c)
           written == ArgumentsBut(text, c, {")"} \cup Newline)
           m == Number(text, c)
<1>1. /\ \A i \in K : Rank(text, c, i) \in DOMAIN list /\ list[Rank(text, c, i)] = text[i]
      /\ \A y \in DOMAIN list : \E i \in K : Rank(text, c, i) = y
      /\ m = Len(list) /\ Len(list) \in Nat
      /\ list # <<>> => \E i \in K : text[i] = Last(list) /\ Rank(text, c, i) = m
      /\ list = <<>> <=> m = 0
  BY ItemsAreListed
<1>2. Listed(W, c + 2, Close(text, c) - 1, text, written) /\ \E S : written \in Seq(S)
  BY ArgumentsAreListed DEF WrittenOf
<1>3. /\ Close(text, c) \in (c + 2)..Len(text) /\ c \in 1..Len(text) /\ Len(text) \in Nat
      /\ W \subseteq (c + 2)..(Close(text, c) - 1)
  BY InsideIsOpen DEF Opens, WrittenOf, Selected
<1>4. \A i \in K : text[i] = "," <=> Rank(text, c, i) % 2 = 0
  BY DEF Alternates
<1>5. EndIsSeen(text, c) <=>
        \A w \in W : (\A k \in W : k <= w) /\ text[w] \in Comment => m % 2 = 1 /\ text[w] # "#,"
  BY DEF EndIsSeen
<1>6. EndIsInSight(text, c) <=>
        (written # <<>> /\ Last(written) \in Comment =>
           list # <<>> /\ Last(list) # "," /\ Last(written) # "#,")
  BY DEF EndIsInSight
<1>7. RoomForOne(text, c) <=>
        (text[c] = "open_mfdataset" /\ (list = <<>> \/ Last(list) = ",") =>
           \E k \in DOMAIN list : IsEither(list[k]))
  BY DEF RoomForOne, IsEither
<1>8. HasRoom(text, c) <=>
        (text[c] = "open_mfdataset" /\ m % 2 = 0 => \E i \in K : IsEither(text[i]))
  BY DEF HasRoom
<1> HIDE DEF K, W, list, written, m
<1>9. /\ \A w \in W : (\A k \in W : k <= w) => written # <<>> /\ text[w] = Last(written)
      /\ written # <<>> => \E w \in W : (\A k \in W : k <= w) /\ text[w] = Last(written)
  <2> DEFINE a == c + 2
             z == Close(text, c) - 1
  <2>1. a \in Nat /\ z \in Nat /\ W \subseteq a..z /\ Listed(W, a, z, text, written)
    BY <1>2, <1>3
  <2> HIDE DEF a, z
  <2>2. PICK S : written \in Seq(S)
    BY <1>2
  <2>3. /\ written # <<>> =>
              \E i \in W : /\ \A k \in W : k <= i
                           /\ text[i] = Last(written) /\ Count(W, a, i) = Len(written)
        /\ \A i \in W : (\A k \in W : k <= i) =>
              written # <<>> /\ text[i] = Last(written) /\ Count(W, a, i) = Len(written)
    <3>1. /\ written = <<>> <=> Len(written) = 0
          /\ written # <<>> =>
               \E i \in W : /\ \A k \in W : k <= i
                            /\ text[i] = Last(written) /\ Count(W, a, i) = Len(written)
          /\ \A i \in W : (\A k \in W : k <= i) =>
               written # <<>> /\ text[i] = Last(written) /\ Count(W, a, i) = Len(written)
      BY <2>1, <2>2, LastIsListed
    <3> QED BY <3>1
  <2> QED BY <2>3
<1>10. (list # <<>> /\ Last(list) # ",") <=> m % 2 = 1
  <2>1. m \in Nat
    BY <1>1
  <2>2. CASE list = <<>>
    BY <1>1, <2>2
  <2>3. CASE list # <<>>
    <3>1. PICK i \in K : text[i] = Last(list) /\ Rank(text, c, i) = m
      BY <1>1, <2>3
    <3>2. (m % 2 = 1 <=> ~(m % 2 = 0))
      BY <2>1
    <3>3. Last(list) = "," <=> m % 2 = 0
      BY <1>4, <3>1
    <3> QED BY <2>3, <3>2, <3>3
  <2> QED BY <2>2, <2>3
<1>11. (list = <<>> \/ Last(list) = ",") <=> m % 2 = 0
  <2>1. (m % 2 = 1 <=> ~(m % 2 = 0))
    BY <1>1
  <2> QED BY <1>10, <2>1
<1>12. (\E k \in DOMAIN list : IsEither(list[k])) <=> \E i \in K : IsEither(text[i])
  BY <1>1
<1> QED BY <1>5, <1>6, <1>7, <1>8, <1>9, <1>10, <1>11, <1>12

\* Between two tokens that only newlines separate as many parentheses are open.
LEMMA DepthOverNewlines ==
  ASSUME NEW text, NEW c \in Nat, NEW m \in Nat, NEW j \in Nat, c <= m, m <= j,
         \A k \in (m + 1)..j : text[k] \in Newline
  PROVE  Depth(text, c, m) = Depth(text, c, j)
<1> DEFINE d == m + 1
<1>1. d \in Nat /\ c <= d /\ d <= j + 1 /\ \A k \in d..j : text[k] \in Newline
  OBVIOUS
<1>2. d - 1 = m
  OBVIOUS
<1> HIDE DEF d
<1>3. Depth(text, c, j) = Depth(text, c, d - 1) + Depth(text, d, j)
      /\ Depth(text, c, d - 1) \in Int
  BY <1>1, DepthSplits
<1>4. "(" \notin Newline /\ ")" \notin Newline
  BY DEF Newline
<1>5. {k \in d..j : text[k] = "("} = {} /\ {k \in d..j : text[k] = ")"} = {}
  BY <1>1, <1>4
<1>6. Depth(text, d, j) = 0
  BY <1>5, FS_EmptySet DEF Depth
<1> QED BY <1>2, <1>3, <1>6

\* The argument before a closing parenthesis is a call.
LEMMA CallIsLast ==
  ASSUME NEW text, NEW c, Opens(text, c), HasCallees(text), NEW m, text[m] = ")",
         m \in (c + 2)..(Close(text, c) - 1), Depth(text, c, m) = 1
  PROVE  \E q \in (c + 2)..(m - 1) :
           /\ q \in ItemsOf(text, c) /\ text[q] # ","
           /\ \A k \in (q + 1)..m : Depth(text, c, k) = 1 => text[k] = ")"
<1> DEFINE z == Close(text, c)
           T == {q \in 1..(m - 1) : q >= c + 1 /\ Depth(text, c, q) = 1}
           q == Max(T)
<1>1. /\ z \in (c + 2)..Len(text) /\ c \in 1..Len(text) /\ Len(text) \in Nat
      /\ m \in (c + 2)..(z - 1) /\ Depth(text, c, c + 1) = 1
      /\ \A j \in (c + 1)..(z - 1) : Depth(text, c, j) \in Nat \ {0}
  BY InsideIsOpen DEF Opens
<1> HIDE DEF z
<1>2. c + 1 \in T /\ m - 1 \in Nat /\ T \in SUBSET (1..(m - 1))
  BY <1>1
<1>3. q \in T /\ \A y \in T : y <= q
  <2> DEFINE l == m - 1
  <2>1. l \in Nat /\ T \in SUBSET (1..l) /\ T # {}
    BY <1>2
  <2> HIDE DEF T, l
  <2> QED BY <2>1, MaxOfTurns
<1>4. q \in (c + 1)..(m - 1) /\ Depth(text, c, q) = 1
  BY <1>1, <1>3
<1>5. ASSUME NEW k \in (q + 1)..(m - 1)
      PROVE  Depth(text, c, k) # 1 /\ Depth(text, c, k) \in Nat \ {0}
  <2>1. k \in (c + 1)..(z - 1) /\ k \in 1..(m - 1) /\ k >= c + 1 /\ ~(k <= q)
    BY <1>1, <1>4, <1>5
  <2>2. k \notin T
    BY <1>3, <2>1
  <2> QED BY <1>1, <2>1, <2>2
<1> HIDE DEF T, q
<1>6. \A k \in (c + 1)..m : Depth(text, c, k) = Depth(text, c, k - 1)
              + IF text[k] = "(" THEN 1 ELSE IF text[k] = ")" THEN -1 ELSE 0
  <2> TAKE k \in (c + 1)..m
  <2>1. c \in Nat /\ k \in Nat /\ c <= k
    BY <1>1
  <2> QED BY <2>1, DepthStep
<1>7. q # m - 1
  <2>1. Depth(text, c, m - 1) \in Nat
    BY <1>1
  <2>2. Depth(text, c, m) = Depth(text, c, m - 1) - 1
    <3>1. m \in (c + 1)..m
      BY <1>1
    <3> QED BY <1>6, <2>1, <3>1
  <2> QED BY <1>4, <2>1, <2>2
<1>8. text[q + 1] = "("
  <2> DEFINE k == q + 1
  <2>1. k \in (q + 1)..(m - 1) /\ k \in (c + 1)..m /\ k - 1 = q
    BY <1>1, <1>4, <1>7
  <2> HIDE DEF k
  <2>2. Depth(text, c, k) # 1 /\ Depth(text, c, k) \in Nat \ {0}
    BY <1>5, <2>1
  <2>3. Depth(text, c, k) = 1
              + IF text[k] = "(" THEN 1 ELSE IF text[k] = ")" THEN -1 ELSE 0
    BY <1>4, <1>6, <2>1
  <2>4. text[k] = "("
    BY <2>2, <2>3
  <2> QED BY <2>4 DEF k
<1>9. q \in Calls(text) /\ text[q] \notin {"(", ")", ","} \cup Newline \cup Comment
  <2>1. q \in Calls(text)
    BY <1>1, <1>4, <1>8 DEF Calls
  <2> QED BY <2>1 DEF HasCallees
<1>10. q # c + 1
  BY <1>1, <1>9 DEF Opens
<1>11. q \in (c + 2)..(m - 1) /\ q \in (c + 2)..(z - 1)
  BY <1>1, <1>4, <1>10
<1>12. q \in ItemsOf(text, c)
  BY <1>4, <1>9, <1>11 DEF ItemsOf, Selected, z
<1>13. ASSUME NEW k \in (q + 1)..m, Depth(text, c, k) = 1 PROVE text[k] = ")"
  <2>1. k = m
    <3>1. k \notin (q + 1)..(m - 1)
      BY <1>5, <1>13
    <3> QED BY <1>1, <3>1
  <2> QED BY <2>1
<1> QED BY <1>9, <1>11, <1>12, <1>13

\* The item furthest up is counted last.
LEMMA LastItem ==
  ASSUME NEW text, NEW c, Opens(text, c)
  PROVE  /\ Number(text, c) \in Nat
         /\ \A i \in ItemsOf(text, c) :
              (\A k \in ItemsOf(text, c) : k <= i) => Rank(text, c, i) = Number(text, c)
         /\ ItemsOf(text, c) = {} => Number(text, c) = 0
<1> DEFINE K == ItemsOf(text, c)
           list == Items(text, c)
<1>1. /\ \A i \in K : Rank(text, c, i) \in 1..Len(list) /\ i \in 1..Len(text)
      /\ Number(text, c) = Len(list) /\ Len(list) \in Nat
      /\ list # <<>> => \E i \in K : (\A k \in K : k <= i) /\ Rank(text, c, i) = Number(text, c)
      /\ list = <<>> <=> Number(text, c) = 0
  BY ItemsAreListed
<1> HIDE DEF K, list
<1>2. ASSUME NEW i \in K, \A k \in K : k <= i PROVE Rank(text, c, i) = Number(text, c)
  <2>1. list # <<>>
    BY <1>1
  <2>2. PICK m \in K : (\A k \in K : k <= m) /\ Rank(text, c, m) = Number(text, c)
    BY <1>1, <2>1
  <2>3. m <= i /\ i <= m /\ m \in 1..Len(text) /\ i \in 1..Len(text)
    BY <1>1, <1>2, <2>2
  <2>4. m = i
    BY <2>3
  <2> QED BY <2>2, <2>4
<1> QED BY <1>1, <1>2 DEF K

\* The comma that a keyword is given is the one the list lacks.
LEMMA SeparatorIs ==
  ASSUME NEW text \in Seq(Byte), NEW c, Opens(text, c), HasCallees(text),
         Alternates(text, c), EndIsSeen(text, c)
  PROVE  Separator(text, c) = IF Number(text, c) % 2 = 0 THEN <<>> ELSE <<",">>
<1> DEFINE z == Close(text, c)
           n == z - c - 2
           args == SubSeq(text, c + 2, z - 1)
           At(k) == c + 1 + k
           T == {k \in 1..n : args[k] \notin Newline}
           even == Number(text, c) % 2 = 0
           W == WrittenOf(text, c)
           K == ItemsOf(text, c)
<1>1. /\ z \in (c + 2)..Len(text) /\ c \in 1..Len(text) /\ Len(text) \in Nat
      /\ Depth(text, c, z - 1) = 1 /\ n \in Nat
  BY InsideIsOpen DEF Opens
<1>2. DOMAIN args = 1..n /\ \A k \in 1..n : args[k] = text[At(k)]
  <2>1. CASE n = 0
    BY <1>1, <2>1
  <2>2. CASE n # 0
    <3>1. c + 2 \in 1..Len(text) /\ z - 1 \in 1..Len(text)
      BY <1>1, <2>2
    <3>2. Len(args) = n /\ args \in Seq(Byte)
          /\ \A k \in 1..n : args[k] = text[(c + 2) + k - 1]
      BY <1>1, <2>2, <3>1, SubSeqProperties
    <3>3. \A k \in 1..n : (c + 2) + k - 1 = At(k)
      BY <1>1
    <3> QED BY <3>2, <3>3
  <2> QED BY <2>1, <2>2
<1> HIDE DEF args
<1>3. Separator(text, c) =
        IF T = {} \/ args[Max(T)] \in {",", "#,"} THEN <<>> ELSE <<",">>
  BY <1>2 DEF Separator, SeparatorAfter, args
<1>4. /\ Number(text, c) \in Nat
      /\ \A i \in K : (\A k \in K : k <= i) => Rank(text, c, i) = Number(text, c)
      /\ K = {} => Number(text, c) = 0
  BY LastItem
<1>5. /\ K \subseteq W /\ W \subseteq (c + 2)..(z - 1)
      /\ \A i \in W : text[i] \notin Newline /\ text[i] # ")"
      /\ \A i \in W \ K : text[i] \in Comment
      /\ \A i \in (c + 2)..(z - 1) :
           Depth(text, c, i) = 1 /\ text[i] \notin Newline /\ text[i] # ")" => i \in W
      /\ \A i \in W : text[i] \notin Comment => i \in K
      /\ \A i \in K : text[i] \notin Comment
  BY DEF ItemsOf, WrittenOf, Selected
<1>6. \A i \in K : text[i] = "," <=> Rank(text, c, i) % 2 = 0
  BY DEF Alternates
<1>7. \A w \in W : (\A k \in W : k <= w) /\ text[w] \in Comment => ~even /\ text[w] # "#,"
  <2>1. Number(text, c) % 2 = 1 => ~even
    OBVIOUS
  <2> QED BY <2>1 DEF EndIsSeen
<1>8. \A q \in K : (\A k \in K : k <= q) => (text[q] = "," <=> even)
  BY <1>4, <1>6
<1>9. CASE T = {}
  <2>1. ASSUME NEW i \in K PROVE FALSE
    <3> DEFINE k == i - c - 1
    <3>1. k \in 1..n /\ At(k) = i
      BY <1>1, <1>5
    <3>2. args[k] \notin Newline
      BY <1>2, <1>5, <3>1
    <3> QED BY <1>9, <3>1, <3>2
  <2>2. even
    BY <1>4, <2>1
  <2> QED BY <1>3, <1>9, <2>2
<1>10. CASE T # {}
  <2> DEFINE m == At(Max(T))
  <2>1. Max(T) \in T /\ \A y \in T : y <= Max(T)
    <3>1. T \in SUBSET (1..n)
      OBVIOUS
    <3> HIDE DEF T, n
    <3> QED BY <1>1, <1>10, <3>1, MaxOfTurns
  <2>2. m \in (c + 2)..(z - 1) /\ args[Max(T)] = text[m] /\ text[m] \notin Newline
    BY <1>1, <1>2, <2>1
  <2>3. \A j \in (m + 1)..(z - 1) : text[j] \in Newline
    <3> TAKE j \in (m + 1)..(z - 1)
    <3> DEFINE k == j - c - 1
    <3>1. k \in 1..n /\ At(k) = j /\ ~(k <= Max(T))
      BY <1>1, <2>1
    <3>2. k \notin T
      BY <2>1, <3>1
    <3> QED BY <1>2, <3>1, <3>2
  <2>4. Separator(text, c) = IF text[m] \in {",", "#,"} THEN <<>> ELSE <<",">>
    BY <1>3, <1>10, <2>2
  <2> HIDE DEF m, T, args
  <2>5. Depth(text, c, m) = 1
    <3> DEFINE y == z - 1
    <3>1. c \in Nat /\ m \in Nat /\ y \in Nat /\ c <= m /\ m <= y
          /\ \A k \in (m + 1)..y : text[k] \in Newline
      BY <1>1, <2>2, <2>3
    <3>2. Depth(text, c, y) = 1
      BY <1>1
    <3> HIDE DEF y
    <3> QED BY <3>1, <3>2, DepthOverNewlines
  <2>6. CASE text[m] = ")"
    <3>1. PICK q \in (c + 2)..(m - 1) :
            /\ q \in K /\ text[q] # ","
            /\ \A k \in (q + 1)..m : Depth(text, c, k) = 1 => text[k] = ")"
      BY <2>2, <2>5, <2>6, CallIsLast
    <3>2. ASSUME NEW k \in K PROVE k <= q
      <4>1. k \in (c + 2)..(z - 1) /\ text[k] \notin Newline /\ text[k] # ")"
            /\ Depth(text, c, k) = 1
        BY <1>5 DEF ItemsOf, Selected
      <4>2. k \notin (m + 1)..(z - 1)
        BY <2>3, <4>1
      <4>3. k \notin (q + 1)..m
        BY <3>1, <4>1
      <4> QED BY <1>1, <2>2, <4>1, <4>2, <4>3
    <3>3. ~even
      BY <1>8, <3>1, <3>2
    <3> QED BY <2>4, <2>6, <3>3
  <2>7. CASE text[m] # ")"
    <3>1. m \in W
      BY <1>5, <2>2, <2>5, <2>7
    <3>2. ASSUME NEW k \in W PROVE k <= m
      <4>1. k \notin (m + 1)..(z - 1) /\ k \in (c + 2)..(z - 1)
        BY <1>5, <2>3
      <4> QED BY <1>1, <2>2, <4>1
    <3>3. CASE text[m] \in Comment
      <4>1. ~even /\ text[m] # "#,"
        BY <1>7, <3>1, <3>2, <3>3
      <4>2. text[m] # ","
        BY <3>3 DEF Comment
      <4> QED BY <2>4, <4>1, <4>2
    <3>4. CASE text[m] \notin Comment
      <4>1. m \in K /\ text[m] # "#,"
        BY <1>5, <3>1, <3>4 DEF Comment
      <4>2. text[m] = "," <=> even
        BY <1>5, <1>8, <3>2, <4>1
      <4> QED BY <2>4, <4>1, <4>2
    <3> QED BY <3>3, <3>4
  <2> QED BY <2>6, <2>7
<1> QED BY <1>9, <1>10

-----------------------------------------------------------------------------
(* What the rules add to a text that parses, and whose calls are plain.    *)

\* A text whose calls are of the two kinds of PlainCalls: it parses, and the rules
\* keep it so.
Sound(text) == HasCallees(text) /\ Parses(text) /\ PlainCalls(text)

\* The same for one call, by the places of its tokens.
Tidy(text, c) ==
  /\ Opens(text, c) /\ Alternates(text, c) /\ InOrder(text, c)
  /\ EndIsSeen(text, c) /\ HasRoom(text, c)

\* A text is sound when all of its calls are tidy.
LEMMA SoundByPlace ==
  ASSUME NEW text, Len(text) \in Nat
  PROVE  Sound(text) <=> HasCallees(text) /\ \A c \in Calls(text) : Tidy(text, c)
<1>1. ASSUME HasCallees(text), NEW c \in Calls(text), Closings(text, c) # {}
      PROVE  /\ Opens(text, c)
             /\ CallParses(text, c) <=> Alternates(text, c) /\ InOrder(text, c)
             /\ Alternates(text, c) =>
                  (EndIsInSight(text, c) /\ RoomForOne(text, c)
                     <=> EndIsSeen(text, c) /\ HasRoom(text, c))
  <2>1. Opens(text, c)
    <3>1. c \in 1..Len(text) /\ text[c + 1] = "("
      BY DEF Calls
    <3>2. text[c] \notin {"(", ")"}
      BY <1>1 DEF HasCallees
    <3> QED BY <1>1, <3>1, <3>2 DEF Opens, Parenthesis
  <2> QED BY <2>1, ParsesByPlace, EndByPlace
<1>2. ASSUME Sound(text), NEW c \in Calls(text) PROVE Tidy(text, c)
  <2>1. HasCallees(text) /\ CallParses(text, c) /\ EndIsInSight(text, c) /\ RoomForOne(text, c)
    BY <1>2 DEF Sound, Parses, PlainCalls
  <2>2. Closings(text, c) # {}
    BY <2>1 DEF CallParses
  <2> QED BY <1>1, <2>1, <2>2 DEF Tidy
<1>3. ASSUME HasCallees(text), \A c \in Calls(text) : Tidy(text, c) PROVE Sound(text)
  <2>1. \A c \in Calls(text) : CallParses(text, c) /\ EndIsInSight(text, c) /\ RoomForOne(text, c)
    <3> TAKE c \in Calls(text)
    <3>1. Closings(text, c) # {} /\ Tidy(text, c)
      BY <1>3 DEF Tidy, Opens
    <3> QED BY <1>1, <1>3, <3>1 DEF Tidy
  <2> QED BY <1>3, <2>1 DEF Sound, Parses, PlainCalls
<1>4. Sound(text) => HasCallees(text)
  BY DEF Sound
<1> QED BY <1>2, <1>3, <1>4

\* No two calls end at the same parenthesis.
LEMMA OneEnd ==
  ASSUME NEW text, NEW c, NEW d, Opens(text, c), Opens(text, d), Close(text, c) = Close(text, d)
  PROVE  c = d
<1>1. ASSUME NEW a, NEW b, Opens(text, a), Opens(text, b), Close(text, a) = Close(text, b), a < b
      PROVE  FALSE
  <2> DEFINE z == Close(text, a)
             l == z - 1
  <2>1. /\ a \in Nat /\ b \in Nat /\ text[a + 1] = "(" /\ text[b] \notin {"(", ")"}
        /\ z \in (a + 2)..Len(text) /\ z \in (b + 2)..Len(text) /\ Len(text) \in Nat
        /\ \A j \in (a + 1)..(z - 1) : Depth(text, a, j) \in Nat \ {0}
        /\ Depth(text, a, z - 1) = 1 /\ Depth(text, b, z - 1) = 1
    <3>1. /\ a \in Nat /\ b \in Nat /\ text[a + 1] = "(" /\ text[b] \notin {"(", ")"}
          /\ Len(text) \in Nat
      BY <1>1 DEF Opens, Parenthesis
    <3>2. /\ z \in (a + 2)..Len(text) /\ Depth(text, a, z - 1) = 1
          /\ \A j \in (a + 1)..(z - 1) : Depth(text, a, j) \in Nat \ {0}
      BY <1>1, InsideIsOpen
    <3>3. z \in (b + 2)..Len(text) /\ Depth(text, b, z - 1) = 1
      BY <1>1, InsideIsOpen
    <3> QED BY <3>1, <3>2, <3>3
  <2> HIDE DEF z
  <2>2. b # a + 1
    BY <2>1
  <2>3. b - 1 \in (a + 1)..(z - 1) /\ a <= b /\ l \in Nat /\ b <= l + 1 /\ l = z - 1
    BY <1>1, <2>1, <2>2
  <2> HIDE DEF l
  <2>4. Depth(text, a, l) = Depth(text, a, b - 1) + Depth(text, b, l)
        /\ Depth(text, a, b - 1) \in Int /\ Depth(text, b, l) \in Int
    BY <2>1, <2>3, DepthSplits
  <2>5. Depth(text, a, b - 1) \in Nat \ {0}
    BY <2>1, <2>3
  <2>6. Depth(text, a, l) = 1 /\ Depth(text, b, l) = 1
    BY <2>1, <2>3
  <2> QED BY <2>4, <2>5, <2>6
<1>2. c \in Nat /\ d \in Nat
  BY DEF Opens
<1>3. ~(c < d) /\ ~(d < c)
  BY <1>1
<1> QED BY <1>2, <1>3

\* Edit f adds a keyword to call c, which lacks it.
AddsTo(text, c, f) ==
  /\ c \in Calls(text) /\ Opens(text, c)
  /\ \E keyword \in AddedKeywords :
       /\ f = Insertion(text, c, keyword)
       /\ ~KeywordArgPresentOrUnknown(text, c, Keyword(keyword))

\* Edits of one call that add two keywords add different ones.
Adds(text, c, s) ==
  /\ \A x \in 1..Len(s) : Inserts(s[x]) => AddsTo(text, c, s[x])
  /\ \A x, y \in 1..Len(s) : Inserts(s[x]) /\ Inserts(s[y]) /\ x # y =>
       text[c] = "open_mfdataset" /\ Added(s[x]) # Added(s[y])

\* What a rule finds nothing in adds nothing, an insertion adds one keyword, and
\* two rules that both add one add different ones.
LEMMA AddsNothing ==
  ASSUME NEW text, NEW c PROVE Adds(text, c, <<>>)
BY DEF Adds

LEMMA AddsOne ==
  ASSUME NEW text, NEW c \in Calls(text), Opens(text, c), NEW keyword \in AddedKeywords,
         ~KeywordArgPresentOrUnknown(text, c, Keyword(keyword))
  PROVE  Adds(text, c, <<Insertion(text, c, keyword)>>)
<1> DEFINE f == Insertion(text, c, keyword)
<1>1. AddsTo(text, c, f)
  BY DEF AddsTo
<1> HIDE DEF f
<1>2. Len(<<f>>) = 1 /\ <<f>>[1] = f
  OBVIOUS
<1>3. Adds(text, c, <<f>>)
  BY <1>1, <1>2 DEF Adds
<1> QED BY <1>3 DEF f

LEMMA AddsTwo ==
  ASSUME NEW text, NEW c, NEW u, NEW v, Adds(text, c, u), Adds(text, c, v),
         OneAtMost(u), OneAtMost(v),
         u # <<>> /\ v # <<>> => text[c] = "open_mfdataset" /\ Added(u[1]) # Added(v[1])
  PROVE  Adds(text, c, u \o v) /\ u \o v \in Seq({u[1], v[1]})
<1>1. CASE u = <<>>
  <2>1. v = <<>> \/ \E f : v = <<f>>
    BY DEF OneAtMost
  <2>2. u \o v = v /\ v \in Seq({u[1], v[1]})
    <3>1. CASE v = <<>>
      BY <1>1, <3>1
    <3>2. CASE v # <<>>
      <4>1. PICK f : v = <<f>>
        BY <2>1, <3>2
      <4>2. v[1] = f /\ <<f>> \in Seq({u[1], f})
        BY <4>1
      <4> QED BY <1>1, <4>1, <4>2
    <3> QED BY <3>1, <3>2
  <2> QED BY <2>2
<1>2. CASE u # <<>> /\ v = <<>>
  <2>1. PICK f : u = <<f>>
    BY <1>2 DEF OneAtMost
  <2>2. u[1] = f /\ <<f>> \in Seq({f, v[1]}) /\ u \o v = u
    BY <1>2, <2>1
  <2> QED BY <2>1, <2>2
<1>3. CASE u # <<>> /\ v # <<>>
  <2>1. PICK f : u = <<f>>
    BY <1>3 DEF OneAtMost
  <2>2. PICK g : v = <<g>>
    BY <1>3 DEF OneAtMost
  <2>3. u[1] = f /\ v[1] = g /\ 1 \in 1..Len(u) /\ 1 \in 1..Len(v)
    BY <2>1, <2>2
  <2> DEFINE w == u \o v
             S == {f, g}
  <2>4. /\ u \in Seq(S) /\ v \in Seq(S) /\ Len(u) = 1 /\ Len(v) = 1
    BY <2>1, <2>2
  <2> HIDE DEF S
  <2>5. w \in Seq(S) /\ Len(w) = 2 /\ w[1] = f /\ w[2] = g
    BY <2>3, <2>4, ConcatProperties
  <2> HIDE DEF w
  <2>6. Inserts(f) => AddsTo(text, c, f)
    BY <2>3 DEF Adds
  <2>7. Inserts(g) => AddsTo(text, c, g)
    BY <2>3 DEF Adds
  <2>8. text[c] = "open_mfdataset" /\ Added(f) # Added(g)
    BY <1>3, <2>3
  <2>9. Adds(text, c, w)
    BY <2>5, <2>6, <2>7, <2>8 DEF Adds
  <2> QED BY <2>3, <2>5, <2>9 DEF w, S
<1> QED BY <1>1, <1>2, <1>3

\* The edits that the rules have for one call.
LEMMA PieceAdds ==
  ASSUME NEW text, Len(text) \in Nat, NEW c \in Calls(text), Opens(text, c), NEW rules
  PROVE  Adds(text, c, Piece(text, rules, c))
<1> DEFINE p1 == IF "XR001" \in rules THEN XR001(text, c) ELSE <<>>
           p2 == IF "XR008" \in rules THEN XR008(text, c) ELSE <<>>
           p3 == IF "XR009" \in rules THEN XR009(text, c) ELSE <<>>
           p4 == IF "DK007" \in rules THEN DK007(text, c) ELSE <<>>
           p5 == IF text[c] \in DOMAIN NewName /\ NameRule[text[c]] \in rules
                 THEN Rename(text, c) ELSE <<>>
<1>1. Piece(text, rules, c) = p1 \o p2 \o p3 \o p4 \o p5
  BY DEF Piece
<1>2. c \in 1..Len(text) /\ text[c + 1] = "(" /\ Closings(text, c) # {}
  BY DEF Opens
<1>3. /\ "chunks" \in AddedKeywords /\ Keyword("chunks") = "chunks"
      /\ "parallel=True" \in AddedKeywords /\ Keyword("parallel=True") = "parallel"
  BY DEF AddedKeywords, Keyword
<1>4. Adds(text, c, XR001(text, c)) /\ Adds(text, c, DK007(text, c))
  <2>1. ~KeywordArgPresentOrUnknown(text, c, "chunks") =>
          Adds(text, c, <<Insertion(text, c, "chunks")>>)
    BY <1>3, AddsOne
  <2> QED BY <2>1, AddsNothing DEF XR001, DK007
<1>5. Adds(text, c, XR008(text, c))
  <2>1. ~KeywordArgPresentOrUnknown(text, c, "parallel") =>
          Adds(text, c, <<Insertion(text, c, "parallel=True")>>)
    BY <1>3, AddsOne
  <2> QED BY <2>1, AddsNothing DEF XR008
<1>6. \A f : ~Inserts(f) => Adds(text, c, <<f>>)
  BY DEF Adds
<1>7. Adds(text, c, XR009(text, c))
  <2>1. \A token : \A i \in Nat :
          \E f : Replacement(text, c, i, token) = <<f>> /\ ~Inserts(f)
    <3> TAKE token
    <3> TAKE i \in Nat
    <3> DEFINE f == [start_byte |-> i - 1, end_byte |-> i, replacement |-> <<token>>]
    <3>1. f.start_byte = i - 1 /\ f.end_byte = i
      OBVIOUS
    <3>2. Replacement(text, c, i, token) = <<f>>
      BY DEF Replacement
    <3> HIDE DEF f
    <3> QED BY <3>1, <3>2 DEF Inserts
  <2>2. \A i, token : Replacement(text, c, i, token)[1].end_byte = i
    BY DEF Replacement
  <2>3. XR009(text, c) # <<>> =>
          \E i, token : XR009(text, c) = Replacement(text, c, i, token)
    BY DEF XR009
  <2>4. CASE XR009(text, c) # <<>>
    <3>1. PICK i, token : XR009(text, c) = Replacement(text, c, i, token)
      BY <2>3, <2>4
    <3>2. PICK f \in EditsOf(text) : XR009(text, c) = <<f>>
      BY <1>2, <2>4, XR009Is
    <3>3. f.end_byte \in Nat /\ <<f>>[1] = f
      BY EditIs
    <3>4. i \in Nat
      BY <2>2, <3>1, <3>2, <3>3
    <3> QED BY <1>6, <2>1, <3>1, <3>4
  <2> QED BY <2>4, AddsNothing
<1>8. DOMAIN NewName = {"math_sqrt", "matrix", "applymap"}
  BY DEF NewName
<1>9. CASE text[c] \in DOMAIN NewName
  <2>1. p1 = <<>> /\ p2 = <<>> /\ p3 = <<>> /\ p4 = <<>>
    BY <1>8, <1>9 DEF XR001, XR008, XR009, DK007
  <2>2. PICK f \in EditsOf(text) : Rename(text, c) = <<f>> /\ Replaces(text, f)
    BY <1>2, <1>9, RenameIs
  <2>3. ~Inserts(f)
    BY <2>2, EditIs DEF Replaces, Inserts
  <2>4. p5 = <<>> \/ p5 = <<f>>
    BY <2>2
  <2> HIDE DEF p1, p2, p3, p4, p5
  <2>5. Piece(text, rules, c) = p5
    BY <1>1, <2>1, <2>4
  <2> QED BY <1>6, <2>3, <2>4, <2>5, AddsNothing
<1>10. CASE text[c] = "apply_ufunc"
  <2>1. p1 = <<>> /\ p2 = <<>> /\ p4 = <<>> /\ p5 = <<>>
    BY <1>8, <1>10 DEF XR001, XR008, DK007
  <2>2. Adds(text, c, p3) /\ OneAtMost(p3)
    BY <1>7, AddsNothing, RulesSayOne DEF OneAtMost
  <2> HIDE DEF p1, p2, p3, p4, p5
  <2>3. Piece(text, rules, c) = p3
    BY <1>1, <2>1, <2>2 DEF OneAtMost
  <2> QED BY <2>2, <2>3
<1>11. CASE text[c] = "from_array"
  <2>1. p1 = <<>> /\ p2 = <<>> /\ p3 = <<>> /\ p5 = <<>>
    BY <1>8, <1>11 DEF XR001, XR008, XR009
  <2>2. Adds(text, c, p4) /\ OneAtMost(p4)
    BY <1>4, AddsNothing, RulesSayOne DEF OneAtMost
  <2> HIDE DEF p1, p2, p3, p4, p5
  <2>3. Piece(text, rules, c) = p4
    BY <1>1, <2>1, <2>2 DEF OneAtMost
  <2> QED BY <2>2, <2>3
<1>12. CASE text[c] \notin DOMAIN NewName /\ text[c] # "apply_ufunc" /\ text[c] # "from_array"
  <2>1. p3 = <<>> /\ p4 = <<>> /\ p5 = <<>>
    BY <1>12 DEF XR009, DK007
  <2>2. Adds(text, c, p1) /\ Adds(text, c, p2) /\ OneAtMost(p1) /\ OneAtMost(p2)
    BY <1>4, <1>5, AddsNothing, RulesSayOne DEF OneAtMost
  <2>3. ASSUME p1 # <<>>, p2 # <<>>
        PROVE  text[c] = "open_mfdataset" /\ Added(p1[1]) # Added(p2[1])
    <3>1. text[c] = "open_mfdataset" /\ p2 = <<Insertion(text, c, "parallel=True")>>
      BY <2>3 DEF XR008
    <3>2. p1 = <<Insertion(text, c, "chunks")>>
      BY <2>3 DEF XR001
    <3>3. Added(Insertion(text, c, "parallel=True")) = "parallel=True"
          /\ Added(Insertion(text, c, "chunks")) = "chunks"
      BY InsertionSays DEF Added
    <3> HIDE DEF p1, p2
    <3>4. p1[1] = Insertion(text, c, "chunks") /\ p2[1] = Insertion(text, c, "parallel=True")
      BY <3>1, <3>2
    <3> QED BY <3>1, <3>3, <3>4
  <2> DEFINE u == p1 \o p2
             S == {p1[1], p2[1]}
  <2> HIDE DEF p1, p2, p3, p4, p5
  <2>4. Adds(text, c, u) /\ u \in Seq(S)
    BY <2>2, <2>3, AddsTwo
  <2>5. Piece(text, rules, c) = ((u \o <<>>) \o <<>>) \o <<>>
    BY <1>1, <2>1
  <2> HIDE DEF u, S
  <2>6. u \o <<>> = u
    BY <2>4
  <2> QED BY <2>4, <2>5, <2>6
<1> QED BY <1>9, <1>10, <1>11, <1>12

\* Every insertion among the edits of a text adds a keyword to some call, and two
\* at one offset add different ones to an open_mfdataset().
AddsApart(text, f, g) ==
  Inserts(f) /\ Inserts(g) /\ f.end_byte = g.end_byte =>
    \E c : /\ AddsTo(text, c, f) /\ AddsTo(text, c, g)
           /\ text[c] = "open_mfdataset" /\ Added(f) # Added(g)

\* Two insertions at one offset are of one call.
LEMMA AddsToEnd ==
  ASSUME NEW text, NEW c, NEW d, NEW f, NEW g, AddsTo(text, c, f), AddsTo(text, d, g),
         f.end_byte = g.end_byte
  PROVE  c = d
<1>1. f.end_byte = Close(text, c) - 1 /\ g.end_byte = Close(text, d) - 1
  BY InsertionSays DEF AddsTo
<1>2. Opens(text, c) /\ Opens(text, d)
  BY DEF AddsTo
<1>3. Close(text, c) \in Nat /\ Close(text, d) \in Nat
  BY <1>2, InsideIsOpen DEF Opens
<1>4. Close(text, c) = Close(text, d)
  <2> DEFINE y == Close(text, c)
             z == Close(text, d)
  <2>1. y - 1 = z - 1 /\ y \in Nat /\ z \in Nat
    BY <1>1, <1>3
  <2> HIDE DEF y, z
  <2>2. y = z
    BY <2>1
  <2> QED BY <2>2 DEF y, z
<1> QED BY <1>2, <1>4, OneEnd

\* So do the edits that are collected for a text (the order of the rules is kept).
LEMMA FixesAdd ==
  ASSUME NEW text \in Seq(Byte), Sound(text), NEW rules, NEW s, s = Fixes(text, rules)
  PROVE  /\ \A x \in 1..Len(s) : Inserts(s[x]) => \E c : AddsTo(text, c, s[x])
         /\ \A x, y \in 1..Len(s) : x # y => AddsApart(text, s[x], s[y])
<1> DEFINE n == Len(text)
           E == EditsOf(text)
           p == [c \in 1..n |-> Piece(text, rules, c)]
<1>1. n \in Nat
  OBVIOUS
<1>2. \A c \in 1..n : p[c] \in Seq(E) /\ Adds(text, c, p[c])
  <2> TAKE c \in 1..n
  <2>1. c \in Calls(text) => Opens(text, c)
    BY SoundByPlace DEF Tidy
  <2>2. OfOneCall(text, c, Piece(text, rules, c))
    BY <2>1, PieceIs DEF Opens
  <2>3. c \notin Calls(text) => Piece(text, rules, c) = <<>>
    BY DEF Piece
  <2> QED BY <2>1, <2>2, <2>3, PieceAdds, AddsNothing DEF OfOneCall
<1>3. p \in [1..n -> Seq(E)]
  BY <1>2
<1>4. s = FlattenSeq(p)
  BY FixesAreJoined
<1> HIDE DEF E, n
<1>5. PICK f : Joins(f, p, n, E)
  <2> HIDE DEF p
  <2> QED BY <1>1, <1>3, JoinsExist
<1>6. s = f[n]
  <2> HIDE DEF p
  <2> QED BY <1>1, <1>3, <1>4, <1>5, FlattenJoins
<1> DEFINE Each(m) == \A x \in 1..Len(f[m]) :
             Inserts(f[m][x]) => \E c \in 1..m : AddsTo(text, c, f[m][x])
           Pairs(m) == \A x, y \in 1..Len(f[m]) : x # y => AddsApart(text, f[m][x], f[m][y])
           P == {m \in 0..n : Each(m) /\ Pairs(m)}
<1>7. 0 \in P
  BY <1>1, <1>5 DEF Joins
<1>8. ASSUME NEW m \in 1..n, m - 1 \in P PROVE m \in P
  <2> DEFINE u == f[m - 1]
             v == p[m]
             w == f[m]
  <2>1. u \in Seq(E) /\ v \in Seq(E) /\ w \in Seq(E)
    BY <1>1, <1>3, <1>5 DEF Joins
  <2>2. w = u \o v
    BY <1>5 DEF Joins
  <2>3. Adds(text, m, v) /\ Each(m - 1) /\ Pairs(m - 1)
    BY <1>2, <1>8
  <2>4. /\ \A x \in 1..Len(u) : Inserts(u[x]) => \E c \in 1..(m - 1) : AddsTo(text, c, u[x])
        /\ \A x, y \in 1..Len(u) : x # y => AddsApart(text, u[x], u[y])
    BY <2>3
  <2> HIDE DEF u, v, w, p
  <2>5. Len(w) = Len(u) + Len(v) /\ Len(u) \in Nat /\ Len(v) \in Nat
        /\ \A x \in 1..Len(w) : w[x] = IF x <= Len(u) THEN u[x] ELSE v[x - Len(u)]
    BY <2>1, <2>2
  <2>6. \A x \in 1..Len(w) :
          \/ x \in 1..Len(u) /\ w[x] = u[x]
          \/ x - Len(u) \in 1..Len(v) /\ w[x] = v[x - Len(u)]
    BY <2>5
  <2>7. \A x \in 1..Len(w) : Inserts(w[x]) =>
          \/ \E c \in 1..(m - 1) : x \in 1..Len(u) /\ w[x] = u[x] /\ AddsTo(text, c, w[x])
          \/ x - Len(u) \in 1..Len(v) /\ w[x] = v[x - Len(u)] /\ AddsTo(text, m, w[x])
    BY <2>3, <2>4, <2>6 DEF Adds
  <2>8. 1..(m - 1) \subseteq 1..m /\ m \in 1..m /\ m \notin 1..(m - 1)
    BY <1>1
  <2>9. \A x \in 1..Len(w) : Inserts(w[x]) => \E c \in 1..m : AddsTo(text, c, w[x])
    BY <2>7, <2>8
  <2>10. \A x, y \in 1..Len(w) : x # y => AddsApart(text, w[x], w[y])
    <3> SUFFICES ASSUME NEW x \in 1..Len(w), NEW y \in 1..Len(w), x # y, Inserts(w[x]),
                        Inserts(w[y]), w[x].end_byte = w[y].end_byte
                 PROVE  AddsApart(text, w[x], w[y])
      BY DEF AddsApart
    <3>1. \A c \in 1..(m - 1) : /\ ~(AddsTo(text, c, w[x]) /\ AddsTo(text, m, w[y]))
                                /\ ~(AddsTo(text, m, w[x]) /\ AddsTo(text, c, w[y]))
      BY <2>8, AddsToEnd
    <3>2. CASE x \in 1..Len(u) /\ w[x] = u[x] /\ y \in 1..Len(u) /\ w[y] = u[y]
      BY <2>4, <3>2
    <3>3. CASE /\ x - Len(u) \in 1..Len(v) /\ w[x] = v[x - Len(u)] /\ AddsTo(text, m, w[x])
               /\ y - Len(u) \in 1..Len(v) /\ w[y] = v[y - Len(u)] /\ AddsTo(text, m, w[y])
      <4>1. x - Len(u) # y - Len(u)
        BY <2>5
      <4>2. text[m] = "open_mfdataset" /\ Added(w[x]) # Added(w[y])
        BY <2>3, <3>3, <4>1 DEF Adds
      <4> QED BY <3>3, <4>2 DEF AddsApart
    <3> QED BY <2>7, <3>1, <3>2, <3>3
  <2> HIDE DEF P
  <2>11. Each(m) /\ Pairs(m)
    BY <2>9, <2>10 DEF w
  <2> HIDE DEF Each, Pairs
  <2> QED BY <2>11 DEF P
<1>9. n \in P
  <2> HIDE DEF P
  <2>1. 0..n \subseteq P
    BY <1>1, <1>7, <1>8, BoundedInduction
  <2> QED BY <1>1, <2>1
<1>10. Each(n) /\ Pairs(n)
  BY <1>9
<1> QED BY <1>6, <1>10

\* The offsets at which a list is empty or ends in a comma.
BareEnds(text) ==
  {Close(text, c) - 1 : c \in {c \in Calls(text) : Number(text, c) % 2 = 0}}

\* What is added to a call comes with a comma when its list lacks one.
LEMMA AdditionIs ==
  ASSUME NEW text \in Seq(Byte), Sound(text), NEW c, NEW f, AddsTo(text, c, f)
  PROVE  /\ IsAddition(f, BareEnds(text)) /\ f.end_byte = Close(text, c) - 1
         /\ f.end_byte \in BareEnds(text) <=> Number(text, c) % 2 = 0
<1> DEFINE even == Number(text, c) % 2 = 0
           bare == BareEnds(text)
<1>1. c \in Calls(text) /\ Opens(text, c)
  BY DEF AddsTo
<1>2. PICK keyword \in AddedKeywords : f = Insertion(text, c, keyword)
  BY DEF AddsTo
<1>3. HasCallees(text) /\ Alternates(text, c) /\ EndIsSeen(text, c)
  BY <1>1, SoundByPlace DEF Tidy
<1>4. Separator(text, c) = IF even THEN <<>> ELSE <<",">>
  BY <1>1, <1>3, SeparatorIs
<1>5. f.end_byte = Close(text, c) - 1 /\ Added(f) = keyword
  BY <1>1, <1>2, InsertionSays DEF Added
<1>6. f.end_byte \in bare <=> even
  <2>1. even => f.end_byte \in bare
    BY <1>1, <1>5 DEF BareEnds
  <2>2. ASSUME f.end_byte \in bare PROVE even
    <3>1. PICK d \in Calls(text) : Number(text, d) % 2 = 0 /\ f.end_byte = Close(text, d) - 1
      BY <2>2 DEF BareEnds
    <3>2. Opens(text, d)
      BY SoundByPlace DEF Tidy
    <3> DEFINE y == Close(text, c)
               z == Close(text, d)
    <3>3. y \in Nat /\ z \in Nat /\ y - 1 = z - 1
      <4>1. y \in Nat
        BY <1>1, InsideIsOpen DEF Opens
      <4>2. z \in Nat
        BY <3>2, InsideIsOpen DEF Opens
      <4> QED BY <1>5, <3>1, <4>1, <4>2
    <3> HIDE DEF y, z
    <3>4. y = z
      BY <3>3
    <3>5. c = d
      BY <1>1, <3>2, <3>4, OneEnd DEF y, z
    <3> QED BY <3>1, <3>5
  <2> QED BY <2>1, <2>2
<1>7. Len(f.replacement) = (IF even THEN 1 ELSE 2) /\ (~even => f.replacement[1] = ",")
  <2>1. f.replacement = Separator(text, c) \o <<keyword>>
    BY <1>2 DEF Insertion
  <2>2. CASE even
    <3>1. f.replacement = <<keyword>>
      <4>1. Separator(text, c) = <<>>
        BY <1>4, <2>2
      <4> QED BY <2>1, <4>1
    <3> QED BY <2>2, <3>1
  <2>3. CASE ~even
    <3> DEFINE comma == ","
               S == {comma, keyword}
               first == <<comma>>
               last == <<keyword>>
               r == f.replacement
    <3>1. r = first \o last
      BY <1>4, <2>1, <2>3
    <3> HIDE DEF comma
    <3>2. /\ first \in Seq(S) /\ last \in Seq(S) /\ Len(first) = 1 /\ Len(last) = 1
          /\ first[1] = comma
      OBVIOUS
    <3> HIDE DEF first, last, S, r
    <3>3. Len(r) = 2 /\ r[1] = comma
      BY <3>1, <3>2, ConcatProperties
    <3> QED BY <2>3, <3>3 DEF comma, r
  <2> QED BY <2>2, <2>3
<1> HIDE DEF even
<1> QED BY <1>2, <1>5, <1>6, <1>7 DEF IsAddition, even

\* A call that is given both keywords ends in an argument.
LEMMA TwoNeedRoom ==
  ASSUME NEW text \in Seq(Byte), Sound(text), NEW c, NEW f, NEW g,
         AddsTo(text, c, f), AddsTo(text, c, g), text[c] = "open_mfdataset", Added(f) # Added(g)
  PROVE  f.end_byte \notin BareEnds(text)
<1>1. c \in Calls(text) /\ Opens(text, c) /\ HasRoom(text, c)
  BY SoundByPlace DEF Tidy, AddsTo
<1>2. PICK x \in AddedKeywords :
        f = Insertion(text, c, x) /\ ~KeywordArgPresentOrUnknown(text, c, Keyword(x))
  BY DEF AddsTo
<1>3. PICK y \in AddedKeywords :
        g = Insertion(text, c, y) /\ ~KeywordArgPresentOrUnknown(text, c, Keyword(y))
  BY DEF AddsTo
<1>4. x # y
  BY <1>1, <1>2, <1>3, InsertionSays DEF Added
<1>5. Keyword("chunks") = "chunks" /\ Keyword("parallel=True") = "parallel"
  BY DEF Keyword
<1>6. {Keyword(x), Keyword(y)} = {"chunks", "parallel"}
  BY <1>4, <1>5 DEF AddedKeywords
<1>7. \A kw \in {"chunks", "parallel"} : ~KeywordArgPresentOrUnknown(text, c, kw)
  BY <1>2, <1>3, <1>6
<1>8. \A i \in ItemsOf(text, c) : Argument(text, c, i)
  BY DEF ItemsOf, Selected, Argument
<1>9. \A i \in ItemsOf(text, c) : ~IsEither(text[i])
  <2>1. \A kw \in {"chunks", "parallel"} :
          ~HasKeywordArg(text, c, kw) /\ ~Contains(ArgumentList(text, c), "**kw")
    BY <1>7 DEF KeywordArgPresentOrUnknown
  <2> QED BY <1>1, <1>8, <2>1, KeywordIsArgument DEF IsEither
<1>10. ~(Number(text, c) % 2 = 0)
  BY <1>1, <1>9 DEF HasRoom
<1> QED BY <1>10, AdditionIs

\* The edits that the rules have for a sound text go well with each other.
LEMMA FixesAreRegular ==
  ASSUME NEW text \in Seq(Byte), Sound(text), NEW rules
  PROVE  Regular(Fixes(text, rules), BareEnds(text))
<1> DEFINE s == Fixes(text, rules)
           bare == BareEnds(text)
<1> HIDE DEF s
<1>1. /\ \A x \in 1..Len(s) : Inserts(s[x]) => \E c : AddsTo(text, c, s[x])
      /\ \A x, y \in 1..Len(s) : x # y => AddsApart(text, s[x], s[y])
  BY FixesAdd DEF s
<1>2. ASSUME NEW x \in 1..Len(s), Inserts(s[x]),
             NEW y \in (1..Len(s)) \ {x}, Inserts(s[y]), s[y].end_byte = s[x].end_byte
      PROVE  s[x].end_byte \notin bare /\ Added(s[y]) # Added(s[x])
  <2>1. AddsApart(text, s[x], s[y])
    BY <1>1
  <2>2. PICK c : /\ AddsTo(text, c, s[x]) /\ AddsTo(text, c, s[y])
                 /\ text[c] = "open_mfdataset" /\ Added(s[x]) # Added(s[y])
    BY <1>2, <2>1 DEF AddsApart
  <2> QED BY <2>2, TwoNeedRoom
<1>3. ASSUME NEW x \in 1..Len(s), Inserts(s[x]) PROVE IsAddition(s[x], bare)
  BY <1>1, <1>3, AdditionIs
<1>4. Regular(s, bare)
  BY <1>2, <1>3 DEF Regular, Suits
<1> QED BY <1>4 DEF s

-----------------------------------------------------------------------------
(* Its lists after the edits.                                              *)

\* The text that the edits in D make of a sound one.
IsRewritten(h, text, edited, D) ==
  /\ text \in Seq(Byte) /\ edited \in Seq(Byte) /\ Sound(text) /\ IsImage(h, text, edited)
  /\ Gapped(h, text, edited, BareEnds(text), D)
  /\ \A f \in D : Inserts(f) => \E c : AddsTo(text, c, f)

\* A token that was written behind token a to add a keyword to a call that ends
\* there.
AddedAt(text, a, token) ==
  \E e, f : /\ AddsTo(text, e, f) /\ Close(text, e) = a + 1 /\ f.end_byte = a
           /\ token \in {",", Added(f)} /\ Added(f) \in AddedKeywords
           /\ ~KeywordArgPresentOrUnknown(text, e, Keyword(Added(f)))

\* Nothing else was inserted between two tokens.
LEMMA GapIsAtEnd ==
  ASSUME NEW h, NEW text, NEW edited, NEW D, IsRewritten(h, text, edited, D),
         NEW a \in 1..(Len(text) - 1), NEW j \in (h[a] + 1)..(h[a + 1] - 1)
  PROVE  AddedAt(text, a, edited[j])
<1>1. PICK f \in D : Inserts(f) /\ f.end_byte = a /\ edited[j] \in {",", Added(f)}
  BY DEF IsRewritten, Gapped
<1>2. PICK e : AddsTo(text, e, f)
  BY <1>1 DEF IsRewritten
<1>3. PICK keyword \in AddedKeywords :
        f = Insertion(text, e, keyword) /\ ~KeywordArgPresentOrUnknown(text, e, Keyword(keyword))
  BY <1>2 DEF AddsTo
<1>4. Opens(text, e)
  BY <1>2 DEF AddsTo
<1>5. Added(f) = keyword /\ f.end_byte = Close(text, e) - 1
  BY <1>3, <1>4, InsertionSays DEF Added
<1>6. Close(text, e) \in Nat
  BY <1>4, InsideIsOpen DEF Opens
<1>7. Close(text, e) = a + 1
  <2> DEFINE z == Close(text, e)
  <2>1. z \in Nat /\ z - 1 = a
    BY <1>1, <1>5, <1>6
  <2> HIDE DEF z
  <2>2. z = a + 1
    BY <2>1
  <2> QED BY <2>2 DEF z
<1> QED BY <1>1, <1>2, <1>3, <1>5, <1>7 DEF AddedAt

\* The end of a call in the edited text, and what was inserted there.
Gap(h, text, c) == (h[Close(text, c) - 1] + 1)..(h[Close(text, c)] - 1)

\* What is inserted there are keywords that the call lacks, and their commas.
LEMMA GapTokens ==
  ASSUME NEW h, NEW text, NEW edited, NEW D, IsRewritten(h, text, edited, D),
         NEW c, Opens(text, c), NEW j \in Gap(h, text, c)
  PROVE  /\ Close(text, c) - 1 \in BareEnds(text) <=> Number(text, c) % 2 = 0
         /\ edited[j] \in {","} \cup AddedKeywords
         /\ edited[j] # "," => ~KeywordArgPresentOrUnknown(text, c, Keyword(edited[j]))
<1> DEFINE a == Close(text, c) - 1
<1>1. a \in 1..(Len(text) - 1) /\ a + 1 = Close(text, c) /\ Close(text, c) \in Nat
  BY InsideIsOpen DEF Opens
<1>2. j \in (h[a] + 1)..(h[a + 1] - 1) /\ a \in 1..(Len(text) - 1)
  BY <1>1 DEF Gap
<1> HIDE DEF a
<1>3. PICK e, f : /\ AddsTo(text, e, f) /\ Close(text, e) = a + 1 /\ f.end_byte = a
                  /\ edited[j] \in {",", Added(f)} /\ Added(f) \in AddedKeywords
                  /\ ~KeywordArgPresentOrUnknown(text, e, Keyword(Added(f)))
  <2>1. AddedAt(text, a, edited[j])
    BY <1>2, GapIsAtEnd
  <2> QED BY <2>1 DEF AddedAt
<1>4. e = c
  BY <1>1, <1>3, OneEnd DEF AddsTo
<1>5. f.end_byte \in BareEnds(text) <=> Number(text, c) % 2 = 0
  BY <1>3, <1>4, AdditionIs DEF IsRewritten
<1> QED BY <1>3, <1>4, <1>5 DEF a

\* The tokens of an edited list: those of the list, and what was added at its end.
LEMMA SelectedAre ==
  ASSUME NEW h, NEW text, NEW edited, NEW D, IsRewritten(h, text, edited, D),
         NEW c, Opens(text, c), NEW apart, apart \cap (Replaceable \cup Written) = {},
         ")" \in apart
  PROVE  /\ \A i \in Selected(text, c, apart) :
              h[i] \in Selected(edited, h[c], apart) /\ i \in 1..Len(text)
         /\ Gap(h, text, c) \subseteq Selected(edited, h[c], apart)
         /\ \A j \in Selected(edited, h[c], apart) :
              j \in Gap(h, text, c) \/ \E i \in Selected(text, c, apart) : j = h[i]
<1> DEFINE z == Close(text, c)
           d == h[c]
<1>1. /\ IsImage(h, text, edited) /\ Len(edited) \in Nat
      /\ z \in (c + 2)..Len(text) /\ c \in 1..Len(text) /\ Len(text) \in Nat
      /\ \A j \in (c + 1)..(z - 1) : Depth(text, c, j) \in Nat \ {0}
  BY InsideIsOpen DEF Opens, IsRewritten
<1>2. Close(edited, d) = h[z] /\ h[c + 1] = h[c] + 1
  BY <1>1, CloseIsKept
<1>3. /\ h \in [1..Len(text) -> Nat]
      /\ \A k \in 1..Len(text) : h[k] \in 1..Len(edited)
      /\ \A k, m \in 1..Len(text) : k < m => h[k] < h[m]
  BY <1>1 DEF IsImage
<1>4. \A i \in 1..Len(text) : edited[h[i]] \in apart <=> text[i] \in apart
  <2>1. Replacing \subseteq Written
    BY ReplacedTokens
  <2> QED BY <1>1, <2>1, ImageTokens
<1>5. ASSUME NEW i \in Selected(text, c, apart)
      PROVE  h[i] \in Selected(edited, d, apart) /\ i \in 1..Len(text)
  <2>1. Argument(text, c, i) /\ text[i] \notin apart
    BY DEF Selected, Argument
  <2>2. Argument(edited, d, h[i]) /\ i \in 1..Len(text)
    BY <1>1, <2>1, ArgumentIsKept
  <2> QED BY <1>4, <2>1, <2>2 DEF Argument, Selected
<1>6. ASSUME NEW j \in Gap(h, text, c) PROVE j \in Selected(edited, d, apart)
  <2>1. edited[j] \in {","} \cup AddedKeywords
    BY GapTokens
  <2>2. edited[j] \in Written
    BY <2>1 DEF AddedKeywords, Written
  <2>3. edited[j] \notin apart /\ edited[j] # ")"
    BY <2>2
  <2>4. j \in 1..Len(edited) /\ h[z - 1] < j /\ j < h[z]
    <3>1. z \in 1..Len(text) /\ z - 1 \in 1..Len(text)
      BY <1>1
    <3>2. h[z] \in 1..Len(edited) /\ h[z - 1] \in 1..Len(edited)
      BY <1>3, <3>1
    <3> QED BY <3>2 DEF Gap
  <2>5. Argument(edited, d, j)
    BY <1>1, <2>3, <2>4, WrittenIsArgument
  <2> QED BY <2>3, <2>5 DEF Argument, Selected
<1>7. ASSUME NEW j \in Selected(edited, d, apart)
      PROVE  j \in Gap(h, text, c) \/ \E i \in Selected(text, c, apart) : j = h[i]
  <2>1. j \in (d + 2)..(h[z] - 1) /\ Depth(edited, d, j) = 1 /\ edited[j] \notin apart
    BY <1>2 DEF Selected
  <2>2. /\ 1 \in 1..Len(text) /\ c + 1 \in 1..Len(text) /\ z \in 1..Len(text)
        /\ h[1] \in Nat /\ d \in Nat /\ h[z] \in 1..Len(edited) /\ h[1] <= d
    <3>1. 1 \in 1..Len(text) /\ c + 1 \in 1..Len(text) /\ z \in 1..Len(text) /\ (1 = c \/ 1 < c)
      BY <1>1
    <3> QED BY <1>1, <1>3, <3>1
  <2> HIDE DEF d, z
  <2>3. j \in 1..Len(edited) /\ h[1] <= j /\ j < h[z] /\ h[c + 1] < j
    BY <1>2, <2>1, <2>2 DEF d
  <2>4. PICK i \in 1..(z - 1) :
          IsBehind(h, text, edited, i, j) /\ i + 1 \in 1..z /\ j < h[i + 1]
    BY <1>1, <2>2, <2>3, SomeIsBefore
  <2>5. i \in 1..Len(text) /\ i \in (c + 1)..(z - 1) /\ h[i] <= j
    <3>1. h[c + 1] <= j
      BY <1>3, <2>2, <2>3
    <3>2. c + 1 <= i
      BY <2>2, <2>4, <3>1 DEF IsBehind
    <3> QED BY <1>1, <2>4, <3>2 DEF IsBehind
  <2>6. Depth(text, c, i) = 1
    <3>1. c <= i
      BY <1>1, <2>5
    <3> QED BY <1>1, <2>1, <2>4, <3>1, DepthIsKept DEF d
  <2>7. CASE h[i] = j
    <3>1. i # c + 1
      BY <1>3, <2>2, <2>3, <2>7
    <3>2. i \in (c + 2)..(z - 1)
      BY <1>1, <2>5, <3>1
    <3>3. text[i] \notin apart
      BY <1>4, <2>1, <2>5, <2>7
    <3> QED BY <2>6, <2>7, <3>2, <3>3 DEF Selected, z
  <2>8. CASE h[i] # j
    <3>1. i \in 1..(Len(text) - 1) /\ j \in (h[i] + 1)..(h[i + 1] - 1)
      <4>1. i \in 1..(Len(text) - 1) /\ i + 1 \in 1..Len(text)
        BY <1>1, <2>4
      <4> QED BY <1>3, <2>3, <2>4, <2>5, <2>8, <4>1
    <3>2. PICK e, f : AddsTo(text, e, f) /\ Close(text, e) = i + 1
      <4>1. AddedAt(text, i, edited[j])
        BY <3>1, GapIsAtEnd
      <4> QED BY <4>1 DEF AddedAt
    <3>3. text[i + 1] = ")"
      <4>1. Opens(text, e)
        BY <3>2 DEF AddsTo
      <4> QED BY <3>2, <4>1, InsideIsOpen
    <3> DEFINE m == i + 1
    <3>4. m \in Nat /\ c \in Nat /\ c <= m /\ m - 1 = i
      BY <1>1, <2>5
    <3>5. Depth(text, c, m) = Depth(text, c, m - 1)
            + IF text[m] = "(" THEN 1 ELSE IF text[m] = ")" THEN -1 ELSE 0
      <4> HIDE DEF m
      <4> QED BY <3>4, DepthStep
    <3>6. Depth(text, c, m) = 0
      <4>1. text[m] = ")"
        BY <3>3
      <4> HIDE DEF m
      <4> QED BY <2>6, <3>4, <3>5, <4>1
    <3>7. m = z
      <4>1. m \notin (c + 1)..(z - 1)
        BY <1>1, <3>6
      <4> QED BY <1>1, <2>5, <4>1
    <3>8. i = z - 1 /\ i + 1 = z
      BY <1>1, <2>5, <3>7
    <3> QED BY <3>1, <3>8 DEF Gap, z
  <2> QED BY <2>7, <2>8
<1> QED BY <1>5, <1>6, <1>7

\* Where all are counted.
LEMMA CountOfAll ==
  ASSUME NEW K, NEW a \in Nat, NEW t \in Nat, a <= t + 1, a..t \subseteq K
  PROVE  Count(K, a, t) = t - a + 1
<1>1. K \cap (a..t) = a..t
  OBVIOUS
<1>2. Cardinality(a..t) = t - a + 1
  <2>1. Cardinality(a..t) = IF a > t THEN 0 ELSE t - a + 1
    BY FS_Interval
  <2> QED BY <2>1
<1> QED BY <1>1, <1>2 DEF Count

\* That holds for its items, and for all that is written in it.
LEMMA ItemsAre ==
  ASSUME NEW h, NEW text, NEW edited, NEW D, IsRewritten(h, text, edited, D),
         NEW c, Opens(text, c)
  PROVE  /\ \A i \in ItemsOf(text, c) : h[i] \in ItemsOf(edited, h[c]) /\ i \in 1..Len(text)
         /\ \A i \in WrittenOf(text, c) : h[i] \in WrittenOf(edited, h[c]) /\ i \in 1..Len(text)
         /\ Gap(h, text, c) \subseteq ItemsOf(edited, h[c])
         /\ Gap(h, text, c) \subseteq WrittenOf(edited, h[c])
         /\ \A j \in ItemsOf(edited, h[c]) :
              j \in Gap(h, text, c) \/ \E i \in ItemsOf(text, c) : j = h[i]
         /\ \A j \in WrittenOf(edited, h[c]) :
              j \in Gap(h, text, c) \/ \E i \in WrittenOf(text, c) : j = h[i]
<1> DEFINE A == {")"} \cup Newline \cup Comment
           B == {")"} \cup Newline
<1>1. A \cap (Replaceable \cup Written) = {} /\ B \cap (Replaceable \cup Written) = {}
  BY DEF Newline, Comment, Replaceable, Written
<1>2. ")" \in A /\ ")" \in B
  OBVIOUS
<1>3. /\ ItemsOf(text, c) = Selected(text, c, A) /\ WrittenOf(text, c) = Selected(text, c, B)
      /\ ItemsOf(edited, h[c]) = Selected(edited, h[c], A)
      /\ WrittenOf(edited, h[c]) = Selected(edited, h[c], B)
  BY DEF ItemsOf, WrittenOf
<1> HIDE DEF A, B
<1>4. /\ \A i \in Selected(text, c, A) : h[i] \in Selected(edited, h[c], A) /\ i \in 1..Len(text)
      /\ Gap(h, text, c) \subseteq Selected(edited, h[c], A)
      /\ \A j \in Selected(edited, h[c], A) :
           j \in Gap(h, text, c) \/ \E i \in Selected(text, c, A) : j = h[i]
  BY <1>1, <1>2, SelectedAre
<1>5. /\ \A i \in Selected(text, c, B) : h[i] \in Selected(edited, h[c], B) /\ i \in 1..Len(text)
      /\ Gap(h, text, c) \subseteq Selected(edited, h[c], B)
      /\ \A j \in Selected(edited, h[c], B) :
           j \in Gap(h, text, c) \/ \E i \in Selected(text, c, B) : j = h[i]
  BY <1>1, <1>2, SelectedAre
<1> QED BY <1>3, <1>4, <1>5

\* Where a call and its end are in the edited text.
LEMMA EndsAre ==
  ASSUME NEW h, NEW text, NEW edited, NEW D, IsRewritten(h, text, edited, D),
         NEW c, Opens(text, c)
  PROVE  LET z == Close(text, c)
             d == h[c]
         IN  /\ c \in Nat /\ z \in Nat /\ z - 1 \in (c + 1)..Len(text) /\ z \in (c + 2)..Len(text)
             /\ d \in Nat /\ h[c + 1] = d + 1 /\ Close(edited, d) = h[z] /\ Opens(edited, d)
             /\ h[z - 1] \in Nat /\ h[z] \in Nat /\ d + 1 <= h[z - 1] /\ h[z - 1] < h[z]
             /\ c + 1 \in 1..Len(text) /\ z - 1 \in 1..Len(text) /\ Len(text) \in Nat
             /\ h \in [1..Len(text) -> Nat]
             /\ \A k, m \in 1..Len(text) : k < m <=> h[k] < h[m]
<1> DEFINE z == Close(text, c)
           d == h[c]
<1>1. /\ z \in (c + 2)..Len(text) /\ c \in 1..Len(text) /\ Len(text) \in Nat
      /\ IsImage(h, text, edited) /\ Len(edited) \in Nat
  BY InsideIsOpen DEF Opens, IsRewritten
<1>2. Close(edited, d) = h[z] /\ h[c + 1] = d + 1 /\ Opens(edited, d)
  BY <1>1, CloseIsKept
<1> HIDE DEF z
<1>3. /\ c \in Nat /\ z \in Nat /\ z - 1 \in (c + 1)..Len(text)
      /\ c + 1 \in 1..Len(text) /\ z - 1 \in 1..Len(text) /\ z \in 1..Len(text)
      /\ z - 1 < z /\ (c + 1 = z - 1 \/ c + 1 < z - 1)
  BY <1>1
<1>4. /\ h \in [1..Len(text) -> Nat]
      /\ \A k, m \in 1..Len(text) : k < m => h[k] < h[m]
  BY <1>1 DEF IsImage
<1>5. ASSUME NEW k \in 1..Len(text), NEW m \in 1..Len(text), h[k] < h[m] PROVE k < m
  <2>1. h[k] \in Nat /\ h[m] \in Nat
    BY <1>4
  <2>2. m < k => h[m] < h[k]
    BY <1>4
  <2> QED BY <1>5, <2>1, <2>2
<1>6. h[z - 1] \in Nat /\ h[z] \in Nat /\ h[z - 1] < h[z] /\ h[c] \in Nat /\ h[c + 1] <= h[z - 1]
  BY <1>1, <1>3, <1>4
<1> QED BY <1>1, <1>2, <1>3, <1>4, <1>5, <1>6 DEF z

\* Up to an image as many items are counted as up to its token.
LEMMA CountOfImages ==
  ASSUME NEW h, NEW text, NEW edited, NEW D, IsRewritten(h, text, edited, D),
         NEW c, Opens(text, c), NEW m \in (c + 1)..(Close(text, c) - 1)
  PROVE  Count(ItemsOf(edited, h[c]), h[c] + 2, h[m]) = Count(ItemsOf(text, c), c + 2, m)
<1> DEFINE z == Close(text, c)
           d == h[c]
           K == ItemsOf(text, c)
           L == ItemsOf(edited, d)
           S == K \cap ((c + 2)..m)
           T == L \cap ((d + 2)..h[m])
           f == [k \in S |-> h[k]]
<1>1. /\ c \in Nat /\ z \in Nat /\ z \in (c + 2)..Len(text)
      /\ d \in Nat /\ Close(edited, d) = h[z]
      /\ h[z - 1] \in Nat /\ z - 1 \in 1..Len(text) /\ Len(text) \in Nat
      /\ h \in [1..Len(text) -> Nat]
      /\ \A k, l \in 1..Len(text) : k < l <=> h[k] < h[l]
  BY EndsAre
<1>2. m \in 1..Len(text) /\ h[m] \in Nat /\ h[m] <= h[z - 1]
  <2>1. m \in 1..Len(text) /\ (m = z - 1 \/ m < z - 1)
    BY <1>1
  <2> HIDE DEF z
  <2> QED BY <1>1, <2>1
<1>3. /\ \A i \in K : h[i] \in L /\ i \in 1..Len(text)
      /\ \A j \in L : j \in Gap(h, text, c) \/ \E i \in K : j = h[i]
  BY ItemsAre
<1>4. L \subseteq (d + 2)..(h[z] - 1) /\ K \subseteq (c + 2)..(z - 1)
  BY <1>1 DEF ItemsOf, Selected
<1> HIDE DEF z, d, K, L
<1>5. ASSUME NEW k \in S PROVE h[k] \in T /\ k \in 1..Len(text)
  <2>1. k \in K /\ k \in 1..Len(text) /\ h[k] \in L /\ (k = m \/ k < m)
    BY <1>1, <1>2, <1>3
  <2>2. h[k] <= h[m] /\ h[k] \in Nat
    BY <1>1, <1>2, <2>1
  <2>3. h[k] \in (d + 2)..h[m]
    BY <1>1, <1>2, <1>4, <2>1, <2>2
  <2> QED BY <2>1, <2>3
<1>6. f \in [S -> T]
  BY <1>5
<1>7. ASSUME NEW k \in S, NEW l \in S, f[k] = f[l] PROVE k = l
  <2>1. k \in 1..Len(text) /\ l \in 1..Len(text) /\ h[k] = h[l] /\ h[k] \in Nat /\ h[l] \in Nat
    BY <1>1, <1>5, <1>7
  <2>2. ~(k < l) /\ ~(l < k)
    BY <1>1, <2>1
  <2> QED BY <2>1, <2>2
<1>8. ASSUME NEW y \in T PROVE \E k \in S : f[k] = y
  <2>1. y \in L /\ y <= h[m] /\ y \in Nat
    BY <1>1, <1>2, <1>4
  <2>2. y \notin Gap(h, text, c)
    BY <1>1, <1>2, <2>1 DEF Gap, z
  <2>3. PICK i \in K : y = h[i]
    BY <1>3, <2>1, <2>2
  <2>4. i \in 1..Len(text) /\ ~(m < i)
    BY <1>1, <1>2, <1>3, <2>1, <2>3
  <2>5. i \in (c + 2)..m
    BY <1>1, <1>2, <1>4, <2>4
  <2> QED BY <2>3, <2>5
<1>9. IsFiniteSet(T)
  <2>1. IsFiniteSet((d + 2)..h[m])
    BY <1>1, <1>2, FS_Interval
  <2> QED BY <2>1, FS_Subset
<1> HIDE DEF S, T, f
<1>10. Cardinality(S) = Cardinality(T)
  BY <1>6, <1>7, <1>8, <1>9, SameNumber
<1> QED BY <1>10 DEF Count, S, T, K, L, d

\* The tokens of an edited list are counted as they were, and on from there.
LEMMA RanksAre ==
  ASSUME NEW h, NEW text, NEW edited, NEW D, IsRewritten(h, text, edited, D),
         NEW c, Opens(text, c)
  PROVE  LET last == h[Close(text, c) - 1]
         IN  /\ Number(text, c) \in Nat
             /\ \A i \in ItemsOf(text, c) : Rank(edited, h[c], h[i]) = Rank(text, c, i)
             /\ \A t \in Gap(h, text, c) :
                  Rank(edited, h[c], t) = Number(text, c) + (t - last)
             /\ Number(edited, h[c]) = Number(text, c) + (h[Close(text, c)] - 1 - last)
<1> DEFINE z == Close(text, c)
           d == h[c]
           K == ItemsOf(text, c)
           L == ItemsOf(edited, d)
           last == h[z - 1]
<1>1. /\ c \in Nat /\ z \in Nat /\ z - 1 \in (c + 1)..Len(text) /\ z \in (c + 2)..Len(text)
      /\ d \in Nat /\ Close(edited, d) = h[z]
      /\ last \in Nat /\ h[z] \in Nat /\ d + 1 <= last /\ last < h[z]
  BY EndsAre
<1>2. \A m \in (c + 1)..(z - 1) : Count(L, d + 2, h[m]) = Count(K, c + 2, m)
  BY CountOfImages
<1>3. Gap(h, text, c) \subseteq L
  BY ItemsAre
<1>4. Gap(h, text, c) = (last + 1)..(h[z] - 1)
  BY DEF Gap
<1>5. K \subseteq (c + 2)..(z - 1)
  BY DEF ItemsOf, Selected
<1>6. Number(text, c) \in Nat
  BY LastItem
<1>7. Number(text, c) = Count(K, c + 2, z - 1) /\ Number(edited, d) = Count(L, d + 2, h[z] - 1)
      /\ \A t : Rank(edited, d, t) = Count(L, d + 2, t)
      /\ \A i : Rank(text, c, i) = Count(K, c + 2, i)
  BY <1>1 DEF Number, Rank
<1> HIDE DEF z, d, K, L, last
<1>8. ASSUME NEW t \in last..(h[z] - 1)
      PROVE  Count(L, d + 2, t) = Count(K, c + 2, z - 1) + (t - last)
  <2> DEFINE b == last + 1
             a == d + 2
  <2>1. a \in Nat /\ b \in Nat /\ t \in Nat /\ a <= b /\ b <= t + 1 /\ b - 1 = last
    BY <1>1
  <2>2. b..t \subseteq L
    BY <1>1, <1>3, <1>4
  <2>3. Count(L, a, last) = Count(K, c + 2, z - 1)
    <3>1. z - 1 \in (c + 1)..(z - 1)
      BY <1>1
    <3> QED BY <1>2, <3>1 DEF last
  <2>4. t - b + 1 = t - last
    BY <1>1, <2>1
  <2> HIDE DEF a, b
  <2>5. Count(L, a, t) = Count(L, a, b - 1) + Count(L, b, t)
    BY <2>1, CountSplits
  <2>6. Count(L, b, t) = t - b + 1
    BY <2>1, <2>2, CountOfAll
  <2> QED BY <2>1, <2>3, <2>4, <2>5, <2>6 DEF a
<1>9. ASSUME NEW i \in K PROVE Count(L, d + 2, h[i]) = Count(K, c + 2, i)
  <2>1. i \in (c + 1)..(z - 1)
    BY <1>1, <1>5
  <2> QED BY <1>2, <2>1
<1>10. /\ \A t \in Gap(h, text, c) : t \in last..(h[z] - 1)
       /\ h[z] - 1 \in last..(h[z] - 1)
  BY <1>1, <1>4
<1>11. \A t \in Gap(h, text, c) : Count(L, d + 2, t) = Count(K, c + 2, z - 1) + (t - last)
  BY <1>8, <1>10
<1>12. Count(L, d + 2, h[z] - 1) = Count(K, c + 2, z - 1) + (h[z] - 1 - last)
  BY <1>8, <1>10
<1> QED BY <1>6, <1>7, <1>9, <1>11, <1>12 DEF z, d, K, L, last

\* A token that no rule is about is the image of itself alone.
LEMMA ImageIsSame ==
  ASSUME NEW h, NEW text, NEW edited, IsImage(h, text, edited), NEW i \in 1..Len(text), NEW x,
         x \notin Replaceable, x \notin Replacing
  PROVE  edited[h[i]] = x <=> text[i] = x
BY ImageTokens

\* A comma by name: no quantified fact then holds the string.
IsComma(token) == token = ","

\* A comma is neither replaced nor put for another token.
LEMMA CommaIsKept ==
  ASSUME NEW h, NEW text, NEW edited, IsImage(h, text, edited)
  PROVE  \A i \in 1..Len(text) : IsComma(edited[h[i]]) <=> IsComma(text[i])
<1> TAKE i \in 1..Len(text)
<1>1. edited[h[i]] = text[i] \/ (text[i] \in Replaceable /\ edited[h[i]] \in Replacing)
  BY ImageTokens
<1> QED BY <1>1 DEF Replaceable, Replacing, IsComma

\* What is known of the keywords that a rule adds.
LEMMA GapKeywords ==
  /\ \A x \in AddedKeywords : IsNamed(x) /\ IsEither(x) /\ Keyword(x) # "none" /\ x # ","
  /\ \A x, y \in AddedKeywords : Keyword(x) = Keyword(y) => x = y
  /\ Keyword(",") = "none" /\ ~IsNamed(",")
<1>1. Keyword("chunks") = "chunks" /\ Keyword("parallel=True") = "parallel"
      /\ Keyword(",") = "none"
  BY DEF Keyword
<1> QED BY <1>1 DEF IsNamed, IsEither, AddedKeywords

\* The lists of the edited text still alternate.
LEMMA AlternatesKept ==
  ASSUME NEW h, NEW text, NEW edited, NEW D, IsRewritten(h, text, edited, D),
         NEW c, Opens(text, c), Alternates(text, c)
  PROVE  Alternates(edited, h[c])
<1> DEFINE d == h[c]
           z == Close(text, c)
           last == h[z - 1]
           m == Number(text, c)
<1>1. IsImage(h, text, edited)
  BY DEF IsRewritten
<1>2. /\ m \in Nat
      /\ \A i \in ItemsOf(text, c) : Rank(edited, d, h[i]) = Rank(text, c, i)
      /\ \A t \in Gap(h, text, c) : Rank(edited, d, t) = m + (t - last)
  BY RanksAre
<1>3. /\ \A i \in ItemsOf(text, c) : i \in 1..Len(text)
      /\ \A j \in ItemsOf(edited, d) :
           j \in Gap(h, text, c) \/ \E i \in ItemsOf(text, c) : j = h[i]
  BY ItemsAre
<1>4. z - 1 \in 1..(Len(text) - 1) /\ (z - 1) + 1 = z /\ last \in Nat /\ h[z] \in Nat
  <2>1. z \in Nat /\ z \in (c + 2)..Len(text) /\ c \in Nat /\ z - 1 \in 1..Len(text)
        /\ Len(text) \in Nat /\ h[z - 1] \in Nat /\ h[z] \in Nat
    BY EndsAre
  <2> HIDE DEF z
  <2> QED BY <2>1
<1>5. ASSUME NEW i \in ItemsOf(text, c)
      PROVE  edited[h[i]] = "," <=> Rank(edited, d, h[i]) % 2 = 0
  <2>1. i \in 1..Len(text)
    BY <1>3
  <2>2. edited[h[i]] = "," <=> text[i] = ","
    <3>1. IsComma(edited[h[i]]) <=> IsComma(text[i])
      BY <1>1, <2>1, CommaIsKept
    <3> QED BY <3>1 DEF IsComma
  <2>3. text[i] = "," <=> Rank(text, c, i) % 2 = 0
    BY DEF Alternates
  <2>4. Rank(edited, d, h[i]) = Rank(text, c, i)
    BY <1>2
  <2> QED BY <2>2, <2>3, <2>4
<1>6. ASSUME NEW t \in Gap(h, text, c)
      PROVE  edited[t] = "," <=> Rank(edited, d, t) % 2 = 0
  <2> DEFINE a == z - 1
             bare == BareEnds(text)
             k == t - last
  <2>1. a \in 1..(Len(text) - 1) /\ t \in (h[a] + 1)..(h[a + 1] - 1)
        /\ k \in Nat /\ t \in Nat /\ h[a] = last
    BY <1>4 DEF Gap
  <2>2. /\ edited[t] = "," <=> a \notin bare /\ (t - h[a]) % 2 = 1
        /\ a \in bare => t = h[a] + 1
    <3> HIDE DEF a, bare
    <3> QED BY <2>1 DEF IsRewritten, Gapped, bare
  <2>3. a \in bare <=> m % 2 = 0
    BY GapTokens
  <2>4. Rank(edited, d, t) = m + k
    BY <1>2
  <2>5. /\ edited[t] = "," <=> a \notin bare /\ k % 2 = 1
        /\ a \in bare => k = 1
    <3>1. t - h[a] = k /\ (t = h[a] + 1 => k = 1)
      BY <1>4, <2>1
    <3> QED BY <2>2, <3>1
  <2>6. m \in Nat
    BY <1>2
  <2> HIDE DEF a, bare, k, m
  <2>7. (m + k) % 2 = 0 <=> (m % 2 = 0 <=> k % 2 = 0)
    BY <2>6, <2>1
  <2>8. k % 2 = 1 <=> ~(k % 2 = 0)
    BY <2>1
  <2>9. k = 1 => k % 2 = 1
    BY <2>1
  <2>10. edited[t] = "," <=> (m + k) % 2 = 0
    <3>1. CASE a \in bare
      BY <3>1, <2>3, <2>5, <2>7, <2>8, <2>9
    <3>2. CASE a \notin bare
      BY <3>2, <2>3, <2>5, <2>7, <2>8
    <3> QED BY <3>1, <3>2
  <2> QED BY <2>4, <2>10
<1> SUFFICES ASSUME NEW j \in ItemsOf(edited, d)
             PROVE  edited[j] = "," <=> Rank(edited, d, j) % 2 = 0
  BY DEF Alternates
<1>7. CASE j \in Gap(h, text, c)
  BY <1>6, <1>7
<1>8. ASSUME NEW i \in ItemsOf(text, c), j = h[i]
      PROVE  edited[j] = "," <=> Rank(edited, d, j) % 2 = 0
  <2>1. edited[h[i]] = "," <=> Rank(edited, d, h[i]) % 2 = 0
    BY <1>5
  <2> QED BY <1>8, <2>1
<1>9. j \in Gap(h, text, c) \/ \E i \in ItemsOf(text, c) : j = h[i]
  BY <1>3
<1> HIDE DEF d
<1> QED BY <1>7, <1>8, <1>9

\* No keyword is given twice, and none is followed by a positional argument: what
\* was added stands at the end and names what the call lacked.
LEMMA OrderKept ==
  ASSUME NEW h, NEW text, NEW edited, NEW D, IsRewritten(h, text, edited, D),
         NEW c, Opens(text, c), InOrder(text, c)
  PROVE  InOrder(edited, h[c])
<1> DEFINE d == h[c]
           z == Close(text, c)
           K == ItemsOf(text, c)
           G == Gap(h, text, c)
<1>1. IsImage(h, text, edited)
  BY DEF IsRewritten
<1>2. /\ z - 1 \in 1..Len(text) /\ h[z - 1] \in Nat /\ h[z] \in Nat /\ Len(text) \in Nat
      /\ z \in Nat /\ z \in (c + 2)..Len(text) /\ c \in Nat
      /\ h \in [1..Len(text) -> Nat]
      /\ \A k, m \in 1..Len(text) : k < m <=> h[k] < h[m]
  BY EndsAre
<1>3. z - 1 \in 1..(Len(text) - 1) /\ (z - 1) + 1 = z
  <2>1. z \in Nat /\ z \in (c + 2)..Len(text) /\ c \in Nat /\ Len(text) \in Nat
    BY <1>2
  <2> HIDE DEF z
  <2> QED BY <2>1
<1> HIDE DEF z
<1>4. /\ \A i \in K : i \in 1..Len(text)
      /\ \A j \in ItemsOf(edited, d) : j \in G \/ \E i \in K : j = h[i]
  BY ItemsAre
<1>5. \A i \in K : /\ Keyword(edited[h[i]]) = Keyword(text[i])
                   /\ IsNamed(edited[h[i]]) <=> IsNamed(text[i])
                   /\ edited[h[i]] = "," <=> text[i] = ","
  <2> TAKE i \in K
  <2>1. i \in 1..Len(text)
    BY <1>4
  <2>2. edited[h[i]] = "," <=> text[i] = ","
    <3>1. IsComma(edited[h[i]]) <=> IsComma(text[i])
      BY <1>1, <2>1, CommaIsKept
    <3> QED BY <3>1 DEF IsComma
  <2>3. Keyword(edited[h[i]]) = Keyword(text[i]) /\ (edited[h[i]] = "**kw" <=> text[i] = "**kw")
    BY <1>1, <2>1, ImageTokens
  <2> QED BY <2>2, <2>3 DEF IsNamed
<1>6. \A t \in G : /\ edited[t] \in {","} \cup AddedKeywords
                   /\ edited[t] # "," => ~KeywordArgPresentOrUnknown(text, c, Keyword(edited[t]))
  BY GapTokens
<1>7. ASSUME NEW t \in G, NEW u \in G, t < u, edited[u] # ","
      PROVE  edited[t] # edited[u]
  <2> DEFINE a == z - 1
  <2>1. a \in 1..(Len(text) - 1) /\ a + 1 = z
    BY <1>3
  <2>2. G = (h[a] + 1)..(h[a + 1] - 1)
    BY <2>1 DEF Gap, z
  <2>3. h[a] \in Nat /\ h[a + 1] \in Nat
    BY <1>2, <2>1
  <2>4. t \in (h[a] + 1)..(h[a + 1] - 1) /\ u \in (t + 1)..(h[a + 1] - 1)
    <3> DEFINE from == h[a]
               to == h[a + 1]
    <3>1. from \in Nat /\ to \in Nat /\ t \in (from + 1)..(to - 1) /\ u \in (from + 1)..(to - 1)
      BY <2>3, <2>2
    <3>2. t < u
      BY <1>7
    <3> HIDE DEF from, to, a, G
    <3>3. t \in (from + 1)..(to - 1) /\ u \in (t + 1)..(to - 1)
      BY <3>2, <3>1
    <3> QED BY <3>3 DEF from, to
  <2>5. Gapped(h, text, edited, BareEnds(text), D)
    BY DEF IsRewritten
  <2> HIDE DEF a, G
  <2>6. \A j \in (h[a] + 1)..(h[a + 1] - 1) :
          \A l \in (j + 1)..(h[a + 1] - 1) : edited[l] # "," => edited[j] # edited[l]
    BY <2>1, <2>5 DEF Gapped
  <2> QED BY <1>7, <2>4, <2>6
<1>8. \A i \in K, t \in G : h[i] < t
  <2> TAKE i \in K, t \in G
  <2>1. i \in 1..Len(text) /\ i \in (c + 2)..(z - 1)
    BY <1>4 DEF ItemsOf, Selected, z
  <2>2. ~(z - 1 < i)
    BY <1>2, <2>1
  <2>3. ~(h[z - 1] < h[i]) /\ h[i] \in Nat
    BY <1>2, <2>1, <2>2
  <2>4. G = (h[z - 1] + 1)..(h[z] - 1)
    BY DEF Gap, z
  <2> QED BY <1>2, <2>3, <2>4
<1>9. \A i \in K : Argument(text, c, i)
  BY DEF ItemsOf, Selected, Argument
<1>10. \A t \in G : t \in Nat
  BY <1>2 DEF Gap, z
<1> HIDE DEF K, G
<1> SUFFICES ASSUME NEW j \in ItemsOf(edited, d), NEW k \in ItemsOf(edited, d), j < k
             PROVE  GoesBefore(edited[j], edited[k])
  BY DEF InOrder
<1>11. ASSUME NEW i \in K, NEW l \in K, j = h[i], k = h[l] PROVE GoesBefore(edited[j], edited[k])
  <2>1. i < l
    BY <1>2, <1>4, <1>11
  <2>2. GoesBefore(text[i], text[l])
    BY <2>1 DEF InOrder, K
  <2> QED BY <1>5, <1>11, <2>2 DEF GoesBefore
<1>12. ASSUME NEW i \in K, j = h[i], k \in G PROVE GoesBefore(edited[j], edited[k])
  <2> SUFFICES ASSUME edited[k] # "," PROVE GoesBefore(edited[j], edited[k])
    BY DEF GoesBefore
  <2>1. edited[k] \in AddedKeywords /\ ~HasKeywordArg(text, c, Keyword(edited[k]))
    BY <1>6, <1>12 DEF KeywordArgPresentOrUnknown
  <2>2. Keyword(text[i]) # Keyword(edited[k])
    BY <1>9, <2>1, KeywordIsArgument
  <2> QED BY <1>5, <1>12, <2>1, <2>2, GapKeywords DEF GoesBefore
<1>13. ASSUME j \in G, k \in G PROVE GoesBefore(edited[j], edited[k])
  <2> SUFFICES ASSUME edited[k] # "," PROVE GoesBefore(edited[j], edited[k])
    BY DEF GoesBefore
  <2>1. edited[k] \in AddedKeywords /\ edited[j] # edited[k]
    BY <1>6, <1>7, <1>13
  <2>2. Keyword(edited[j]) # "none" => Keyword(edited[j]) # Keyword(edited[k])
    BY <1>6, <1>13, <2>1, GapKeywords
  <2> QED BY <2>1, <2>2, GapKeywords DEF GoesBefore
<1>14. ASSUME NEW l \in K, j \in G, k = h[l] PROVE FALSE
  <2>1. h[l] < j /\ h[l] \in Nat /\ j \in Nat
    BY <1>2, <1>4, <1>8, <1>10, <1>14
  <2> QED BY <1>14, <2>1
<1> QED BY <1>4, <1>11, <1>12, <1>13, <1>14

\* How a list ends is still in sight.
LEMMA EndSeenKept ==
  ASSUME NEW h, NEW text, NEW edited, NEW D, IsRewritten(h, text, edited, D),
         NEW c, Opens(text, c), EndIsSeen(text, c)
  PROVE  EndIsSeen(edited, h[c])
<1> DEFINE d == h[c]
           z == Close(text, c)
           W == WrittenOf(text, c)
           V == WrittenOf(edited, d)
           G == Gap(h, text, c)
<1>1. IsImage(h, text, edited)
  BY DEF IsRewritten
<1>2. /\ h[z - 1] \in Nat /\ h[z] \in Nat /\ h[z - 1] < h[z]
      /\ h \in [1..Len(text) -> Nat] /\ Len(text) \in Nat
      /\ \A k, m \in 1..Len(text) : k < m <=> h[k] < h[m]
  BY EndsAre
<1>3. /\ \A i \in W : h[i] \in V /\ i \in 1..Len(text)
      /\ G \subseteq V
      /\ \A j \in V : j \in G \/ \E i \in W : j = h[i]
  BY ItemsAre
<1>4. \A t \in G : edited[t] \notin Comment
  <2> TAKE t \in G
  <2>1. edited[t] \in {","} \cup AddedKeywords
    BY GapTokens
  <2> QED BY <2>1 DEF AddedKeywords, Comment
<1>5. \A i \in W, t \in G : h[i] < t
  <2> TAKE i \in W, t \in G
  <2>1. i \in (c + 2)..(z - 1) /\ i \in 1..Len(text)
    BY <1>3 DEF WrittenOf, Selected
  <2>2. c \in Nat /\ z \in Nat /\ z - 1 \in 1..Len(text)
    BY EndsAre
  <2>3. G = (h[z - 1] + 1)..(h[z] - 1)
    BY DEF Gap
  <2> HIDE DEF z, G
  <2>4. ~(z - 1 < i)
    BY <2>1, <2>2
  <2>5. ~(h[z - 1] < h[i]) /\ h[i] \in Nat
    BY <1>2, <2>1, <2>2, <2>4
  <2> QED BY <1>2, <2>3, <2>5
<1>6. Number(text, c) \in Nat
      /\ Number(edited, d) = Number(text, c) + (h[z] - 1 - h[z - 1])
  BY RanksAre
<1>7. G = {} => h[z] - 1 - h[z - 1] = 0
  <2>1. G = (h[z - 1] + 1)..(h[z] - 1)
    BY DEF Gap
  <2>2. h[z - 1] + 1 \notin (h[z - 1] + 1)..(h[z] - 1) => h[z] - 1 - h[z - 1] = 0
    BY <1>2
  <2> QED BY <2>1, <2>2
<1> HIDE DEF z, W, V, G
<1> SUFFICES ASSUME NEW w \in V, \A k \in V : k <= w, edited[w] \in Comment
             PROVE  Number(edited, d) % 2 = 1 /\ edited[w] # "#,"
  BY DEF EndIsSeen, V
<1>8. PICK i \in W : w = h[i]
  BY <1>3, <1>4
<1>9. i \in 1..Len(text) /\ h[i] \in Nat
  BY <1>2, <1>3
<1>10. G = {}
  <2> SUFFICES ASSUME NEW t \in G PROVE FALSE
    OBVIOUS
  <2>1. t <= h[i] /\ h[i] < t /\ t \in Nat
    <3>1. t \in Nat
      BY <1>2 DEF G, Gap, z
    <3> QED BY <1>3, <1>5, <1>8, <3>1
  <2> QED BY <1>9, <2>1
<1>11. \A k \in W : k <= i
  <2> TAKE k \in W
  <2>1. h[k] <= h[i] /\ k \in 1..Len(text) /\ h[k] \in Nat
    BY <1>2, <1>3, <1>8
  <2>2. ~(i < k)
    BY <1>2, <1>9, <2>1
  <2> QED BY <1>9, <2>1, <2>2
<1>12. edited[w] = text[i]
  <2>1. edited[h[i]] = text[i] \/ (text[i] \in Replaceable /\ edited[h[i]] \in Replacing)
    BY <1>1, <1>9, ImageTokens
  <2>2. Replacing \cap Comment = {}
    BY DEF Replacing, Comment
  <2> QED BY <1>8, <2>1, <2>2
<1>13. Number(text, c) % 2 = 1 /\ text[i] # "#,"
  BY <1>11, <1>12 DEF EndIsSeen, W
<1>14. Number(edited, d) = Number(text, c)
  BY <1>6, <1>7, <1>10
<1> QED BY <1>12, <1>13, <1>14

\* What is inserted into a list is a keyword, alone or with others.
LEMMA GapHasKeyword ==
  ASSUME NEW h, NEW text, NEW edited, NEW D, IsRewritten(h, text, edited, D),
         NEW c, Opens(text, c), Gap(h, text, c) # {}
  PROVE  \E t \in Gap(h, text, c) : edited[t] \in AddedKeywords
<1> DEFINE z == Close(text, c)
           a == z - 1
           last == h[a]
           end == h[z]
           bare == BareEnds(text)
<1>1. last \in Nat /\ end \in Nat /\ last < end
  BY EndsAre
<1>2. a \in 1..(Len(text) - 1) /\ a + 1 = z
  <2>1. z \in Nat /\ z \in (c + 2)..Len(text) /\ c \in Nat /\ Len(text) \in Nat
    BY EndsAre
  <2> HIDE DEF z
  <2> QED BY <2>1
<1>3. Gap(h, text, c) = (last + 1)..(end - 1)
  BY DEF Gap
<1>4. last + 1 \in (last + 1)..(end - 1)
  <2> HIDE DEF last, end
  <2> QED BY <1>1, <1>3
<1>5. Gapped(h, text, edited, bare, D)
  BY DEF IsRewritten
<1>6. h[a + 1] = end
  BY <1>2
<1>7. \A t \in Gap(h, text, c) : edited[t] # "," => edited[t] \in AddedKeywords
  <2> TAKE t \in Gap(h, text, c)
  <2>1. edited[t] \in {","} \cup AddedKeywords
    BY GapTokens
  <2> QED BY <2>1
<1> HIDE DEF a, bare
<1>8. /\ a \notin bare => (h[a + 1] - h[a]) % 2 = 1
      /\ \A j \in (h[a] + 1)..(h[a + 1] - 1) :
           IsComma(edited[j]) <=> a \notin bare /\ (j - h[a]) % 2 = 1
  BY <1>2, <1>5 DEF Gapped, IsComma
<1>9. /\ a \notin bare => (end - last) % 2 = 1
      /\ \A j \in (last + 1)..(end - 1) :
           IsComma(edited[j]) <=> a \notin bare /\ (j - last) % 2 = 1
  BY <1>6, <1>8
<1> HIDE DEF last, end
<1>10. \E t \in (last + 1)..(end - 1) : ~IsComma(edited[t])
  <2>1. CASE a \in bare
    BY <1>4, <1>9, <2>1
  <2>2. CASE a \notin bare
    <3> DEFINE t == last + 2
    <3>1. t - last = 2 /\ 2 % 2 = 0 /\ t \in (last + 1)..(end - 1)
      <4>1. (end - last) % 2 = 1 /\ last + 1 <= end - 1
        BY <1>1, <1>4, <1>9, <2>2
      <4> QED BY <1>1, <4>1
    <3> HIDE DEF t
    <3>2. (t - last) % 2 # 1
      BY <3>1
    <3> QED BY <1>9, <3>1, <3>2
  <2> QED BY <2>1, <2>2
<1> QED BY <1>3, <1>7, <1>10 DEF IsComma

\* A list in which two keywords could be missing does not come to end in a comma.
LEMMA RoomKept ==
  ASSUME NEW h, NEW text, NEW edited, NEW D, IsRewritten(h, text, edited, D),
         NEW c, Opens(text, c), HasRoom(text, c)
  PROVE  HasRoom(edited, h[c])
<1> DEFINE d == h[c]
           z == Close(text, c)
<1>1. IsImage(h, text, edited)
  BY DEF IsRewritten
<1> SUFFICES ASSUME edited[d] = "open_mfdataset", Number(edited, d) % 2 = 0
             PROVE  \E j \in ItemsOf(edited, d) : IsEither(edited[j])
  BY DEF HasRoom
<1>2. /\ \A i \in ItemsOf(text, c) : h[i] \in ItemsOf(edited, d) /\ i \in 1..Len(text)
      /\ Gap(h, text, c) \subseteq ItemsOf(edited, d)
  BY ItemsAre
<1>3. CASE Gap(h, text, c) # {}
  <2>1. PICK t \in Gap(h, text, c) : edited[t] \in AddedKeywords
    BY <1>3, GapHasKeyword
  <2> QED BY <1>2, <2>1, GapKeywords
<1>4. CASE Gap(h, text, c) = {}
  <2>1. h[z] - 1 - h[z - 1] = 0
    <3>1. /\ h[z - 1] \in Nat /\ h[z] \in Nat /\ h[z - 1] < h[z]
      BY EndsAre
    <3>2. Gap(h, text, c) = (h[z - 1] + 1)..(h[z] - 1)
      BY DEF Gap
    <3>3. h[z - 1] + 1 \notin (h[z - 1] + 1)..(h[z] - 1) => h[z] - 1 - h[z - 1] = 0
      BY <3>1
    <3> QED BY <1>4, <3>2, <3>3
  <2>2. /\ Number(text, c) \in Nat
        /\ Number(edited, d) = Number(text, c) + (h[z] - 1 - h[z - 1])
    BY RanksAre
  <2>3. Number(text, c) % 2 = 0
    BY <2>1, <2>2
  <2>4. text[c] = "open_mfdataset"
    <3>1. c \in 1..Len(text)
      BY DEF Opens
    <3>2. edited[h[c]] = text[c] \/ (text[c] \in Replaceable /\ edited[h[c]] \in Replacing)
      BY <1>1, <3>1, ImageTokens
    <3> QED BY <3>2 DEF Replacing
  <2>5. PICK i \in ItemsOf(text, c) : IsEither(text[i])
    BY <2>3, <2>4 DEF HasRoom
  <2>6. i \in 1..Len(text) /\ h[i] \in ItemsOf(edited, d)
    BY <1>2
  <2>7. Keyword(edited[h[i]]) = Keyword(text[i]) /\ (edited[h[i]] = "**kw" <=> text[i] = "**kw")
    BY <1>1, <2>6, ImageTokens
  <2>8. IsEither(edited[h[i]])
    BY <2>5, <2>7 DEF IsEither
  <2> QED BY <2>6, <2>8
<1> QED BY <1>3, <1>4

\* What is called is still a name.
LEMMA CalleesKept ==
  ASSUME NEW h, NEW text, NEW edited, IsImage(h, text, edited),
         Len(text) \in Nat, Len(edited) \in Nat, HasCallees(text)
  PROVE  HasCallees(edited)
<1> DEFINE N == {"(", ")", ","} \cup Newline \cup Comment
<1>1. Replacing \cap N = {}
  BY DEF Replacing, Newline, Comment
<1>2. \A c \in Calls(text) : text[c] \notin N
  BY DEF HasCallees
<1> HIDE DEF N
<1>3. ASSUME NEW d \in Calls(edited) PROVE edited[d] \notin N
  <2>1. PICK c \in Calls(text) : h[c] = d
    BY CallsAreKept
  <2>2. c \in 1..Len(text)
    BY DEF Calls
  <2>3. edited[h[c]] = text[c] \/ (text[c] \in Replaceable /\ edited[h[c]] \in Replacing)
    BY <2>2, ImageTokens
  <2> QED BY <1>1, <1>2, <2>1, <2>3
<1> QED BY <1>3 DEF HasCallees, N

\* The edits of the rules keep a sound text sound.
LEMMA SoundKept ==
  ASSUME NEW h, NEW text, NEW edited, NEW D, IsRewritten(h, text, edited, D)
  PROVE  Sound(edited)
<1>1. /\ Sound(text) /\ IsImage(h, text, edited) /\ Len(text) \in Nat /\ Len(edited) \in Nat
  BY DEF IsRewritten
<1>2. HasCallees(text) /\ \A c \in Calls(text) : Tidy(text, c)
  BY <1>1, SoundByPlace
<1>3. HasCallees(edited)
  BY <1>1, <1>2, CalleesKept
<1>4. ASSUME NEW d \in Calls(edited) PROVE Tidy(edited, d)
  <2>1. PICK c \in Calls(text) : h[c] = d
    BY <1>1, CallsAreKept
  <2>2. /\ Opens(text, c) /\ Alternates(text, c) /\ InOrder(text, c)
        /\ EndIsSeen(text, c) /\ HasRoom(text, c)
    BY <1>2 DEF Tidy
  <2>3. Opens(edited, h[c])
    BY <2>2, EndsAre
  <2>4. Alternates(edited, h[c])
    BY <2>2, AlternatesKept
  <2>5. InOrder(edited, h[c])
    BY <2>2, OrderKept
  <2>6. EndIsSeen(edited, h[c])
    BY <2>2, EndSeenKept
  <2>7. HasRoom(edited, h[c])
    BY <2>2, RoomKept
  <2> QED BY <2>1, <2>3, <2>4, <2>5, <2>6, <2>7 DEF Tidy
<1> QED BY <1>1, <1>3, <1>4, SoundByPlace

-----------------------------------------------------------------------------
(* Line ends and undecoded comments change nothing in them.                *)

\* Texts that differ in line ends and undecoded comments alone, as the file and
\* what is parsed of it do.
Alike(text, other) ==
  /\ Len(text) \in Nat /\ Len(other) = Len(text)
  /\ \A i \in 1..Len(text) :
       \/ other[i] = text[i]
       \/ {text[i], other[i]} \subseteq Newline
       \/ {text[i], other[i]} \subseteq {"#latin1", "#fffd"}

\* Such texts have the same tokens, up to line ends and comments.
LEMMA AlikeTokens ==
  ASSUME NEW text, NEW other, Alike(text, other), NEW i \in 1..Len(text)
  PROVE  /\ \A x : x \notin Newline \cup {"#latin1", "#fffd"} => (other[i] = x <=> text[i] = x)
         /\ other[i] \in Newline <=> text[i] \in Newline
         /\ other[i] \in Comment <=> text[i] \in Comment
         /\ Keyword(other[i]) = Keyword(text[i])
<1>1. \/ other[i] = text[i]
      \/ {text[i], other[i]} \subseteq Newline
      \/ {text[i], other[i]} \subseteq {"#latin1", "#fffd"}
  BY DEF Alike
<1>2. \A x \in Newline \cup {"#latin1", "#fffd"} : Keyword(x) = "none"
  BY DEF Newline, Keyword
<1>3. CASE other[i] = text[i]
  BY <1>3
<1>4. CASE {text[i], other[i]} \subseteq Newline
  <2>1. \A x \in Newline : x \notin Comment
    BY DEF Newline, Comment
  <2> QED BY <1>2, <1>4, <2>1
<1>5. CASE {text[i], other[i]} \subseteq {"#latin1", "#fffd"}
  <2>1. \A x \in {"#latin1", "#fffd"} : x \notin Newline /\ x \in Comment
    BY DEF Newline, Comment
  <2> QED BY <1>2, <1>5, <2>1
<1> QED BY <1>1, <1>3, <1>4, <1>5

\* As many parentheses are open in them.
LEMMA AlikeDepth ==
  ASSUME NEW text, NEW other, Alike(text, other),
         NEW i \in Nat, NEW j \in Nat, 1 <= i, j <= Len(text)
  PROVE  Depth(other, i, j) = Depth(text, i, j)
<1>1. Len(text) \in Nat
  BY DEF Alike
<1>2. \A k \in i..j : k \in 1..Len(text)
  BY <1>1
<1> DEFINE x == "("
           y == ")"
<1>3. x \notin Newline \cup {"#latin1", "#fffd"} /\ y \notin Newline \cup {"#latin1", "#fffd"}
  BY DEF Newline
<1>4. Depth(text, i, j) =
        Cardinality({k \in i..j : text[k] = x}) - Cardinality({k \in i..j : text[k] = y})
  BY DEF Depth
<1>5. Depth(other, i, j) =
        Cardinality({k \in i..j : other[k] = x}) - Cardinality({k \in i..j : other[k] = y})
  BY DEF Depth
<1> HIDE DEF x, y
<1>6. \A k \in i..j : (other[k] = x <=> text[k] = x) /\ (other[k] = y <=> text[k] = y)
  BY <1>2, <1>3, AlikeTokens
<1>7. {k \in i..j : other[k] = x} = {k \in i..j : text[k] = x}
  BY <1>6
<1>8. {k \in i..j : other[k] = y} = {k \in i..j : text[k] = y}
  BY <1>6
<1> QED BY <1>4, <1>5, <1>7, <1>8

\* They have the same calls.
LEMMA AlikeCalls ==
  ASSUME NEW text, NEW other, Alike(text, other)
  PROVE  Calls(other) = Calls(text)
<1>1. Len(text) \in Nat /\ Len(other) = Len(text)
  BY DEF Alike
<1> DEFINE x == "("
<1>2. x \notin Newline \cup {"#latin1", "#fffd"}
  BY DEF Newline
<1>3. /\ Calls(text) = {i \in 1..(Len(text) - 1) : text[i + 1] = x}
      /\ Calls(other) = {i \in 1..(Len(text) - 1) : other[i + 1] = x}
  BY <1>1 DEF Calls
<1> HIDE DEF x
<1>4. \A i \in 1..(Len(text) - 1) : other[i + 1] = x <=> text[i + 1] = x
  <2> TAKE i \in 1..(Len(text) - 1)
  <2> DEFINE m == i + 1
  <2>1. m \in 1..Len(text)
    BY <1>1
  <2> HIDE DEF m
  <2>2. other[m] = x <=> text[m] = x
    BY <1>2, <2>1, AlikeTokens
  <2> QED BY <2>2 DEF m
<1> QED BY <1>3, <1>4

\* The lists of the calls have their tokens at the same places.
LEMMA AlikeLists ==
  ASSUME NEW text, NEW other, Alike(text, other), NEW c, Opens(text, c)
  PROVE  /\ Opens(other, c) /\ Close(other, c) = Close(text, c)
         /\ ItemsOf(other, c) = ItemsOf(text, c) /\ WrittenOf(other, c) = WrittenOf(text, c)
         /\ \A i \in ItemsOf(text, c) \cup WrittenOf(text, c) : i \in 1..Len(text)
<1>1. Len(text) \in Nat /\ Len(other) = Len(text)
  BY DEF Alike
<1>2. /\ c \in 1..Len(text) /\ text[c] \notin Parenthesis
      /\ text[c + 1] = "(" /\ Closings(text, c) # {}
  BY DEF Opens
<1>3. \A j \in c..Len(text) : Depth(other, c, j) = Depth(text, c, j)
  <2> TAKE j \in c..Len(text)
  <2>1. c \in Nat /\ 1 <= c /\ j \in Nat /\ j <= Len(text)
    BY <1>1, <1>2
  <2> QED BY <2>1, AlikeDepth
<1>4. Closings(other, c) = Closings(text, c)
  <2>1. \A j \in (c + 2)..Len(text) : j \in c..Len(text)
    BY <1>1, <1>2
  <2>2. /\ Closings(text, c) = {j \in (c + 2)..Len(text) : Depth(text, c, j) = 0}
        /\ Closings(other, c) = {j \in (c + 2)..Len(text) : Depth(other, c, j) = 0}
    BY <1>1 DEF Closings
  <2> QED BY <1>3, <2>1, <2>2
<1>5. Close(other, c) = Close(text, c)
  BY <1>4 DEF Close
<1>6. Close(text, c) \in (c + 2)..Len(text)
  BY InsideIsOpen
<1>7. Opens(other, c)
  <2>1. c \in Calls(text)
    <3>1. c + 1 \in 1..Len(text)
      BY <1>1, <1>2, <1>6
    <3> QED BY <1>1, <1>2, <3>1 DEF Calls
  <2>2. other[c + 1] = "("
    BY <2>1, AlikeCalls DEF Calls
  <2>3. other[c] \notin Parenthesis
    <3>1. \A x \in Parenthesis : x \notin Newline \cup {"#latin1", "#fffd"}
      BY DEF Parenthesis, Newline
    <3>2. \A x \in Parenthesis : other[c] = x <=> text[c] = x
      BY <1>2, <3>1, AlikeTokens
    <3> QED BY <1>2, <3>2
  <2> QED BY <1>1, <1>2, <1>4, <2>2, <2>3 DEF Opens
<1>8. \A i \in (c + 2)..(Close(text, c) - 1) : i \in 1..Len(text) /\ i \in c..Len(text)
  <2> DEFINE z == Close(text, c)
  <2>1. z \in (c + 2)..Len(text)
    BY <1>6
  <2> HIDE DEF z
  <2>2. \A i \in (c + 2)..(z - 1) : i \in 1..Len(text) /\ i \in c..Len(text)
    BY <1>1, <1>2, <2>1
  <2> QED BY <2>2 DEF z
<1>9. \A i \in 1..Len(text) : /\ other[i] \in {")"} <=> text[i] \in {")"}
                              /\ other[i] \in Newline <=> text[i] \in Newline
                              /\ other[i] \in Comment <=> text[i] \in Comment
  <2> TAKE i \in 1..Len(text)
  <2>1. ")" \notin Newline \cup {"#latin1", "#fffd"}
    BY DEF Newline
  <2> DEFINE x == ")"
  <2> HIDE DEF x
  <2>2. other[i] = x <=> text[i] = x
    BY <2>1, AlikeTokens DEF x
  <2>3. (other[i] \in Newline <=> text[i] \in Newline)
        /\ (other[i] \in Comment <=> text[i] \in Comment)
    BY AlikeTokens
  <2> QED BY <2>2, <2>3 DEF x
<1> DEFINE C == {")"}
<1>10. /\ ItemsOf(text, c) = {i \in (c + 2)..(Close(text, c) - 1) :
            Depth(text, c, i) = 1 /\ text[i] \notin C \cup Newline \cup Comment}
       /\ ItemsOf(other, c) = {i \in (c + 2)..(Close(text, c) - 1) :
            Depth(other, c, i) = 1 /\ other[i] \notin C \cup Newline \cup Comment}
       /\ WrittenOf(text, c) = {i \in (c + 2)..(Close(text, c) - 1) :
            Depth(text, c, i) = 1 /\ text[i] \notin C \cup Newline}
       /\ WrittenOf(other, c) = {i \in (c + 2)..(Close(text, c) - 1) :
            Depth(other, c, i) = 1 /\ other[i] \notin C \cup Newline}
  BY <1>5 DEF ItemsOf, WrittenOf, Selected
<1>11. \A i \in 1..Len(text) : /\ other[i] \in C <=> text[i] \in C
                               /\ other[i] \in Newline <=> text[i] \in Newline
                               /\ other[i] \in Comment <=> text[i] \in Comment
  BY <1>9
<1> HIDE DEF C
<1>12. ItemsOf(other, c) = ItemsOf(text, c)
  BY <1>3, <1>8, <1>10, <1>11
<1>13. WrittenOf(other, c) = WrittenOf(text, c)
  BY <1>3, <1>8, <1>10, <1>11
<1>14. \A i \in ItemsOf(text, c) \cup WrittenOf(text, c) : i \in 1..Len(text)
  BY <1>8, <1>10
<1> QED BY <1>5, <1>7, <1>12, <1>13, <1>14

\* What is tidy in one is tidy in the other.
LEMMA AlikeTidy ==
  ASSUME NEW text, NEW other, Alike(text, other), NEW c, Tidy(text, c)
  PROVE  Tidy(other, c)
<1> DEFINE K == ItemsOf(text, c)
           W == WrittenOf(text, c)
<1>1. /\ Opens(text, c) /\ Alternates(text, c) /\ InOrder(text, c)
      /\ EndIsSeen(text, c) /\ HasRoom(text, c) /\ c \in 1..Len(text)
  BY DEF Tidy, Opens
<1>2. /\ Opens(other, c) /\ Close(other, c) = Close(text, c)
      /\ ItemsOf(other, c) = K /\ WrittenOf(other, c) = W
      /\ \A i \in K \cup W : i \in 1..Len(text)
  BY <1>1, AlikeLists
<1>3. /\ \A i : Rank(other, c, i) = Rank(text, c, i)
      /\ Number(other, c) = Number(text, c)
  BY <1>2 DEF Rank, Number
<1>4. \A i \in 1..Len(text) : /\ IsComma(other[i]) <=> IsComma(text[i])
                              /\ other[i] = "**kw" <=> text[i] = "**kw"
                              /\ other[i] = "#," <=> text[i] = "#,"
                              /\ other[i] = "open_mfdataset" <=> text[i] = "open_mfdataset"
                              /\ Keyword(other[i]) = Keyword(text[i])
                              /\ other[i] \in Comment <=> text[i] \in Comment
  <2> TAKE i \in 1..Len(text)
  <2> DEFINE special == Newline \cup {"#latin1", "#fffd"}
             comma == ","
             open == "#,"
  <2>1. /\ comma \notin special /\ "**kw" \notin special /\ open \notin special
        /\ "open_mfdataset" \notin special
    BY DEF Newline
  <2> HIDE DEF comma, open, special
  <2>2. \A x : x \notin special => (other[i] = x <=> text[i] = x)
    BY AlikeTokens DEF special
  <2>3. (other[i] = comma <=> text[i] = comma) /\ (other[i] = open <=> text[i] = open)
    BY <2>1, <2>2
  <2>4. (other[i] = "**kw" <=> text[i] = "**kw")
        /\ (other[i] = "open_mfdataset" <=> text[i] = "open_mfdataset")
    BY <2>1, <2>2
  <2>5. Keyword(other[i]) = Keyword(text[i]) /\ (other[i] \in Comment <=> text[i] \in Comment)
    BY AlikeTokens
  <2>6. IsComma(other[i]) <=> IsComma(text[i])
    BY <2>3 DEF comma, IsComma
  <2>7. other[i] = "#," <=> text[i] = "#,"
    BY <2>3 DEF open
  <2> QED BY <2>4, <2>5, <2>6, <2>7
<1> HIDE DEF K, W
<1>5. Alternates(other, c)
  <2>1. \A i \in K : IsComma(text[i]) <=> Rank(text, c, i) % 2 = 0
    BY <1>1 DEF Alternates, IsComma, K
  <2>2. \A i \in K : IsComma(other[i]) <=> Rank(other, c, i) % 2 = 0
    BY <1>2, <1>3, <1>4, <2>1
  <2> QED BY <1>2, <2>2 DEF Alternates, IsComma
<1>6. InOrder(other, c)
  <2> SUFFICES ASSUME NEW i \in K, NEW j \in K, i < j PROVE GoesBefore(other[i], other[j])
    BY <1>2 DEF InOrder
  <2>1. GoesBefore(text[i], text[j])
    BY <1>1 DEF InOrder, K
  <2>2. \A k \in {i, j} : /\ IsComma(other[k]) <=> IsComma(text[k])
                          /\ Keyword(other[k]) = Keyword(text[k])
                          /\ IsNamed(other[k]) <=> IsNamed(text[k])
    BY <1>2, <1>4 DEF IsNamed
  <2> QED BY <2>1, <2>2 DEF GoesBefore, IsComma
<1>7. EndIsSeen(other, c)
  <2> SUFFICES ASSUME NEW w \in W, \A k \in W : k <= w, other[w] \in Comment
               PROVE  Number(other, c) % 2 = 1 /\ other[w] # "#,"
    BY <1>2 DEF EndIsSeen
  <2>1. text[w] \in Comment /\ (other[w] = "#," <=> text[w] = "#,")
    BY <1>2, <1>4
  <2>2. Number(text, c) % 2 = 1 /\ text[w] # "#,"
    BY <1>1, <2>1 DEF EndIsSeen, W
  <2> QED BY <1>3, <2>1, <2>2
<1>8. HasRoom(other, c)
  <2> SUFFICES ASSUME other[c] = "open_mfdataset", Number(other, c) % 2 = 0
               PROVE  \E i \in K : IsEither(other[i])
    BY <1>2 DEF HasRoom
  <2>1. text[c] = "open_mfdataset" /\ Number(text, c) % 2 = 0
    BY <1>1, <1>3, <1>4
  <2>2. PICK i \in K : IsEither(text[i])
    BY <1>1, <2>1 DEF HasRoom, K
  <2>3. IsEither(other[i])
    BY <1>2, <1>4, <2>2 DEF IsEither
  <2> QED BY <2>3
<1> QED BY <1>2, <1>5, <1>6, <1>7, <1>8 DEF Tidy

\* One is sound if the other is.
LEMMA AlikeSound ==
  ASSUME NEW text, NEW other, Alike(text, other), Sound(text)
  PROVE  Sound(other)
<1>1. Len(text) \in Nat /\ Len(other) \in Nat /\ Calls(other) = Calls(text)
  BY AlikeCalls DEF Alike
<1>2. HasCallees(text) /\ \A c \in Calls(text) : Tidy(text, c)
  BY <1>1, SoundByPlace
<1>3. \A c \in Calls(other) : Tidy(other, c)
  BY <1>1, <1>2, AlikeTidy
<1>4. HasCallees(other)
  <2> DEFINE N == {"(", ")", ","} \cup Newline \cup Comment
             special == Newline \cup {"#latin1", "#fffd"}
  <2> SUFFICES ASSUME NEW c \in Calls(text) PROVE other[c] \notin N
    BY <1>1 DEF HasCallees
  <2>1. text[c] \notin N /\ c \in 1..Len(text)
    <3>1. \A k \in Calls(text) : text[k] \notin N
      BY <1>2 DEF HasCallees
    <3>2. c \in 1..Len(text)
      BY DEF Calls
    <3> QED BY <3>1, <3>2
  <2>2. special \subseteq N
    BY DEF Newline, Comment
  <2>3. other[c] = text[c] \/ text[c] \in special
    BY <2>1 DEF Alike
  <2> HIDE DEF N, special
  <2> QED BY <2>1, <2>2, <2>3
<1> QED BY <1>1, <1>3, <1>4, SoundByPlace

-----------------------------------------------------------------------------
(* A run, and what is left of the file.                                    *)

\* A UTF-8 file with one kind of line ending.
IsPlain(text) == Uniform(text) /\ ~Contains(text, "#latin1")

Parsing(text) == Normalised(Decoded(text))

LEMMA ParsingIs ==
  ASSUME NEW text \in Seq(Byte)
  PROVE  /\ Parsing(text) \in Seq(Byte) /\ Len(Parsing(text)) = Len(text)
         /\ Decoded(text) \in Seq(Byte)
         /\ \A i \in 1..Len(text) : Parsing(text)[i] \notin {"CRLF", "#latin1"}
         /\ IsPlain(text) =>
              /\ Decoded(text) = text
              /\ \A i \in 1..Len(text) :
                   Parsing(text)[i] = IF text[i] = "CRLF" THEN "LF" ELSE text[i]
<1>1. {"LF", "CRLF", "#fffd"} \subseteq Byte
  BY TextAssumption DEF Newline
<1>2. Decoded(text) \in Seq(Byte) /\ Len(Decoded(text)) = Len(text)
      /\ \A i \in 1..Len(text) :
           Decoded(text)[i] = IF text[i] = "#latin1" THEN "#fffd" ELSE text[i]
  BY <1>1 DEF Decoded
<1> DEFINE d == Decoded(text)
<1> HIDE DEF d
<1>3. Normalised(d) \in Seq(Byte) /\ Len(Normalised(d)) = Len(d)
      /\ \A i \in 1..Len(d) : Normalised(d)[i] = IF d[i] = "CRLF" THEN "LF" ELSE d[i]
  <2>1. d \in Seq(Byte)
    BY <1>2 DEF d
  <2> QED BY <1>1, <2>1 DEF Normalised
<1>4. IsPlain(text) => \A i \in 1..Len(text) : Decoded(text)[i] = text[i]
  BY <1>2 DEF IsPlain, Contains
<1>5. IsPlain(text) => Decoded(text) = text
  BY <1>2, <1>4, SeqEqual
<1> QED BY <1>2, <1>3, <1>5 DEF Parsing, d

\* What is parsed of a file is sound if the file is, and the other way round.
LEMMA ParsedSound ==
  ASSUME NEW text \in Seq(Byte)
  PROVE  Sound(text) <=> Sound(Parsing(text))
<1> DEFINE other == Parsing(text)
<1>1. {"LF", "CRLF", "#fffd"} \subseteq Byte
  BY TextAssumption DEF Newline
<1>2. Decoded(text) \in Seq(Byte) /\ Len(Decoded(text)) = Len(text)
      /\ \A i \in 1..Len(text) :
           Decoded(text)[i] = IF text[i] = "#latin1" THEN "#fffd" ELSE text[i]
  BY <1>1 DEF Decoded
<1>3. /\ Len(other) = Len(text)
      /\ \A i \in 1..Len(text) :
           other[i] = IF Decoded(text)[i] = "CRLF" THEN "LF" ELSE Decoded(text)[i]
  BY <1>1, <1>2 DEF Parsing, Normalised
<1> HIDE DEF other
<1>4. \A i \in 1..Len(text) :
        \/ other[i] = text[i]
        \/ text[i] = "CRLF" /\ other[i] = "LF"
        \/ text[i] = "#latin1" /\ other[i] = "#fffd"
  BY <1>2, <1>3
<1>5. Alike(text, other) /\ Alike(other, text)
  <2>1. Len(text) \in Nat
    OBVIOUS
  <2> QED BY <1>3, <1>4, <2>1 DEF Alike, Newline
<1>6. Sound(text) => Sound(other)
  BY <1>5, AlikeSound
<1>7. Sound(other) => Sound(text)
  BY <1>5, AlikeSound
<1> QED BY <1>6, <1>7 DEF other

\* The text that is written is parsed by the next run as the edits left it.
LEMMA ParsedAgain ==
  ASSUME NEW before, NEW text \in Seq(Byte),
         \A i \in 1..Len(text) : text[i] \notin {"CRLF", "#latin1"}
  PROVE  Parsing(RestoreLineEndings(before, text)) = text
<1>1. {"LF", "CRLF", "#fffd"} \subseteq Byte
  BY TextAssumption DEF Newline
<1> DEFINE new == RestoreLineEndings(before, text)
<1>2. new \in Seq(Byte) /\ Len(new) = Len(text)
      /\ \A i \in 1..Len(text) : new[i] = text[i] \/ (text[i] = "LF" /\ new[i] = "CRLF")
  BY <1>1 DEF RestoreLineEndings
<1> HIDE DEF new
<1>3. Decoded(new) = [i \in 1..Len(text) |-> new[i]]
  BY <1>2 DEF Decoded
<1>4. Decoded(new) \in Seq(Byte) /\ Len(Decoded(new)) = Len(text)
      /\ \A i \in 1..Len(text) : Decoded(new)[i] = new[i]
  BY <1>2, <1>3
<1> DEFINE d == Decoded(new)
           t == Normalised(d)
<1> HIDE DEF d
<1>5. t \in Seq(Byte) /\ Len(t) = Len(text)
      /\ \A i \in 1..Len(text) : t[i] = IF d[i] = "CRLF" THEN "LF" ELSE d[i]
  BY <1>1, <1>4 DEF Normalised, d
<1>6. \A i \in 1..Len(text) : t[i] = text[i]
  BY <1>2, <1>4, <1>5 DEF d
<1> HIDE DEF t
<1>7. t = text
  BY <1>5, <1>6, SeqEqual
<1> QED BY <1>7 DEF Parsing, t, d, new

LEMMA RestoredTyped ==
  ASSUME NEW before, NEW text \in Seq(Byte)
  PROVE  RestoreLineEndings(before, text) \in Seq(Byte)
<1>1. {"LF", "CRLF", "#fffd"} \subseteq Byte
  BY TextAssumption DEF Newline
<1> QED BY <1>1 DEF RestoreLineEndings

\* No rule rewrites a line ending, or writes one.
LEMMA LineEndingsStay ==
  /\ \A token : Modulo(token) = "LF" <=> token = "LF"
  /\ Written \cap {"LF", "CRLF", "#latin1"} = {}
<1>1. Written \cap {"LF", "CRLF", "#latin1"} = {}
  BY DEF Written
<1>2. ASSUME NEW token PROVE Modulo(token) = "LF" <=> token = "LF"
  <2>1. DOMAIN NewName = {"math_sqrt", "matrix", "applymap"}
    BY DEF NewName
  <2>2. NewName["math_sqrt"] = "np_sqrt" /\ NewName["matrix"] = "array"
        /\ NewName["applymap"] = "map"
    BY DEF NewName
  <2>3. CASE token \in DOMAIN NewName
    <3>1. token # "dask=allowed" /\ token # "LF"
      BY <2>1, <2>3
    <3>2. Modulo(token) = NewName[token]
      BY <2>3, <3>1 DEF Modulo
    <3>3. NewName[token] # "LF"
      BY <2>1, <2>2, <2>3
    <3> QED BY <3>1, <3>2, <3>3
  <2>4. CASE token \notin DOMAIN NewName
    BY <2>4 DEF Modulo
  <2> QED BY <2>3, <2>4
<1> QED BY <1>1, <1>2

LEMMA RestoredIs ==
  ASSUME NEW text \in Seq(Byte), IsPlain(text), NEW edited, Kept(Parsing(text), edited)
  PROVE  LET new == RestoreLineEndings(Decoded(text), edited)
         IN  new \in Seq(Byte) /\ IsPlain(new) /\ Carries(text, new, 0)
<1> DEFINE new == RestoreLineEndings(Decoded(text), edited)
           t == Parsing(text)
<1>1. /\ t \in Seq(Byte) /\ Len(t) = Len(text) /\ Decoded(text) = text
      /\ \A i \in 1..Len(text) : t[i] = IF text[i] = "CRLF" THEN "LF" ELSE text[i]
  BY ParsingIs
<1>2. edited \in Seq(Byte) /\ Len(edited) \in Nat /\ Len(text) \in Nat
  BY DEF Kept
<1>3. PICK lowest, h : IsPlacing(h, t, edited, lowest)
  BY DEF Kept, Carries
<1>4. /\ h \in [1..Len(text) -> Nat]
      /\ \A i \in 1..Len(text) : h[i] \in 1..Len(edited) /\ Modulo(edited[h[i]]) = Modulo(t[i])
      /\ \A i, j \in 1..Len(text) : i < j => h[i] < h[j]
  BY <1>1, <1>3 DEF IsPlacing
<1>5. \A j \in 1..Len(edited) : edited[j] \in Written \/ \E i \in 1..Len(text) : edited[j] = t[i]
  BY <1>1 DEF Kept, OfTheseTokens
<1>6. new \in Seq(Byte)
  BY <1>2, RestoredTyped
<1>7. \A i \in 1..Len(text) : text[i] # "#latin1"
  BY DEF IsPlain, Contains
<1>8. \A j \in 1..Len(edited) : edited[j] # "#latin1" /\ edited[j] # "CRLF"
  <2>1. \A i \in 1..Len(text) : t[i] # "#latin1" /\ t[i] # "CRLF"
    BY <1>1, <1>7
  <2> QED BY <1>5, <2>1, LineEndingsStay
<1>9. CASE Contains(text, "CRLF")
  <2>1. \A i \in 1..Len(text) : text[i] # "LF"
    BY <1>9 DEF IsPlain, Uniform, Contains
  <2>2. new = [i \in 1..Len(edited) |-> IF edited[i] = "LF" THEN "CRLF" ELSE edited[i]]
    BY <1>1, <1>9 DEF RestoreLineEndings
  <2>3. Len(new) = Len(edited)
        /\ \A i \in 1..Len(edited) : new[i] = IF edited[i] = "LF" THEN "CRLF" ELSE edited[i]
    BY <1>2, <2>2
  <2> HIDE DEF new, t
  <2>4. \A j \in 1..Len(new) : new[j] # "LF" /\ new[j] # "#latin1"
    BY <1>8, <2>3
  <2>5. IsPlain(new)
    BY <2>4 DEF IsPlain, Uniform, Contains
  <2>6. ASSUME NEW i \in 1..Len(text) PROVE Modulo(new[h[i]]) = Modulo(text[i])
    <3>1. h[i] \in 1..Len(edited) /\ Modulo(edited[h[i]]) = Modulo(t[i])
      BY <1>4
    <3>2. edited[h[i]] = "LF" <=> t[i] = "LF"
      BY <3>1, LineEndingsStay
    <3>3. CASE text[i] = "CRLF"
      <4>1. edited[h[i]] = "LF"
        BY <1>1, <3>2, <3>3
      <4>2. new[h[i]] = "CRLF"
        BY <2>3, <3>1, <4>1
      <4> QED BY <3>3, <4>2
    <3>4. CASE text[i] # "CRLF"
      <4>1. t[i] = text[i] /\ t[i] # "LF"
        BY <1>1, <2>1, <3>4
      <4>2. new[h[i]] = edited[h[i]]
        BY <2>3, <3>1, <3>2, <4>1
      <4> QED BY <3>1, <4>1, <4>2
    <3> QED BY <3>3, <3>4
  <2>7. IsPlacing(h, text, new, 0)
    BY <1>4, <2>3, <2>6 DEF IsPlacing
  <2> QED BY <1>6, <2>5, <2>7 DEF Carries, new
<1>10. CASE ~Contains(text, "CRLF")
  <2>1. new = edited
    BY <1>1, <1>10 DEF RestoreLineEndings
  <2>2. \A i \in 1..Len(text) : t[i] = text[i]
    BY <1>1, <1>10 DEF Contains
  <2> HIDE DEF new, t
  <2>3. IsPlain(new)
    BY <1>8, <2>1 DEF IsPlain, Uniform, Contains
  <2>4. IsPlacing(h, text, new, 0)
    BY <1>4, <2>1, <2>2 DEF IsPlacing
  <2> QED BY <1>6, <2>3, <2>4 DEF Carries, new
<1> QED BY <1>9, <1>10

\* However often `xray fix` was run, no edit was dropped, no rule of a run that
\* wrote has one left, and a plain file has its tokens in their places.
FileInv ==
  /\ original \in Seq(Byte) /\ raw \in Seq(Byte) /\ skipped = 0
  /\ Fixes(Parsing(raw), settled) = <<>>
  /\ IsPlain(original) => IsPlain(raw) /\ Carries(original, raw, 0)
  /\ PlainCalls(original) => Sound(raw)

LEMMA InitFile == FileInit => FileInv
<1> SUFFICES ASSUME FileInit PROVE FileInv
  OBVIOUS
<1>1. original \in Seq(Byte) /\ raw = original /\ skipped = 0 /\ settled = {}
  BY TextAssumption DEF FileInit
<1>2. Carries(original, raw, 0)
  <2>1. \E h : IsPlacing(h, original, original, 0) /\ IsImage(h, original, original)
    BY <1>1, CarriesItself
  <2> QED BY <1>1, <2>1 DEF Carries
<1>3. Fixes(Parsing(raw), settled) = <<>>
  <2>1. Len(Parsing(raw)) \in Nat
    BY <1>1, ParsingIs
  <2> QED BY <1>1, <2>1, FixesNothing
<1>4. PlainCalls(original) => Sound(raw)
  BY <1>1, TextAssumption, CallAssumption DEF FileInit, Sound
<1> QED BY <1>1, <1>2, <1>3, <1>4 DEF FileInv

LEMMA RunKeepsFile ==
  ASSUME FileInv, NEW rules, NEW writes \in BOOLEAN, RunFix(rules, writes)
  PROVE  FileInv'
<1> DEFINE parsed == Parsing(raw)
           outcome == Apply(parsed, Fixes(parsed, rules))
           restored == RestoreLineEndings(Decoded(raw), outcome.out)
<1>1. original \in Seq(Byte) /\ raw \in Seq(Byte) /\ skipped = 0 /\ Fixes(parsed, settled) = <<>>
  BY DEF FileInv
<1>2. /\ Parses(parsed) /\ Len(parsed) <= MaxUsize /\ skipped' = outcome.skipped
      /\ original' = original
      /\ raw' = IF outcome.out # parsed /\ writes THEN restored ELSE raw
      /\ settled' = IF writes THEN settled \cup rules ELSE settled
  BY DEF RunFix, Parsing
<1>3. parsed \in Seq(Byte) /\ \A i \in 1..Len(parsed) : parsed[i] \notin {"CRLF", "#latin1"}
  BY <1>1, ParsingIs
<1>4. parsed = Parsing(raw)
  OBVIOUS
<1> HIDE DEF parsed
<1>5. Fixes(parsed, rules) \in Seq(EditsOf(parsed)) /\ Distinct(Fixes(parsed, rules))
  BY <1>2, <1>3, FixesAre
<1>6. /\ outcome.skipped = 0 /\ Kept(parsed, outcome.out)
      /\ \E h : /\ IsImage(h, parsed, outcome.out)
                /\ AllDone(h, parsed, outcome.out, Fixes(parsed, rules))
                /\ Regular(Fixes(parsed, rules), BareEnds(parsed)) =>
                     Gapped(h, parsed, outcome.out, BareEnds(parsed),
                            EditSet(Fixes(parsed, rules)))
  BY <1>2, <1>3, <1>5, ApplyKeeps
<1> HIDE DEF outcome
<1>7. Fixes(outcome.out, settled \cup rules) = <<>>
  <2>1. PICK h : /\ IsImage(h, parsed, outcome.out)
                 /\ AllDone(h, parsed, outcome.out, Fixes(parsed, rules))
    BY <1>6
  <2>2. Len(outcome.out) \in Nat
    BY <1>6 DEF Kept
  <2> QED BY <1>1, <1>2, <1>3, <2>1, <2>2, RunSettles
<1>8. Parsing(restored) = outcome.out
  <2>1. \A j \in 1..Len(outcome.out) : outcome.out[j] \notin {"CRLF", "#latin1"}
    BY <1>3, <1>6, LineEndingsStay DEF Kept, OfTheseTokens
  <2> QED BY <1>6, <2>1, ParsedAgain DEF Kept
<1>9. restored \in Seq(Byte)
  BY <1>6, RestoredTyped DEF Kept
<1>10. IsPlain(raw) => IsPlain(restored) /\ Carries(raw, restored, 0)
  BY <1>1, <1>6, RestoredIs DEF parsed
<1>11. Sound(raw) => Sound(restored)
  <2> SUFFICES ASSUME Sound(raw) PROVE Sound(restored)
    OBVIOUS
  <2> DEFINE s == Fixes(parsed, rules)
  <2>1. Sound(parsed)
    BY <1>1, <1>4, ParsedSound
  <2>2. Regular(s, BareEnds(parsed))
    BY <1>3, <2>1, FixesAreRegular
  <2>3. \A x \in 1..Len(s) : Inserts(s[x]) => \E c : AddsTo(parsed, c, s[x])
    BY <1>3, <2>1, FixesAdd
  <2> HIDE DEF s
  <2>4. PICK h : /\ IsImage(h, parsed, outcome.out)
                 /\ Gapped(h, parsed, outcome.out, BareEnds(parsed), EditSet(s))
    BY <1>6, <2>2 DEF s
  <2>5. IsRewritten(h, parsed, outcome.out, EditSet(s))
    BY <1>3, <1>6, <2>1, <2>3, <2>4 DEF IsRewritten, EditSet, Kept
  <2>6. Sound(outcome.out)
    BY <2>5, SoundKept
  <2> QED BY <1>8, <1>9, <2>6, ParsedSound
<1> HIDE DEF restored
<1>12. raw' \in Seq(Byte) /\ raw' \in {raw, restored}
  BY <1>1, <1>2, <1>9
<1>13. Fixes(Parsing(raw'), settled') = <<>>
  <2>1. CASE writes
    <3>1. Parsing(raw') = outcome.out
      BY <1>2, <1>4, <1>8, <2>1
    <3> QED BY <1>2, <1>7, <2>1, <3>1
  <2>2. CASE ~writes
    BY <1>1, <1>2, <1>4, <2>2
  <2> QED BY <2>1, <2>2
<1>14. ASSUME IsPlain(original) PROVE IsPlain(raw') /\ Carries(original, raw', 0)
  <2>1. IsPlain(raw) /\ Carries(original, raw, 0)
    BY <1>14 DEF FileInv
  <2>2. IsPlain(restored) /\ Carries(raw, restored, 0)
    BY <1>10, <2>1
  <2>3. Len(original) \in Nat /\ Len(raw) \in Nat /\ Len(restored) \in Nat
    BY <1>1, <1>9
  <2>4. Carries(original, restored, 0)
    BY <2>1, <2>2, <2>3, CarriesOn
  <2>5. CASE raw' = raw
    BY <2>1, <2>5
  <2>6. CASE raw' = restored
    BY <2>2, <2>4, <2>6
  <2> QED BY <1>12, <2>5, <2>6
<1>15. ASSUME PlainCalls(original') PROVE Sound(raw')
  <2>1. Sound(raw)
    BY <1>2, <1>15 DEF FileInv
  <2> QED BY <1>12, <1>11, <2>1
<1> QED BY <1>1, <1>2, <1>6, <1>12, <1>13, <1>14, <1>15 DEF FileInv

LEMMA StepKeepsFile == ASSUME FileInv, [FileNext]_fileVars PROVE FileInv'
<1>1. CASE FileNext
  BY <1>1, RunKeepsFile DEF FileNext
<1>2. CASE UNCHANGED fileVars
  BY <1>2 DEF FileInv, fileVars
<1> QED BY <1>1, <1>2

\* What runs of `xray fix` maintain (runner::run_fix).
THEOREM FileInvariant == FileSpec => []FileInv
BY InitFile, StepKeepsFile, PTL DEF FileSpec

\* In every file of Python and under every set of rules, nested calls included, no
\* edit is dropped for another: one run applies all that was reported.
THEOREM NoEditIsSkipped == FileSpec => []NothingIsSkipped
<1>1. FileInv => NothingIsSkipped
  BY DEF FileInv, NothingIsSkipped
<1> QED BY <1>1, FileInvariant, PTL

\* Fixes are idempotent: a run that wrote leaves its rules nothing to edit, and no
\* later run with other rules gives them anything.
THEOREM FixesAreIdempotent == FileSpec => []SettledRulesAreIdle
<1>1. FileInv => SettledRulesAreIdle
  BY DEF FileInv, SettledRulesAreIdle, Parsing
<1> QED BY <1>1, FileInvariant, PTL

\* However many runs there are, with whichever rules, every token of a UTF-8 file
\* with one kind of line ending stays in its place, up to what the rules replace.
THEOREM PlainFilesAreKept == FileSpec => []PlainFileIsKept
<1>1. FileInv => PlainFileIsKept
  BY CarriedIsFound DEF FileInv, IsPlain, PlainFileIsKept
<1> QED BY <1>1, FileInvariant, PTL

\* "The result is asserted to parse": whatever rules are enabled in whatever runs, a
\* file in which no comment hides how an argument list ends, and no
\* open_mfdataset() that lacks both keywords ends without an argument, stays valid
\* Python.
THEOREM PlainCallsAreKept == FileSpec => []PlainCallsStayPython
<1>1. FileInv => PlainCallsStayPython
  BY DEF FileInv, Sound, PlainCallsStayPython
<1> QED BY <1>1, FileInvariant, PTL
=============================================================================
