-------------------------- MODULE Notebook_proofs --------------------------
(***************************************************************************)
(* A notebook reads like the file that has all its imports and calls, for  *)
(* every number of cells, in whatever order they are parsed and whichever  *)
(* of them do not parse; and what xray takes its names for is what they    *)
(* hold when the notebook runs, whatever runs in whatever order.           *)
(***************************************************************************)
EXTENDS Kernel, FiniteSetTheorems, WellFoundedInduction, TLAPS

-----------------------------------------------------------------------------
(* Induction over the naturals, and folds: over a finite set, and over a   *)
(* sequence turn by turn.                                                  *)

LEMMA LeastElement ==
  ASSUME NEW T \in SUBSET Nat, T # {}
  PROVE  \E x \in T : \A y \in T : ~(y < x)
<1> DEFINE R == OpToRel(<,Nat)
<1>1. IsWellFoundedOn(R, Nat)
  BY NatLessThanWellFounded
<1>2. \A x, y \in Nat : (<<x, y>> \in R) = (x < y)
  BY DEF OpToRel
<1> HIDE DEF R
<1>3. \E x \in T : \A y \in T : ~ (<<y, x>> \in R)
  BY <1>1, WFMin
<1> QED BY <1>2, <1>3

LEMMA Induction ==
  ASSUME NEW P \in SUBSET Nat, 0 \in P, \A n \in P : n + 1 \in P
  PROVE  P = Nat
<1> SUFFICES ASSUME P # Nat PROVE FALSE
  OBVIOUS
<1>1. PICK x \in Nat \ P : \A y \in Nat \ P : ~(y < x)
  BY LeastElement
<1>2. x # 0 /\ x - 1 \in Nat /\ x - 1 < x
  OBVIOUS
<1>3. x - 1 \in P
  BY <1>1, <1>2
<1>4. (x - 1) + 1 \in P
  BY <1>3
<1> QED BY <1>4

\* The greatest of finitely many numbers.
LEMMA MaxOfTurns ==
  ASSUME NEW n \in Nat, NEW T \in SUBSET (1..n), T # {}
  PROVE  Max(T) \in T /\ \A y \in T : y <= Max(T)
<1> DEFINE U == {x \in Nat : \E t \in T : x + t = n}
<1>1. U \in SUBSET Nat
  OBVIOUS
<1>2. U # {}
  <2>1. PICK t \in T : TRUE
    OBVIOUS
  <2>2. n - t \in Nat /\ (n - t) + t = n
    BY <2>1
  <2> QED BY <2>2
<1> HIDE DEF U
<1>3. PICK u \in U : \A v \in U : ~(v < u)
  BY <1>1, <1>2, LeastElement
<1>4. PICK x \in T : u + x = n
  BY <1>3 DEF U
<1>5. ASSUME NEW y \in T PROVE x >= y
  <2>1. n - y \in U
    BY DEF U
  <2>2. ~(n - y < u) /\ x \in Nat /\ y \in Nat /\ u \in Nat
    BY <2>1, <1>1, <1>3
  <2> QED BY <2>2, <1>4
<1>6. \E m \in T : \A y \in T : m >= y
  BY <1>5
<1>7. Max(T) \in T /\ \A y \in T : Max(T) >= y
  <2> HIDE <1>5, <1>4, <1>3
  <2> QED BY <1>6 DEF Max
<1>8. T \subseteq Nat
  OBVIOUS
<1> QED BY <1>7, <1>8

\* h is the fold of each part of S by step, pick[T] being the last element of T.
Folds(h, S, base, step, pick) ==
  \A T \in SUBSET S : h[T] = IF T = {} THEN base ELSE step[<<pick[T], h[T \ {pick[T]}]>>]

\* A fold obeys its equation: pick takes the elements of S one by one.
LEMMA Folding ==
  ASSUME NEW S, IsFiniteSet(S), NEW A, NEW base \in A, NEW step \in [S \X A -> A],
         NEW pick, \A T \in SUBSET S : T # {} => pick[T] \in T
  PROVE  \E h \in [SUBSET S -> A] : Folds(h, S, base, step, pick)
<1> DEFINE Eq(h, T) == h[T] = IF T = {} THEN base ELSE step[<<pick[T], h[T \ {pick[T]}]>>]
           Fits(h, i) == \A T \in SUBSET S : Cardinality(T) <= i => Eq(h, T)
           P == {i \in Nat : \E h \in [SUBSET S -> A] : Fits(h, i)}
<1>1. \A T \in SUBSET S : IsFiniteSet(T) /\ Cardinality(T) \in Nat
  BY FS_Subset, FS_CardinalityType
<1>2. \A T \in SUBSET S : T # {} => /\ T \ {pick[T]} \in SUBSET S
                                    /\ Cardinality(T \ {pick[T]}) = Cardinality(T) - 1
  BY <1>1, FS_RemoveElement
<1>3. \A h \in [SUBSET S -> A] : \A T \in SUBSET S :
        T # {} => step[<<pick[T], h[T \ {pick[T]}]>>] \in A
  <2> SUFFICES ASSUME NEW h \in [SUBSET S -> A], NEW T \in SUBSET S, T # {}
               PROVE  step[<<pick[T], h[T \ {pick[T]}]>>] \in A
    OBVIOUS
  <2>1. pick[T] \in S /\ h[T \ {pick[T]}] \in A
    BY <1>2
  <2> QED BY <2>1
<1>4. 0 \in P
  <2> DEFINE g == [T \in SUBSET S |-> base]
  <2>1. \A T \in SUBSET S : Cardinality(T) <= 0 => T = {}
    BY <1>1, FS_EmptySet
  <2>2. g \in [SUBSET S -> A] /\ Fits(g, 0)
    BY <2>1
  <2> QED BY <2>2
<1>5. ASSUME NEW i \in P PROVE i + 1 \in P
  <2>0. i \in Nat /\ i + 1 \in Nat
    OBVIOUS
  <2>1. PICK h \in [SUBSET S -> A] : Fits(h, i)
    OBVIOUS
  <2> DEFINE g == [T \in SUBSET S |->
                    IF T = {} THEN base
                    ELSE IF Cardinality(T) <= i THEN h[T]
                    ELSE step[<<pick[T], h[T \ {pick[T]}]>>]]
  <2>2. g \in [SUBSET S -> A]
    <3>1. \A T \in SUBSET S : T # {} => step[<<pick[T], h[T \ {pick[T]}]>>] \in A
      BY <1>3
    <3> QED BY <3>1
  <2>3. h[{}] = base
    <3>1. {} \in SUBSET S /\ Cardinality({}) <= i
      BY FS_EmptySet
    <3>2. Eq(h, {})
      BY <2>1, <3>1
    <3> QED BY <3>2
  <2>4. \A T \in SUBSET S : Cardinality(T) <= i => g[T] = h[T]
    BY <2>3
  <2>5. ASSUME NEW T \in SUBSET S, Cardinality(T) <= i + 1, T # {}
        PROVE g[T] = step[<<pick[T], g[T \ {pick[T]}]>>]
    <3>1. g[T \ {pick[T]}] = h[T \ {pick[T]}]
      <4>1. T \ {pick[T]} \in SUBSET S /\ Cardinality(T \ {pick[T]}) <= i
        BY <1>1, <1>2, <2>5
      <4> HIDE DEF g
      <4> QED BY <4>1, <2>4
    <3>2. g[T] = step[<<pick[T], h[T \ {pick[T]}]>>]
      BY <2>1, <2>5
    <3> QED BY <3>1, <3>2
  <2>6. Fits(g, i + 1)
    <3>1. g[{}] = base
      OBVIOUS
    <3> HIDE DEF g
    <3> QED BY <2>5, <3>1
  <2>7. \E x \in [SUBSET S -> A] : Fits(x, i + 1)
    <3> HIDE DEF g, Fits
    <3> QED BY <2>2, <2>6
  <2> HIDE DEF Fits
  <2> QED BY <2>0, <2>7
<1>6. Cardinality(S) \in P
  <2> HIDE DEF P
  <2>1. P \in SUBSET Nat
    BY DEF P
  <2>2. P = Nat
    BY <1>4, <1>5, <2>1, Induction
  <2>3. Cardinality(S) \in Nat
    BY <1>1
  <2> QED BY <2>2, <2>3
<1>7. PICK h \in [SUBSET S -> A] : Fits(h, Cardinality(S))
  BY <1>6
<1>8. \A T \in SUBSET S : Cardinality(T) <= Cardinality(S)
  BY FS_Subset
<1>9. \A T \in SUBSET S : Eq(h, T)
  BY <1>7, <1>8
<1> QED BY <1>9 DEF Folds



LEMMA BoundedInduction ==
  ASSUME NEW n \in Nat, NEW P, 0 \in P, \A i \in 1..n : i - 1 \in P => i \in P
  PROVE  0..n \subseteq P
<1> DEFINE Q == {i \in Nat : i <= n => i \in P}
<1>1. Q \in SUBSET Nat /\ 0 \in Q
  OBVIOUS
<1>2. ASSUME NEW i \in Q PROVE i + 1 \in Q
  <2>1. CASE i + 1 <= n
    <3>1. i \in P /\ i + 1 \in 1..n /\ (i + 1) - 1 = i
      BY <2>1
    <3>2. i + 1 \in P
      BY <3>1
    <3> QED BY <3>2
  <2>2. CASE ~(i + 1 <= n)
    BY <2>2
  <2> QED BY <2>1, <2>2
<1>3. Q = Nat
  <2> HIDE DEF Q
  <2> QED BY <1>1, <1>2, Induction
<1> QED BY <1>3

LEMMA Prefix ==
  ASSUME NEW n \in Nat, NEW i \in 1..n
  PROVE  /\ 1..i \in SUBSET (1..n) /\ 1..i # {}
         /\ Max(1..i) = i
         /\ (1..i) \ {i} = 1..(i - 1)
<1>1. 1..i \in SUBSET (1..n) /\ i \in 1..i
  OBVIOUS
<1>2. Max(1..i) \in 1..i /\ i <= Max(1..i)
  BY <1>1, MaxOfTurns
<1> QED BY <1>1, <1>2

\* h is the fold of the turns of 1 .. n, the last one last.
FoldsTurns(h, n, base, step) ==
  \A T \in SUBSET (1..n) : h[T] = IF T = {} THEN base ELSE step[<<Max(T), h[T \ {Max(T)}]>>]

LEMMA FoldingTurns ==
  ASSUME NEW n \in Nat, NEW A, NEW base \in A, NEW step \in [(1..n) \X A -> A]
  PROVE  \E h \in [SUBSET (1..n) -> A] :
           FoldsTurns(h, n, base, step)
<1> DEFINE pick == [T \in SUBSET (1..n) |-> Max(T)]
<1>1. \A T \in SUBSET (1..n) : T # {} => pick[T] \in T
  BY MaxOfTurns
<1>2. IsFiniteSet(1..n)
  BY FS_Interval
<1>3. PICK h \in [SUBSET (1..n) -> A] : Folds(h, 1..n, base, step, pick)
  <2> HIDE DEF pick
  <2> QED BY <1>1, <1>2, Folding
<1> QED BY <1>3 DEF Folds, FoldsTurns

\* The values a fold passes through: f[i] is that of the first i turns.
StaysIn(g, n, A) == g[1..0] \in A /\ \A i \in 1..n : g[1..(i - 1)] \in A => g[1..i] \in A
Passes(f, g, n)  == \A i \in 0..n : f[i] = g[1..i]

LEMMA PassingTurns ==
  ASSUME NEW n \in Nat, NEW A, NEW g, StaysIn(g, n, A)
  PROVE  \E f \in [0..n -> A] : Passes(f, g, n)
<1> DEFINE P == {i \in 0..n : g[1..i] \in A}
<1>1. 0 \in P /\ \A i \in 1..n : i - 1 \in P => i \in P
  BY DEF StaysIn
<1> HIDE DEF P
<1>2. 0..n \subseteq P
  BY <1>1, BoundedInduction
<1>3. [i \in 0..n |-> g[1..i]] \in [0..n -> A]
  BY <1>2 DEF P
<1>4. Passes([i \in 0..n |-> g[1..i]], g, n)
  BY DEF Passes
<1> QED BY <1>3, <1>4

-----------------------------------------------------------------------------
(* Products that do not overflow.                                          *)

\* The running product, as the code computes it.
LEMMA CheckedTurns ==
  ASSUME NEW s \in Seq(Int)
  PROVE  \E f \in [0..Len(s) -> Int] :
           /\ f[0] = 1 /\ \A i \in 1..Len(s) : f[i] = CheckedMul(f[i - 1], s[i])
           /\ FoldLeft(CheckedMul, 1, s) = f[Len(s)]
<1> DEFINE n == Len(s)
           step == [p \in (1..n) \X Int |-> CheckedMul(p[2], s[p[1]])]
<1>0. n \in Nat /\ DOMAIN s = 1..n /\ 1 \in Int
  OBVIOUS
<1>1. \A i \in 1..n, a \in Int : CheckedMul(a, s[i]) \in Int
  BY WidthAssumption DEF CheckedMul, Overflow
<1>2. step \in [(1..n) \X Int -> Int] /\ \A i \in 1..n, a \in Int : step[<<i, a>>] = CheckedMul(a, s[i])
  BY <1>1
<1> HIDE DEF step, n
<1>3. PICK h \in [SUBSET (1..n) -> Int] : FoldsTurns(h, n, 1, step)
  BY <1>0, <1>2, FoldingTurns, Zenon
<1>4. h = [T \in SUBSET (1..n) |->
             IF T = {} THEN 1 ELSE CheckedMul(h[T \ {Max(T)}], s[Max(T)])]
  <2>1. \A T \in SUBSET (1..n) : T # {} => Max(T) \in 1..n /\ h[T \ {Max(T)}] \in Int
    BY MaxOfTurns, <1>0
  <2> QED BY <1>2, <1>3, <2>1 DEF FoldsTurns
<1>5. PICK g : /\ g = [T \in SUBSET (1..n) |->
                         IF T = {} THEN 1 ELSE CheckedMul(g[T \ {Max(T)}], s[Max(T)])]
               /\ FoldLeft(CheckedMul, 1, s) = g[1..n]
  BY <1>0, <1>4 DEF FoldLeft, MapThenFoldSet
<1>6. g[1..0] = 1 /\ \A i \in 1..n : g[1..i] = CheckedMul(g[1..(i - 1)], s[i])
  <2>1. 1..0 = {}
    OBVIOUS
  <2> QED BY <2>1, <1>0, <1>5, Prefix
<1>7. PICK f \in [0..n -> Int] : Passes(f, g, n)
  <2>1. StaysIn(g, n, Int)
    BY <1>1, <1>6 DEF StaysIn
  <2> QED BY <1>0, <2>1, PassingTurns, Zenon
<1>8. n \in 0..n /\ 0 \in 0..n /\ \A i \in 1..n : i - 1 \in 0..n /\ i \in 0..n
  BY <1>0
<1>9. f[0] = 1 /\ f[n] = g[1..n] /\ \A i \in 1..n : f[i] = CheckedMul(f[i - 1], s[i])
  BY <1>6, <1>7, <1>8 DEF Passes
<1> QED BY <1>5, <1>7, <1>9 DEF n
\* The running product itself.
LEMMA ProductTurns ==
  ASSUME NEW s \in Seq(Int)
  PROVE  \E f \in [0..Len(s) -> Int] :
           /\ f[0] = 1 /\ \A i \in 1..Len(s) : f[i] = f[i - 1] * s[i]
           /\ TrueProduct(s) = f[Len(s)]
<1> DEFINE n == Len(s)
           step == [p \in (1..n) \X Int |-> p[2] * s[p[1]]]
<1>0. n \in Nat /\ DOMAIN s = 1..n /\ 1 \in Int
  OBVIOUS
<1>1. \A i \in 1..n, a \in Int : a * s[i] \in Int
  OBVIOUS
<1>2. step \in [(1..n) \X Int -> Int] /\ \A i \in 1..n, a \in Int : step[<<i, a>>] = a * s[i]
  BY <1>1
<1> HIDE DEF step, n
<1>3. PICK h \in [SUBSET (1..n) -> Int] : FoldsTurns(h, n, 1, step)
  BY <1>0, <1>2, FoldingTurns, Zenon
<1>4. h = [T \in SUBSET (1..n) |->
             IF T = {} THEN 1 ELSE h[T \ {Max(T)}] * s[Max(T)]]
  <2>1. \A T \in SUBSET (1..n) : T # {} => Max(T) \in 1..n /\ h[T \ {Max(T)}] \in Int
    BY MaxOfTurns, <1>0
  <2> QED BY <1>2, <1>3, <2>1 DEF FoldsTurns
<1>5. PICK g : /\ g = [T \in SUBSET (1..n) |->
                         IF T = {} THEN 1 ELSE g[T \ {Max(T)}] * s[Max(T)]]
               /\ TrueProduct(s) = g[1..n]
  BY <1>0, <1>4 DEF TrueProduct, FoldLeft, MapThenFoldSet
<1>6. g[1..0] = 1 /\ \A i \in 1..n : g[1..i] = g[1..(i - 1)] * s[i]
  <2>1. 1..0 = {}
    OBVIOUS
  <2> QED BY <2>1, <1>0, <1>5, Prefix
<1>7. PICK f \in [0..n -> Int] : Passes(f, g, n)
  <2>1. ASSUME NEW i \in 1..n, g[1..(i - 1)] \in Int PROVE g[1..i] \in Int
    <3>1. g[1..i] = g[1..(i - 1)] * s[i]
      BY <1>6
    <3> QED BY <1>1, <2>1, <3>1
  <2>2. StaysIn(g, n, Int)
    BY <1>0, <1>6, <2>1 DEF StaysIn
  <2> QED BY <1>0, <2>2, PassingTurns, Zenon
<1>8. n \in 0..n /\ 0 \in 0..n /\ \A i \in 1..n : i - 1 \in 0..n /\ i \in 0..n
  BY <1>0
<1>9. f[0] = 1 /\ f[n] = g[1..n] /\ \A i \in 1..n : f[i] = f[i - 1] * s[i]
  BY <1>6, <1>7, <1>8 DEF Passes
<1> QED BY <1>5, <1>7, <1>9 DEF n

\* The product the code computes is the product, or it says that it is too large;
\* and that it says of no product that fits, unless a later extent is 0.
LEMMA CheckedProduct ==
  ASSUME NEW s \in Seq(Nat)
  PROVE  /\ TrueProduct(s) \in Nat
         /\ FoldLeft(CheckedMul, 1, s) \in {Overflow, TrueProduct(s)}
         /\ TrueProduct(s) <= I64Max /\ 0 \notin ToSet(s) =>
              FoldLeft(CheckedMul, 1, s) = TrueProduct(s)
<1> DEFINE n == Len(s)
<1>0. s \in Seq(Int) /\ n \in Nat /\ \A i \in 1..n : s[i] \in Nat
  OBVIOUS
<1>1. PICK f \in [0..n -> Int] :
           /\ f[0] = 1 /\ \A i \in 1..n : f[i] = CheckedMul(f[i - 1], s[i])
           /\ FoldLeft(CheckedMul, 1, s) = f[n]
  BY <1>0, CheckedTurns
<1>2. PICK g \in [0..n -> Int] :
           /\ g[0] = 1 /\ \A i \in 1..n : g[i] = g[i - 1] * s[i]
           /\ TrueProduct(s) = g[n]
  BY <1>0, ProductTurns
<1> DEFINE Right(i) == /\ g[i] \in Nat
                       /\ \/ f[i] = g[i]
                          \/ f[i] = Overflow /\ (0 \notin ToSet(s) => g[i] > I64Max)
           P == {i \in 0..n : Right(i)}
<1>3. 0 \in P
  BY <1>0, <1>1, <1>2
<1>4. ASSUME NEW i \in 1..n, i - 1 \in P PROVE i \in P
  <2>1. s[i] \in Nat /\ (0 \notin ToSet(s) => s[i] >= 1)
    BY <1>0 DEF ToSet
  <2>2. Right(i - 1)
    BY <1>4
  <2>3. g[i] = g[i - 1] * s[i] /\ f[i] = CheckedMul(f[i - 1], s[i])
    BY <1>1, <1>2
  <2>4. g[i] \in Nat /\ (s[i] >= 1 => g[i] >= g[i - 1])
    BY <2>1, <2>2, <2>3
  <2>5. CASE f[i - 1] = g[i - 1]
    BY <2>1, <2>2, <2>3, <2>4, <2>5, WidthAssumption DEF CheckedMul, Overflow
  <2>6. CASE f[i - 1] = Overflow /\ (0 \notin ToSet(s) => g[i - 1] > I64Max)
    <3>1. f[i] = Overflow
      BY <2>3, <2>6 DEF CheckedMul
    <3>2. 0 \notin ToSet(s) => g[i] > I64Max
      BY <2>1, <2>2, <2>4, <2>6, WidthAssumption
    <3> QED BY <2>4, <3>1, <3>2
  <2> QED BY <2>2, <2>5, <2>6
<1>5. n \in P
  <2> HIDE DEF P
  <2>1. 0..n \subseteq P
    BY <1>0, <1>3, <1>4, BoundedInduction
  <2> QED BY <1>0, <2>1
<1> QED BY <1>1, <1>2, <1>5, WidthAssumption DEF Overflow

-----------------------------------------------------------------------------
(* Chunk specifications.                                                   *)

\* What the rules about chunks report.
LEMMA ChunkRules ==
  ASSUME NEW ctx, NEW table, NEW st, {"xarray", "dask"} \subseteq ctx.modules
  PROVE  /\ "XR012" \in Fires(ctx, table, st) <=> XR012(ctx, st)
         /\ "DK010" \in Fires(ctx, table, st) <=> DK010(st)
BY DEF Fires

\* What the grammar says of a statement that a cell has.
LEMMA StatementIsWell ==
  ASSUME ControlOK, NEW c \in DOMAIN cells, NEW i \in DOMAIN cells[c].body
  PROVE  IsStatement(cells[c].body[i]) /\ IsValue(cells[c].body[i].value)
BY InputAssumption DEF ControlOK, IsCell, IsStatement

LEMMA TrivialIsSmall ==
  ASSUME NEW extents \in Seq(Nat \cup {NotLiteral})
  PROVE  LET small == /\ extents # <<>> /\ NotLiteral \notin ToSet(extents)
                      /\ TrueProduct(extents) < TrivialChunkElements
         IN /\ TrivialProduct(extents) \in {"trivial", "unknown"}
            /\ TrivialProduct(extents) = "trivial" => small
            /\ small /\ 0 \notin ToSet(extents) => TrivialProduct(extents) = "trivial"
<1>1. CASE NotLiteral \in ToSet(extents)
  BY <1>1 DEF TrivialProduct
<1>2. CASE NotLiteral \notin ToSet(extents)
  <2>1. extents \in Seq(Nat)
    BY <1>2 DEF ToSet
  <2>2. TrueProduct(extents) \in Nat
    BY <2>1, CheckedProduct
  <2>3. FoldLeft(CheckedMul, 1, extents) \in {Overflow, TrueProduct(extents)}
    BY <2>1, CheckedProduct
  <2>4. TrueProduct(extents) <= I64Max /\ 0 \notin ToSet(extents) =>
              FoldLeft(CheckedMul, 1, extents) = TrueProduct(extents)
    BY <2>1, CheckedProduct
  <2>5. FoldLeft(CheckedMul, 1, extents) \in 0 .. TrivialChunkElements - 1 =>
           TrueProduct(extents) < TrivialChunkElements
    BY <2>2, <2>3, WidthAssumption DEF Overflow
  <2>6. TrueProduct(extents) < TrivialChunkElements /\ 0 \notin ToSet(extents) =>
           FoldLeft(CheckedMul, 1, extents) \in 0 .. TrivialChunkElements - 1
    BY <2>2, <2>4, WidthAssumption
  <2> QED BY <2>5, <2>6 DEF TrivialProduct
<1> QED BY <1>1, <1>2

LEMMA ChunksJudged ==
  ASSUME ControlOK
  PROVE  ChunksAreJudged
<1> SUFFICES ASSUME NEW c \in Parsed, NEW i \in DOMAIN cells[c].body,
                    {"xarray", "dask"} \subseteq imports[c].modules,
                    cells[c].body[i].value.chunks = {},
                    IsMethod(cells[c].body[i], "chunk") \/ IsMethod(cells[c].body[i], "rechunk"),
                    NEW spec \in cells[c].body[i].value.first, spec.kind = "sequence"
             PROVE  LET literal == spec.extents # <<>> /\ NotLiteral \notin ToSet(spec.extents)
                        small   == literal /\ TrueProduct(spec.extents) < TrivialChunkElements
                        told    == {"XR012", "DK010"} \cap Findings(c, i) # {}
                    IN /\ told => 1 \in ToSet(spec.extents) \/ small
                       /\ 1 \in ToSet(spec.extents) \/ (small /\ 0 \notin ToSet(spec.extents))
                            => told
  BY DEF ChunksAreJudged
<1> DEFINE st == cells[c].body[i]
           v  == st.value
<1>1. c \in DOMAIN cells /\ IsValue(v)
  BY StatementIsWell DEF Parsed
<1>2. v.first = {spec} /\ spec.extents \in Seq(Nat \cup {NotLiteral})
  BY <1>1 DEF IsValue
<1>3. CallTerminalName(v) = v.attr /\ v.called /\ v.attr \in {"chunk", "rechunk"}
  BY DEF IsMethod, CallTerminalName
<1>4. Pathological(spec) <=> 1 \in ToSet(spec.extents) \/ TrivialProduct(spec.extents) = "trivial"
  BY <1>2, TrivialIsSmall DEF Pathological, ClassifyChunkSpec
<1>5. XR012(imports[c], st) <=> v.attr = "chunk" /\ Pathological(spec)
  BY <1>2, <1>3 DEF XR012, ChunkSpecNode
<1>6. DK010(st) <=> v.attr = "rechunk" /\ Pathological(spec)
  BY <1>2, <1>3 DEF DK010, IsMethod, RechunkSpecNode
<1>7. {"XR012", "DK010"} \cap Findings(c, i) # {} <=> Pathological(spec)
  <2>1. "XR012" \in Findings(c, i) <=> XR012(imports[c], st)
    BY ChunkRules DEF Findings
  <2>2. "DK010" \in Findings(c, i) <=> DK010(st)
    BY ChunkRules DEF Findings
  <2> QED BY <1>3, <1>5, <1>6, <2>1, <2>2
<1> QED BY <1>2, <1>4, <1>7, TrivialIsSmall

-----------------------------------------------------------------------------
(* What a context knows of the imports it was made from.                   *)

ImportStatement == [form : {"import", "from"}, module : Module, binding : Name]

\* w is what workloads W join to.
IsJoin(w, W) ==
  LET said == W \ {"unset"}
  IN \/ said = {} /\ w = "unset"
     \/ said = {w}
     \/ (\E a, b \in said : a # b) /\ w = "unknown"

LEMMA JoinIsOne ==
  ASSUME NEW W, NEW v, NEW w, IsJoin(v, W), IsJoin(w, W)
  PROVE  v = w
BY DEF IsJoin

LEMMA JoinMerged ==
  ASSUME NEW V, NEW W, NEW v, NEW w, IsJoin(v, V), IsJoin(w, W)
  PROVE  IsJoin(MergeWorkload(v, w), V \cup W)
<1> DEFINE A == V \ {"unset"}
           B == W \ {"unset"}
<1>1. (V \cup W) \ {"unset"} = A \cup B
  OBVIOUS
<1>2. (A = {} /\ v = "unset") \/ A = {v} \/ ((\E a, b \in A : a # b) /\ v = "unknown")
  BY DEF IsJoin
<1>3. (B = {} /\ w = "unset") \/ B = {w} \/ ((\E a, b \in B : a # b) /\ w = "unknown")
  BY DEF IsJoin
<1>4. "unset" \notin A /\ "unset" \notin B
  OBVIOUS
<1> DEFINE m == MergeWorkload(v, w)
<1>5. (A \cup B = {} /\ m = "unset") \/ A \cup B = {m}
       \/ ((\E a, b \in A \cup B : a # b) /\ m = "unknown")
  <2> HIDE DEF A, B
  <2>1. CASE v = "unset"
    BY <1>2, <1>3, <1>4, <2>1 DEF MergeWorkload
  <2>2. CASE v # "unset" /\ w = "unset"
    BY <1>2, <1>3, <1>4, <2>2 DEF MergeWorkload
  <2>3. CASE v # "unset" /\ w # "unset" /\ v = w
    BY <1>2, <1>3, <1>4, <2>3 DEF MergeWorkload
  <2>4. CASE v # "unset" /\ w # "unset" /\ v # w
    <3>1. m = "unknown" /\ A # {} /\ B # {}
      BY <1>2, <1>3, <2>4 DEF MergeWorkload
    <3>2. \E a, b \in A \cup B : a # b
      BY <1>2, <1>3, <2>4
    <3> QED BY <3>1, <3>2
  <2> QED BY <2>1, <2>2, <2>3, <2>4
<1> HIDE DEF A, B, m
<1> QED BY <1>1, <1>5 DEF IsJoin, m

\* m is what a context has under a name that these imports bind in this form.
Means(m, imps, form, n) ==
  \/ m = None /\ \A imp \in imps : imp.form = form => imp.binding # n
  \/ \E imp \in imps : imp.form = form /\ imp.binding = n /\ imp.module = m

\* A context that has read these imports and seen these calls of dask_setup.
Knows(ctx, imps, seen) ==
  /\ ctx.modules = {imp.module : imp \in imps}
  /\ ctx.gpu <=> (\E imp \in imps : imp.module \in GpuModule)
                   \/ \E call \in seen : ExplicitWorkload(call) = "gpu"
  /\ IsJoin(ctx.workload, {Observed(call) : call \in seen})
  /\ \A n \in Name : /\ Means(ctx.aliases[n], imps, "import", n)
                     /\ Means(ctx.from_imports[n], imps, "from", n)

Agree(imps) == \A imp, other \in imps : imp.binding = other.binding => imp.module = other.module

LEMMA MeaningIsOne ==
  ASSUME NEW imps \in SUBSET ImportStatement, Agree(imps), NEW form, NEW n, NEW m, NEW k,
         Means(m, imps, form, n), Means(k, imps, form, n)
  PROVE  m = k
BY ModulesAssumption DEF Means, Agree, ImportStatement

\* There is one such context.
LEMMA KnowledgeIsOne ==
  ASSUME NEW imps \in SUBSET ImportStatement, Agree(imps), NEW seen,
         NEW ctx \in Context, NEW other \in Context,
         Knows(ctx, imps, seen), Knows(other, imps, seen)
  PROVE  ctx = other
<1>1. ctx.modules = other.modules /\ ctx.gpu = other.gpu
  BY DEF Knows, Context
<1>2. ctx.workload = other.workload
  BY JoinIsOne DEF Knows
<1>3. \A n \in Name : ctx.aliases[n] = other.aliases[n]
                      /\ ctx.from_imports[n] = other.from_imports[n]
  BY MeaningIsOne DEF Knows
<1>4. ctx.aliases = other.aliases /\ ctx.from_imports = other.from_imports
  BY <1>3 DEF Context
<1> QED BY <1>1, <1>2, <1>4 DEF Context

LEMMA EmptyKnowsNothing == EmptyContext \in Context /\ Knows(EmptyContext, {}, {})
<1>1. EmptyContext \in Context
  BY DEF EmptyContext, Context
<1>2. IsJoin("unset", {})
  BY DEF IsJoin
<1>3. {Observed(call) : call \in {}} = {} /\ {imp.module : imp \in {}} = {}
  OBVIOUS
<1> QED BY <1>1, <1>2, <1>3 DEF EmptyContext, Knows, Means

\* What one import changes.
LEMMA ReadResult ==
  ASSUME NEW ctx \in Context, NEW imp \in ImportStatement
  PROVE  LET r == ReadImport(ctx, imp)
         IN /\ r \in Context
            /\ r.modules = ctx.modules \cup {imp.module} /\ r.workload = ctx.workload
            /\ r.gpu <=> ctx.gpu \/ imp.module \in GpuModule
            /\ \A n \in Name :
                 /\ r.aliases[n] = IF n = imp.binding /\ imp.form = "import" THEN imp.module
                                   ELSE ctx.aliases[n]
                 /\ r.from_imports[n] = IF n = imp.binding /\ imp.form = "from" THEN imp.module
                                        ELSE ctx.from_imports[n]
<1> DEFINE r == ReadImport(ctx, imp)
           marked == MarkByName(ctx, imp.module)
           al == IF imp.form = "import" THEN imp.module ELSE marked.aliases[imp.binding]
           fr == IF imp.form = "from" THEN imp.module ELSE marked.from_imports[imp.binding]
<1>0. marked = [modules |-> ctx.modules \cup {imp.module},
                gpu |-> (ctx.gpu \/ imp.module \in GpuModule), workload |-> ctx.workload,
                aliases |-> ctx.aliases, from_imports |-> ctx.from_imports]
  <2> DEFINE g == ctx.gpu \/ imp.module \in GpuModule
  <2>1. marked = [ctx EXCEPT !.modules = @ \cup {imp.module}, !.gpu = g]
    BY DEF MarkByName
  <2> HIDE DEF g, marked
  <2>2. marked = [modules |-> ctx.modules \cup {imp.module}, gpu |-> g, workload |-> ctx.workload,
                  aliases |-> ctx.aliases, from_imports |-> ctx.from_imports]
    BY <2>1 DEF Context
  <2> QED BY <2>2 DEF g
<1>a. r = [marked EXCEPT !.aliases[imp.binding] = al, !.from_imports[imp.binding] = fr]
  BY DEF ReadImport
<1>1. r = [modules |-> ctx.modules \cup {imp.module},
           gpu |-> (ctx.gpu \/ imp.module \in GpuModule), workload |-> ctx.workload,
           aliases |-> [ctx.aliases EXCEPT ![imp.binding] = al],
           from_imports |-> [ctx.from_imports EXCEPT ![imp.binding] = fr]]
  <2> HIDE DEF r, al, fr, marked
  <2> QED BY <1>0, <1>a
<1>b. al = (IF imp.form = "import" THEN imp.module ELSE ctx.aliases[imp.binding])
      /\ fr = (IF imp.form = "from" THEN imp.module ELSE ctx.from_imports[imp.binding])
  <2> HIDE DEF marked
  <2> QED BY <1>0
<1>c. imp.binding \in Name /\ al \in Module \cup {None} /\ fr \in Module \cup {None}
  <2> HIDE DEF al, fr
  <2> QED BY <1>b DEF Context, ImportStatement
<1> HIDE DEF r, al, fr, marked
<1>2. r \in Context
  BY <1>1, <1>c DEF Context, ImportStatement
<1>3. r.modules = ctx.modules \cup {imp.module}
      /\ (r.gpu <=> ctx.gpu \/ imp.module \in GpuModule) /\ r.workload = ctx.workload
  BY <1>1
<1>4. ASSUME NEW n \in Name
      PROVE  /\ r.aliases[n] = IF n = imp.binding /\ imp.form = "import" THEN imp.module
                               ELSE ctx.aliases[n]
             /\ r.from_imports[n] = IF n = imp.binding /\ imp.form = "from" THEN imp.module
                                    ELSE ctx.from_imports[n]
  BY <1>1, <1>b, <1>c DEF Context, ImportStatement
<1> QED BY <1>2, <1>3, <1>4 DEF r

LEMMA ReadKnows ==
  ASSUME NEW ctx \in Context, NEW imps, NEW imp \in ImportStatement, Knows(ctx, imps, {})
  PROVE  Knows(ReadImport(ctx, imp), imps \cup {imp}, {})
<1> DEFINE r == ReadImport(ctx, imp)
<1>1. \A n \in Name : /\ Means(r.aliases[n], imps \cup {imp}, "import", n)
                      /\ Means(r.from_imports[n], imps \cup {imp}, "from", n)
  <2>1. \A n \in Name :
          /\ r.aliases[n] = IF n = imp.binding /\ imp.form = "import" THEN imp.module
                            ELSE ctx.aliases[n]
          /\ r.from_imports[n] = IF n = imp.binding /\ imp.form = "from" THEN imp.module
                                 ELSE ctx.from_imports[n]
    BY ReadResult
  <2> HIDE DEF r
  <2> QED BY <2>1 DEF Knows, Means
<1>2. r.modules = ctx.modules \cup {imp.module}
      /\ (r.gpu <=> ctx.gpu \/ imp.module \in GpuModule) /\ r.workload = ctx.workload
  BY ReadResult
<1> HIDE DEF r
<1>3. Knows(r, imps \cup {imp}, {})
  BY <1>1, <1>2 DEF Knows
<1> QED BY <1>3 DEF r

-----------------------------------------------------------------------------
(* The imports of one file, read in their order.                           *)

\* The contexts a file passes through, one import at a time.
LEMMA ImportTurns ==
  ASSUME NEW s \in Seq(ImportStatement)
  PROVE  \E f \in [0..Len(s) -> Context] :
           /\ f[0] = EmptyContext /\ \A i \in 1..Len(s) : f[i] = ReadImport(f[i - 1], s[i])
           /\ FoldLeft(ReadImport, EmptyContext, s) = f[Len(s)]
<1> DEFINE n == Len(s)
           step == [p \in (1..n) \X Context |-> ReadImport(p[2], s[p[1]])]
<1>0. n \in Nat /\ DOMAIN s = 1..n /\ EmptyContext \in Context
  BY EmptyKnowsNothing
<1>1. \A i \in 1..n, a \in Context : ReadImport(a, s[i]) \in Context
  BY ReadResult
<1>2. step \in [(1..n) \X Context -> Context]
      /\ \A i \in 1..n, a \in Context : step[<<i, a>>] = ReadImport(a, s[i])
  BY <1>1
<1> HIDE DEF step, n
<1>3. PICK h \in [SUBSET (1..n) -> Context] : FoldsTurns(h, n, EmptyContext, step)
  BY <1>0, <1>2, FoldingTurns
<1>4. h = [T \in SUBSET (1..n) |->
             IF T = {} THEN EmptyContext ELSE ReadImport(h[T \ {Max(T)}], s[Max(T)])]
  <2>1. \A T \in SUBSET (1..n) : T # {} => Max(T) \in 1..n /\ h[T \ {Max(T)}] \in Context
    BY MaxOfTurns, <1>0
  <2> QED BY <1>2, <1>3, <2>1 DEF FoldsTurns
<1>5. PICK g : /\ g = [T \in SUBSET (1..n) |->
                         IF T = {} THEN EmptyContext ELSE ReadImport(g[T \ {Max(T)}], s[Max(T)])]
               /\ FoldLeft(ReadImport, EmptyContext, s) = g[1..n]
  BY <1>0, <1>4 DEF FoldLeft, MapThenFoldSet
<1>6. g[1..0] = EmptyContext /\ \A i \in 1..n : g[1..i] = ReadImport(g[1..(i - 1)], s[i])
  <2>1. 1..0 = {}
    OBVIOUS
  <2> QED BY <2>1, <1>0, <1>5, Prefix
<1>7. PICK f \in [0..n -> Context] : Passes(f, g, n)
  <2>1. StaysIn(g, n, Context)
    BY <1>0, <1>1, <1>6 DEF StaysIn
  <2> QED BY <1>0, <2>1, PassingTurns
<1>8. n \in 0..n /\ 0 \in 0..n /\ \A i \in 1..n : i - 1 \in 0..n /\ i \in 0..n
  BY <1>0
<1>9. f[0] = EmptyContext /\ f[n] = g[1..n] /\ \A i \in 1..n : f[i] = ReadImport(f[i - 1], s[i])
  BY <1>6, <1>7, <1>8 DEF Passes
<1> QED BY <1>5, <1>7, <1>9 DEF n

\* Reading all imports of a file, in order, makes a context that knows them.
LEMMA FileKnows ==
  ASSUME NEW s \in Seq(ImportStatement)
  PROVE  /\ FoldLeft(ReadImport, EmptyContext, s) \in Context
         /\ Knows(FoldLeft(ReadImport, EmptyContext, s), ToSet(s), {})
<1> DEFINE n == Len(s)
           Read(i) == {s[j] : j \in 1..i}
<1>0. n \in Nat /\ 0 \in 0..n /\ n \in 0..n /\ ToSet(s) = Read(n)
  BY DEF ToSet
<1>1. PICK f \in [0..n -> Context] :
           /\ f[0] = EmptyContext /\ \A i \in 1..n : f[i] = ReadImport(f[i - 1], s[i])
           /\ FoldLeft(ReadImport, EmptyContext, s) = f[n]
  BY ImportTurns
<1> DEFINE P == {i \in 0..n : Knows(f[i], Read(i), {})}
<1>2. 0 \in P
  <2>1. Read(0) = {}
    OBVIOUS
  <2> QED BY <1>0, <1>1, <2>1, EmptyKnowsNothing
<1>3. ASSUME NEW i \in 1..n, i - 1 \in P PROVE i \in P
  <2>1. Read(i) = Read(i - 1) \cup {s[i]}
    <3>1. \A j : j \in 1..i <=> j \in 1..(i - 1) \/ j = i
      BY <1>0
    <3> QED BY <3>1
  <2>2. i - 1 \in 0..n /\ i \in 0..n /\ s[i] \in ImportStatement
    BY <1>0
  <2> DEFINE before == f[i - 1]
             known == Read(i - 1)
  <2>3. before \in Context /\ Knows(before, known, {}) /\ f[i] = ReadImport(before, s[i])
    BY <1>1, <1>3, <2>2
  <2> HIDE DEF before, known, Read
  <2>4. Knows(f[i], known \cup {s[i]}, {})
    BY <2>2, <2>3, ReadKnows
  <2> QED BY <2>1, <2>2, <2>4 DEF known
<1>4. n \in P
  <2> HIDE DEF P
  <2>1. 0..n \subseteq P
    BY <1>0, <1>2, <1>3, BoundedInduction
  <2> QED BY <1>0, <2>1
<1>5. f[n] \in Context
  BY <1>0, <1>1
<1> HIDE DEF n, Read
<1> QED BY <1>0, <1>1, <1>4, <1>5

-----------------------------------------------------------------------------
(* Topologies, joined in whatever order a fold takes them.                 *)

LEMMA SetInduction ==
  ASSUME NEW S, IsFiniteSet(S), NEW pick, \A T \in SUBSET S : T # {} => pick[T] \in T,
         NEW P, {} \in P, \A T \in SUBSET S : T # {} /\ T \ {pick[T]} \in P => T \in P
  PROVE  S \in P
<1> DEFINE Q == {i \in Nat : \A T \in SUBSET S : Cardinality(T) = i => T \in P}
<1>1. \A T \in SUBSET S : IsFiniteSet(T) /\ Cardinality(T) \in Nat
  BY FS_Subset, FS_CardinalityType
<1>2. \A T \in SUBSET S : T # {} => /\ T \ {pick[T]} \in SUBSET S
                                    /\ Cardinality(T \ {pick[T]}) = Cardinality(T) - 1
  BY <1>1, FS_RemoveElement
<1>3. Q \in SUBSET Nat
  OBVIOUS
<1>4. 0 \in Q
  BY <1>1, FS_EmptySet
<1>5. ASSUME NEW i \in Q PROVE i + 1 \in Q
  <2>1. ASSUME NEW T \in SUBSET S, Cardinality(T) = i + 1 PROVE T \in P
    <3>1. T # {}
      <4>1. Cardinality({}) = 0 /\ i \in Nat
        BY <1>3, FS_EmptySet
      <4>2. Cardinality(T) # 0
        BY <2>1, <4>1
      <4> QED BY <4>1, <4>2
    <3>2. Cardinality(T \ {pick[T]}) = i /\ T \ {pick[T]} \in SUBSET S
      BY <1>2, <1>3, <2>1, <3>1
    <3> QED BY <3>1, <3>2
  <2> QED BY <2>1
<1>6. Q = Nat
  <2> HIDE DEF Q
  <2> QED BY <1>3, <1>4, <1>5, Induction
<1> QED BY <1>1, <1>6

Workload == {"unset", "cpu", "io", "mixed", "gpu", "unknown"}

LEMMA MergedWorkload ==
  ASSUME NEW v \in Workload, NEW w \in Workload
  PROVE  MergeWorkload(v, w) \in Workload
BY DEF MergeWorkload, Workload

LEMMA ObservedWorkload ==
  ASSUME NEW call
  PROVE  Observed(call) \in Workload
<1> DEFINE e == ExplicitWorkload(call)
           name == CallTerminalName(call)
           a == IF e # None THEN e ELSE IF call.configured THEN "unknown" ELSE "io"
           b == IF e # None THEN e
                ELSE IF call.configured \/ call.positional # None THEN "unknown" ELSE "cpu"
<1>1. e = None \/ e \in Workload
  BY DEF ExplicitWorkload, Resolved, Workload
<1>2. Observed(call) = CASE name \in {"setup_dask_client", "DaskClientContext"} -> a
                         [] name \in {"setup_pbs_cluster", "setup_slurm_cluster",
                                     "setup_interactive_cluster"} -> b
                         [] OTHER -> "unset"
  BY DEF Observed
<1>3. a \in Workload /\ b \in Workload
  <2> HIDE DEF e
  <2> QED BY <1>1 DEF Workload
<1> HIDE DEF a, b, name
<1>4. name \in {"setup_dask_client", "DaskClientContext"} =>
        name \notin {"setup_pbs_cluster", "setup_slurm_cluster", "setup_interactive_cluster"}
  OBVIOUS
<1>5. Observed(call) \in {a, b, "unset"}
  BY <1>2, <1>4
<1> QED BY <1>3, <1>5 DEF Workload

\* The clients of a file make their topologies one.
LEMMA WorkloadsFold ==
  ASSUME NEW seen, IsFiniteSet(seen), NEW w \in Workload, NEW W, IsJoin(w, W)
  PROVE  LET all == FoldSet(LAMBDA call, v : MergeWorkload(v, Observed(call)), w, seen)
         IN /\ all \in Workload
            /\ IsJoin(all, W \cup {Observed(call) : call \in seen})
<1> DEFINE all == FoldSet(LAMBDA call, v : MergeWorkload(v, Observed(call)), w, seen)
           pick == [T \in SUBSET seen |-> CHOOSE call \in T : TRUE]
           step == [p \in seen \X Workload |-> MergeWorkload(p[2], Observed(p[1]))]
<1>1. \A T \in SUBSET seen : T # {} => pick[T] \in T /\ pick[T] = CHOOSE call \in T : TRUE
  OBVIOUS
<1>2. step \in [seen \X Workload -> Workload]
      /\ \A call \in seen, v \in Workload : step[<<call, v>>] = MergeWorkload(v, Observed(call))
  BY MergedWorkload, ObservedWorkload
<1> HIDE DEF pick, step
<1>3. PICK h \in [SUBSET seen -> Workload] : Folds(h, seen, w, step, pick)
  BY <1>1, <1>2, Folding
<1>4. h = [T \in SUBSET seen |->
             IF T = {} THEN w
             ELSE MergeWorkload(h[T \ {CHOOSE call \in T : TRUE}], Observed(CHOOSE call \in T : TRUE))]
  <2>1. \A T \in SUBSET seen : T # {} => pick[T] \in seen /\ h[T \ {pick[T]}] \in Workload
    BY <1>1
  <2> QED BY <1>1, <1>2, <1>3, <2>1 DEF Folds
<1>5. PICK g : /\ g = [T \in SUBSET seen |->
                        IF T = {} THEN w
                        ELSE MergeWorkload(g[T \ {CHOOSE call \in T : TRUE}],
                                           Observed(CHOOSE call \in T : TRUE))]
               /\ all = g[seen]
  BY <1>4 DEF FoldSet, MapThenFoldSet
<1> HIDE DEF all
<1>6. \A T \in SUBSET seen : g[T] = IF T = {} THEN w ELSE MergeWorkload(g[T \ {pick[T]}], Observed(pick[T]))
  BY <1>1, <1>5
<1> DEFINE Said(T) == {Observed(call) : call \in T}
           P == {T \in SUBSET seen : g[T] \in Workload /\ IsJoin(g[T], W \cup Said(T))}
<1>7. {} \in P
  <2>1. W \cup Said({}) = W
    OBVIOUS
  <2> QED BY <1>6, <2>1
<1>8. ASSUME NEW T \in SUBSET seen, T # {}, T \ {pick[T]} \in P PROVE T \in P
  <2> DEFINE o == Observed(pick[T])
             before == g[T \ {pick[T]}]
             V == W \cup Said(T \ {pick[T]})
  <2>1. o \in Workload /\ before \in Workload /\ IsJoin(before, V)
    BY <1>8, ObservedWorkload
  <2>2. IsJoin(o, {o})
    BY <2>1 DEF IsJoin, Workload
  <2>3. V \cup {o} = W \cup Said(T)
    BY <1>1, <1>8
  <2>4. g[T] = MergeWorkload(before, o)
    BY <1>6, <1>8
  <2> HIDE DEF o, before, V, Said
  <2>5. g[T] \in Workload /\ IsJoin(g[T], V \cup {o})
    BY <2>1, <2>2, <2>4, JoinMerged, MergedWorkload
  <2> QED BY <2>3, <2>5
<1>9. seen \in P
  <2> HIDE DEF P
  <2> QED BY <1>1, <1>7, <1>8, SetInduction
<1> QED BY <1>5, <1>9 DEF all

-----------------------------------------------------------------------------
(* Contexts that have seen the calls of dask_setup.                        *)

AreSetups(setups) ==
  IsFiniteSet(setups)
  /\ \A call \in setups : call.form \in {"bare", "attribute"} /\ call.of \in Name

\* A call reaches dask_setup if one of the imports says so.
LEMMA SeenIsReached ==
  ASSUME NEW imps \in SUBSET ImportStatement, Agree(imps), NEW ctx, NEW seen,
         Knows(ctx, imps, seen), "dask_setup" \in ctx.modules,
         NEW setups, AreSetups(setups)
  PROVE  {call \in setups : CallModule(ctx, call) = "dask_setup"} = SeenBy(imps, setups)
<1> SUFFICES ASSUME NEW call \in setups
             PROVE  CallModule(ctx, call) = "dask_setup" <=>
                      \E imp \in imps : imp.module = "dask_setup" /\ imp.binding = call.of
                                        /\ (call.form = "bare" => imp.form = "from")
  BY DEF SeenBy
<1>1. call.of \in Name /\ call.form \in {"bare", "attribute"}
  BY DEF AreSetups
<1>2. "dask_setup" # None
  BY ModulesAssumption DEF Knows, ImportStatement
<1>3. \A imp \in imps : imp.form \in {"import", "from"} /\ imp.module # None
  BY ModulesAssumption DEF ImportStatement
<1> DEFINE n == call.of
           a == ctx.aliases[n]
           f == ctx.from_imports[n]
<1>4. Means(a, imps, "import", n) /\ Means(f, imps, "from", n)
  BY <1>1 DEF Knows
<1>5. CallModule(ctx, call) = IF call.form = "attribute" /\ a # None THEN a ELSE f
  BY DEF CallModule
<1> HIDE DEF a, f
<1>6. CASE call.form = "bare"
  BY <1>2, <1>3, <1>4, <1>5, <1>6 DEF Means, Agree
<1>7. CASE call.form = "attribute"
  BY <1>2, <1>3, <1>4, <1>5, <1>7 DEF Means, Agree
<1> QED BY <1>1, <1>6, <1>7

LEMMA DetectKnows ==
  ASSUME NEW imps \in SUBSET ImportStatement, Agree(imps), NEW ctx \in Context, NEW seen,
         Knows(ctx, imps, seen), NEW setups, AreSetups(setups)
  PROVE  /\ DetectDaskSetupUsage(ctx, setups) \in Context
         /\ Knows(DetectDaskSetupUsage(ctx, setups), imps, seen \cup SeenBy(imps, setups))
<1>1. CASE "dask_setup" \notin ctx.modules
  <2>1. SeenBy(imps, setups) = {}
    BY <1>1 DEF SeenBy, Knows
  <2>2. seen \cup SeenBy(imps, setups) = seen
    BY <2>1
  <2> QED BY <1>1, <2>2 DEF DetectDaskSetupUsage
<1>2. CASE "dask_setup" \in ctx.modules
  <2> DEFINE reach == {call \in setups : CallModule(ctx, call) = "dask_setup"}
             g == ctx.gpu \/ \E call \in reach : ExplicitWorkload(call) = "gpu"
             w == FoldSet(LAMBDA call, v : MergeWorkload(v, Observed(call)), ctx.workload, reach)
             d == DetectDaskSetupUsage(ctx, setups)
             W == {Observed(call) : call \in seen}
  <2>1. d = [ctx EXCEPT !.gpu = g, !.workload = w]
    BY <1>2 DEF DetectDaskSetupUsage
  <2>2. reach = SeenBy(imps, setups)
    BY <1>2, SeenIsReached
  <2>3. IsFiniteSet(reach)
    BY FS_Subset DEF AreSetups
  <2>4. ctx.workload \in Workload /\ g \in BOOLEAN
    BY DEF Context, Workload
  <2>5. IsJoin(ctx.workload, W)
    BY DEF Knows
  <2> HIDE DEF d, reach, W
  <2>6. w \in Workload /\ IsJoin(w, W \cup {Observed(call) : call \in reach})
    BY <2>3, <2>4, <2>5, WorkloadsFold
  <2>7. g <=> ctx.gpu \/ \E call \in reach : ExplicitWorkload(call) = "gpu"
    OBVIOUS
  <2> HIDE DEF g, w
  <2>8. d = [modules |-> ctx.modules, gpu |-> g, workload |-> w,
             aliases |-> ctx.aliases, from_imports |-> ctx.from_imports]
    BY <2>1 DEF Context
  <2>9. d \in Context
    BY <2>4, <2>6, <2>8 DEF Context, Workload
  <2>10. W \cup {Observed(call) : call \in reach} = {Observed(call) : call \in seen \cup reach}
    BY DEF W
  <2>11. d.gpu <=> (\E imp \in imps : imp.module \in GpuModule)
                     \/ \E call \in seen \cup reach : ExplicitWorkload(call) = "gpu"
    BY <2>7, <2>8 DEF Knows
  <2>12. Knows(d, imps, seen \cup reach)
    BY <2>6, <2>8, <2>10, <2>11 DEF Knows
  <2> QED BY <2>2, <2>9, <2>12 DEF d
<1> QED BY <1>1, <1>2

LEMMA MergeKnows ==
  ASSUME NEW ctx \in Context, NEW other \in Context, NEW imps, NEW more, NEW seen, NEW others,
         Knows(ctx, imps, seen), Knows(other, more, others)
  PROVE  /\ MergeFrom(ctx, other) \in Context
         /\ Knows(MergeFrom(ctx, other), imps \cup more, seen \cup others)
<1> DEFINE m == MergeFrom(ctx, other)
           V == {Observed(call) : call \in seen}
           W == {Observed(call) : call \in others}
           g == ctx.gpu \/ other.gpu
<1>1. m = [modules |-> ctx.modules \cup other.modules, gpu |-> g,
           workload |-> MergeWorkload(ctx.workload, other.workload),
           aliases |-> OrInsert(ctx.aliases, other.aliases),
           from_imports |-> OrInsert(ctx.from_imports, other.from_imports)]
  BY DEF MergeFrom
<1>2. g \in BOOLEAN /\ (g <=> ctx.gpu \/ other.gpu)
  BY DEF Context
<1> HIDE DEF m, g
<1>3. MergeWorkload(ctx.workload, other.workload) \in Workload
  BY MergedWorkload DEF Context, Workload
<1>4. /\ OrInsert(ctx.aliases, other.aliases) \in [Name -> Module \cup {None}]
      /\ OrInsert(ctx.from_imports, other.from_imports) \in [Name -> Module \cup {None}]
  BY DEF OrInsert, Context
<1>5. m \in Context
  BY <1>1, <1>2, <1>3, <1>4 DEF Context, Workload
<1>6. \A n \in Name : /\ Means(m.aliases[n], imps \cup more, "import", n)
                      /\ Means(m.from_imports[n], imps \cup more, "from", n)
  BY <1>1 DEF OrInsert, Knows, Means
<1>7. IsJoin(m.workload, {Observed(call) : call \in seen \cup others})
  <2>1. IsJoin(ctx.workload, V) /\ IsJoin(other.workload, W)
    BY DEF Knows
  <2>2. V \cup W = {Observed(call) : call \in seen \cup others}
    OBVIOUS
  <2> HIDE DEF V, W
  <2> QED BY <1>1, <2>1, <2>2, JoinMerged
<1>8. m.modules = {imp.module : imp \in imps \cup more}
  BY <1>1 DEF Knows
<1>9. m.gpu <=> (\E imp \in imps \cup more : imp.module \in GpuModule)
                  \/ \E call \in seen \cup others : ExplicitWorkload(call) = "gpu"
  BY <1>1, <1>2 DEF Knows
<1>10. Knows(m, imps \cup more, seen \cup others)
  BY <1>6, <1>7, <1>8, <1>9 DEF Knows
<1> QED BY <1>5, <1>10 DEF m

\* One file by itself knows its imports, and the calls they make it see.
LEMMA FromTreeKnows ==
  ASSUME NEW s \in Seq(ImportStatement), Agree(ToSet(s)), NEW setups, AreSetups(setups)
  PROVE  /\ FromTree(s, setups) \in Context
         /\ Knows(FromTree(s, setups), ToSet(s), SeenBy(ToSet(s), setups))
<1> DEFINE ctx == FoldLeft(ReadImport, EmptyContext, s)
           imps == ToSet(s)
<1>1. ctx \in Context /\ Knows(ctx, imps, {}) /\ imps \in SUBSET ImportStatement
  BY FileKnows DEF ToSet
<1>2. FromTree(s, setups) = DetectDaskSetupUsage(ctx, setups)
  BY DEF FromTree
<1>3. {} \cup SeenBy(imps, setups) = SeenBy(imps, setups) /\ Agree(imps)
  OBVIOUS
<1> HIDE DEF ctx, imps
<1>4. FromTree(s, setups) \in Context /\ Knows(FromTree(s, setups), imps, SeenBy(imps, setups))
  BY <1>1, <1>2, <1>3, DetectKnows
<1> QED BY <1>4 DEF imps

-----------------------------------------------------------------------------
(* The notebook as one file.                                               *)

LEMMA ToSetOfTwo ==
  ASSUME NEW S, NEW a \in Seq(S), NEW b \in Seq(S)
  PROVE  a \o b \in Seq(S) /\ ToSet(a \o b) = ToSet(a) \cup ToSet(b)
<1> DEFINE n == Len(a)
           m == Len(b)
<1>1. n \in Nat /\ m \in Nat /\ DOMAIN a = 1..n /\ DOMAIN b = 1..m /\ a \o b \in Seq(S)
      /\ DOMAIN (a \o b) = 1..(n + m)
  OBVIOUS
<1>2. \A i \in 1..n : i \in 1..(n + m) /\ (a \o b)[i] = a[i]
  OBVIOUS
<1>3. \A i \in 1..m : n + i \in 1..(n + m) /\ (a \o b)[n + i] = b[i]
  OBVIOUS
<1>4. \A i \in 1..(n + m) : \/ i \in 1..n
                            \/ i - n \in 1..m /\ (a \o b)[i] = b[i - n]
  OBVIOUS
<1> DEFINE c == a \o b
<1> HIDE DEF c, n, m
<1>5. ToSet(c) \subseteq ToSet(a) \cup ToSet(b)
  BY <1>1, <1>2, <1>4 DEF ToSet, c
<1>6. ToSet(a) \subseteq ToSet(c)
  BY <1>1, <1>2 DEF ToSet, c
<1>7. ToSet(b) \subseteq ToSet(c)
  BY <1>1, <1>3 DEF ToSet, c
<1> QED BY <1>1, <1>5, <1>6, <1>7 DEF c

\* A sequence of sequences, as one.
LEMMA Flattened ==
  ASSUME NEW S, NEW n \in Nat, NEW s \in [1..n -> Seq(S)]
  PROVE  /\ FlattenSeq(s) \in Seq(S)
         /\ ToSet(FlattenSeq(s)) = UNION {ToSet(s[i]) : i \in 1..n}
<1>0. Len(s) = n
  OBVIOUS
<1>1. CASE n = 0
  <2>1. FlattenSeq(s) = s
    BY <1>0, <1>1 DEF FlattenSeq
  <2>2. s = <<>> /\ 1..n = {}
    BY <1>1
  <2>3. <<>> \in Seq(S) /\ ToSet(<<>>) = {}
    BY DEF ToSet
  <2> QED BY <2>1, <2>2, <2>3
<1>2. CASE n # 0
  <2> DEFINE A == Seq(S)
             step == [p \in (1..n) \X A |-> IF p[1] = 1 THEN s[p[1]] ELSE p[2] \o s[p[1]]]
  <2>1. <<>> \in A /\ \A i \in 1..n : s[i] \in A /\ \A a \in A : a \o s[i] \in A
    OBVIOUS
  <2> HIDE DEF A
  <2>2. step \in [(1..n) \X A -> A]
        /\ \A i \in 1..n, a \in A : step[<<i, a>>] = IF i = 1 THEN s[i] ELSE a \o s[i]
    BY <2>1
  <2> HIDE DEF step
  <2>3. PICK h \in [SUBSET (1..n) -> A] : FoldsTurns(h, n, <<>>, step)
    BY <2>1, <2>2, FoldingTurns
  <2>4. \A i \in 1..n : h[1..i] = step[<<i, h[1..(i - 1)]>>]
    BY <2>3, Prefix DEF FoldsTurns
  <2>5. \A i \in 1..n : h[1..i] = IF i = 1 THEN s[i] ELSE h[1..(i - 1)] \o s[i]
    <3>1. \A i \in 1..n : 1..(i - 1) \in SUBSET (1..n)
      OBVIOUS
    <3> QED BY <2>2, <2>4, <3>1
  <2>6. [i \in 1..n |-> h[1..i]] =
          [i \in 1..n |-> IF i = 1 THEN s[i] ELSE [j \in 1..n |-> h[1..j]][i - 1] \o s[i]]
    <3>1. \A i \in 1..n : i # 1 => i - 1 \in 1..n
      OBVIOUS
    <3> QED BY <2>5, <3>1
  <2>7. PICK f : /\ f = [i \in 1..n |-> IF i = 1 THEN s[i] ELSE f[i - 1] \o s[i]]
                 /\ FlattenSeq(s) = f[n]
    BY <1>0, <1>2, <2>6 DEF FlattenSeq
  <2> DEFINE Has(i) == f[i] \in Seq(S) /\ ToSet(f[i]) = UNION {ToSet(s[j]) : j \in 1..i}
             P == {i \in 0..n : i = 0 \/ Has(i)}
  <2>8. ASSUME NEW i \in 1..n, i - 1 \in P PROVE i \in P
    <3>1. f[i] = IF i = 1 THEN s[i] ELSE f[i - 1] \o s[i]
      BY <2>7
    <3>2. CASE i = 1
      <4>1. 1..i = {1} /\ f[i] = s[1] /\ s[1] \in Seq(S)
        BY <3>1, <3>2
      <4> QED BY <4>1
    <3>3. CASE i # 1
      <4>1. Has(i - 1) /\ s[i] \in Seq(S) /\ f[i] = f[i - 1] \o s[i]
        BY <2>8, <3>1, <3>3
      <4>2. f[i] \in Seq(S) /\ ToSet(f[i]) = ToSet(f[i - 1]) \cup ToSet(s[i])
        BY <4>1, ToSetOfTwo
      <4>3. \A j : j \in 1..i <=> j \in 1..(i - 1) \/ j = i
        OBVIOUS
      <4>4. ToSet(f[i]) = UNION {ToSet(s[j]) : j \in 1..i}
        BY <4>1, <4>2, <4>3
      <4> QED BY <4>2, <4>4
    <3> QED BY <3>2, <3>3
  <2>9. n \in P
    <3> HIDE DEF P
    <3>1. 0 \in P
      BY DEF P
    <3>2. 0..n \subseteq P
      BY <2>8, <3>1, BoundedInduction
    <3> QED BY <3>2
  <2> QED BY <1>2, <2>7, <2>9
<1> QED BY <1>1, <1>2

-----------------------------------------------------------------------------
(* Contexts.                                                               *)

LEMMA MergedIsContext ==
  ASSUME NEW ctx, NEW other
  PROVE  IsContext(MergeFrom(ctx, other))
BY DEF IsContext, MergeFrom, OrInsert

LEMMA EmptyIsContext == IsContext(EmptyContext)
BY DEF IsContext, EmptyContext

LEMMA MergedNames ==
  ASSUME NEW ctx, NEW other, NEW n \in Name
  PROVE  /\ MergeFrom(ctx, other).aliases[n] =
              IF ctx.aliases[n] # None THEN ctx.aliases[n] ELSE other.aliases[n]
         /\ MergeFrom(ctx, other).from_imports[n] =
              IF ctx.from_imports[n] # None THEN ctx.from_imports[n] ELSE other.from_imports[n]
BY DEF MergeFrom, OrInsert

\* Looking for clients leaves the names alone.
LEMMA DetectionKeepsNames ==
  ASSUME NEW ctx, IsContext(ctx), NEW setups
  PROVE  /\ DetectDaskSetupUsage(ctx, setups).aliases = ctx.aliases
         /\ DetectDaskSetupUsage(ctx, setups).from_imports = ctx.from_imports
<1>1. CASE "dask_setup" \notin ctx.modules
  BY <1>1 DEF DetectDaskSetupUsage
<1>2. CASE "dask_setup" \in ctx.modules
  <2> DEFINE seen == {call \in setups : CallModule(ctx, call) = "dask_setup"}
             g == ctx.gpu \/ \E call \in seen : ExplicitWorkload(call) = "gpu"
             w == FoldSet(LAMBDA call, v : MergeWorkload(v, Observed(call)), ctx.workload, seen)
  <2>1. DetectDaskSetupUsage(ctx, setups) = [ctx EXCEPT !.gpu = g, !.workload = w]
    BY <1>2 DEF DetectDaskSetupUsage
  <2> HIDE DEF g, w
  <2> DEFINE plain == [modules |-> ctx.modules, gpu |-> ctx.gpu, workload |-> ctx.workload,
                       aliases |-> ctx.aliases, from_imports |-> ctx.from_imports]
  <2>2. ctx = plain
    BY DEF IsContext
  <2>3. [plain EXCEPT !.gpu = g, !.workload = w].aliases = plain.aliases
    OBVIOUS
  <2>4. [plain EXCEPT !.gpu = g, !.workload = w].from_imports = plain.from_imports
    OBVIOUS
  <2> HIDE DEF plain
  <2> QED BY <2>1, <2>2, <2>3, <2>4
<1> QED BY <1>1, <1>2

-----------------------------------------------------------------------------
(* What the first of some cells said, one cell at a time.                  *)

LEMMA NothingSaidYet ==
  ASSUME ControlOK, NEW says
  PROVE  FirstSaid(1, says, None)
<1>1. \A c \in Parsed : ~(c < 1)
  BY InputAssumption DEF ControlOK, Parsed
<1> QED BY <1>1 DEF FirstSaid

LEMMA OneMoreCell ==
  ASSUME ControlOK, NEW says, NEW m, NEW k \in DOMAIN cells, FirstSaid(k, says, m)
  PROVE  /\ k \in Parsed => FirstSaid(k + 1, says, IF m # None THEN m ELSE says[k])
         /\ k \notin Parsed => FirstSaid(k + 1, says, m)
<1>1. Parsed \subseteq Nat /\ k \in Nat
  BY InputAssumption DEF ControlOK, Parsed
<1>2. \A c \in Parsed : c < k + 1 <=> c < k \/ c = k
  BY <1>1
<1>3. CASE m = None /\ \A c \in Parsed : c < k => says[c] = None
  BY <1>1, <1>2, <1>3 DEF FirstSaid
<1>4. CASE \E c \in Parsed : c < k /\ says[c] = m /\ m # None
                              /\ \A d \in Parsed : d < c => says[d] = None
  BY <1>1, <1>2, <1>4 DEF FirstSaid
<1> QED BY <1>3, <1>4 DEF FirstSaid

\* The first pass.
LEMMA MergingOneMoreCell ==
  ASSUME ControlOK, NEW k \in DOMAIN cells, k \in Parsed, MeansWhatFirstSaid(merged, k)
  PROVE  MeansWhatFirstSaid(MergeFrom(merged, Own(k)), k + 1)
<1> SUFFICES ASSUME NEW n \in Name
             PROVE  /\ FirstSaid(k + 1, Aliases(n), MergeFrom(merged, Own(k)).aliases[n])
                    /\ FirstSaid(k + 1, FromImports(n),
                                 MergeFrom(merged, Own(k)).from_imports[n])
  BY DEF MeansWhatFirstSaid
<1>1. FirstSaid(k, Aliases(n), merged.aliases[n])
      /\ FirstSaid(k, FromImports(n), merged.from_imports[n])
  BY DEF MeansWhatFirstSaid
<1>2. Aliases(n)[k] = Own(k).aliases[n] /\ FromImports(n)[k] = Own(k).from_imports[n]
  BY DEF Aliases, FromImports
<1>3. FirstSaid(k + 1, Aliases(n),
                IF merged.aliases[n] # None THEN merged.aliases[n] ELSE Aliases(n)[k])
  BY <1>1, OneMoreCell
<1>4. FirstSaid(k + 1, FromImports(n),
                IF merged.from_imports[n] # None THEN merged.from_imports[n]
                ELSE FromImports(n)[k])
  BY <1>1, OneMoreCell
<1> QED BY <1>2, <1>3, <1>4, MergedNames

LEMMA PassingOneMoreCell ==
  ASSUME ControlOK, NEW k \in DOMAIN cells, k \notin Parsed, MeansWhatFirstSaid(merged, k)
  PROVE  MeansWhatFirstSaid(merged, k + 1)
BY OneMoreCell DEF MeansWhatFirstSaid

\* The second pass: two contexts that agree on names stay so when merged.
LEMMA SameNamesMerged ==
  ASSUME NEW ctx, NEW other, NEW k, MeansWhatFirstSaid(ctx, k), MeansWhatFirstSaid(other, k),
         ControlOK
  PROVE  MeansWhatFirstSaid(MergeFrom(ctx, other), k)
BY MergedNames DEF MeansWhatFirstSaid

-----------------------------------------------------------------------------
(* The invariant.                                                          *)

LEMMA InitInv == Init => IInv
<1> SUFFICES ASSUME Init PROVE IInv
  OBVIOUS
<1>1. ControlOK
  BY EmptyIsContext, InputAssumption DEF Init, ControlOK
<1>2. OwnUntilShared /\ PassesInOrder /\ FirstCellWins
  BY DEF Init, OwnUntilShared, PassesInOrder, FirstCellWins, Parsed, Ready
<1> QED BY <1>1, <1>2 DEF IInv

LEMMA ParseSourceInv ==
  ASSUME IInv, NEW c \in DOMAIN cells, ParseSource(c)
  PROVE  IInv'
<1> USE DEF ParseSource
<1>1. ControlOK'
  BY DEF IInv, ControlOK, IsContext
<1>2. OwnUntilShared'
  <2>1. Parsed' = Parsed \cup {c}
    BY DEF IInv, ControlOK, Parsed
  <2>2. imports'[c] = Own(c) /\ \A d \in Parsed \ {c} : imports'[d] = imports[d]
    BY DEF IInv, ControlOK, Parsed
  <2>3. \A d \in DOMAIN cells : Own(d)' = Own(d)
    BY DEF Own
  <2> QED BY <2>1, <2>2, <2>3 DEF IInv, OwnUntilShared, Parsed
<1>3. PassesInOrder' /\ FirstCellWins'
  BY DEF IInv, PassesInOrder, FirstCellWins, Ready
<1> QED BY <1>1, <1>2, <1>3 DEF IInv

LEMMA SkipInv ==
  ASSUME IInv, NEW c \in DOMAIN cells, Skip(c)
  PROVE  IInv'
<1> USE DEF Skip
<1>1. ControlOK'
  BY DEF IInv, ControlOK, IsContext
<1>2. OwnUntilShared'
  <2>1. Parsed' = Parsed
    BY DEF IInv, ControlOK, Parsed
  <2>2. \A d \in DOMAIN cells : Own(d)' = Own(d)
    BY DEF Own
  <2> QED BY <2>1, <2>2 DEF IInv, OwnUntilShared, Parsed
<1>3. PassesInOrder' /\ FirstCellWins'
  BY DEF IInv, PassesInOrder, FirstCellWins, Ready
<1> QED BY <1>1, <1>2, <1>3 DEF IInv

\* The steps after the last cell is parsed leave the cells as they are.
LEMMA SameCells ==
  ASSUME cells' = cells, outcome' = outcome
  PROVE  /\ Parsed' = Parsed
         /\ \A c \in DOMAIN cells : Own(c)' = Own(c)
         /\ \A k, ctx : MeansWhatFirstSaid(ctx, k)' <=> MeansWhatFirstSaid(ctx, k)
BY DEF Parsed, Own, MeansWhatFirstSaid, FirstSaid, Aliases, FromImports

LEMMA CollectInv ==
  ASSUME IInv, Collect
  PROVE  IInv'
<1> USE DEF Collect
<1>1. ControlOK'
  BY DEF IInv, ControlOK, IsContext
<1>2. OwnUntilShared'
  BY SameCells DEF IInv, OwnUntilShared, Parsed
<1>3. turn = 1 /\ merged = EmptyContext
  BY DEF IInv, PassesInOrder
<1>4. MeansWhatFirstSaid(EmptyContext, 1)
  BY NothingSaidYet DEF IInv, MeansWhatFirstSaid, EmptyContext
<1>5. PassesInOrder'
  <2>1. MeansWhatFirstSaid(merged, turn)'
    BY <1>3, <1>4, SameCells
  <2> QED BY <2>1, <1>3 DEF PassesInOrder
<1>6. FirstCellWins'
  <2>1. SUFFICES ASSUME phase' = "ready" PROVE ~(\E c, d \in Parsed' : c # d)
    BY DEF FirstCellWins, Ready
  <2> QED BY <2>1, SameCells
<1> QED BY <1>1, <1>2, <1>5, <1>6 DEF IInv

LEMMA MergeCellInv ==
  ASSUME IInv, MergeCell
  PROVE  IInv'
<1> USE DEF MergeCell
<1>1. ControlOK'
  <2>1. IsContext(merged')
    BY MergedIsContext DEF IInv, ControlOK
  <2>2. turn' \in 1 .. Len(cells) + 1
    BY InputAssumption DEF IInv, ControlOK
  <2> QED BY <2>1, <2>2 DEF IInv, ControlOK, IsContext
<1>2. OwnUntilShared'
  BY SameCells DEF IInv, OwnUntilShared, Parsed
<1>3. MeansWhatFirstSaid(merged, turn)'
  <2>1. MeansWhatFirstSaid(merged, turn)
    BY DEF IInv, PassesInOrder
  <2>2. CASE turn \in Parsed
    <3>1. merged' = MergeFrom(merged, Own(turn))
      BY <2>2 DEF IInv, OwnUntilShared
    <3>2. MeansWhatFirstSaid(MergeFrom(merged, Own(turn)), turn + 1)
      BY <2>1, <2>2, MergingOneMoreCell DEF IInv
    <3> QED BY <3>1, <3>2, SameCells
  <2>3. CASE turn \notin Parsed
    <3>1. MeansWhatFirstSaid(merged, turn + 1)
      BY <2>1, <2>3, PassingOneMoreCell DEF IInv
    <3> QED BY <2>3, <3>1, SameCells
  <2> QED BY <2>2, <2>3
<1>4. PassesInOrder' /\ FirstCellWins'
  BY <1>3 DEF PassesInOrder, FirstCellWins, Ready
<1> QED BY <1>1, <1>2, <1>4 DEF IInv

LEMMA FreezeInv ==
  ASSUME IInv, Freeze
  PROVE  IInv'
<1> USE DEF Freeze
<1>1. ControlOK'
  BY InputAssumption DEF IInv, ControlOK, IsContext
<1>2. OwnUntilShared'
  BY SameCells DEF IInv, OwnUntilShared, Parsed
<1>3. turn = Len(cells) + 1
  BY InputAssumption DEF IInv, ControlOK, IsSequence
<1>4. MeansWhatFirstSaid(merged, Len(cells) + 1)
  BY <1>3 DEF IInv, PassesInOrder
<1>5. MeansWhatFirstSaid(merged, Len(cells) + 1)' /\ MeansWhatFirstSaid(imported, Len(cells) + 1)'
  BY <1>4, SameCells
<1>6. PassesInOrder' /\ FirstCellWins'
  BY <1>5 DEF PassesInOrder, FirstCellWins, Ready
<1> QED BY <1>1, <1>2, <1>6 DEF IInv

LEMMA RescanInv ==
  ASSUME IInv, Rescan
  PROVE  IInv'
<1> USE DEF Rescan
<1>1. ControlOK'
  <2>1. IsContext(merged')
    BY MergedIsContext DEF IInv, ControlOK
  <2>2. turn' \in 1 .. Len(cells) + 1
    BY InputAssumption DEF IInv, ControlOK
  <2> QED BY <2>1, <2>2 DEF IInv, ControlOK, IsContext
<1>2. OwnUntilShared'
  BY SameCells DEF IInv, OwnUntilShared, Parsed
<1> DEFINE all == Len(cells) + 1
           contextual == DetectDaskSetupUsage(imported, cells[turn].setups)
<1>3. MeansWhatFirstSaid(merged, all) /\ MeansWhatFirstSaid(imported, all)
  BY DEF IInv, PassesInOrder
<1>4. MeansWhatFirstSaid(contextual, all)
  BY <1>3, DetectionKeepsNames DEF IInv, ControlOK, MeansWhatFirstSaid
<1>5. MeansWhatFirstSaid(MergeFrom(merged, contextual), all)
  BY <1>3, <1>4, SameNamesMerged DEF IInv
<1>6. MeansWhatFirstSaid(merged, Len(cells) + 1)' /\ MeansWhatFirstSaid(imported, Len(cells) + 1)'
  <2>1. merged' = MergeFrom(merged, contextual) \/ merged' = merged
    OBVIOUS
  <2>2. MeansWhatFirstSaid(merged', all)
    BY <1>3, <1>5, <2>1
  <2> QED BY <1>3, <2>2, SameCells
<1>7. PassesInOrder' /\ FirstCellWins'
  BY <1>6 DEF PassesInOrder, FirstCellWins, Ready
<1> QED BY <1>1, <1>2, <1>7 DEF IInv

LEMMA ShareInv ==
  ASSUME IInv, Share
  PROVE  IInv'
<1> USE DEF Share
<1>1. ControlOK'
  BY DEF IInv, ControlOK, IsContext
<1>2. OwnUntilShared' /\ PassesInOrder'
  BY DEF OwnUntilShared, PassesInOrder
<1>3. FirstCellWins'
  <2>1. MeansWhatFirstSaid(merged, Len(cells) + 1)
    BY DEF IInv, PassesInOrder
  <2>2. MeansWhatFirstSaid(merged, Len(cells) + 1)'
    BY <2>1, SameCells
  <2>3. \A c \in Parsed' : imports'[c] = merged'
    BY SameCells DEF Parsed
  <2> QED BY <2>2, <2>3 DEF FirstCellWins
<1> QED BY <1>1, <1>2, <1>3 DEF IInv

LEMMA StutterInv ==
  ASSUME IInv, UNCHANGED analysis
  PROVE  IInv'
<1> USE DEF analysis
<1>1. ControlOK'
  BY DEF IInv, ControlOK, IsContext
<1>2. OwnUntilShared'
  BY SameCells DEF IInv, OwnUntilShared, Parsed
<1>3. PassesInOrder'
  BY SameCells DEF IInv, PassesInOrder
<1>4. FirstCellWins'
  BY SameCells DEF IInv, FirstCellWins, Ready
<1> QED BY <1>1, <1>2, <1>3, <1>4 DEF IInv

-----------------------------------------------------------------------------
\* The contexts of the cells are what the order of the cells makes them.
THEOREM NotebookInvariant == Spec => []IInv
<1>1. IInv /\ [ParseNotebook]_analysis => IInv'
  BY ParseSourceInv, SkipInv, CollectInv, MergeCellInv, FreezeInv, RescanInv, ShareInv,
     StutterInv DEF ParseNotebook
<1> QED BY InitInv, <1>1, PTL DEF Spec

\* Running the notebook does not disturb its analysis.
THEOREM KernelKeepsAnalysis == KernelSpec => Spec
<1>1. KernelInit => Init
  BY DEF KernelInit
<1>2. [Next]_vars => [ParseNotebook]_analysis
  BY DEF Next, vars, Execute, RunImport, Call
<1> QED BY <1>1, <1>2, PTL DEF KernelSpec, Spec

\* A name means for every cell what the first parsed cell that imports it says.
THEOREM FirstCellAlwaysWins == KernelSpec => []FirstCellWins
<1>1. IInv => FirstCellWins
  BY DEF IInv
<1> QED BY <1>1, NotebookInvariant, KernelKeepsAnalysis, PTL

-----------------------------------------------------------------------------
(* What the context of a notebook knows, pass by pass.                     *)

Before(k) == {c \in Parsed : c < k}
After     == Len(cells) + 1

\* What the cells before k import, which calls see dask_setup by the imports of
\* their own cell, and which by those of all cells.
Heard(k) == UNION {ToSet(cells[c].imports) : c \in Before(k)}
Told(k)  == UNION {SeenBy(ToSet(cells[c].imports), cells[c].setups) : c \in Before(k)}
Asked(k) == UNION {SeenBy(Heard(After), cells[c].setups) : c \in Before(k)}

IsKnown(ctx, imps, seen) == ctx \in Context /\ Knows(ctx, imps, seen)

ContextsKnow ==
  Agree(Heard(After)) =>
    /\ phase = "merging" => IsKnown(merged, Heard(turn), Told(turn))
    /\ phase = "rescanning" =>
         /\ IsKnown(imported, Heard(After), Told(After))
         /\ IsKnown(merged, Heard(After), Told(After) \cup Asked(turn))
    /\ phase = "ready" =>
         \A c \in Parsed : IsKnown(imports[c], Heard(After), Asked(After))

-----------------------------------------------------------------------------
LEMMA CellIsWell ==
  ASSUME ControlOK, NEW c \in DOMAIN cells
  PROVE  cells[c].imports \in Seq(ImportStatement) /\ AreSetups(cells[c].setups)
BY InputAssumption DEF ControlOK, IsCell, AreSetups, ImportStatement

LEMMA CellsAreNumbered ==
  ASSUME ControlOK
  PROVE  Len(cells) \in Nat /\ DOMAIN cells = 1 .. Len(cells) /\ Parsed \subseteq 1 .. Len(cells)
BY InputAssumption DEF ControlOK, IsSequence, Parsed

LEMMA BeforeTurns ==
  ASSUME ControlOK
  PROVE  /\ Before(1) = {} /\ Before(After) = Parsed
         /\ \A k \in DOMAIN cells :
              Before(k + 1) = IF k \in Parsed THEN Before(k) \cup {k} ELSE Before(k)
<1>1. Len(cells) \in Nat /\ DOMAIN cells = 1 .. Len(cells) /\ Parsed \subseteq 1 .. Len(cells)
  BY CellsAreNumbered
<1>2. Parsed \subseteq Nat /\ \A k \in DOMAIN cells : k \in Nat
  BY <1>1
<1>3. Before(1) = {} /\ Before(After) = Parsed
  <2>1. \A c \in Parsed : c < Len(cells) + 1 /\ ~(c < 1)
    BY <1>1
  <2> QED BY <2>1 DEF Before, After
<1>4. \A k \in Nat : \A c \in Nat : c < k + 1 <=> c < k \/ c = k
  OBVIOUS
<1> HIDE <1>1
<1>5. \A k \in DOMAIN cells :
        Before(k + 1) = IF k \in Parsed THEN Before(k) \cup {k} ELSE Before(k)
  BY <1>2, <1>4 DEF Before
<1> QED BY <1>3, <1>5

LEMMA HeardIsWell ==
  ASSUME ControlOK, NEW k
  PROVE  Heard(k) \in SUBSET ImportStatement /\ Heard(k) \subseteq Heard(After)
<1>1. Before(k) \subseteq Parsed /\ Before(After) = Parsed /\ Parsed \subseteq DOMAIN cells
  BY BeforeTurns DEF Before, Parsed
<1>2. \A c \in DOMAIN cells : ToSet(cells[c].imports) \subseteq ImportStatement
  BY CellIsWell DEF ToSet
<1> QED BY <1>1, <1>2 DEF Heard

\* The imports and calls of the notebook, as one file.
LEMMA NotebookIsOneFile ==
  ASSUME ControlOK
  PROVE  /\ NotebookImports \in Seq(ImportStatement) /\ ToSet(NotebookImports) = Heard(After)
         /\ AreSetups(NotebookSetups)
         /\ SeenBy(Heard(After), NotebookSetups) = Asked(After)
<1> DEFINE n == Len(cells)
           s == [c \in 1..n |-> IF c \in Parsed THEN cells[c].imports ELSE <<>>]
<1>1. n \in Nat /\ DOMAIN cells = 1..n /\ Parsed \subseteq 1..n
  BY CellsAreNumbered
<1>2. s \in [1..n -> Seq(ImportStatement)]
  <2>1. <<>> \in Seq(ImportStatement)
    OBVIOUS
  <2> QED BY <2>1, <1>1, CellIsWell
<1>3. NotebookImports = FlattenSeq(s)
  BY <1>1 DEF NotebookImports
<1>4. UNION {ToSet(s[i]) : i \in 1..n} = Heard(After)
  <2>1. \A i \in 1..n : ToSet(s[i]) = IF i \in Parsed THEN ToSet(cells[i].imports) ELSE {}
    BY DEF ToSet
  <2>2. Before(After) = Parsed
    BY BeforeTurns
  <2> HIDE DEF s, n
  <2> QED BY <1>1, <2>1, <2>2 DEF Heard
<1> HIDE DEF s, n
<1>5. NotebookImports \in Seq(ImportStatement) /\ ToSet(NotebookImports) = Heard(After)
  BY <1>1, <1>2, <1>3, <1>4, Flattened
<1>6. AreSetups(NotebookSetups)
  <2>1. IsFiniteSet(Parsed)
    <3>1. IsFiniteSet(1..n)
      BY <1>1, FS_Interval
    <3> QED BY <1>1, <3>1, FS_Subset
  <2> DEFINE all == {cells[c].setups : c \in Parsed}
  <2>2. IsFiniteSet(all)
    <3>1. [c \in Parsed |-> cells[c].setups] \in Surjection(Parsed, all)
      BY DEF Surjection
    <3> QED BY <2>1, <3>1, FS_Surjection
  <2>3. \A x \in all : AreSetups(x)
    BY <1>1, CellIsWell
  <2>4. NotebookSetups = UNION all
    BY DEF NotebookSetups
  <2> HIDE DEF all
  <2>5. IsFiniteSet(UNION all)
    BY <2>2, <2>3, FS_UNION DEF AreSetups
  <2> QED BY <2>3, <2>4, <2>5 DEF AreSetups
<1>7. SeenBy(Heard(After), NotebookSetups) = Asked(After)
  BY BeforeTurns DEF SeenBy, NotebookSetups, Asked
<1> QED BY <1>5, <1>6, <1>7

-----------------------------------------------------------------------------
(* Each step of the passes.                                                *)

LEMMA SameBefore ==
  ASSUME cells' = cells, outcome' = outcome
  PROVE  /\ \A k : Before(k)' = Before(k)
         /\ \A k : Heard(k)' = Heard(k)
         /\ \A k : Told(k)' = Told(k)
         /\ \A k : Asked(k)' = Asked(k)
         /\ Heard(After)' = Heard(After) /\ Told(After)' = Told(After)
         /\ Asked(After)' = Asked(After)
<1>1. Parsed' = Parsed /\ After' = After
  BY DEF Parsed, After
<1>2. \A k : Before(k)' = Before(k)
  BY <1>1 DEF Before
<1>3. \A k : Heard(k)' = Heard(k)
  BY <1>2 DEF Heard
<1>4. \A k : Told(k)' = Told(k)
  BY <1>2 DEF Told
<1>5. Heard(After)' = Heard(After)
  BY <1>1 DEF Heard, Before
<1>6. \A k : Asked(k)' = Asked(k)
  BY <1>2, <1>5 DEF Asked
<1>7. Told(After)' = Told(After) /\ Asked(After)' = Asked(After)
  BY <1>1, <1>5 DEF Told, Asked, Before
<1> QED BY <1>2, <1>3, <1>4, <1>5, <1>6, <1>7

LEMMA BeforeOneMore ==
  ASSUME ControlOK, NEW k \in DOMAIN cells
  PROVE  /\ k \in Parsed =>
              /\ Heard(k + 1) = Heard(k) \cup ToSet(cells[k].imports)
              /\ Told(k + 1) = Told(k) \cup SeenBy(ToSet(cells[k].imports), cells[k].setups)
              /\ Asked(k + 1) = Asked(k) \cup SeenBy(Heard(After), cells[k].setups)
         /\ k \notin Parsed =>
              Heard(k + 1) = Heard(k) /\ Told(k + 1) = Told(k) /\ Asked(k + 1) = Asked(k)
<1>1. Before(k + 1) = IF k \in Parsed THEN Before(k) \cup {k} ELSE Before(k)
  BY BeforeTurns
<1>2. CASE k \in Parsed
  BY <1>1, <1>2 DEF Heard, Told, Asked
<1>3. CASE k \notin Parsed
  BY <1>1, <1>3 DEF Heard, Told, Asked
<1> QED BY <1>2, <1>3

LEMMA NothingBefore ==
  ASSUME ControlOK
  PROVE  Heard(1) = {} /\ Told(1) = {} /\ Asked(1) = {}
BY BeforeTurns DEF Heard, Told, Asked

\* A call that its own cell knows to reach dask_setup, the notebook knows too.
LEMMA ToldIsAsked ==
  ASSUME ControlOK
  PROVE  Told(After) \cup Asked(After) = Asked(After)
<1>1. \A c \in Parsed : ToSet(cells[c].imports) \subseteq Heard(After)
  BY BeforeTurns DEF Heard
<1> QED BY <1>1, BeforeTurns DEF Told, Asked, SeenBy

\* A cell knows what it imports itself.
LEMMA OwnIsKnown ==
  ASSUME ControlOK, Agree(Heard(After)), NEW c \in Parsed
  PROVE  IsKnown(Own(c), ToSet(cells[c].imports),
                 SeenBy(ToSet(cells[c].imports), cells[c].setups))
<1>1. c \in DOMAIN cells /\ c \in Before(After)
  BY BeforeTurns DEF Parsed
<1>2. ToSet(cells[c].imports) \subseteq Heard(After)
  BY <1>1 DEF Heard
<1>3. Agree(ToSet(cells[c].imports))
  BY <1>2 DEF Agree
<1> QED BY <1>1, <1>3, CellIsWell, FromTreeKnows DEF IsKnown, Own

LEMMA CollectKnows ==
  ASSUME IInv, ContextsKnow, Collect
  PROVE  ContextsKnow'
<1> USE DEF Collect
<1> SUFFICES ASSUME Agree(Heard(After))'
             PROVE  /\ phase' = "merging" => IsKnown(merged, Heard(turn), Told(turn))'
                    /\ phase' = "ready" =>
                         \A c \in Parsed' : IsKnown(imports'[c], Heard(After)', Asked(After)')
  BY DEF ContextsKnow
<1>1. ControlOK /\ turn = 1 /\ merged = EmptyContext
  BY DEF IInv, PassesInOrder
<1>2. Agree(Heard(After))
  BY SameBefore DEF Agree
<1>3. phase' = "merging" => IsKnown(merged, Heard(turn), Told(turn))'
  <2>1. IsKnown(EmptyContext, Heard(1), Told(1))
    BY <1>1, NothingBefore, EmptyKnowsNothing DEF IsKnown
  <2>2. IsKnown(merged', Heard(turn)', Told(turn)')
    BY <1>1, <2>1, SameBefore
  <2> QED BY <2>2 DEF IsKnown
<1>4. ASSUME phase' = "ready", NEW c \in Parsed'
      PROVE  IsKnown(imports'[c], Heard(After)', Asked(After)')
  <2>1. Parsed' = Parsed /\ Parsed = {c}
    BY <1>4, SameCells
  <2>2. Before(After) = {c}
    BY <1>1, <2>1, BeforeTurns
  <2>3. Heard(After) = ToSet(cells[c].imports)
    BY <2>2 DEF Heard
  <2>4. Asked(After) = SeenBy(ToSet(cells[c].imports), cells[c].setups)
    BY <2>2, <2>3 DEF Asked
  <2>5. imports[c] = Own(c)
    BY <2>1 DEF IInv, OwnUntilShared
  <2>6. IsKnown(imports[c], Heard(After), Asked(After))
    BY <1>1, <1>2, <2>1, <2>3, <2>4, <2>5, OwnIsKnown
  <2> QED BY <2>6, SameBefore
<1> QED BY <1>3, <1>4

LEMMA MergeCellKnows ==
  ASSUME IInv, ContextsKnow, MergeCell
  PROVE  ContextsKnow'
<1> USE DEF MergeCell
<1> SUFFICES ASSUME Agree(Heard(After))' PROVE IsKnown(merged', Heard(turn)', Told(turn)')
  BY DEF ContextsKnow, IsKnown
<1>1. ControlOK /\ Agree(Heard(After))
  BY SameBefore DEF IInv, Agree
<1>2. IsKnown(merged, Heard(turn), Told(turn))
  BY <1>1 DEF ContextsKnow
<1>3. IsKnown(merged', Heard(turn + 1), Told(turn + 1))
  <2>1. CASE turn \in Parsed
    <3> DEFINE imps == ToSet(cells[turn].imports)
               seen == SeenBy(imps, cells[turn].setups)
    <3>1. merged' = MergeFrom(merged, Own(turn))
      BY <2>1 DEF IInv, OwnUntilShared
    <3>2. IsKnown(Own(turn), imps, seen)
      BY <1>1, <2>1, OwnIsKnown
    <3>3. Heard(turn + 1) = Heard(turn) \cup imps /\ Told(turn + 1) = Told(turn) \cup seen
      BY <1>1, <2>1, BeforeOneMore
    <3> HIDE DEF imps, seen
    <3>4. IsKnown(merged', Heard(turn) \cup imps, Told(turn) \cup seen)
      BY <1>2, <3>1, <3>2, MergeKnows DEF IsKnown
    <3> QED BY <3>3, <3>4
  <2>2. CASE turn \notin Parsed
    BY <1>1, <1>2, <2>2, BeforeOneMore
  <2> QED BY <2>1, <2>2
<1>4. Heard(turn)' = Heard(turn + 1) /\ Told(turn)' = Told(turn + 1)
  BY SameBefore
<1> QED BY <1>3, <1>4

LEMMA FreezeKnows ==
  ASSUME IInv, ContextsKnow, Freeze
  PROVE  ContextsKnow'
<1> USE DEF Freeze
<1> SUFFICES ASSUME Agree(Heard(After))'
             PROVE  /\ IsKnown(imported', Heard(After)', Told(After)')
                    /\ IsKnown(merged', Heard(After)', Told(After)' \cup Asked(turn)')
  BY DEF ContextsKnow, IsKnown
<1>1. ControlOK /\ Agree(Heard(After))
  BY SameBefore DEF IInv, Agree
<1>2. turn = After
  BY <1>1, CellsAreNumbered DEF ControlOK, After
<1>3. IsKnown(merged, Heard(After), Told(After))
  BY <1>1, <1>2 DEF ContextsKnow
<1>4. Asked(turn)' = {}
  BY <1>1, NothingBefore, SameBefore
<1>5. Told(After) \cup {} = Told(After)
  OBVIOUS
<1> QED BY <1>3, <1>4, <1>5, SameBefore

LEMMA RescanKnows ==
  ASSUME IInv, ContextsKnow, Rescan
  PROVE  ContextsKnow'
<1> USE DEF Rescan
<1> SUFFICES ASSUME Agree(Heard(After))'
             PROVE  /\ IsKnown(imported', Heard(After)', Told(After)')
                    /\ IsKnown(merged', Heard(After)', Told(After)' \cup Asked(turn)')
  BY DEF ContextsKnow, IsKnown
<1> DEFINE imps == Heard(After)
           told == Told(After)
<1>1. ControlOK /\ Agree(imps)
  BY SameBefore DEF IInv, Agree
<1>2. IsKnown(imported, imps, told) /\ IsKnown(merged, imps, told \cup Asked(turn))
  BY <1>1 DEF ContextsKnow
<1>3. imps \in SUBSET ImportStatement
  BY <1>1, HeardIsWell
<1>4. IsKnown(merged', imps, told \cup Asked(turn + 1))
  <2>1. CASE turn \in Parsed
    <3> DEFINE seen == SeenBy(imps, cells[turn].setups)
               ctx  == DetectDaskSetupUsage(imported, cells[turn].setups)
    <3>1. AreSetups(cells[turn].setups)
      BY <1>1, CellIsWell
    <3> HIDE DEF imps, told
    <3>2. IsKnown(ctx, imps, told \cup seen)
      BY <1>1, <1>2, <1>3, <3>1, DetectKnows DEF IsKnown
    <3>3. merged' = MergeFrom(merged, ctx)
      BY <2>1
    <3> HIDE DEF ctx, seen
    <3>4. IsKnown(merged', imps \cup imps, (told \cup Asked(turn)) \cup (told \cup seen))
      BY <1>2, <3>2, <3>3, MergeKnows DEF IsKnown
    <3>5. Asked(turn + 1) = Asked(turn) \cup seen
      BY <1>1, <2>1, BeforeOneMore DEF seen, imps
    <3>6. /\ imps \cup imps = imps
          /\ (told \cup Asked(turn)) \cup (told \cup seen) = told \cup Asked(turn + 1)
      BY <3>5
    <3> QED BY <3>4, <3>6
  <2>2. CASE turn \notin Parsed
    BY <1>1, <1>2, <2>2, BeforeOneMore
  <2> QED BY <2>1, <2>2
<1>5. Asked(turn)' = Asked(turn + 1)
  BY SameBefore
<1> QED BY <1>2, <1>4, <1>5, SameBefore

LEMMA ShareKnows ==
  ASSUME IInv, ContextsKnow, Share
  PROVE  ContextsKnow'
<1> USE DEF Share
<1> SUFFICES ASSUME Agree(Heard(After))', NEW c \in Parsed'
             PROVE  IsKnown(imports'[c], Heard(After)', Asked(After)')
  BY DEF ContextsKnow, IsKnown
<1>1. ControlOK /\ Agree(Heard(After))
  BY SameBefore DEF IInv, Agree
<1>2. turn = After
  BY <1>1, CellsAreNumbered DEF ControlOK, After
<1>3. IsKnown(merged, Heard(After), Told(After) \cup Asked(After))
  BY <1>1, <1>2 DEF ContextsKnow
<1>4. IsKnown(merged, Heard(After), Asked(After))
  BY <1>1, <1>3, ToldIsAsked
<1>5. Parsed' = Parsed /\ Parsed \subseteq DOMAIN cells
  BY SameCells DEF Parsed
<1>6. imports'[c] = merged
  BY <1>5
<1> QED BY <1>4, <1>6, SameBefore

LEMMA StutterKnows ==
  ASSUME ContextsKnow, UNCHANGED analysis
  PROVE  ContextsKnow'
<1> USE DEF analysis
<1>1. Heard(turn)' = Heard(turn) /\ Told(turn)' = Told(turn) /\ Asked(turn)' = Asked(turn)
  BY SameBefore
<1>2. Parsed' = Parsed
  BY SameCells
<1> QED BY <1>1, <1>2, SameBefore DEF ContextsKnow, IsKnown, Agree

-----------------------------------------------------------------------------
(* The notebook reads like a file.                                         *)

LEMMA InitKnows == Init => ContextsKnow
BY DEF Init, ContextsKnow

LEMMA ParsingKnows ==
  ASSUME IInv, NEW c \in DOMAIN cells, ParseSource(c) \/ Skip(c)
  PROVE  ContextsKnow'
BY DEF ParseSource, Skip, ContextsKnow

\* The contexts of the cells know what the notebook imports, pass by pass: the
\* first hears the imports of the cells before its turn, the second also sees the
\* calls of dask_setup that another cell's import reaches.
THEOREM ContextsInvariant == Spec => [](IInv /\ ContextsKnow)
<1>1. Init => IInv /\ ContextsKnow
  BY InitInv, InitKnows
<1>2. (IInv /\ ContextsKnow) /\ [ParseNotebook]_analysis => ContextsKnow'
  BY ParsingKnows, CollectKnows, MergeCellKnows, FreezeKnows, RescanKnows, ShareKnows,
     StutterKnows DEF ParseNotebook
<1>3. (IInv /\ ContextsKnow) /\ [ParseNotebook]_analysis => IInv'
  BY ParseSourceInv, SkipInv, CollectInv, MergeCellInv, FreezeInv, RescanInv, ShareInv,
     StutterInv DEF ParseNotebook
<1> QED BY <1>1, <1>2, <1>3, PTL DEF Spec

LEMMA CellsReadLikeAFile ==
  ASSUME IInv, ContextsKnow
  PROVE  ReadsLikeAFile
<1> SUFFICES ASSUME Ready, OneModulePerName, NEW c \in Parsed
             PROVE  imports[c] = FromTree(NotebookImports, NotebookSetups)
  BY DEF ReadsLikeAFile
<1> DEFINE imps == Heard(After)
           file == FromTree(NotebookImports, NotebookSetups)
<1>1. ControlOK
  BY DEF IInv
<1>2. /\ NotebookImports \in Seq(ImportStatement) /\ ToSet(NotebookImports) = imps
      /\ AreSetups(NotebookSetups) /\ SeenBy(imps, NotebookSetups) = Asked(After)
  BY <1>1, NotebookIsOneFile
<1>3. Agree(imps) /\ imps \in SUBSET ImportStatement
  BY <1>1, <1>2, HeardIsWell DEF OneModulePerName, Agree
<1>4. IsKnown(imports[c], imps, Asked(After))
  BY <1>3 DEF ContextsKnow, Ready
<1>5. IsKnown(file, imps, Asked(After))
  BY <1>2, <1>3, FromTreeKnows DEF IsKnown
<1> HIDE DEF imps, file
<1> QED BY <1>3, <1>4, <1>5, KnowledgeIsOne DEF IsKnown, file

\* What the advice about NetCDF goes by.
LEMMA TopologyRules ==
  ASSUME NEW ctx, NEW table, NEW st
  PROVE  /\ "DK011" \in Fires(ctx, table, st) <=>
              ctx.modules \cap {"dask", "dask_setup"} # {} /\ DK011(ctx, st)
         /\ "XR008" \in Fires(ctx, table, st) => XR008(ctx, st)
<1>1. "DK011" \in Fires(ctx, table, st) <=>
              ctx.modules \cap {"dask", "dask_setup"} # {} /\ DK011(ctx, st)
  BY DEF Fires
<1>2. "XR008" \in Fires(ctx, table, st) => XR008(ctx, st)
  BY DEF Fires
<1> QED BY <1>1, <1>2

LEMMA AdviceIsOne ==
  ASSUME IInv, ContextsKnow
  PROVE  AdviceAgrees
<1> SUFFICES ASSUME Ready, OneModulePerName, NEW c \in Parsed, NEW i \in DOMAIN cells[c].body
             PROVE  LET netcdf == IsNetcdfXarrayOpen(imports[c], cells[c].body[i])
                    IN /\ "DK011" \in Findings(c, i) <=> (netcdf /\ Topologies = {"io"})
                       /\ "DK011" \in Findings(c, i) => "XR008" \notin Findings(c, i)
  BY DEF AdviceAgrees
<1> DEFINE imps == Heard(After)
           ctx  == imports[c]
           st   == cells[c].body[i]
           W    == {Observed(call) : call \in Asked(After)}
<1>1. ToSet(NotebookImports) = imps /\ SeenBy(imps, NotebookSetups) = Asked(After)
  BY NotebookIsOneFile DEF IInv
<1>2. Topologies = W \ {"unset"}
  BY <1>1 DEF Topologies
<1>3. Agree(imps)
  BY <1>1 DEF OneModulePerName, Agree
<1>4. Knows(ctx, imps, Asked(After))
  BY <1>3 DEF ContextsKnow, Ready, IsKnown
<1>5. DaskSetupUsesIo(ctx) <=> Topologies = {"io"}
  <2>1. IsJoin(ctx.workload, W)
    BY <1>4 DEF Knows
  <2> HIDE DEF W
  <2> QED BY <1>2, <2>1 DEF IsJoin, DaskSetupUsesIo
<1>6. Topologies = {"io"} => ctx.modules \cap {"dask", "dask_setup"} # {}
  <2>1. SUFFICES ASSUME Topologies = {"io"} PROVE "dask_setup" \in ctx.modules
    OBVIOUS
  <2>2. PICK call \in SeenBy(imps, NotebookSetups) : TRUE
    BY <1>1, <2>1 DEF Topologies
  <2>3. \E imp \in imps : imp.module = "dask_setup"
    BY <2>2 DEF SeenBy
  <2> QED BY <1>4, <2>3 DEF Knows
<1> HIDE DEF ctx, st
<1>7. Findings(c, i) = Fires(ctx, bindings[c], st)
  BY DEF Findings, ctx, st
<1>8. "DK011" \in Findings(c, i) <=> IsNetcdfXarrayOpen(ctx, st) /\ Topologies = {"io"}
  BY <1>5, <1>6, <1>7, TopologyRules DEF DK011
<1>9. "DK011" \in Findings(c, i) => "XR008" \notin Findings(c, i)
  BY <1>5, <1>7, <1>8, TopologyRules DEF XR008
<1> QED BY <1>8, <1>9 DEF ctx, st

\* Each cell of a notebook is linted with the context of the file that has the
\* imports and calls of all of them, if they agree on what names mean.
THEOREM NotebooksReadLikeAFile == KernelSpec => []ReadsLikeAFile
<1>1. IInv /\ ContextsKnow => ReadsLikeAFile
  BY CellsReadLikeAFile
<1> QED BY <1>1, ContextsInvariant, KernelKeepsAnalysis, PTL

\* DK011 is given exactly where all clients of the notebook are of topology io,
\* and XR008 never beside it, whatever cells the clients stand in.
THEOREM AdviceAlwaysAgrees == KernelSpec => []AdviceAgrees
<1>1. IInv /\ ContextsKnow => AdviceAgrees
  BY AdviceIsOne
<1> QED BY <1>1, ContextsInvariant, KernelKeepsAnalysis, PTL

\* A sequence of chunk extents is reported exactly if one of them is 1 or their
\* product is known and small: one that overflows never looks small.
THEOREM ChunksAreAlwaysJudged == KernelSpec => []ChunksAreJudged
<1>1. IInv => ChunksAreJudged
  BY ChunksJudged DEF IInv
<1> QED BY <1>1, NotebookInvariant, KernelKeepsAnalysis, PTL

-----------------------------------------------------------------------------
(* Loops.                                                                  *)

Found == {"outside", "skip", "inside"}
Iterates == [kind |-> "for_in_clause", field |-> "right"]
Step == [kind : STRING, field : STRING]

\* The way up a syntax tree, one step at a time.
LEMMA AscendTurns ==
  ASSUME NEW way \in Seq(Step)
  PROVE  \E f \in [0..Len(way) -> Found] :
           /\ f[0] = "outside" /\ \A i \in 1..Len(way) : f[i] = Ascend(f[i - 1], way[i])
           /\ FoldLeft(Ascend, "outside", way) = f[Len(way)]
<1> DEFINE n == Len(way)
           step == [p \in (1..n) \X Found |-> Ascend(p[2], way[p[1]])]
<1>0. n \in Nat /\ DOMAIN way = 1..n /\ "outside" \in Found
  BY DEF Found
<1>1. \A up : \A a \in Found : Ascend(a, up) \in Found
  BY DEF Found, Ascend
<1>2. step \in [(1..n) \X Found -> Found]
      /\ \A i \in 1..n, a \in Found : step[<<i, a>>] = Ascend(a, way[i])
  BY <1>1
<1> HIDE DEF step, n
<1>3. PICK h \in [SUBSET (1..n) -> Found] : FoldsTurns(h, n, "outside", step)
  BY <1>0, <1>2, FoldingTurns
<1>4. h = [T \in SUBSET (1..n) |->
             IF T = {} THEN "outside" ELSE Ascend(h[T \ {Max(T)}], way[Max(T)])]
  <2>1. \A T \in SUBSET (1..n) : T # {} => Max(T) \in 1..n /\ h[T \ {Max(T)}] \in Found
    BY MaxOfTurns, <1>0
  <2> QED BY <1>2, <1>3, <2>1 DEF FoldsTurns
<1>5. PICK g : /\ g = [T \in SUBSET (1..n) |->
                         IF T = {} THEN "outside" ELSE Ascend(g[T \ {Max(T)}], way[Max(T)])]
               /\ FoldLeft(Ascend, "outside", way) = g[1..n]
  BY <1>0, <1>4 DEF FoldLeft, MapThenFoldSet
<1>6. g[1..0] = "outside" /\ \A i \in 1..n : g[1..i] = Ascend(g[1..(i - 1)], way[i])
  <2>1. 1..0 = {}
    OBVIOUS
  <2> QED BY <2>1, <1>0, <1>5, Prefix
<1>7. PICK f \in [0..n -> Found] : Passes(f, g, n)
  <2>1. StaysIn(g, n, Found)
    BY <1>0, <1>1, <1>6 DEF StaysIn
  <2> QED BY <1>0, <2>1, PassingTurns
<1>8. n \in 0..n /\ 0 \in 0..n /\ \A i \in 1..n : i - 1 \in 0..n /\ i \in 0..n
  BY <1>0
<1>9. f[0] = "outside" /\ f[n] = g[1..n] /\ \A i \in 1..n : f[i] = Ascend(f[i - 1], way[i])
  BY <1>6, <1>7, <1>8 DEF Passes
<1> QED BY <1>5, <1>7, <1>9 DEF n

\* Step k of a way up repeats what is below it.
RepeatsAt(way, k) ==
  \/ way[k].kind \in {"for_statement", "while_statement"} /\ way[k].field = "body"
  \/ way[k].kind = "comprehension" /\ (k > 1 => way[k - 1] # Iterates)

LEMMA LoopsRepeat ==
  ASSUME NEW st, IsWayUp(st.ancestors)
  PROVE  IsInsideLoop(st) <=> Repeats(st)
<1> DEFINE way == st.ancestors
           n == Len(way)
<1>0. way \in Seq(Step) /\ n \in Nat /\ 0 \in 0..n /\ n \in 0..n /\ DOMAIN way = 1..n
      /\ \A k \in 1..n : way[k] \in Step
  <2>1. way \in Seq(Step)
    BY DEF IsWayUp, Step
  <2> HIDE DEF way
  <2> QED BY <2>1
<1>1. PICK f \in [0..n -> Found] :
           /\ f[0] = "outside" /\ \A i \in 1..n : f[i] = Ascend(f[i - 1], way[i])
           /\ FoldLeft(Ascend, "outside", way) = f[n]
  BY <1>0, AscendTurns
<1>2. \A k \in 1..(n - 1) : way[k].kind = "for_in_clause" => way[k + 1].kind = "comprehension"
  BY DEF IsWayUp
<1> HIDE DEF n, way
<1> DEFINE Right(k) == /\ f[k] = "inside" <=> \E j \in 1..k : RepeatsAt(way, j)
                       /\ f[k] = "skip" => k > 0 /\ way[k] = Iterates
                       /\ f[k] = "outside" /\ k > 0 => way[k] # Iterates
           P == {k \in 0..n : Right(k)}
<1>3. 0 \in P
  BY <1>0, <1>1
<1>4. ASSUME NEW k \in 1..n, k - 1 \in P PROVE k \in P
  <2> DEFINE up == way[k]
             before == f[k - 1]
             repeated == \E j \in 1..(k - 1) : RepeatsAt(way, j)
             looping == up.kind \in {"for_statement", "while_statement"} /\ up.field = "body"
  <2>0. k \in Nat /\ up \in Step /\ before \in Found /\ k \in 0..n /\ k - 1 \in 0..n
    BY <1>0
  <2>1. (before = "inside") <=> repeated
    BY <1>4
  <2>2. before = "skip" => k - 1 > 0 /\ way[k - 1] = Iterates
    BY <1>4
  <2>3. before = "outside" /\ k - 1 > 0 => way[k - 1] # Iterates
    BY <1>4
  <2>4. before = "skip" => up.kind = "comprehension"
    <3>1. ASSUME before = "skip" PROVE k - 1 \in 1..(n - 1) /\ way[k - 1].kind = "for_in_clause"
      BY <1>0, <2>0, <2>2, <3>1 DEF Iterates
    <3>2. (k - 1) + 1 = k
      BY <2>0
    <3> QED BY <1>2, <3>1, <3>2
  <2>5. f[k] = Ascend(before, up)
    BY <1>1
  <2>6. (\E j \in 1..k : RepeatsAt(way, j)) <=> repeated \/ RepeatsAt(way, k)
    <3>1. \A j : j \in 1..k <=> j \in 1..(k - 1) \/ j = k
      BY <2>0
    <3> QED BY <3>1
  <2>7. up = Iterates <=> up.kind = "for_in_clause" /\ up.field = "right"
    BY <2>0 DEF Step, Iterates
  <2>8. RepeatsAt(way, k) <=> looping \/ (up.kind = "comprehension" /\ (k > 1 => way[k - 1] # Iterates))
    BY DEF RepeatsAt
  <2> HIDE DEF up, before, repeated, P
  <2>9. CASE before = "inside"
    <3>1. f[k] = "inside"
      BY <2>5, <2>9 DEF Ascend
    <3> QED BY <2>0, <2>1, <2>6, <2>9, <3>1 DEF P
  <2>10. CASE before = "skip"
    <3>1. f[k] = "outside" /\ up.kind = "comprehension" /\ ~looping
      BY <2>4, <2>5, <2>10 DEF Ascend
    <3>2. ~RepeatsAt(way, k) /\ up # Iterates /\ ~repeated
      BY <2>0, <2>1, <2>2, <2>7, <2>8, <2>10, <3>1
    <3> QED BY <2>0, <2>6, <3>1, <3>2 DEF P, up
  <2>11. CASE before = "outside"
    <3>1. k > 1 => way[k - 1] # Iterates
      BY <2>0, <2>3, <2>11
    <3>2. RepeatsAt(way, k) <=> looping \/ up.kind = "comprehension"
      BY <2>8, <3>1
    <3>3. f[k] = "inside" <=> RepeatsAt(way, k)
      BY <2>5, <2>11, <3>2 DEF Ascend
    <3>4. f[k] = "skip" => up = Iterates
      BY <2>5, <2>7, <2>11 DEF Ascend
    <3>5. f[k] = "outside" => up # Iterates
      BY <2>5, <2>7, <2>11 DEF Ascend
    <3> QED BY <2>0, <2>1, <2>6, <2>11, <3>3, <3>4, <3>5 DEF P, up
  <2> QED BY <2>0, <2>9, <2>10, <2>11 DEF Found
<1>5. n \in P
  <2> HIDE DEF P
  <2>1. 0..n \subseteq P
    BY <1>0, <1>3, <1>4, BoundedInduction
  <2> QED BY <1>0, <2>1
<1>6. IsInsideLoop(st) <=> \E j \in 1..n : RepeatsAt(way, j)
  BY <1>1, <1>5 DEF IsInsideLoop, way
<1> QED BY <1>0, <1>6 DEF Repeats, RepeatsAt, Iterates, way

-----------------------------------------------------------------------------
(* What the tracker looks up and what it makes of a value.                 *)

Kind  == Origin \cup {"unknown"}
Entry == Kind \cup {"unbound"}
Table == [Scope -> [Name -> Entry]]

-----------------------------------------------------------------------------
LEMMA Innermost ==
  ASSUME NEW s \in Scope, NEW some \in SUBSET Above[s], some # {}
  PROVE  LET t == CHOOSE u \in some : some \subseteq Above[u]
         IN t \in some /\ some \subseteq Above[t]
<1>1. \E t \in some : some \subseteq Above[t]
  BY ScopesAssumption
<1> QED BY <1>1

LEMMA InnermostIsOne ==
  ASSUME NEW s \in Scope, NEW some \in SUBSET Above[s],
         NEW t \in some, some \subseteq Above[t], NEW u \in some, some \subseteq Above[u]
  PROVE  t = u
<1>1. t \in Above[u] /\ u \in Above[t]
  OBVIOUS
<1>2. t \in Scope /\ u \in Scope
  BY ScopesAssumption
<1> QED BY <1>1, <1>2, ScopesAssumption

\* t is the nearest scope around s that has the name.
IsHolder(table, s, n, t) ==
  /\ t \in Above[s] /\ table[t][n] # "unbound"
  /\ \A u \in Above[s] : table[u][n] # "unbound" => u \in Above[t]

LEMMA LookupAnswers ==
  ASSUME NEW table, NEW s \in Scope, NEW n
  PROVE  \/ (\A t \in Above[s] : table[t][n] = "unbound") /\ Lookup(table, s, n) = "unknown"
         \/ \E t \in Above[s] : IsHolder(table, s, n, t) /\ Lookup(table, s, n) = table[t][n]
<1> DEFINE holders == {t \in Above[s] : table[t][n] # "unbound"}
           t == CHOOSE u \in holders : holders \subseteq Above[u]
<1>1. CASE holders = {}
  BY <1>1 DEF Lookup
<1>2. CASE holders # {}
  <2>1. Lookup(table, s, n) = table[t][n]
    BY <1>2 DEF Lookup
  <2>2. holders \in SUBSET Above[s]
    OBVIOUS
  <2> HIDE DEF holders
  <2>3. t \in holders /\ holders \subseteq Above[t]
    BY <1>2, <2>2, Innermost
  <2> HIDE DEF t
  <2>4. IsHolder(table, s, n, t)
    BY <2>3 DEF IsHolder, holders
  <2> QED BY <2>1, <2>4 DEF IsHolder
<1> QED BY <1>1, <1>2

LEMMA LookupKind ==
  ASSUME NEW table \in Table, NEW s \in Scope, NEW n \in Name
  PROVE  Lookup(table, s, n) \in Kind
<1>1. CASE Lookup(table, s, n) = "unknown"
  BY <1>1 DEF Kind
<1>2. CASE \E t \in Above[s] : IsHolder(table, s, n, t) /\ Lookup(table, s, n) = table[t][n]
  <2>1. PICK t \in Above[s] : IsHolder(table, s, n, t) /\ Lookup(table, s, n) = table[t][n]
    BY <1>2
  <2>2. t \in Scope
    BY ScopesAssumption
  <2>3. table[t][n] \in Entry
    BY <2>2 DEF Table
  <2> QED BY <2>1, <2>3 DEF IsHolder, Entry
<1> QED BY <1>1, <1>2, LookupAnswers

\* What the tracker makes of a value, by its form.
LEMMA ClassifyForms ==
  ASSUME NEW ctx, NEW table, NEW s, NEW v, IsValue(v)
  PROVE  LET o == Classify(ctx, table, s, v)
             w == Lookup(table, s, v.of)
         IN /\ v.form = "name" => o = w
            /\ v.called => o = ClassifyCall(ctx, table, s, v)
            /\ v.form = "attribute" /\ ~v.called => o = OfAttribute(w, v.attr)
            /\ v.form = "subscript" => o = OfSubscript(w)
            /\ v.form = "binary" => o = OfBinary(w, Lookup(table, s, v.right))
            /\ v.form = "literal" => o = "Plain"
            /\ v.form \in {"math", "opaque"} \/ (v.form = "bare" /\ ~v.called) => o = "unknown"
<1> DEFINE o == Classify(ctx, table, s, v)
           w == Lookup(table, s, v.of)
           r == Lookup(table, s, v.right)
           call == ClassifyCall(ctx, table, s, v)
<1>0. v.called => v.form \in {"bare", "attribute"}
  BY DEF IsValue
<1>1. o = CASE v.form = "name" -> w
            [] v.form \in {"bare", "attribute"} /\ v.called -> call
            [] v.form = "attribute" /\ ~v.called -> OfAttribute(w, v.attr)
            [] v.form = "subscript" -> OfSubscript(w)
            [] v.form = "binary" -> OfBinary(w, r)
            [] v.form = "literal" -> "Plain"
            [] OTHER -> "unknown"
  BY DEF Classify
<1> HIDE DEF o, w, r, call
<1>2. v.form = "name" => o = w
  BY <1>0, <1>1
<1>3. v.called => o = call
  BY <1>0, <1>1
<1>4. v.form = "attribute" /\ ~v.called => o = OfAttribute(w, v.attr)
  BY <1>0, <1>1
<1>5. v.form = "subscript" => o = OfSubscript(w)
  BY <1>0, <1>1
<1>6. v.form = "binary" => o = OfBinary(w, r)
  BY <1>0, <1>1
<1>7. v.form = "literal" => o = "Plain"
  BY <1>0, <1>1
<1>8. v.form \in {"math", "opaque"} \/ (v.form = "bare" /\ ~v.called) => o = "unknown"
  BY <1>0, <1>1
<1> QED BY <1>2, <1>3, <1>4, <1>5, <1>6, <1>7, <1>8 DEF o, w, r, call

LEMMA ModuleKind ==
  ASSUME NEW m
  PROVE  OriginForModule(m) \in Kind
BY DEF OriginForModule, Kind, Origin

LEMMA ClassifyKind ==
  ASSUME NEW ctx, NEW table \in Table, NEW s \in Scope, NEW v, IsValue(v)
  PROVE  Classify(ctx, table, s, v) \in Kind
<1> DEFINE o == Classify(ctx, table, s, v)
           w == Lookup(table, s, v.of)
           r == Lookup(table, s, v.right)
<1>1. v.form \in {"name", "attribute", "subscript", "binary"} => w \in Kind
  BY LookupKind DEF IsValue
<1>2. v.form = "binary" => r \in Kind
  BY LookupKind DEF IsValue
<1>3. ASSUME v.called PROVE o \in Kind
  <2>1. o = ClassifyCall(ctx, table, s, v) /\ v.form \in {"bare", "attribute"}
    BY <1>3, ClassifyForms DEF IsValue
  <2>2. v.form = "attribute" => OfMethod(w, v.attr) \in Kind
    BY <1>1 DEF OfMethod, Kind, Origin
  <2>3. "Plain" \in Kind
    BY DEF Kind, Origin
  <2> HIDE DEF o
  <2> QED BY <2>1, <2>2, <2>3, ModuleKind DEF ClassifyCall
<1>4. ASSUME ~v.called PROVE o \in Kind
  <2>1. v.form = "name" => o = w
    BY ClassifyForms
  <2>2. v.form = "attribute" => o = OfAttribute(w, v.attr)
    BY <1>4, ClassifyForms
  <2>3. v.form = "subscript" => o = OfSubscript(w)
    BY ClassifyForms
  <2>4. v.form = "binary" => o = OfBinary(w, r)
    BY ClassifyForms
  <2>5. v.form = "literal" => o = "Plain"
    BY ClassifyForms
  <2>6. v.form \in {"math", "opaque", "bare"} => o = "unknown"
    BY <1>4, ClassifyForms
  <2>7. v.form \in {"name", "bare", "attribute", "subscript", "binary", "math", "literal", "opaque"}
    BY DEF IsValue
  <2> HIDE DEF o, w, r
  <2> QED BY <1>1, <1>2, <2>1, <2>2, <2>3, <2>4, <2>5, <2>6, <2>7
          DEF OfAttribute, OfSubscript, OfBinary, IsArrayLike, Kind, Origin
<1> QED BY <1>3, <1>4

-----------------------------------------------------------------------------
(* The walk over the statements of a cell.                                 *)

\* A statement records n as bound in s.
Recorded(st, s, n) ==
  /\ st.scope = s
  /\ \/ st.does = "assign" /\ n = st.target
     \/ st.does = "unpack" /\ n \in st.targets

LEMMA RecordResult ==
  ASSUME NEW ctx, NEW table \in Table, NEW st, IsStatement(st)
  PROVE  LET o == Classify(ctx, table, st.scope, st.value)
             r == Record(ctx, table, st)
         IN /\ r \in Table /\ o \in Kind
            /\ \A s \in Scope, n \in Name :
                 /\ ~Recorded(st, s, n) => r[s][n] = table[s][n]
                 /\ Recorded(st, s, n) /\ st.does = "unpack" => r[s][n] = "unknown"
                 /\ Recorded(st, s, n) /\ st.does = "assign" =>
                      r[s][n] = IF table[s][n] \in {"unbound", o} THEN o ELSE "unknown"
<1> DEFINE o == Classify(ctx, table, st.scope, st.value)
           r == Record(ctx, table, st)
           here == st.scope
<1>1. o \in Kind /\ here \in Scope
  BY ClassifyKind DEF IsStatement
<1> HIDE DEF o
<1>2. CASE st.does = "assign"
  <2> DEFINE x == st.target
             e == IF table[here][x] \in {"unbound", o} THEN o ELSE "unknown"
  <2>1. x \in Name /\ e \in Entry
    BY <1>1, <1>2 DEF IsStatement, Entry, Kind
  <2>2. r = [table EXCEPT ![here][x] = e]
    BY <1>2 DEF Record, Bind, o
  <2> HIDE DEF r, x, e
  <2>3. r \in Table
    BY <1>1, <2>1, <2>2 DEF Table
  <2>4. \A s \in Scope, n \in Name : r[s][n] = IF s = here /\ n = x THEN e ELSE table[s][n]
    BY <1>1, <2>1, <2>2 DEF Table
  <2> QED BY <1>1, <1>2, <2>3, <2>4 DEF Recorded, r, x, e, o
<1>3. CASE st.does = "unpack"
  <2>1. r = [table EXCEPT ![here] =
               [n \in Name |-> IF n \in st.targets THEN "unknown" ELSE table[here][n]]]
    BY <1>3 DEF Record, BindUnknown
  <2> HIDE DEF r
  <2>2. r \in Table
    BY <1>1, <2>1 DEF Table, Entry, Kind
  <2>3. \A s \in Scope, n \in Name :
          r[s][n] = IF s = here /\ n \in st.targets THEN "unknown" ELSE table[s][n]
    BY <1>1, <2>1 DEF Table
  <2> QED BY <1>1, <1>3, <2>2, <2>3 DEF Recorded, r, o
<1>4. CASE st.does \notin {"assign", "unpack"}
  <2>1. r = table
    BY <1>4 DEF Record
  <2> QED BY <1>1, <1>4, <2>1 DEF Recorded, o
<1> QED BY <1>2, <1>3, <1>4

AreStatements(body) == IsSequence(body) /\ \A i \in DOMAIN body : IsStatement(body[i])

\* f is the tables a walk over the statements passes through.
Walks(f, ctx, body) ==
  /\ f \in [0..Len(body) -> Table]
  /\ f[0] = EmptyTable
  /\ \A i \in 1..Len(body) : f[i] = Record(ctx, f[i - 1], body[i])

LEMMA BuildTurns ==
  ASSUME NEW ctx, NEW body, AreStatements(body)
  PROVE  \E f : Walks(f, ctx, body) /\ Build(ctx, body) = f[Len(body)]
<1> DEFINE n == Len(body)
           step == [p \in (1..n) \X Table |-> Record(ctx, p[2], body[p[1]])]
<1>0. n \in Nat /\ DOMAIN body = 1..n /\ EmptyTable \in Table
  BY DEF AreStatements, IsSequence, EmptyTable, Table, Entry
<1>1. \A i \in 1..n, a \in Table : Record(ctx, a, body[i]) \in Table
  BY <1>0, RecordResult DEF AreStatements
<1>2. step \in [(1..n) \X Table -> Table]
      /\ \A i \in 1..n, a \in Table : step[<<i, a>>] = Record(ctx, a, body[i])
  BY <1>1
<1> HIDE DEF step, n
<1>3. PICK h \in [SUBSET (1..n) -> Table] : FoldsTurns(h, n, EmptyTable, step)
  BY <1>0, <1>2, FoldingTurns
<1>4. h = [T \in SUBSET (1..n) |->
             IF T = {} THEN EmptyTable ELSE Record(ctx, h[T \ {Max(T)}], body[Max(T)])]
  <2>1. \A T \in SUBSET (1..n) : T # {} => Max(T) \in 1..n /\ h[T \ {Max(T)}] \in Table
    BY MaxOfTurns, <1>0
  <2> QED BY <1>2, <1>3, <2>1 DEF FoldsTurns
<1>5. PICK g : /\ g = [T \in SUBSET (1..n) |->
                         IF T = {} THEN EmptyTable ELSE Record(ctx, g[T \ {Max(T)}], body[Max(T)])]
               /\ Build(ctx, body) = g[1..n]
  BY <1>0, <1>4 DEF Build, FoldLeft, MapThenFoldSet
<1>6. g[1..0] = EmptyTable /\ \A i \in 1..n : g[1..i] = Record(ctx, g[1..(i - 1)], body[i])
  <2>1. 1..0 = {}
    OBVIOUS
  <2> QED BY <2>1, <1>0, <1>5, Prefix
<1>7. PICK f \in [0..n -> Table] : Passes(f, g, n)
  <2>1. StaysIn(g, n, Table)
    BY <1>0, <1>1, <1>6 DEF StaysIn
  <2> QED BY <1>0, <2>1, PassingTurns
<1>8. n \in 0..n /\ 0 \in 0..n /\ \A i \in 1..n : i - 1 \in 0..n /\ i \in 0..n
  BY <1>0
<1>9. f[0] = EmptyTable /\ f[n] = g[1..n] /\ \A i \in 1..n : f[i] = Record(ctx, f[i - 1], body[i])
  BY <1>6, <1>7, <1>8 DEF Passes
<1> QED BY <1>5, <1>7, <1>9 DEF Walks, n

\* An entry tells of all the statements that bind the name.
EntryTells(f, ctx, body, i, s, n) ==
  /\ f[i][s][n] = "unbound" <=> \A j \in 1..i : ~Recorded(body[j], s, n)
  /\ f[i][s][n] \in Origin =>
       \A j \in 1..i : Recorded(body[j], s, n) =>
         /\ body[j].does = "assign"
         /\ Classify(ctx, f[j - 1], s, body[j].value) = f[i][s][n]

LEMMA EntriesTell ==
  ASSUME NEW ctx, NEW body, AreStatements(body), NEW f, Walks(f, ctx, body),
         NEW s \in Scope, NEW n \in Name
  PROVE  EntryTells(f, ctx, body, Len(body), s, n)
<1> DEFINE last == Len(body)
           P == {i \in 0..last : EntryTells(f, ctx, body, i, s, n)}
<1>0. last \in Nat /\ DOMAIN body = 1..last
  BY DEF AreStatements, IsSequence
<1>1. 0 \in P
  <2>1. f[0][s][n] = "unbound"
    BY DEF Walks, EmptyTable
  <2>2. 1..0 = {}
    OBVIOUS
  <2> QED BY <1>0, <2>1, <2>2 DEF EntryTells, Origin
<1>2. ASSUME NEW i \in 1..last, i - 1 \in P PROVE i \in P
  <2> DEFINE st == body[i]
             before == f[i - 1]
             o == Classify(ctx, before, s, st.value)
  <2>0. i - 1 \in 0..last /\ i \in 0..last
    BY <1>0
  <2>1. before \in Table /\ f[i] = Record(ctx, before, st) /\ IsStatement(st)
    BY <1>0, <2>0 DEF Walks, AreStatements
  <2>2. EntryTells(f, ctx, body, i - 1, s, n)
    BY <1>2
  <2>3. \A j : j \in 1..i <=> j \in 1..(i - 1) \/ j = i
    BY <1>0
  <2> HIDE DEF before
  <2>4. CASE ~Recorded(st, s, n)
    <3>1. f[i][s][n] = before[s][n]
      BY <2>1, <2>4, RecordResult
    <3>2. EntryTells(f, ctx, body, i, s, n)
      BY <2>2, <2>3, <2>4, <3>1 DEF EntryTells, before
    <3> QED BY <2>0, <3>2
  <2>5. CASE Recorded(st, s, n) /\ st.does = "unpack"
    <3>1. f[i][s][n] = "unknown"
      BY <2>1, <2>5, RecordResult
    <3>2. EntryTells(f, ctx, body, i, s, n)
      BY <2>3, <2>5, <3>1 DEF EntryTells, Origin
    <3> QED BY <2>0, <3>2
  <2>6. CASE Recorded(st, s, n) /\ st.does = "assign"
    <3>1. f[i][s][n] = IF before[s][n] \in {"unbound", o} THEN o ELSE "unknown"
      BY <2>1, <2>6, RecordResult DEF Recorded
    <3>2. o \in Kind
      BY <2>1, <2>6, RecordResult DEF Recorded
    <3>3. before[s][n] = f[i - 1][s][n]
      BY DEF before
    <3> DEFINE was == before[s][n]
               is == f[i][s][n]
    <3> HIDE DEF o
    <3>4. is # "unbound"
      BY <3>1, <3>2 DEF Kind, Origin
    <3>5. ASSUME is \in Origin PROVE is = o /\ was \in {"unbound", o}
      BY <3>1, <3>5 DEF Origin
    <3>6. ASSUME is \in Origin, NEW j \in 1..i, Recorded(body[j], s, n)
          PROVE  body[j].does = "assign" /\ Classify(ctx, f[j - 1], s, body[j].value) = is
      <4>1. is = o /\ was \in {"unbound", o}
        BY <3>5, <3>6
      <4>2. CASE j = i
        BY <2>6, <4>1, <4>2 DEF o, before
      <4>3. CASE j \in 1..(i - 1)
        BY <2>2, <3>3, <3>6, <4>1, <4>3 DEF EntryTells
      <4> QED BY <2>3, <4>2, <4>3
    <3>7. EntryTells(f, ctx, body, i, s, n)
      BY <2>3, <2>6, <3>4, <3>6 DEF EntryTells
    <3> QED BY <2>0, <3>7
  <2> QED BY <2>4, <2>5, <2>6 DEF Recorded
<1>3. last \in P
  <2> HIDE DEF P
  <2>1. 0..last \subseteq P
    BY <1>0, <1>1, <1>2, BoundedInduction
  <2> QED BY <1>0, <2>1
<1> QED BY <1>3

\* After statement i no statement binds n in s.
Settled(body, i, s, n) ==
  i \in 0..Len(body) /\ \A j \in 1..Len(body) : i < j => ~Recorded(body[j], s, n)

Keeps(f, body, i, s, n) == f[Len(body)][s][n] = f[i][s][n]

\* A name that is not bound again keeps its entry.
LEMMA EntryStays ==
  ASSUME NEW ctx, NEW body, AreStatements(body), NEW f, Walks(f, ctx, body),
         NEW s \in Scope, NEW n \in Name, NEW i, Settled(body, i, s, n)
  PROVE  Keeps(f, body, i, s, n)
<1> DEFINE last == Len(body)
           P == {k \in 0..last : i <= k => f[k][s][n] = f[i][s][n]}
<1>0. last \in Nat /\ DOMAIN body = 1..last /\ i \in 0..last
  BY DEF AreStatements, IsSequence, Settled
<1>1. 0 \in P
  BY <1>0
<1>2. ASSUME NEW k \in 1..last, k - 1 \in P PROVE k \in P
  <2>0. k - 1 \in 0..last /\ k \in 0..last
    BY <1>0
  <2>1. CASE i < k
    <3> DEFINE before == f[k - 1]
    <3>1. before[s][n] = f[i][s][n] /\ ~Recorded(body[k], s, n)
      BY <1>0, <1>2, <2>1 DEF Settled
    <3>2. before \in Table /\ f[k] = Record(ctx, before, body[k]) /\ IsStatement(body[k])
      BY <1>0, <2>0 DEF Walks, AreStatements
    <3> HIDE DEF before
    <3>3. f[k][s][n] = before[s][n]
      BY <3>1, <3>2, RecordResult
    <3> QED BY <2>0, <3>1, <3>3
  <2>2. CASE ~(i < k)
    BY <1>0, <2>0, <2>2
  <2> QED BY <2>1, <2>2
<1>3. last \in P
  <2> HIDE DEF P
  <2>1. 0..last \subseteq P
    BY <1>0, <1>1, <1>2, BoundedInduction
  <2> QED BY <1>0, <2>1
<1> QED BY <1>0, <1>3 DEF Keeps

-----------------------------------------------------------------------------
(* The scope of a name, for the tracker and for Python.                    *)

LEMMA TopIsTop == Above[Root] = {Root}
<1>1. \A t \in Above[Root] : t = Root
  BY ScopesAssumption
<1> QED BY <1>1, ScopesAssumption

LEMMA SameLookup ==
  ASSUME NEW table, NEW other, NEW s, NEW n, \A t \in Above[s] : table[t][n] = other[t][n],
         s \in Scope
  PROVE  Lookup(table, s, n) = Lookup(other, s, n)
<1> DEFINE H == {t \in Above[s] : table[t][n] # "unbound"}
           I == {t \in Above[s] : other[t][n] # "unbound"}
           t == CHOOSE u \in H : H \subseteq Above[u]
<1>1. H = I
  OBVIOUS
<1>2. Lookup(table, s, n) = IF H = {} THEN "unknown" ELSE table[t][n]
  BY DEF Lookup
<1>3. Lookup(other, s, n) = IF H = {} THEN "unknown" ELSE other[t][n]
  <2>1. Lookup(other, s, n) = IF I = {} THEN "unknown"
                              ELSE other[CHOOSE u \in I : I \subseteq Above[u]][n]
    BY DEF Lookup
  <2> HIDE DEF H, I
  <2> QED BY <1>1, <2>1
<1>4. H # {} => t \in Above[s]
  <2>1. H \in SUBSET Above[s]
    OBVIOUS
  <2> HIDE DEF H
  <2> QED BY <2>1, Innermost
<1> HIDE DEF H, t
<1> QED BY <1>2, <1>3, <1>4

\* A name that has an entry in the scope itself is looked up there.
LEMMA LookupHere ==
  ASSUME NEW table, NEW s \in Scope, NEW n, table[s][n] # "unbound"
  PROVE  Lookup(table, s, n) = table[s][n]
<1>1. s \in Above[s]
  BY ScopesAssumption
<1>2. PICK t \in Above[s] : IsHolder(table, s, n, t) /\ Lookup(table, s, n) = table[t][n]
  BY <1>1, LookupAnswers
<1>3. s \in Above[t] /\ t \in Scope
  BY <1>1, <1>2, ScopesAssumption DEF IsHolder
<1>4. t = s
  BY <1>2, <1>3, ScopesAssumption
<1> QED BY <1>2, <1>4

-----------------------------------------------------------------------------
\* Some statement of cell c binds n in scope s.
BoundIn(c, s, n) == \E i \in DOMAIN cells[c].body : Recorded(cells[c].body[i], s, n)

LEMMA StatementsOfCells ==
  /\ \A c \in DOMAIN cells : \A i \in DOMAIN cells[c].body :
       <<c, i>> \in Statements /\ At(<<c, i>>) = cells[c].body[i]
  /\ \A p \in Statements : p[1] \in DOMAIN cells /\ p[2] \in DOMAIN cells[p[1]].body
BY DEF Statements, At

LEMMA BindsAreRecorded ==
  ASSUME NEW st, st.does # "augment", NEW n
  PROVE  n \in Binds(st) <=> Recorded(st, st.scope, n)
<1>1. CASE st.does = "assign"
  BY <1>1 DEF Binds, Recorded
<1>2. CASE st.does = "unpack"
  BY <1>2 DEF Binds, Recorded
<1>3. CASE st.does \notin {"assign", "unpack"}
  BY <1>3 DEF Binds, Recorded
<1> QED BY <1>1, <1>2, <1>3

LEMMA LocalIsBound ==
  ASSUME NoAugmented, NEW c \in DOMAIN cells, NEW s, NEW n
  PROVE  n \in LocalNames(c, s) <=> n \in cells[c].params[s] \/ BoundIn(c, s, n)
<1> DEFINE body == cells[c].body
           here == {q \in Statements : q[1] = c /\ At(q).scope = s}
<1>1. \A i \in DOMAIN body : body[i].does # "augment"
  BY StatementsOfCells DEF NoAugmented
<1>2. ASSUME BoundIn(c, s, n) PROVE \E p \in here : n \in Binds(At(p))
  <2>1. PICK i \in DOMAIN body : Recorded(body[i], s, n)
    BY <1>2 DEF BoundIn
  <2>2. n \in Binds(body[i]) /\ body[i].scope = s
    BY <1>1, <2>1, BindsAreRecorded DEF Recorded
  <2>3. <<c, i>> \in here /\ At(<<c, i>>) = body[i]
    BY <2>2, StatementsOfCells
  <2> QED BY <2>2, <2>3
<1>3. ASSUME NEW p \in here, n \in Binds(At(p)) PROVE BoundIn(c, s, n)
  <2>1. p[1] = c /\ p[2] \in DOMAIN body /\ At(p) = body[p[2]] /\ At(p).scope = s
    BY StatementsOfCells DEF At
  <2>2. Recorded(body[p[2]], s, n)
    BY <1>1, <1>3, <2>1, BindsAreRecorded
  <2> QED BY <2>1, <2>2 DEF BoundIn
<1> QED BY <1>2, <1>3 DEF LocalNames

\* A name that some statement binds is neither a parameter nor given from outside.
LEMMA BoundIsNotGiven ==
  ASSUME NoAugmented, NothingShadowed, NEW c \in DOMAIN cells, NEW s, NEW n, BoundIn(c, s, n)
  PROVE  /\ n \notin Imported \cup BuiltinPlain
         /\ \A d \in DOMAIN cells, t \in Scope \ {Root} : n \notin cells[d].params[t]
         /\ \E p \in Assigns : p[1] = c /\ At(p).scope = s /\ n \in Binds(At(p))
<1>1. PICK i \in DOMAIN cells[c].body : Recorded(cells[c].body[i], s, n)
  BY DEF BoundIn
<1>2. <<c, i>> \in Statements /\ At(<<c, i>>) = cells[c].body[i]
  BY StatementsOfCells
<1>3. n \in Binds(At(<<c, i>>)) /\ At(<<c, i>>).scope = s
  BY <1>1, <1>2, BindsAreRecorded DEF NoAugmented, Recorded
<1>4. <<c, i>> \in Assigns
  BY <1>2, <1>3 DEF Assigns
<1> QED BY <1>3, <1>4 DEF NothingShadowed

LEMMA HomeOfBound ==
  ASSUME NoAugmented, NothingShadowed, NEW c \in DOMAIN cells, NEW s \in Scope, NEW n,
         BoundIn(c, s, n)
  PROVE  Home(c, s, n) = IF s = Root THEN Globals ELSE <<c, s>>
<1> DEFINE homes == {t \in Above[s] \ {Root} : n \in LocalNames(c, t)}
<1>1. CASE s = Root
  BY <1>1, TopIsTop DEF Home
<1>2. CASE s # Root
  <2>1. s \in homes /\ homes \subseteq Above[s] /\ homes \in SUBSET Above[s]
    BY <1>2, LocalIsBound, ScopesAssumption
  <2>2. Home(c, s, n) = IF homes = {} THEN Globals ELSE <<c, CHOOSE t \in homes : homes \subseteq Above[t]>>
    BY DEF Home
  <2> HIDE DEF homes
  <2> DEFINE t == CHOOSE u \in homes : homes \subseteq Above[u]
  <2>3. t \in homes /\ homes \subseteq Above[t]
    BY <2>1, Innermost
  <2> HIDE DEF t
  <2>4. t = s
    BY <2>1, <2>3, InnermostIsOne
  <2> QED BY <1>2, <2>1, <2>2, <2>4 DEF t
<1> QED BY <1>1, <1>2

LEMMA HomeOfImported ==
  ASSUME NoAugmented, NothingShadowed, NEW c \in DOMAIN cells, NEW s \in Scope,
         NEW n \in Imported
  PROVE  Home(c, s, n) = Globals
<1>1. \A t \in Scope \ {Root} : n \notin LocalNames(c, t)
  BY LocalIsBound, BoundIsNotGiven DEF NothingShadowed
<1>2. Above[s] \subseteq Scope
  BY ScopesAssumption
<1> QED BY <1>1, <1>2 DEF Home

\* The tracker looks a name up where Python has it.
LEMMA LookedUpAtHome ==
  ASSUME NoAugmented, NothingShadowed, NEW c \in DOMAIN cells, NEW s \in Scope, NEW n,
         NEW table, \A t \in Scope : table[t][n] # "unbound" <=> BoundIn(c, t, n),
         Lookup(table, s, n) # "unknown"
  PROVE  \E t \in Scope : /\ BoundIn(c, t, n) /\ Lookup(table, s, n) = table[t][n]
                          /\ Home(c, s, n) = Home(c, t, n)
<1>1. PICK t \in Above[s] : IsHolder(table, s, n, t) /\ Lookup(table, s, n) = table[t][n]
  BY LookupAnswers
<1>2. Above[s] \subseteq Scope
  BY ScopesAssumption
<1>3. BoundIn(c, t, n) /\ t \in Scope
  BY <1>1, <1>2 DEF IsHolder
<1> DEFINE homes == {u \in Above[s] \ {Root} : n \in LocalNames(c, u)}
<1>4. \A u \in homes : u \in Above[t] /\ table[u][n] # "unbound"
  <2>1. \A u \in Scope \ {Root} : n \notin cells[c].params[u]
    BY <1>3, BoundIsNotGiven
  <2>2. \A u \in homes : BoundIn(c, u, n)
    BY <1>2, <2>1, LocalIsBound
  <2> QED BY <1>1, <1>2, <2>2 DEF IsHolder
<1>5. Home(c, s, n) = IF homes = {} THEN Globals
                      ELSE <<c, CHOOSE u \in homes : homes \subseteq Above[u]>>
  BY DEF Home
<1>6. Home(c, t, n) = IF t = Root THEN Globals ELSE <<c, t>>
  BY <1>3, HomeOfBound
<1>7. CASE t = Root
  <2>1. homes = {}
    BY <1>4, <1>7, TopIsTop
  <2> QED BY <1>1, <1>3, <1>5, <1>6, <1>7, <2>1
<1>8. CASE t # Root
  <2>1. t \in homes /\ homes \subseteq Above[t] /\ homes \in SUBSET Above[s]
    BY <1>3, <1>4, <1>8, LocalIsBound
  <2> HIDE DEF homes
  <2> DEFINE u == CHOOSE u \in homes : homes \subseteq Above[u]
  <2>2. u \in homes /\ homes \subseteq Above[u]
    BY <2>1, Innermost
  <2> HIDE DEF u
  <2>3. u = t
    BY <2>1, <2>2, InnermostIsOne
  <2> QED BY <1>1, <1>3, <1>5, <1>6, <1>8, <2>1, <2>3 DEF u
<1> QED BY <1>7, <1>8

-----------------------------------------------------------------------------
(* What a table and a context tell of a memory.                            *)

TablesBuilt == \A c \in Parsed : bindings[c] = Build(imports[c], cells[c].body)

ClaimsHold ==
  \A c \in Parsed, s \in Scope, n \in Name :
    bindings[c][s][n] \in Origin => memory[Home(c, s, n)][n] \in {None, bindings[c][s][n]}

ImportsHold ==
  \A imp \in AllImports : memory[Globals][imp.binding] \in {None, imp.module}

\* The notebook is analysed, within the limits, and all claims are true so far.
Sound ==
  /\ ControlOK /\ ContextsKnow /\ TablesBuilt /\ Ready /\ WithinLimits
  /\ ClaimsHold /\ ImportsHold

LEMMA BodyIsWell ==
  ASSUME ControlOK, NEW c \in Parsed
  PROVE  /\ c \in DOMAIN cells /\ AreStatements(cells[c].body) /\ Len(cells[c].body) \in Nat
         /\ DOMAIN cells[c].body = 1..Len(cells[c].body)
BY InputAssumption DEF ControlOK, IsCell, AreStatements, IsSequence, Parsed

LEMMA TableTells ==
  ASSUME ControlOK, TablesBuilt, NEW c \in Parsed
  PROVE  \E f : /\ Walks(f, imports[c], cells[c].body)
                /\ bindings[c] = f[Len(cells[c].body)] /\ bindings[c] \in Table
                /\ \A s \in Scope, n \in Name :
                     EntryTells(f, imports[c], cells[c].body, Len(cells[c].body), s, n)
<1> DEFINE body == cells[c].body
<1>1. AreStatements(body) /\ Len(body) \in Nat
  BY BodyIsWell
<1>2. PICK f : Walks(f, imports[c], body) /\ Build(imports[c], body) = f[Len(body)]
  BY <1>1, BuildTurns
<1>3. bindings[c] = f[Len(body)]
  BY <1>2 DEF TablesBuilt
<1>4. f[Len(body)] \in Table
  BY <1>1, <1>2 DEF Walks
<1>5. \A s \in Scope, n \in Name : EntryTells(f, imports[c], body, Len(body), s, n)
  BY <1>1, <1>2, EntriesTell
<1> QED BY <1>2, <1>3, <1>4, <1>5

LEMMA EntryIsBound ==
  ASSUME ControlOK, TablesBuilt, NEW c \in Parsed, NEW s \in Scope, NEW n \in Name
  PROVE  bindings[c][s][n] # "unbound" <=> BoundIn(c, s, n)
<1> DEFINE body == cells[c].body
<1>1. DOMAIN body = 1..Len(body)
  BY BodyIsWell
<1>2. PICK f : bindings[c] = f[Len(body)] /\ EntryTells(f, imports[c], body, Len(body), s, n)
  BY TableTells
<1> QED BY <1>1, <1>2 DEF EntryTells, BoundIn

LEMMA ImportsAreWell ==
  ASSUME ControlOK, ContextsKnow, Ready, OneModulePerName, NEW c \in Parsed
  PROVE  /\ AllImports \in SUBSET ImportStatement /\ Agree(AllImports)
         /\ imports[c] \in Context /\ Knows(imports[c], AllImports, Asked(After))
<1>1. AllImports = Heard(After)
  BY NotebookIsOneFile DEF AllImports
<1>2. Agree(AllImports)
  BY DEF AllImports, OneModulePerName, Agree
<1>3. AllImports \in SUBSET ImportStatement
  BY <1>1, HeardIsWell
<1> QED BY <1>1, <1>2, <1>3 DEF ContextsKnow, IsKnown, Ready

\* What is held under a name is what the tracker says, or the module it imports.
Fits(c, s, n, h) ==
  /\ Lookup(bindings[c], s, n) \in Origin => h = Lookup(bindings[c], s, n)
  /\ \A imp \in AllImports : imp.binding = n => h = imp.module

LEMMA LookedUpIsBound ==
  ASSUME Sound, NEW c \in Parsed, NEW s \in Scope, NEW n \in Name,
         Lookup(bindings[c], s, n) # "unknown"
  PROVE  /\ n \notin Imported \cup BuiltinPlain
         /\ \E t \in Scope : /\ BoundIn(c, t, n) /\ Lookup(bindings[c], s, n) = bindings[c][t][n]
                             /\ Home(c, s, n) = Home(c, t, n)
<1>1. c \in DOMAIN cells /\ NoAugmented /\ NothingShadowed
  BY DEF Sound, WithinLimits, Parsed
<1>2. \A t \in Scope : bindings[c][t][n] # "unbound" <=> BoundIn(c, t, n)
  BY EntryIsBound DEF Sound
<1>3. \E t \in Scope : /\ BoundIn(c, t, n) /\ Lookup(bindings[c], s, n) = bindings[c][t][n]
                       /\ Home(c, s, n) = Home(c, t, n)
  BY <1>1, <1>2, LookedUpAtHome
<1> QED BY <1>1, <1>3, BoundIsNotGiven

LEMMA HeldFits ==
  ASSUME Sound, NEW c \in Parsed, NEW s \in Scope, NEW n \in Name, Held(c, s, n) # None
  PROVE  Fits(c, s, n, Held(c, s, n))
<1> DEFINE h == Held(c, s, n)
           o == Lookup(bindings[c], s, n)
<1>1. c \in DOMAIN cells /\ NoAugmented /\ NothingShadowed
  BY DEF Sound, WithinLimits, Parsed
<1>2. ASSUME o \in Origin PROVE h = o
  <2>1. o # "unknown"
    BY <1>2 DEF Origin
  <2>2. PICK t \in Scope : o = bindings[c][t][n] /\ Home(c, s, n) = Home(c, t, n)
    BY <2>1, LookedUpIsBound
  <2>3. memory[Home(c, t, n)][n] \in {None, o}
    BY <1>2, <2>2 DEF Sound, ClaimsHold
  <2> QED BY <2>2, <2>3 DEF Held
<1>3. ASSUME NEW imp \in AllImports, imp.binding = n PROVE h = imp.module
  <2>1. n \in Imported
    BY <1>3 DEF Imported
  <2>2. Home(c, s, n) = Globals
    BY <1>1, <2>1, HomeOfImported
  <2>3. memory[Globals][n] \in {None, imp.module}
    BY <1>3 DEF Sound, ImportsHold
  <2> QED BY <2>2, <2>3 DEF Held
<1> QED BY <1>2, <1>3 DEF Fits

-----------------------------------------------------------------------------
\* What a value may turn out to be, by its form.
MayBe(v, held, right) ==
  LET all == Values(v, held, right)
  IN /\ v.form = "literal" \/ (v.form = "bare" /\ v.of \in BuiltinPlain) => all = {"Plain"}
     /\ v.form = "name" => all = {held}
     /\ v.called /\ held \in Module => all = LibraryResult(held)
     /\ v.form = "attribute" /\ v.called /\ held \in Origin => all = {OfMethod(held, v.attr)}
     /\ v.form = "attribute" /\ ~v.called /\ held \in Origin => all = {OfAttribute(held, v.attr)}
     /\ v.form = "subscript" /\ IsArrayLike(held) => all = {held}
     /\ v.form = "binary" => all = OfEither({held, right})

LEMMA ValuesForms ==
  ASSUME NEW v, IsValue(v), NEW held, NEW right,
         v.form = "bare" /\ v.of \in BuiltinPlain => held \notin Module
  PROVE  MayBe(v, held, right)
<1> DEFINE all == Values(v, held, right)
           a == v.form = "literal" \/ (v.form = "bare" /\ v.of \in BuiltinPlain)
           b == LibraryResult(held)
           d == OfEither({held, right})
           like == IsArrayLike(held)
<1>0. v.called => v.form \in {"bare", "attribute"}
  BY DEF IsValue
<1>1. all = CASE a -> {"Plain"}
    [] v.form = "name" -> {held}
    [] v.form \in {"bare", "attribute"} /\ v.called /\ held \in Module -> b
    [] v.form = "attribute" /\ v.called /\ held \in Origin -> {OfMethod(held, v.attr)}
    [] v.form = "attribute" /\ ~v.called /\ held \in Origin -> {OfAttribute(held, v.attr)}
    [] v.form = "subscript" /\ like -> {held}
    [] v.form = "binary" -> d
    [] OTHER -> Anything
  BY DEF Values
<1>2. held \in Origin => held \notin Module
  BY AnythingAssumption
<1>3. a => v.form \in {"literal", "bare"} /\ (v.form = "bare" => held \notin Module)
  OBVIOUS
<1> HIDE DEF all, b, d, like
<1>4. a => all = {"Plain"}
  BY <1>0, <1>1
<1> HIDE DEF a
<1>5. v.form = "name" => all = {held}
  BY <1>0, <1>1, <1>3
<1>6. v.called /\ held \in Module => all = b
  BY <1>0, <1>1, <1>2, <1>3
<1>7. v.form = "attribute" /\ v.called /\ held \in Origin => all = {OfMethod(held, v.attr)}
  BY <1>0, <1>1, <1>2, <1>3
<1>8. v.form = "attribute" /\ ~v.called /\ held \in Origin => all = {OfAttribute(held, v.attr)}
  BY <1>0, <1>1, <1>3
<1>9. v.form = "subscript" /\ like => all = {held}
  BY <1>0, <1>1, <1>3
<1>10. v.form = "binary" => all = d
  BY <1>0, <1>1, <1>3
<1> QED BY <1>4, <1>5, <1>6, <1>7, <1>8, <1>9, <1>10 DEF MayBe, all, a, b, d, like

-----------------------------------------------------------------------------
(* Names at the time of an assignment.                                     *)

\* A name that is neither bound by the statement nor again after it means what it
\* means in the end.
LEMMA LookupBefore ==
  ASSUME Sound, NEW c \in Parsed, NEW i \in DOMAIN cells[c].body, NEW f,
         Walks(f, imports[c], cells[c].body), bindings[c] = f[Len(cells[c].body)],
         NEW n \in Name, n \in {cells[c].body[i].value.of, cells[c].body[i].value.right},
         ~Recorded(cells[c].body[i], cells[c].body[i].scope, n),
         NEW s \in Scope, cells[c].body[i].does = "assign"
  PROVE  Lookup(f[i - 1], s, n) = Lookup(bindings[c], s, n)
<1> DEFINE body == cells[c].body
           st == body[i]
           last == Len(body)
<1>1. /\ c \in DOMAIN cells /\ AreStatements(body) /\ last \in Nat /\ DOMAIN body = 1..last
      /\ i - 1 \in 0..last /\ i \in Int
  BY BodyIsWell DEF Sound
<1>2. ASSUME NEW j \in 1..last, i - 1 < j, NEW t \in Scope PROVE ~Recorded(body[j], t, n)
  <2>1. CASE j = i
    BY <2>1 DEF Recorded
  <2>2. CASE j # i
    <3>1. i < j /\ j \in DOMAIN body
      BY <1>1, <1>2, <2>2
    <3>2. SUFFICES ASSUME Recorded(body[j], t, n) PROVE FALSE
      OBVIOUS
    <3>3. n \notin Imported \cup BuiltinPlain
      BY <1>1, <3>1, <3>2, BoundIsNotGiven DEF BoundIn, Sound, WithinLimits
    <3>4. n \in Reads(At(<<c, i>>).value)
      BY <1>1, <3>3, StatementsOfCells DEF Reads
    <3>5. \A k \in DOMAIN body : body[k].does # "augment"
      BY <1>1, StatementsOfCells DEF NoAugmented, Sound, WithinLimits
    <3>6. n \in Binds(body[j])
      BY <3>1, <3>2, <3>5, BindsAreRecorded DEF Recorded
    <3>7. Binds(st) # {}
      BY DEF Binds
    <3>8. <<c, i>> \in Assigns /\ <<c, j>> \in Assigns /\ n \in Binds(At(<<c, j>>))
      BY <1>1, <3>1, <3>6, <3>7, StatementsOfCells DEF Assigns
    <3> QED BY <3>1, <3>4, <3>8 DEF SettledFirst, Sound, WithinLimits
  <2> QED BY <2>1, <2>2
<1>3. \A t \in Scope : bindings[c][t][n] = f[i - 1][t][n]
  <2> SUFFICES ASSUME NEW t \in Scope PROVE f[last][t][n] = f[i - 1][t][n]
    OBVIOUS
  <2> DEFINE k == i - 1
  <2>1. Settled(body, k, t, n)
    BY <1>1, <1>2 DEF Settled
  <2>2. AreStatements(body) /\ Walks(f, imports[c], body)
    BY <1>1
  <2> HIDE DEF k, body
  <2>3. Keeps(f, body, k, t, n)
    BY <2>1, <2>2, EntryStays
  <2> QED BY <2>3 DEF k, Keeps
<1>4. Above[s] \subseteq Scope
  BY ScopesAssumption
<1> QED BY <1>3, <1>4, SameLookup

LEMMA OneArrayLike ==
  ASSUME NEW a, NEW b, Cardinality({k \in {a, b} : IsArrayLike(k)}) < 2,
         IsArrayLike(a), IsArrayLike(b)
  PROVE  a = b
<1>1. SUFFICES ASSUME a # b PROVE FALSE
  OBVIOUS
<1>2. {k \in {a, b} : IsArrayLike(k)} = {a, b}
  OBVIOUS
<1>3. IsFiniteSet({a}) /\ Cardinality({a}) = 1
  BY FS_Singleton
<1>4. Cardinality({a} \cup {b}) = Cardinality({a}) + 1
  BY <1>1, <1>3, FS_AddElement
<1>5. {a} \cup {b} = {a, b}
  OBVIOUS
<1> QED BY <1>2, <1>3, <1>4, <1>5

\* What a call calls, when its name is imported: in Python and for xray.
LEMMA CallModuleIs ==
  ASSUME ControlOK, ContextsKnow, Ready, OneModulePerName, NEW c \in Parsed,
         NEW v, IsValue(v), v.called, v.form = "bare" => MayBeCalled(v.of),
         NEW imp \in AllImports, imp.binding = v.of
  PROVE  CallModule(imports[c], v) = imp.module
<1> DEFINE n == v.of
           a == imports[c].aliases[n]
           g == imports[c].from_imports[n]
<1>1. /\ AllImports \in SUBSET ImportStatement /\ Agree(AllImports)
      /\ Knows(imports[c], AllImports, Asked(After))
  BY ImportsAreWell
<1>2. imp.form \in {"import", "from"} /\ n \in Name /\ imp.module # None
  BY <1>1, ModulesAssumption DEF ImportStatement
<1>3. Means(a, AllImports, "import", n) /\ Means(g, AllImports, "from", n)
  BY <1>1, <1>2 DEF Knows
<1>4. \A other \in AllImports : other.binding = n => other.module = imp.module
  BY <1>1 DEF Agree
<1>5. v.form = "bare" => \E other \in AllImports : other.binding = n /\ other.form = "from"
  BY DEF MayBeCalled, AllImports
<1>6. CallModule(imports[c], v) = IF v.form = "attribute" /\ a # None THEN a ELSE g
  BY DEF CallModule
<1>7. v.form \in {"bare", "attribute"}
  BY DEF IsValue
<1> HIDE DEF a, g
<1>8. CASE v.form = "bare"
  BY <1>3, <1>4, <1>5, <1>6, <1>8 DEF Means
<1>9. CASE v.form = "attribute"
  BY <1>2, <1>3, <1>4, <1>6, <1>9 DEF Means
<1> QED BY <1>7, <1>8, <1>9

\* A name that a module is known by is imported from it.
LEMMA KnownIsImported ==
  ASSUME ControlOK, ContextsKnow, Ready, OneModulePerName, NEW c \in Parsed, NEW n \in Name,
         NEW m, m # None, m \in {imports[c].aliases[n], imports[c].from_imports[n]}
  PROVE  m \in Module /\ \E imp \in AllImports : imp.binding = n /\ imp.module = m
<1>1. AllImports \in SUBSET ImportStatement /\ Knows(imports[c], AllImports, Asked(After))
  BY ImportsAreWell
<1>2. \E imp \in AllImports : imp.binding = n /\ imp.module = m
  BY <1>1 DEF Knows, Means
<1> QED BY <1>1, <1>2 DEF ImportStatement

-----------------------------------------------------------------------------
(* What an assignment assigns is what the tracker claims.                  *)

\* What a name meant at an assignment and what it means in the end, o being what
\* the assigned name means then.
LEMMA NameIsJudged ==
  ASSUME Sound, NEW c \in Parsed, NEW i \in DOMAIN cells[c].body, NEW f,
         Walks(f, imports[c], cells[c].body), bindings[c] = f[Len(cells[c].body)],
         cells[c].body[i].does = "assign",
         NEW n \in Name, n \in {cells[c].body[i].value.of, cells[c].body[i].value.right}
  PROVE  LET st  == cells[c].body[i]
             s   == st.scope
             o   == bindings[c][s][st.target]
             was == Lookup(f[i - 1], s, n)
             is  == Lookup(bindings[c], s, n)
         IN o \in Origin =>
              /\ was \in Kind /\ is \in Kind
              /\ is = was \/ (is = o /\ n \notin Imported \cup BuiltinPlain)
              /\ is # "unknown" => n \in Reads(st.value)
<1> DEFINE body == cells[c].body
           st == body[i]
           s == st.scope
           o == bindings[c][s][st.target]
           was == Lookup(f[i - 1], s, n)
           is == Lookup(bindings[c], s, n)
<1>0. SUFFICES ASSUME o \in Origin
      PROVE /\ was \in Kind /\ is \in Kind
            /\ is = was \/ (is = o /\ n \notin Imported \cup BuiltinPlain)
            /\ is # "unknown" => n \in Reads(st.value)
  OBVIOUS
<1>1. /\ DOMAIN body = 1..Len(body) /\ Len(body) \in Nat /\ IsStatement(st) /\ s \in Scope
      /\ st.target \in Name
  BY BodyIsWell DEF Sound, AreStatements, IsStatement
<1>2. was \in Kind /\ is \in Kind
  <2>1. i - 1 \in 0..Len(body) /\ Len(body) \in 0..Len(body)
    BY <1>1
  <2>2. f[i - 1] \in Table /\ bindings[c] \in Table
    BY <2>1 DEF Walks
  <2> QED BY <1>1, <2>2, LookupKind
<1>3. is # "unknown" => n \in Reads(st.value)
  BY <1>1, LookedUpIsBound DEF Reads
<1>4. CASE Recorded(st, s, n)
  <2>1. n = st.target
    BY <1>4 DEF Recorded
  <2>2. bindings[c][s][n] # "unbound"
    BY <1>0, <2>1 DEF Origin
  <2>3. is = o
    BY <1>1, <2>1, <2>2, LookupHere
  <2>4. is # "unknown"
    BY <1>0, <2>3 DEF Origin
  <2>5. n \notin Imported \cup BuiltinPlain
    BY <1>1, <2>4, LookedUpIsBound
  <2> QED BY <1>2, <1>3, <2>3, <2>5
<1>5. CASE ~Recorded(st, s, n)
  <2>1. was = is
    BY <1>1, <1>5, LookupBefore
  <2> QED BY <1>2, <1>3, <2>1
<1> QED BY <1>4, <1>5

LEMMA Idempotent ==
  /\ \A a : \A o \in Kind : OfAttribute(OfAttribute(o, a), a) = OfAttribute(o, a)
  /\ \A a : \A o \in Kind : OfMethod(OfMethod(o, a), a) = OfMethod(o, a)
  /\ \A o \in Kind : OfSubscript(o) \in Origin => OfSubscript(o) = o /\ IsArrayLike(o)
BY DEF OfAttribute, OfMethod, OfSubscript, Kind, Origin, IsArrayLike

LEMMA FromOrigin ==
  /\ \A a : \A o \in Kind : OfAttribute(o, a) \in Origin => o \in Origin
  /\ \A a : \A o \in Kind : OfMethod(o, a) \in Origin => o \in Origin
  /\ "unknown" \notin Origin /\ Kind = Origin \cup {"unknown"}
BY DEF OfAttribute, OfMethod, Kind, Origin, IsArrayLike

LEMMA ClaimOfAssignment ==
  ASSUME Sound, NEW c \in Parsed, NEW i \in DOMAIN cells[c].body,
         cells[c].body[i].does = "assign", NEW held, NEW right,
         LET st == cells[c].body[i]
             v  == st.value
         IN /\ held = IF v.of \in Reads(v) THEN Held(c, st.scope, v.of) ELSE None
            /\ right = IF v.right \in Reads(v) THEN Held(c, st.scope, v.right) ELSE None
            /\ \A n \in Reads(v) : Held(c, st.scope, n) # None
            /\ v.form = "bare" => MayBeCalled(v.of)
            /\ bindings[c][st.scope][st.target] \in Origin
  PROVE  Values(cells[c].body[i].value, held, right)
           = {bindings[c][cells[c].body[i].scope][cells[c].body[i].target]}
<1> DEFINE body == cells[c].body
           st == body[i]
           v == st.value
           s == st.scope
           o == bindings[c][s][st.target]
           ctx == imports[c]
<1>1. /\ DOMAIN body = 1..Len(body) /\ Len(body) \in Nat /\ IsStatement(st) /\ s \in Scope
      /\ st.target \in Name /\ IsValue(v)
  BY BodyIsWell DEF Sound, AreStatements, IsStatement
<1>2. PICK f : /\ Walks(f, ctx, body) /\ bindings[c] = f[Len(body)]
               /\ EntryTells(f, ctx, body, Len(body), s, st.target)
  BY <1>1, TableTells DEF Sound
<1> DEFINE before == f[i - 1]
           w == Lookup(before, s, v.of)
           r == Lookup(before, s, v.right)
           wEnd == Lookup(bindings[c], s, v.of)
           rEnd == Lookup(bindings[c], s, v.right)
           call == ClassifyCall(ctx, before, s, v)
<1>3. o = Classify(ctx, before, s, v) /\ o \in Origin
  <2>1. Recorded(st, s, st.target)
    BY DEF Recorded
  <2> QED BY <1>1, <1>2, <2>1 DEF EntryTells
<1>4. ASSUME v.of \in Name
      PROVE  /\ w \in Kind
             /\ wEnd = w \/ (wEnd = o /\ v.of \notin Imported \cup BuiltinPlain)
             /\ wEnd \in Origin => held = wEnd
             /\ \A imp \in AllImports : imp.binding = v.of /\ v.of \notin BuiltinPlain => held = imp.module
  <2>1. /\ w \in Kind /\ wEnd \in Kind
        /\ wEnd = w \/ (wEnd = o /\ v.of \notin Imported \cup BuiltinPlain)
        /\ wEnd # "unknown" => v.of \in Reads(v)
    BY <1>1, <1>2, <1>3, <1>4, NameIsJudged
  <2>2. v.of \notin BuiltinPlain => v.of \in Reads(v)
    BY <1>4 DEF Reads
  <2>3. v.of \in Reads(v) => held = Held(c, s, v.of) /\ Fits(c, s, v.of, held)
    BY <1>1, <1>4, HeldFits
  <2>4. wEnd \in Origin => wEnd # "unknown"
    BY DEF Origin
  <2> QED BY <2>1, <2>2, <2>3, <2>4 DEF Fits
<1>5. ASSUME v.form = "binary"
      PROVE  /\ r \in Kind /\ rEnd \in Kind
             /\ rEnd = r \/ rEnd = o
             /\ rEnd \in Origin => right = rEnd
  <2>0. v.right \in Name
    BY <1>1, <1>5 DEF IsValue
  <2>1. /\ r \in Kind /\ rEnd \in Kind
        /\ rEnd = r \/ (rEnd = o /\ v.right \notin Imported \cup BuiltinPlain)
        /\ rEnd # "unknown" => v.right \in Reads(v)
    BY <1>1, <1>2, <1>3, <2>0, NameIsJudged
  <2>3. v.right \in Reads(v) => right = Held(c, s, v.right) /\ Fits(c, s, v.right, right)
    BY <1>1, <2>0, HeldFits
  <2>4. rEnd \in Origin => rEnd # "unknown"
    BY DEF Origin
  <2> QED BY <2>1, <2>3, <2>4 DEF Fits
<1>6. v.form = "bare" /\ v.of \in BuiltinPlain => held \notin Module
  BY ModulesAssumption DEF Reads
<1> DEFINE all == Values(v, held, right)
<1>f. /\ v.form = "name" => o = w
      /\ v.called => o = call
      /\ v.form = "attribute" /\ ~v.called => o = OfAttribute(w, v.attr)
      /\ v.form = "subscript" => o = OfSubscript(w)
      /\ v.form = "binary" => o = OfBinary(w, r)
      /\ v.form = "literal" => o = "Plain"
      /\ v.form \in {"math", "opaque"} \/ (v.form = "bare" /\ ~v.called) => o = "unknown"
  BY <1>1, <1>3, SMTT(30), ClassifyForms
<1>v. /\ v.form = "literal" \/ (v.form = "bare" /\ v.of \in BuiltinPlain) => all = {"Plain"}
      /\ v.form = "name" => all = {held}
      /\ v.called /\ held \in Module => all = LibraryResult(held)
      /\ v.form = "attribute" /\ v.called /\ held \in Origin => all = {OfMethod(held, v.attr)}
      /\ v.form = "attribute" /\ ~v.called /\ held \in Origin => all = {OfAttribute(held, v.attr)}
      /\ v.form = "subscript" /\ IsArrayLike(held) => all = {held}
      /\ v.form = "binary" => all = OfEither({held, right})
  <2>1. MayBe(v, held, right)
    BY <1>1, <1>6, ValuesForms
  <2> HIDE DEF v
  <2> QED BY <2>1 DEF MayBe
<1>n. v.form \in {"name", "attribute", "subscript", "binary"} => v.of \in Name
  BY <1>1 DEF IsValue
<1> DEFINE a == ctx.aliases[v.of]
           g == ctx.from_imports[v.of]
<1>c. /\ v.form = "attribute" => call = IF a # None /\ w = "unknown" THEN OriginForModule(a) ELSE OfMethod(w, v.attr)
      /\ v.form = "bare" => call = IF v.of \in BuiltinPlain THEN "Plain" ELSE OriginForModule(g)
  BY DEF ClassifyCall
<1>g. <<c, i>> \in Statements /\ At(<<c, i>>) = st
  BY StatementsOfCells DEF Parsed
<1>k. ASSUME v.of \in Name, NEW m \in {a, g}, m # None
      PROVE  m \in Module /\ \E imp \in AllImports : imp.binding = v.of /\ imp.module = m
  BY <1>k, KnownIsImported DEF Sound, WithinLimits
<1>o. v.form = "binary" => /\ wEnd # "unknown" /\ rEnd # "unknown"
        /\ Cardinality({k \in {wEnd, rEnd} : IsArrayLike(k)}) < 2
  BY <1>g DEF OperandsAreKnown, Sound, WithinLimits
<1>s. \A imp \in AllImports : imp.binding \notin BuiltinPlain
  BY DEF Sound, WithinLimits, NothingShadowed, Imported
<1>b. v.form = "bare" => v.of \in Name \cup BuiltinPlain
  BY <1>1 DEF IsValue
<1> SUFFICES all = {o}
  OBVIOUS
<1> HIDE DEF o, w, r, wEnd, rEnd, all, a, g, call, before, ctx
<1>7. CASE v.form = "name"
  BY <1>3, <1>4, <1>7, <1>f, <1>v, <1>n
<1>8. CASE v.form = "literal"
  BY <1>8, <1>f, <1>v
<1>9. CASE v.form = "subscript"
  <2>1. o = OfSubscript(w) /\ v.of \in Name
    BY <1>9, <1>f, <1>n
  <2>2. w \in Kind /\ o = w /\ IsArrayLike(o)
    BY <1>3, <1>4, <2>1, Idempotent
  <2>3. held = o
    BY <1>3, <1>4, <2>1, <2>2
  <2> QED BY <1>9, <1>v, <2>2, <2>3
<1>10. CASE v.form = "attribute" /\ ~v.called
  <2>1. o = OfAttribute(w, v.attr) /\ v.of \in Name
    BY <1>10, <1>f, <1>n
  <2>2. w \in Kind /\ w \in Origin
    BY <1>3, <1>4, <2>1, FromOrigin
  <2>3. held = w \/ held = o
    BY <1>3, <1>4, <2>1, <2>2
  <2>4. held \in Origin /\ OfAttribute(held, v.attr) = o
    BY <1>3, <2>1, <2>2, <2>3, Idempotent
  <2> QED BY <1>10, <1>v, <2>4
<1>11. ASSUME v.of \in Name, NEW m \in {a, g}, m # None
       PROVE  m \in Module /\ held = m /\ v.of \notin BuiltinPlain
  BY <1>4, <1>11, <1>k, <1>s
<1>12. ASSUME OriginForModule(held) = o, held \in Module, v.called PROVE all = {o}
  <2>1. all = LibraryResult(held)
    BY <1>12, <1>v
  <2> QED BY <1>3, <1>12, <2>1, FromOrigin DEF LibraryResult
<1>13. CASE v.form = "attribute" /\ v.called
  <2>1. v.of \in Name /\ o = IF a # None /\ w = "unknown" THEN OriginForModule(a) ELSE OfMethod(w, v.attr)
    BY <1>13, <1>f, <1>c, <1>n
  <2>2. CASE a # None /\ w = "unknown"
    <3>1. a \in Module /\ held = a
      BY <1>11, <2>1, <2>2
    <3> QED BY <1>12, <1>13, <2>1, <2>2, <3>1
  <2>3. CASE ~(a # None /\ w = "unknown")
    <3>1. o = OfMethod(w, v.attr)
      BY <2>1, <2>3
    <3>2. w \in Kind /\ w \in Origin
      BY <1>3, <1>4, <2>1, <3>1, FromOrigin
    <3>3. held = w \/ held = o
      BY <1>3, <1>4, <2>1, <3>2
    <3>4. held \in Origin /\ OfMethod(held, v.attr) = o
      BY <1>3, <3>1, <3>2, <3>3, Idempotent
    <3> QED BY <1>13, <1>v, <3>4
  <2> QED BY <2>2, <2>3
<1>14. CASE v.form = "bare" /\ v.called
  <2>1. o = IF v.of \in BuiltinPlain THEN "Plain" ELSE OriginForModule(g)
    BY <1>14, <1>f, <1>c
  <2>2. CASE v.of \in BuiltinPlain
    BY <1>14, <1>v, <2>1, <2>2
  <2>3. CASE v.of \notin BuiltinPlain
    <3>1. v.of \in Name /\ o = OriginForModule(g)
      BY <1>14, <1>b, <2>1, <2>3
    <3>2. g # None
      BY <1>3, <3>1, AnythingAssumption, FromOrigin
    <3>3. g \in Module /\ held = g
      BY <1>11, <3>1, <3>2
    <3> QED BY <1>12, <1>14, <3>1, <3>3
  <2> QED BY <2>2, <2>3
<1>15. CASE v.form = "binary"
  <2>1. o = OfBinary(w, r) /\ v.of \in Name /\ r \in Kind /\ rEnd \in Kind
    BY <1>5, <1>15, <1>f, <1>n
  <2>2. wEnd \in Kind /\ w \in Kind
    BY <1>3, <1>4, <2>1, FromOrigin
  <2>3. held = wEnd /\ right = rEnd
    BY <1>4, <1>5, <1>15, <1>o, <2>1, <2>2, FromOrigin
  <2>4. IsArrayLike(o) /\ (o = w \/ o = r)
    BY <1>3, <2>1 DEF OfBinary, IsArrayLike, Origin
  <2>5. o = wEnd \/ o = rEnd
    BY <1>4, <1>5, <1>15, <2>1, <2>4
  <2>6. {k \in {wEnd, rEnd} : IsArrayLike(k)} = {o}
    BY <1>15, <1>o, <2>4, <2>5, OneArrayLike
  <2>7. all = OfEither({wEnd, rEnd}) /\ \E k \in {wEnd, rEnd} : IsArrayLike(k)
    BY <1>15, <1>v, <2>3, <2>4, <2>5
  <2> QED BY <2>6, <2>7 DEF OfEither
<1>16. CASE v.form \in {"math", "opaque"} \/ (v.form = "bare" /\ ~v.called)
  BY <1>3, <1>16, <1>f, FromOrigin
<1>17. v.form \in {"name", "bare", "attribute", "subscript", "binary", "math", "literal", "opaque"}
  BY <1>1 DEF IsValue
<1> QED BY <1>7, <1>8, <1>9, <1>10, <1>13, <1>14, <1>15, <1>16, <1>17

-----------------------------------------------------------------------------
(* Steps that leave the analysis as it is.                                 *)

\* Nothing of what is known of the notebook changes.
LEMMA StillStatements ==
  ASSUME UNCHANGED cells
  PROVE  Statements' = Statements /\ \A p : At(p)' = At(p)
BY DEF Statements, At

LEMMA StillParsed ==
  ASSUME UNCHANGED analysis
  PROVE  /\ Parsed' = Parsed /\ (Ready' <=> Ready) /\ Statements' = Statements
         /\ \A p : At(p)' = At(p)
<1>1. Parsed' = Parsed /\ (Ready' <=> Ready)
  BY DEF analysis, Parsed, Ready
<1>2. UNCHANGED cells
  BY DEF analysis
<1> QED BY <1>1, <1>2, StillStatements

LEMMA StillImports ==
  ASSUME UNCHANGED analysis
  PROVE  NotebookImports' = NotebookImports /\ AllImports' = AllImports /\ Imported' = Imported
<1>1. Parsed' = Parsed /\ cells' = cells
  BY StillParsed DEF analysis
<1> DEFINE f == [c \in DOMAIN cells |-> IF c \in Parsed THEN cells[c].imports ELSE <<>>]
<1>2. PICK g : g = f
  OBVIOUS
<1>3. f' = f
  BY <1>1
<1>4. NotebookImports = FlattenSeq(g) /\ NotebookImports' = FlattenSeq(g)
  BY <1>2, <1>3 DEF NotebookImports
<1>5. NotebookImports' = NotebookImports
  BY <1>4
<1>6. AllImports' = AllImports
  BY <1>5 DEF AllImports
<1> QED BY <1>5, <1>6 DEF Imported

LEMMA StillLocal ==
  ASSUME UNCHANGED cells, NEW c, NEW s
  PROVE  LocalNames(c, s)' = LocalNames(c, s)
<1>1. cells' = cells
  OBVIOUS
<1>2. \A n : n \in LocalNames(c, s) <=>
               \/ n \in cells[c].params[s]
               \/ \E q \in Statements : q[1] = c /\ At(q).scope = s /\ n \in Binds(At(q))
  BY DEF LocalNames
<1>3. \A n : n \in LocalNames(c, s)' <=>
               \/ n \in cells'[c].params[s]
               \/ \E q \in Statements' : q[1] = c /\ At(q)'.scope = s /\ n \in Binds(At(q)')
  BY DEF LocalNames
<1> QED BY <1>1, <1>2, <1>3, StillStatements

LEMMA StillHome ==
  ASSUME UNCHANGED cells, NEW c, NEW s, NEW n
  PROVE  Home(c, s, n)' = Home(c, s, n)
<1> DEFINE homes == {t \in Above[s] \ {Root} : n \in LocalNames(c, t)}
<1>1. PICK h : h = homes
  OBVIOUS
<1>2. h = {t \in Above[s] \ {Root} : n \in LocalNames(c, t)'}
  <2>1. \A t : LocalNames(c, t)' = LocalNames(c, t)
    BY StillLocal
  <2> QED BY <1>1, <2>1
<1>3. Home(c, s, n) = IF h = {} THEN Globals ELSE <<c, CHOOSE t \in h : h \subseteq Above[t]>>
  BY <1>1 DEF Home
<1>4. Home(c, s, n)' = IF h = {} THEN Globals ELSE <<c, CHOOSE t \in h : h \subseteq Above[t]>>
  <2> HIDE DEF homes
  <2> USE DEF Globals
  <2>1. CASE h = {}
    BY <1>2, <2>1 DEF Home
  <2>2. CASE h # {}
    <3>1. Home(c, s, n)' = <<c, CHOOSE t \in h : h \subseteq Above[t]>>
      BY <1>2, <2>2 DEF Home
    <3> QED BY <2>2, <3>1
  <2> QED BY <2>1, <2>2
<1> QED BY <1>3, <1>4

LEMMA StillLimits ==
  ASSUME UNCHANGED analysis
  PROVE  WithinLimits' <=> WithinLimits
<1>1. /\ Statements' = Statements /\ (\A p : At(p)' = At(p)) /\ Imported' = Imported
      /\ NotebookImports' = NotebookImports
      /\ cells' = cells /\ bindings' = bindings
  BY StillParsed, StillImports DEF analysis
<1>2. Assigns' = Assigns
  BY <1>1 DEF Assigns
<1>3. OneModulePerName' <=> OneModulePerName
  BY <1>1 DEF OneModulePerName
<1>4. NoAugmented' <=> NoAugmented
  BY <1>1 DEF NoAugmented
<1>5. NothingShadowed' <=> NothingShadowed
  BY <1>1, <1>2 DEF NothingShadowed
<1>6. SettledFirst' <=> SettledFirst
  BY <1>1, <1>2 DEF SettledFirst
<1>7. OneCellPerName' <=> OneCellPerName
  BY <1>1, <1>2 DEF OneCellPerName
<1>8. OperandsAreKnown' <=> OperandsAreKnown
  BY <1>1 DEF OperandsAreKnown
<1> QED BY <1>3, <1>4, <1>5, <1>6, <1>7, <1>8 DEF WithinLimits

LEMMA StillFits ==
  ASSUME UNCHANGED analysis, NEW c, NEW s, NEW n, NEW h
  PROVE  /\ Fits(c, s, n, h)' <=> Fits(c, s, n, h)
         /\ MayBeCalled(n)' <=> MayBeCalled(n)
<1>1. bindings' = bindings /\ AllImports' = AllImports /\ NotebookImports' = NotebookImports
  BY StillImports DEF analysis
<1>2. Fits(c, s, n, h)' <=> Fits(c, s, n, h)
  BY <1>1 DEF Fits
<1>3. MayBeCalled(n)' <=> MayBeCalled(n)
  BY <1>1 DEF MayBeCalled
<1> QED BY <1>2, <1>3

-----------------------------------------------------------------------------
(* Memories.                                                               *)

Content == Anything \cup Module \cup {None}
Memory  == [Frame -> [Name -> Content]]

\* What the claims and the imports say of other memories than the present one.
ClaimsHoldIn(mem) ==
  \A c \in Parsed, s \in Scope, n \in Name :
    bindings[c][s][n] \in Origin => mem[Home(c, s, n)][n] \in {None, bindings[c][s][n]}

ImportsHoldIn(mem) == \A imp \in AllImports : mem[Globals][imp.binding] \in {None, imp.module}

LEMMA HomeIsFrame ==
  ASSUME NEW c \in DOMAIN cells, NEW s \in Scope, NEW n
  PROVE  Home(c, s, n) \in Frame
<1> DEFINE homes == {t \in Above[s] \ {Root} : n \in LocalNames(c, t)}
           t == CHOOSE u \in homes : homes \subseteq Above[u]
<1>1. homes \in SUBSET Above[s] /\ homes \subseteq Scope \ {Root}
  BY ScopesAssumption
<1>2. Home(c, s, n) = IF homes = {} THEN Globals ELSE <<c, t>>
  BY DEF Home
<1> HIDE DEF homes
<1>3. homes # {} => t \in homes
  BY <1>1, Innermost
<1> HIDE DEF t
<1> QED BY <1>1, <1>2, <1>3 DEF Frame

LEMMA HomeTellsScope ==
  ASSUME NoAugmented, NothingShadowed, NEW c \in DOMAIN cells, NEW s \in Scope, NEW n,
         BoundIn(c, s, n)
  PROVE  Home(c, s, n)[2] = s /\ (s # Root => Home(c, s, n)[1] = c)
<1> DEFINE h == Home(c, s, n)
<1>1. h = IF s = Root THEN Globals ELSE <<c, s>>
  BY HomeOfBound
<1> HIDE DEF h
<1>2. CASE s = Root
  <2>1. h = <<0, Root>>
    BY <1>1, <1>2 DEF Globals
  <2> QED BY <1>2, <2>1 DEF h
<1>3. CASE s # Root
  <2>1. h = <<c, s>>
    BY <1>1, <1>3
  <2> QED BY <1>3, <2>1 DEF h
<1> QED BY <1>2, <1>3

\* Two entries of one variable are the same entry.
LEMMA OneEntry ==
  ASSUME NoAugmented, NothingShadowed, OneCellPerName,
         NEW c \in DOMAIN cells, NEW s \in Scope, NEW d \in DOMAIN cells, NEW t \in Scope, NEW n,
         BoundIn(c, s, n), BoundIn(d, t, n), Home(c, s, n) = Home(d, t, n)
  PROVE  c = d /\ s = t
<1>2. /\ Home(c, s, n)[2] = s /\ (s # Root => Home(c, s, n)[1] = c)
      /\ Home(d, t, n)[2] = t /\ (t # Root => Home(d, t, n)[1] = d)
  BY HomeTellsScope
<1>3. s = t
  BY <1>2
<1>4. CASE s = Root
  <2>1. PICK p \in Assigns : p[1] = c /\ At(p).scope = s /\ n \in Binds(At(p))
    BY BoundIsNotGiven
  <2>2. PICK q \in Assigns : q[1] = d /\ At(q).scope = t /\ n \in Binds(At(q))
    BY BoundIsNotGiven
  <2> QED BY <1>3, <1>4, <2>1, <2>2 DEF OneCellPerName
<1>5. CASE s # Root
  <2>1. Home(c, s, n)[1] = c /\ Home(d, t, n)[1] = d
    BY <1>2, <1>3, <1>5
  <2> QED BY <1>3, <2>1
<1> QED BY <1>4, <1>5

LEMMA ValuesAreContent ==
  ASSUME NEW v, NEW held \in Content, NEW right \in Content
  PROVE  Values(v, held, right) \subseteq Content
<1>1. Origin \subseteq Content /\ Anything \subseteq Content
  BY AnythingAssumption DEF Content
<1>2. LibraryResult(held) \subseteq Content
  <2>1. OriginForModule(held) \in Kind
    BY ModuleKind
  <2> QED BY <1>1, <2>1 DEF LibraryResult, Kind
<1>3. held \in Origin => OfMethod(held, v.attr) \in Origin /\ OfAttribute(held, v.attr) \in Origin
  BY DEF OfMethod, OfAttribute, IsArrayLike, Origin
<1>4. OfEither({held, right}) \subseteq Content
  BY <1>1 DEF OfEither
<1>5. "Plain" \in Origin
  BY DEF Origin
<1> DEFINE all == Values(v, held, right)
<1>6. \/ all = {"Plain"} \/ all = {held} \/ all = LibraryResult(held)
      \/ held \in Origin /\ all = {OfMethod(held, v.attr)}
      \/ held \in Origin /\ all = {OfAttribute(held, v.attr)}
      \/ all = OfEither({held, right}) \/ all = Anything
  <2> DEFINE b == LibraryResult(held)
             d == OfEither({held, right})
             like == IsArrayLike(held)
             a == v.form = "literal" \/ (v.form = "bare" /\ v.of \in BuiltinPlain)
             g2 == v.form = "name"
             g3 == v.form \in {"bare", "attribute"} /\ v.called /\ held \in Module
             g4 == v.form = "attribute" /\ v.called /\ held \in Origin
             g5 == v.form = "attribute" /\ ~v.called /\ held \in Origin
             g6 == v.form = "subscript" /\ like
             g7 == v.form = "binary"
             k == OfMethod(held, v.attr)
             l == OfAttribute(held, v.attr)
  <2>1. all = CASE a -> {"Plain"} [] g2 -> {held} [] g3 -> b [] g4 -> {k} [] g5 -> {l}
                [] g6 -> {held} [] g7 -> d [] OTHER -> Anything
    BY DEF Values
  <2>2. (g4 => held \in Origin) /\ (g5 => held \in Origin)
    OBVIOUS
  <2> DEFINE x3 == {k}
             x4 == {l}
             x5 == {held}
             x6 == {"Plain"}
  <2>3. all = CASE a -> x6 [] g2 -> x5 [] g3 -> b [] g4 -> x3 [] g5 -> x4
                [] g6 -> x5 [] g7 -> d [] OTHER -> Anything
    BY <2>1
  <2> HIDE DEF all, a, b, d, k, l, x3, x4, x5, x6, g2, g3, g4, g5, g6, g7
  <2>4. all \in {x5, x6, b, d, Anything} \/ (g4 /\ all = x3) \/ (g5 /\ all = x4)
    <3>1. CASE a
      BY <2>3, <3>1
    <3>2. CASE ~a /\ g2
      BY <2>3, <3>2
    <3>3. CASE ~a /\ ~g2 /\ g3
      BY <2>3, <3>3
    <3>4. CASE ~a /\ ~g2 /\ ~g3 /\ g4
      BY <2>3, <3>4
    <3>5. CASE ~a /\ ~g2 /\ ~g3 /\ ~g4 /\ g5
      BY <2>3, <3>5
    <3>6. CASE ~a /\ ~g2 /\ ~g3 /\ ~g4 /\ ~g5
      BY <2>3, <3>6
    <3> QED BY <3>1, <3>2, <3>3, <3>4, <3>5, <3>6
  <2> QED BY <2>2, <2>4 DEF all, b, d, k, l, x3, x4, x5, x6
<1> HIDE DEF all
<1>7. all \subseteq Content
  BY <1>1, <1>2, <1>3, <1>4, <1>5, <1>6
<1> QED BY <1>7 DEF all

LEMMA AssignedAt ==
  ASSUME memory \in Memory, NEW c \in DOMAIN cells, NEW s \in Scope, NEW names, NEW kinds,
         kinds \subseteq Content, Assigned(c, s, names, kinds)
  PROVE  /\ memory' \in Memory
         /\ \A f \in Frame, n \in Name :
              IF n \in names /\ f = Home(c, s, n)
              THEN memory'[f][n] \in kinds ELSE memory'[f][n] = memory[f][n]
<1>1. PICK given \in [names -> kinds] :
        memory' = [f \in Frame |-> [n \in Name |->
                     IF n \in names /\ f = Home(c, s, n) THEN given[n] ELSE memory[f][n]]]
  BY DEF Assigned
<1>2. \A f \in Frame, n \in Name :
        memory'[f][n] = IF n \in names /\ f = Home(c, s, n) THEN given[n] ELSE memory[f][n]
  BY <1>1
<1>3. \A n \in names : given[n] \in kinds
  OBVIOUS
<1>4. \A f \in Frame, n \in Name : memory[f][n] \in Content
  BY DEF Memory
<1>5. \A f \in Frame, n \in Name : memory'[f][n] \in Content
  BY <1>2, <1>3, <1>4
<1>6. memory' \in Memory
  <2>1. \A f \in Frame : memory'[f] \in [Name -> Content]
    <3> SUFFICES ASSUME NEW f \in Frame PROVE memory'[f] \in [Name -> Content]
      OBVIOUS
    <3>1. memory'[f] = [n \in Name |->
                     IF n \in names /\ f = Home(c, s, n) THEN given[n] ELSE memory[f][n]]
      BY <1>1
    <3>2. memory'[f] = [n \in Name |-> memory'[f][n]]
      BY <3>1
    <3> QED BY <1>5, <3>2
  <2>2. memory' = [f \in Frame |-> memory'[f]]
    BY <1>1
  <2> QED BY <2>1, <2>2 DEF Memory
<1> QED BY <1>2, <1>3, <1>6

-----------------------------------------------------------------------------
(* Each step of the program.                                               *)

LEMMA ExecuteType ==
  ASSUME ControlOK, memory \in Memory, NEW c \in DOMAIN cells, NEW i \in DOMAIN cells[c].body,
         Execute(c, i)
  PROVE  memory' \in Memory
<1> DEFINE st == cells[c].body[i]
           v == st.value
           held == IF v.of \in Reads(v) THEN Held(c, st.scope, v.of) ELSE None
           right == IF v.right \in Reads(v) THEN Held(c, st.scope, v.right) ELSE None
<1>1. IsStatement(st) /\ st.scope \in Scope
  BY InputAssumption DEF ControlOK, IsCell, IsStatement
<1>2. \A n \in Name : Held(c, st.scope, n) \in Content
  BY <1>1, HomeIsFrame DEF Held, Memory
<1>3. held \in Content /\ right \in Content
  BY <1>2 DEF Reads, Content
<1>4. Values(v, held, right) \subseteq Content
  BY <1>3, ValuesAreContent
<1>5. \/ st.does = "assign" /\ Assigned(c, st.scope, {st.target}, Values(v, held, right))
      \/ st.does = "unpack" /\ Assigned(c, st.scope, st.targets, Anything)
      \/ st.does = "augment"
           /\ \E k \in Values(v, held, right) :
                Assigned(c, st.scope, {st.target}, OfEither({Held(c, st.scope, st.target), k}))
      \/ UNCHANGED memory
  BY DEF Execute
<1> HIDE DEF held, right
<1>6. CASE st.does = "assign" /\ Assigned(c, st.scope, {st.target}, Values(v, held, right))
  BY <1>1, <1>4, <1>6, AssignedAt
<1>7. CASE st.does = "unpack" /\ Assigned(c, st.scope, st.targets, Anything)
  BY <1>1, <1>7, AssignedAt DEF Content
<1>8. CASE st.does = "augment" /\ \E k \in Values(v, held, right) :
             Assigned(c, st.scope, {st.target}, OfEither({Held(c, st.scope, st.target), k}))
  <2>1. PICK k \in Values(v, held, right) :
             Assigned(c, st.scope, {st.target}, OfEither({Held(c, st.scope, st.target), k}))
    BY <1>8
  <2>2. st.target \in Name
    BY <1>1, <1>8 DEF IsStatement
  <2>3. OfEither({Held(c, st.scope, st.target), k}) \subseteq Content
    BY <1>2, <1>4, <2>2 DEF OfEither, Content
  <2> QED BY <1>1, <2>1, <2>3, AssignedAt
<1> QED BY <1>5, <1>6, <1>7, <1>8

LEMMA ExecuteKeeps ==
  ASSUME Sound, memory \in Memory, NEW c \in DOMAIN cells, NEW i \in DOMAIN cells[c].body,
         Execute(c, i)
  PROVE  ClaimsHoldIn(memory') /\ ImportsHoldIn(memory')
<1> DEFINE body == cells[c].body
           st == body[i]
           s == st.scope
           v == st.value
           held == IF v.of \in Reads(v) THEN Held(c, s, v.of) ELSE None
           right == IF v.right \in Reads(v) THEN Held(c, s, v.right) ELSE None
           all == Values(v, held, right)
<1>1. /\ c \in Parsed /\ (\A n \in Reads(v) : Held(c, s, n) # None)
      /\ v.form = "bare" => MayBeCalled(v.of)
  BY DEF Execute
<1>2. IsStatement(st) /\ s \in Scope /\ Len(body) \in Nat /\ DOMAIN body = 1..Len(body)
  BY <1>1, BodyIsWell DEF AreStatements, IsStatement, Sound
<1>3. /\ ClaimsHold /\ ImportsHold /\ NoAugmented /\ NothingShadowed /\ OneCellPerName
      /\ ControlOK /\ TablesBuilt
  BY DEF Sound, WithinLimits
<1>4. <<c, i>> \in Statements /\ At(<<c, i>>) = st
  BY StatementsOfCells
<1>5. st.does # "augment"
  BY <1>3, <1>4 DEF NoAugmented
<1>6. \/ st.does = "assign" /\ Assigned(c, s, {st.target}, all)
      \/ st.does = "unpack" /\ Assigned(c, s, st.targets, Anything)
      \/ UNCHANGED memory
  BY <1>5 DEF Execute
<1>7. all \subseteq Content
  <2>1. \A n \in Name : Held(c, s, n) \in Content
    BY <1>2, HomeIsFrame DEF Held, Memory
  <2>2. held \in Content /\ right \in Content
    BY <2>1 DEF Reads, Content
  <2> HIDE DEF held, right
  <2> QED BY <2>2, ValuesAreContent
<1>8. st.does = "assign" /\ bindings[c][s][st.target] \in Origin
        => all = {bindings[c][s][st.target]}
  BY <1>1, ClaimOfAssignment
<1> HIDE DEF held, right, all
<1>9. CASE UNCHANGED memory
  BY <1>3, <1>9 DEF ClaimsHold, ImportsHold, ClaimsHoldIn, ImportsHoldIn
<1>10. ASSUME NEW names \in SUBSET Name, NEW kinds \in SUBSET Content, Assigned(c, s, names, kinds),
              \A n \in names : /\ Recorded(st, s, n)
                               /\ bindings[c][s][n] \in Origin => kinds = {bindings[c][s][n]}
       PROVE  ClaimsHoldIn(memory') /\ ImportsHoldIn(memory')
  <2>1. \A f \in Frame, n \in Name :
          IF n \in names /\ f = Home(c, s, n)
          THEN memory'[f][n] \in kinds ELSE memory'[f][n] = memory[f][n]
    BY <1>2, <1>10, AssignedAt
  <2>2. \A n \in names : BoundIn(c, s, n)
    BY <1>10 DEF BoundIn
  <2>3. ASSUME NEW d \in Parsed, NEW t \in Scope, NEW n \in Name, bindings[d][t][n] \in Origin
        PROVE  memory'[Home(d, t, n)][n] \in {None, bindings[d][t][n]}
    <3>0. d \in DOMAIN cells
      BY DEF Parsed
    <3>1. Home(d, t, n) \in Frame
      BY <3>0, HomeIsFrame
    <3>2. CASE n \in names /\ Home(d, t, n) = Home(c, s, n)
      <4>1. BoundIn(d, t, n)
        BY <1>3, <2>3, EntryIsBound DEF Origin
      <4>2. c = d /\ s = t
        BY <1>2, <1>3, <2>2, <3>0, <3>2, <4>1, OneEntry
      <4>3. memory'[Home(d, t, n)][n] \in kinds
        BY <2>1, <3>1, <3>2
      <4>4. kinds = {bindings[d][t][n]}
        BY <1>10, <2>3, <3>2, <4>2
      <4> QED BY <4>3, <4>4
    <3>3. CASE ~(n \in names /\ Home(d, t, n) = Home(c, s, n))
      <4>1. memory'[Home(d, t, n)][n] = memory[Home(d, t, n)][n]
        BY <2>1, <3>1, <3>3
      <4> QED BY <1>3, <2>3, <4>1 DEF ClaimsHold
    <3> QED BY <3>2, <3>3
  <2>4. ASSUME NEW imp \in AllImports
        PROVE  memory'[Globals][imp.binding] \in {None, imp.module}
    <3>1. imp.binding \in Name /\ imp.binding \in Imported
      <4>1. AllImports \in SUBSET ImportStatement
        BY <1>1, ImportsAreWell DEF Sound, WithinLimits
      <4> QED BY <4>1 DEF ImportStatement, Imported
    <3>2. imp.binding \notin names
      BY <1>3, <2>2, <3>1, BoundIsNotGiven
    <3>3. memory'[Globals][imp.binding] = memory[Globals][imp.binding]
      BY <2>1, <3>1, <3>2 DEF Frame
    <3> QED BY <1>3, <3>3 DEF ImportsHold
  <2> QED BY <2>3, <2>4 DEF ClaimsHoldIn, ImportsHoldIn
<1>11. CASE st.does = "assign" /\ Assigned(c, s, {st.target}, all)
  <2> DEFINE names == {st.target}
  <2>1. names \in SUBSET Name /\ all \in SUBSET Content
    BY <1>2, <1>7, <1>11 DEF IsStatement
  <2>2. \A n \in names : Recorded(st, s, n)
                         /\ (bindings[c][s][n] \in Origin => all = {bindings[c][s][n]})
    BY <1>8, <1>11 DEF Recorded
  <2> HIDE DEF names
  <2>3. Assigned(c, s, names, all)
    BY <1>11 DEF names
  <2> QED BY <1>10, <2>1, <2>2, <2>3
<1>12. CASE st.does = "unpack" /\ Assigned(c, s, st.targets, Anything)
  <2> DEFINE names == st.targets
  <2>1. names \in SUBSET Name /\ Anything \in SUBSET Content
    BY <1>2, <1>12 DEF IsStatement, Content
  <2>2. \A n \in names : Recorded(st, s, n) /\ bindings[c][s][n] \notin Origin
    <3> SUFFICES ASSUME NEW n \in names
                 PROVE  Recorded(st, s, n) /\ bindings[c][s][n] \notin Origin
      OBVIOUS
    <3>1. Recorded(st, s, n) /\ n \in Name
      BY <1>12, <2>1 DEF Recorded
    <3>2. PICK f : /\ bindings[c] = f[Len(body)]
                   /\ EntryTells(f, imports[c], body, Len(body), s, n)
      BY <1>1, <1>2, <1>3, <3>1, TableTells
    <3> QED BY <1>2, <1>12, <3>1, <3>2 DEF EntryTells
  <2> HIDE DEF names
  <2>3. Assigned(c, s, names, Anything)
    BY <1>12 DEF names
  <2> QED BY <1>10, <2>1, <2>2, <2>3
<1> QED BY <1>6, <1>9, <1>11, <1>12

LEMMA RunImportKeeps ==
  ASSUME ControlOK, ContextsKnow, memory \in Memory,
         NEW c \in DOMAIN cells, NEW i \in DOMAIN cells[c].imports, RunImport(c, i)
  PROVE  /\ memory' \in Memory
         /\ Sound => ClaimsHoldIn(memory') /\ ImportsHoldIn(memory')
<1> DEFINE imp == cells[c].imports[i]
           b == imp.binding
<1>1. c \in Parsed /\ Ready /\ memory' = [memory EXCEPT ![Globals][b] = imp.module]
  BY DEF RunImport
<1>2. imp \in ToSet(cells[c].imports)
  BY DEF ToSet
<1>3. imp \in AllImports
  <2>1. AllImports = Heard(After) /\ Before(After) = Parsed
    BY NotebookIsOneFile, BeforeTurns DEF AllImports
  <2> QED BY <1>1, <1>2, <2>1 DEF Heard
<1>4. imp.binding \in Name /\ imp.module \in Content
  <2>1. Heard(After) \in SUBSET ImportStatement /\ AllImports = Heard(After)
    BY HeardIsWell, NotebookIsOneFile DEF AllImports
  <2> QED BY <1>3, <2>1 DEF ImportStatement, Content
<1> HIDE DEF imp
<1>5. memory' \in Memory
  BY <1>1, <1>4 DEF Memory, Frame
<1>6. \A f \in Frame, n \in Name :
        memory'[f][n] = IF f = Globals /\ n = b THEN imp.module ELSE memory[f][n]
  BY <1>1, <1>4 DEF Memory, Frame
<1>7. ASSUME Sound PROVE ClaimsHoldIn(memory') /\ ImportsHoldIn(memory')
  <2>1. /\ ClaimsHold /\ ImportsHold /\ NoAugmented /\ NothingShadowed /\ TablesBuilt
        /\ OneModulePerName
    BY <1>7 DEF Sound, WithinLimits
  <2>2. ASSUME NEW d \in Parsed, NEW t \in Scope, NEW n \in Name, bindings[d][t][n] \in Origin
        PROVE  memory'[Home(d, t, n)][n] \in {None, bindings[d][t][n]}
    <3>0. d \in DOMAIN cells
      BY DEF Parsed
    <3>1. BoundIn(d, t, n)
      BY <2>1, <2>2, EntryIsBound DEF Origin
    <3>2. n # b
      BY <1>3, <2>1, <3>0, <3>1, BoundIsNotGiven DEF Imported
    <3>3. Home(d, t, n) \in Frame
      BY <3>0, HomeIsFrame
    <3>4. memory'[Home(d, t, n)][n] = memory[Home(d, t, n)][n]
      BY <1>6, <3>2, <3>3
    <3> QED BY <2>1, <2>2, <3>4 DEF ClaimsHold
  <2>3. ASSUME NEW other \in AllImports
        PROVE  memory'[Globals][other.binding] \in {None, other.module}
    <3>1. other.binding \in Name
      BY <1>1, ImportsAreWell, <2>1 DEF ImportStatement
    <3>2. Globals \in Frame
      BY DEF Frame
    <3>3. CASE other.binding = b
      <4>1. other.module = imp.module
        BY <1>3, <2>1, <3>3 DEF OneModulePerName, AllImports
      <4> QED BY <1>6, <3>1, <3>2, <3>3, <4>1
    <3>4. CASE other.binding # b
      BY <1>6, <2>1, <3>1, <3>2, <3>4 DEF ImportsHold
    <3> QED BY <3>3, <3>4
  <2> QED BY <2>2, <2>3 DEF ClaimsHoldIn, ImportsHoldIn
<1> QED BY <1>5, <1>7

LEMMA CallKeeps ==
  ASSUME ControlOK, memory \in Memory, NEW c \in DOMAIN cells, NEW s \in Scope \ {Root}, Call(c, s)
  PROVE  /\ memory' \in Memory
         /\ Sound => ClaimsHoldIn(memory') /\ ImportsHoldIn(memory')
<1> DEFINE params == cells[c].params[s]
<1>1. PICK args \in [params -> Anything] :
        memory' = [memory EXCEPT ![<<c, s>>] =
                    [n \in Name |-> IF n \in DOMAIN args THEN args[n] ELSE None]]
  BY DEF Call
<1>2. <<c, s>> \in Frame
  BY DEF Frame
<1> DEFINE fresh == [n \in Name |-> IF n \in params THEN args[n] ELSE None]
<1>3. fresh \in [Name -> Content]
  BY DEF Content
<1>4. memory' = [memory EXCEPT ![<<c, s>>] = fresh]
  BY <1>1
<1>5. \A n \in Name : n \notin params => fresh[n] = None
  OBVIOUS
<1> HIDE DEF fresh
<1>6. memory' \in Memory
  BY <1>2, <1>3, <1>4 DEF Memory
<1>7. \A f \in Frame : memory'[f] = IF f = <<c, s>> THEN fresh ELSE memory[f]
  BY <1>2, <1>4 DEF Memory
<1>8. ASSUME Sound PROVE ClaimsHoldIn(memory') /\ ImportsHoldIn(memory')
  <2>1. ClaimsHold /\ ImportsHold /\ NoAugmented /\ NothingShadowed /\ TablesBuilt
    BY <1>8 DEF Sound, WithinLimits
  <2>2. ASSUME NEW d \in Parsed, NEW t \in Scope, NEW n \in Name, bindings[d][t][n] \in Origin
        PROVE  memory'[Home(d, t, n)][n] \in {None, bindings[d][t][n]}
    <3>0. d \in DOMAIN cells
      BY DEF Parsed
    <3>1. BoundIn(d, t, n)
      BY <2>1, <2>2, EntryIsBound DEF Origin
    <3>2. n \notin params
      BY <2>1, <3>0, <3>1, BoundIsNotGiven
    <3>3. Home(d, t, n) \in Frame
      BY <3>0, HomeIsFrame
    <3>4. memory'[Home(d, t, n)][n] \in {None, memory[Home(d, t, n)][n]}
      BY <1>5, <1>7, <3>2, <3>3
    <3> QED BY <2>1, <2>2, <3>4 DEF ClaimsHold
  <2>3. ASSUME NEW imp \in AllImports
        PROVE  memory'[Globals][imp.binding] \in {None, imp.module}
    <3>1. Globals \in Frame /\ Globals # <<c, s>>
      <4>1. Globals[2] # <<c, s>>[2]
        BY DEF Globals
      <4> QED BY <4>1 DEF Frame
    <3> QED BY <1>7, <2>1, <3>1 DEF ImportsHold
  <2> QED BY <2>2, <2>3 DEF ClaimsHoldIn, ImportsHoldIn
<1> QED BY <1>6, <1>8

-----------------------------------------------------------------------------
(* The invariant of the program that runs.                                 *)

ImportsAreNames == \A imp \in AllImports : imp.binding \in Name

\* What the analysis of a notebook maintains by itself.
AnalysisInv == IInv /\ ContextsKnow /\ ImportsAreNames

\* Before the notebook is ready nothing runs.
NothingYet == ~Ready => memory = [f \in Frame |-> [n \in Name |-> None]] /\ evaluated = None

\* What the receiver was when a statement was evaluated is what it may still be.
EvaluatedFits ==
  evaluated # None =>
    LET c  == evaluated.cell
        st == cells[c].body[evaluated.at]
        v  == st.value
    IN /\ Ready /\ c \in Parsed /\ evaluated.at \in DOMAIN cells[c].body
       /\ v.form = "bare" => MayBeCalled(v.of)
       /\ v.of \in Reads(v) /\ WithinLimits => Fits(c, st.scope, v.of, evaluated.held)
       /\ v.of \notin Reads(v) => evaluated.held = None

\* ClaimsAreTrue made inductive.
KInv ==
  /\ memory \in Memory /\ NothingYet /\ EvaluatedFits
  /\ bindings = [c \in DOMAIN cells |-> bindings[c]] /\ TablesBuilt
  /\ Ready /\ WithinLimits => ClaimsHold /\ ImportsHold

-----------------------------------------------------------------------------
LEMMA StillFrame ==
  ASSUME UNCHANGED cells
  PROVE  Frame' = Frame /\ Memory' = Memory /\ Globals' = Globals
<1>1. Frame' = Frame /\ Globals' = Globals
  BY DEF Frame, Globals
<1> QED BY <1>1 DEF Memory, Content

LEMMA InitKInv == KernelInit => KInv
<1> SUFFICES ASSUME KernelInit PROVE KInv
  OBVIOUS
<1>1. Parsed = {} /\ ~Ready
  BY DEF KernelInit, Init, Parsed, Ready
<1>2. memory \in Memory /\ NothingYet /\ EvaluatedFits
  BY DEF KernelInit, Memory, Content, NothingYet, EvaluatedFits
<1>3. bindings = [c \in DOMAIN cells |-> bindings[c]]
  BY DEF KernelInit, Init
<1> QED BY <1>1, <1>2, <1>3 DEF KInv, TablesBuilt

LEMMA ParsingBuilds ==
  ASSUME AnalysisInv, KInv, ParseNotebook
  PROVE  /\ UNCHANGED cells /\ ~Ready
         /\ TablesBuilt' /\ (bindings = [c \in DOMAIN cells |-> bindings[c]])'
<1> DEFINE Built == TablesBuilt' /\ bindings' = [c \in DOMAIN cells |-> bindings'[c]]
<1>1. /\ bindings = [c \in DOMAIN cells |-> bindings[c]] /\ TablesBuilt
      /\ imports = [c \in DOMAIN cells |-> imports[c]]
      /\ outcome \in [DOMAIN cells -> {"pending", "parsed", "skipped"}]
  BY DEF KInv, AnalysisInv, IInv, ControlOK
<1>2. ASSUME NEW c \in DOMAIN cells, ParseSource(c) PROVE Built
  <2>1. Parsed' = Parsed \cup {c}
    BY <1>1, <1>2 DEF ParseSource, Parsed
  <2>2. /\ imports' = [imports EXCEPT ![c] = Own(c)]
        /\ bindings' = [bindings EXCEPT ![c] = Build(Own(c), cells[c].body)] /\ cells' = cells
    BY <1>2 DEF ParseSource
  <2>3. \A d \in DOMAIN cells :
          /\ imports'[d] = IF d = c THEN Own(c) ELSE imports[d]
          /\ bindings'[d] = IF d = c THEN Build(Own(c), cells[c].body) ELSE bindings[d]
    BY <1>1, <2>2
  <2>4. Parsed \subseteq DOMAIN cells
    BY DEF Parsed
  <2>5. TablesBuilt'
    BY <1>1, <2>1, <2>2, <2>3, <2>4 DEF TablesBuilt
  <2>6. bindings' = [d \in DOMAIN cells |-> bindings'[d]]
    BY <1>1, <2>2
  <2> QED BY <2>5, <2>6
<1>3. ASSUME NEW c \in DOMAIN cells, Skip(c) PROVE Built
  <2>1. Parsed' = Parsed /\ UNCHANGED <<cells, imports, bindings>>
    BY <1>1, <1>3 DEF Skip, Parsed
  <2> QED BY <1>1, <2>1 DEF TablesBuilt
<1>4. ASSUME Collect \/ MergeCell \/ Freeze \/ Rescan PROVE Built
  <2>1. UNCHANGED <<cells, outcome, imports, bindings>>
    BY <1>4 DEF Collect, MergeCell, Freeze, Rescan
  <2>2. Parsed' = Parsed
    BY <2>1 DEF Parsed
  <2> QED BY <1>1, <2>1, <2>2 DEF TablesBuilt
<1>5. ASSUME Share PROVE Built
  <2>1. /\ imports' = [c \in DOMAIN cells |-> IF c \in Parsed THEN merged ELSE imports[c]]
        /\ bindings' = [c \in DOMAIN cells |->
                    IF c \in Parsed THEN Build(merged, cells[c].body) ELSE bindings[c]]
        /\ UNCHANGED <<cells, outcome>>
    BY <1>5 DEF Share
  <2>2. Parsed' = Parsed /\ Parsed \subseteq DOMAIN cells
    BY <2>1 DEF Parsed
  <2> QED BY <2>1, <2>2 DEF TablesBuilt
<1>6. UNCHANGED cells /\ ~Ready
  BY DEF ParseNotebook, ParseSource, Skip, Collect, MergeCell, Freeze, Rescan, Share, Ready
<1> QED BY <1>2, <1>3, <1>4, <1>5, <1>6 DEF ParseNotebook

LEMMA ParsingKInv ==
  ASSUME AnalysisInv, AnalysisInv', KInv, ParseNotebook, UNCHANGED <<memory, evaluated>>
  PROVE  KInv'
<1>1. UNCHANGED cells /\ ~Ready /\ TablesBuilt' /\ (bindings = [c \in DOMAIN cells |-> bindings[c]])'
  BY ParsingBuilds
<1>2. memory = [f \in Frame |-> [n \in Name |-> None]] /\ evaluated = None /\ memory \in Memory
  BY <1>1 DEF KInv, NothingYet
<1>3. Frame' = Frame /\ Memory' = Memory /\ Globals' = Globals
  BY <1>1, StillFrame
<1>4. (memory \in Memory)' /\ NothingYet' /\ EvaluatedFits'
  BY <1>2, <1>3 DEF NothingYet, EvaluatedFits
<1>5. ClaimsHold'
  <2> SUFFICES ASSUME NEW c \in Parsed', NEW s \in Scope, NEW n \in Name
               PROVE  memory'[Home(c, s, n)'][n] = None
    BY DEF ClaimsHold
  <2>1. c \in DOMAIN cells
    BY <1>1 DEF Parsed
  <2>2. Home(c, s, n)' = Home(c, s, n)
    BY <1>1, StillHome
  <2>3. Home(c, s, n) \in Frame
    BY <2>1, HomeIsFrame
  <2> QED BY <1>2, <2>2, <2>3
<1>6. ImportsHold'
  <2> SUFFICES ASSUME NEW imp \in AllImports' PROVE memory'[Globals'][imp.binding] = None
    BY DEF ImportsHold
  <2>1. imp.binding \in Name
    BY DEF AnalysisInv, ImportsAreNames
  <2>2. Globals \in Frame
    BY DEF Frame
  <2> QED BY <1>2, <1>3, <2>1, <2>2
<1> QED BY <1>1, <1>4, <1>5, <1>6 DEF KInv

\* Once the notebook is ready only the memory changes.
LEMMA RunningKInv ==
  ASSUME KInv, UNCHANGED analysis, Ready, memory' \in Memory, EvaluatedFits',
         WithinLimits => ClaimsHoldIn(memory') /\ ImportsHoldIn(memory')
  PROVE  KInv'
<1>1. /\ Parsed' = Parsed /\ (Ready' <=> Ready) /\ AllImports' = AllImports
      /\ (WithinLimits' <=> WithinLimits)
      /\ UNCHANGED <<cells, imports, bindings>>
  BY StillParsed, StillImports, StillLimits DEF analysis
<1>2. Frame' = Frame /\ Memory' = Memory /\ Globals' = Globals
  BY <1>1, StillFrame
<1>3. TablesBuilt' /\ (bindings = [c \in DOMAIN cells |-> bindings[c]])'
  BY <1>1 DEF KInv, TablesBuilt
<1>4. ClaimsHoldIn(memory') => ClaimsHold'
  <2>1. \A c, s, n : Home(c, s, n)' = Home(c, s, n)
    BY <1>1, StillHome
  <2> QED BY <1>1, <2>1 DEF ClaimsHold, ClaimsHoldIn
<1>5. ImportsHoldIn(memory') => ImportsHold'
  BY <1>1, <1>2 DEF ImportsHold, ImportsHoldIn
<1>6. NothingYet'
  BY <1>1 DEF NothingYet
<1> QED BY <1>1, <1>2, <1>3, <1>4, <1>5, <1>6 DEF KInv

LEMMA SoundWhenReady ==
  ASSUME AnalysisInv, KInv, Ready, WithinLimits
  PROVE  Sound
BY DEF AnalysisInv, IInv, KInv, Sound

LEMMA ExecuteKInv ==
  ASSUME AnalysisInv, KInv, NEW c \in DOMAIN cells, NEW i \in DOMAIN cells[c].body, Execute(c, i)
  PROVE  KInv'
<1> DEFINE st == cells[c].body[i]
           v == st.value
           s == st.scope
           held == IF v.of \in Reads(v) THEN Held(c, s, v.of) ELSE None
<1>1. UNCHANGED analysis /\ Ready /\ ControlOK /\ memory \in Memory
  BY DEF Execute, AnalysisInv, IInv, KInv
<1>2. /\ c \in Parsed /\ (\A n \in Reads(v) : Held(c, s, n) # None)
      /\ (v.form = "bare" => MayBeCalled(v.of))
      /\ evaluated' = [cell |-> c, at |-> i, held |-> held]
  BY DEF Execute
<1>3. v.of \in Reads(v) /\ WithinLimits => Fits(c, s, v.of, held)
  <2>1. s \in Scope
    BY <1>1, <1>2, BodyIsWell DEF AreStatements, IsStatement
  <2>2. Reads(v) \subseteq Name
    BY DEF Reads
  <2> QED BY <1>1, <1>2, <2>1, <2>2, SoundWhenReady, HeldFits
<1>4. v.of \notin Reads(v) => held = None
  OBVIOUS
<1> HIDE DEF held
<1>5. EvaluatedFits'
  <2>1. evaluated'.cell = c /\ evaluated'.at = i /\ evaluated'.held = held
    BY <1>2
  <2>2. /\ Parsed' = Parsed /\ Ready' /\ (WithinLimits' <=> WithinLimits) /\ cells' = cells
    BY <1>1, StillParsed, StillLimits DEF analysis
  <2>3. /\ \A t, n, h : Fits(c, t, n, h)' <=> Fits(c, t, n, h)
        /\ \A n : MayBeCalled(n)' <=> MayBeCalled(n)
    BY <1>1, StillFits
  <2> QED BY <1>2, <1>3, <1>4, <2>1, <2>2, <2>3 DEF EvaluatedFits
<1>6. memory' \in Memory
  BY <1>1, ExecuteType
<1>7. WithinLimits => ClaimsHoldIn(memory') /\ ImportsHoldIn(memory')
  BY <1>1, SoundWhenReady, ExecuteKeeps
<1> QED BY <1>1, <1>5, <1>6, <1>7, RunningKInv

LEMMA RunImportKInv ==
  ASSUME AnalysisInv, KInv, NEW c \in DOMAIN cells, NEW i \in DOMAIN cells[c].imports,
         RunImport(c, i)
  PROVE  KInv'
<1>1. /\ UNCHANGED analysis /\ Ready /\ ControlOK /\ ContextsKnow /\ memory \in Memory
      /\ evaluated' = None
  BY DEF RunImport, AnalysisInv, IInv, KInv
<1>2. EvaluatedFits'
  BY <1>1 DEF EvaluatedFits
<1> QED BY <1>1, <1>2, SoundWhenReady, RunImportKeeps, RunningKInv

LEMMA CallKInv ==
  ASSUME AnalysisInv, KInv, NEW c \in DOMAIN cells, NEW s \in Scope \ {Root}, Call(c, s)
  PROVE  KInv'
<1>1. UNCHANGED analysis /\ Ready /\ ControlOK /\ memory \in Memory /\ evaluated' = None
  BY DEF Call, AnalysisInv, IInv, KInv
<1>2. EvaluatedFits'
  BY <1>1 DEF EvaluatedFits
<1> QED BY <1>1, <1>2, SoundWhenReady, CallKeeps, RunningKInv

LEMMA StutterKInv ==
  ASSUME AnalysisInv, AnalysisInv', KInv, UNCHANGED vars
  PROVE  KInv'
<1>0. UNCHANGED analysis /\ UNCHANGED cells /\ memory' = memory /\ evaluated' = evaluated
  BY DEF vars, analysis
<1>1. CASE Ready
  <2>1. EvaluatedFits'
    <3>1. SUFFICES ASSUME evaluated # None PROVE EvaluatedFits'
      BY <1>0 DEF EvaluatedFits
    <3>2. /\ Parsed' = Parsed /\ (Ready' <=> Ready) /\ (WithinLimits' <=> WithinLimits)
      BY <1>0, StillParsed, StillLimits
    <3>3. \A c, s, n, h : (Fits(c, s, n, h)' <=> Fits(c, s, n, h))
      BY <1>0, StillFits
    <3>4. \A n : MayBeCalled(n)' <=> MayBeCalled(n)
      BY <1>0, StillFits
    <3>5. EvaluatedFits
      BY DEF KInv
    <3> QED BY <1>0, <3>2, <3>3, <3>4, <3>5 DEF EvaluatedFits
  <2>2. memory' \in Memory
    BY <1>0 DEF KInv
  <2>3. WithinLimits => ClaimsHoldIn(memory') /\ ImportsHoldIn(memory')
    BY <1>0, <1>1 DEF KInv, ClaimsHold, ImportsHold, ClaimsHoldIn, ImportsHoldIn
  <2> QED BY <1>0, <1>1, <2>1, <2>2, <2>3, RunningKInv
<1>2. CASE ~Ready
  <2>1. /\ Parsed' = Parsed /\ (Ready' <=> Ready) /\ UNCHANGED <<imports, bindings>>
    BY <1>0, StillParsed DEF analysis
  <2>2. Frame' = Frame /\ Memory' = Memory
    BY <1>0, StillFrame
  <2>3. TablesBuilt' /\ (bindings = [c \in DOMAIN cells |-> bindings[c]])'
    BY <1>0, <2>1 DEF KInv, TablesBuilt
  <2>4. (memory \in Memory)' /\ NothingYet' /\ EvaluatedFits'
    BY <1>0, <1>2, <2>1, <2>2 DEF KInv, NothingYet, EvaluatedFits
  <2> QED BY <1>2, <2>1, <2>3, <2>4 DEF KInv
<1> QED BY <1>1, <1>2

\* Running the notebook keeps what its analysis established.
THEOREM AnalysisInvariant == KernelSpec => []AnalysisInv
<1>1. IInv /\ ContextsKnow => AnalysisInv
  <2>1. SUFFICES ASSUME IInv, ContextsKnow PROVE ImportsAreNames
    BY DEF AnalysisInv
  <2>2. ControlOK
    BY <2>1 DEF IInv
  <2>3. AllImports = Heard(After)
    BY <2>2, NotebookIsOneFile DEF AllImports
  <2>4. Heard(After) \in SUBSET ImportStatement
    BY <2>2, HeardIsWell
  <2> QED BY <2>3, <2>4 DEF ImportsAreNames, ImportStatement
<1> QED BY <1>1, ContextsInvariant, KernelKeepsAnalysis, PTL

\* Whatever statements, imports and calls are run in whatever order, the memory
\* stays within what the tables and the contexts of the cells claim.
THEOREM KernelInvariant == KernelSpec => [](AnalysisInv /\ KInv)
<1>1. KernelInit => KInv
  BY InitKInv
<1>2. AnalysisInv /\ AnalysisInv' /\ KInv /\ [Next]_vars => KInv'
  BY ParsingKInv, ExecuteKInv, RunImportKInv, CallKInv, StutterKInv DEF Next
<1> QED BY <1>1, <1>2, AnalysisInvariant, PTL DEF KernelSpec

\* Within the limits a name the tracker has an origin for holds an object of that
\* kind whenever it is bound.
THEOREM ClaimsAreAlwaysTrue == KernelSpec => []ClaimsAreTrue
<1>1. KInv => ClaimsAreTrue
  BY DEF KInv, ClaimsHold, ClaimsAreTrue
<1> QED BY <1>1, KernelInvariant, PTL

\* Memory and the statement evaluated last are of their types.
THEOREM KernelTyped == KernelSpec => []KernelTypeOK
<1>1. KInv => KernelTypeOK
  BY DEF KInv, KernelTypeOK, Memory, Content, EvaluatedFits
<1> QED BY <1>1, KernelInvariant, PTL

-----------------------------------------------------------------------------
(* The rules, against what runs.                                           *)

LEMMA ReceiverRules ==
  ASSUME NEW ctx, NEW table, NEW st
  PROVE  /\ "XR002" \in Fires(ctx, table, st) <=> "xarray" \in ctx.modules /\ XR002(table, st)
         /\ "PD005" \in Fires(ctx, table, st) <=> "pandas" \in ctx.modules /\ PD005(table, st)
         /\ "PD002" \in Fires(ctx, table, st) => PD002(table, st)
         /\ "PD003" \in Fires(ctx, table, st) => PD003(table, st)
         /\ "NP004" \in Fires(ctx, table, st) => NP004(table, st)
<1>1. "XR002" \in Fires(ctx, table, st) <=> "xarray" \in ctx.modules /\ XR002(table, st)
  BY DEF Fires
<1>2. "PD005" \in Fires(ctx, table, st) <=> "pandas" \in ctx.modules /\ PD005(table, st)
  BY DEF Fires
<1>3. "PD002" \in Fires(ctx, table, st) => PD002(table, st)
  BY DEF Fires
<1>4. "PD003" \in Fires(ctx, table, st) => PD003(table, st)
  BY DEF Fires
<1>5. "NP004" \in Fires(ctx, table, st) => NP004(table, st)
  BY DEF Fires
<1> QED BY <1>1, <1>2, <1>3, <1>4, <1>5

LEMMA CallRules ==
  ASSUME NEW ctx, NEW table, NEW st
  PROVE  LET told == Fires(ctx, table, st)
             Domain(modules) == ctx.modules \cap modules # {}
             io == {"netCDF4", "zarr", "numpy", "h5py", "xarray"}
         IN /\ "XR007" \in told <=> Domain({"xarray"}) /\ XR007(ctx, st)
            /\ "XR010" \in told <=> Domain({"xarray"}) /\ XR010(ctx, st)
            /\ "DK009" \in told <=> Domain({"dask", "dask_setup"}) /\ DK009(ctx, st)
            /\ "PD004" \in told <=> Domain({"pandas"}) /\ PD004(ctx, st)
            /\ "IO001" \in told <=> Domain(io) /\ IO001(ctx, st)
            /\ "IO003" \in told <=> Domain(io) /\ IO003(ctx, st)
            /\ "IO005" \in told <=> Domain(io) /\ IO005(ctx, st)
<1> DEFINE told == Fires(ctx, table, st)
           Domain(modules) == ctx.modules \cap modules # {}
           io == {"netCDF4", "zarr", "numpy", "h5py", "xarray"}
<1>1. "XR007" \in told <=> Domain({"xarray"}) /\ XR007(ctx, st)
  BY DEF Fires
<1>2. "XR010" \in told <=> Domain({"xarray"}) /\ XR010(ctx, st)
  BY DEF Fires
<1>3. "DK009" \in told <=> Domain({"dask", "dask_setup"}) /\ DK009(ctx, st)
  BY DEF Fires
<1>4. "PD004" \in told <=> Domain({"pandas"}) /\ PD004(ctx, st)
  BY DEF Fires
<1>5. "IO001" \in told <=> Domain(io) /\ IO001(ctx, st)
  BY DEF Fires
<1>6. "IO003" \in told <=> Domain(io) /\ IO003(ctx, st)
  BY DEF Fires
<1>7. "IO005" \in told <=> Domain(io) /\ IO005(ctx, st)
  BY DEF Fires
<1> HIDE DEF told, Domain, io
<1>8. /\ "XR007" \in told <=> Domain({"xarray"}) /\ XR007(ctx, st)
      /\ "XR010" \in told <=> Domain({"xarray"}) /\ XR010(ctx, st)
      /\ "DK009" \in told <=> Domain({"dask", "dask_setup"}) /\ DK009(ctx, st)
      /\ "PD004" \in told <=> Domain({"pandas"}) /\ PD004(ctx, st)
      /\ "IO001" \in told <=> Domain(io) /\ IO001(ctx, st)
      /\ "IO003" \in told <=> Domain(io) /\ IO003(ctx, st)
      /\ "IO005" \in told <=> Domain(io) /\ IO005(ctx, st)
  BY <1>1, <1>2, <1>3, <1>4, <1>5, <1>6, <1>7
<1> QED BY <1>8 DEF told, Domain, io

-----------------------------------------------------------------------------
\* c, st and held are of the statement that was evaluated last.
WasEvaluated(c, i, st, held) ==
  /\ evaluated # None /\ c = evaluated.cell /\ i = evaluated.at /\ held = evaluated.held
  /\ st = At(<<c, i>>)

LEMMA EvaluatedIsWell ==
  ASSUME AnalysisInv, KInv, WithinLimits, NEW c, NEW i, NEW st, NEW held,
         WasEvaluated(c, i, st, held)
  PROVE  /\ Sound /\ c \in Parsed /\ IsStatement(st) /\ IsValue(st.value)
         /\ IsInsideLoop(st) <=> Repeats(st)
         /\ st = cells[c].body[i]
         /\ st.value.form = "bare" => MayBeCalled(st.value.of)
         /\ st.value.of \in Reads(st.value) => Fits(c, st.scope, st.value.of, held)
<1>1. EvaluatedFits /\ st = cells[c].body[i]
  BY DEF KInv, WasEvaluated, At
<1>2. /\ Ready /\ c \in Parsed /\ i \in DOMAIN cells[c].body
      /\ st.value.form = "bare" => MayBeCalled(st.value.of)
      /\ st.value.of \in Reads(st.value) => Fits(c, st.scope, st.value.of, held)
  BY <1>1 DEF EvaluatedFits, WasEvaluated
<1>3. Sound
  BY <1>2, SoundWhenReady
<1>4. IsStatement(st)
  BY <1>1, <1>2, BodyIsWell DEF AnalysisInv, IInv, AreStatements
<1>5. IsInsideLoop(st) <=> Repeats(st)
  BY <1>4, LoopsRepeat DEF IsStatement
<1> QED BY <1>1, <1>2, <1>3, <1>4, <1>5 DEF IsStatement

\* A receiver the tracker has an origin for is that.
LEMMA ReceiverIsHeld ==
  ASSUME AnalysisInv, KInv, WithinLimits, NEW c, NEW i, NEW st, NEW held,
         WasEvaluated(c, i, st, held), st.value.of \in Name,
         Receiver(bindings[c], st) \in Origin
  PROVE  held = Receiver(bindings[c], st)
<1> DEFINE n == st.value.of
           o == Lookup(bindings[c], st.scope, n)
<1>1. /\ Sound /\ c \in Parsed /\ st.scope \in Scope
      /\ n \in Reads(st.value) => Fits(c, st.scope, n, held)
  BY EvaluatedIsWell DEF IsStatement
<1>2. o \in Origin /\ o = Receiver(bindings[c], st)
  BY DEF Receiver
<1>3. o # "unknown"
  BY <1>2 DEF Origin
<1>4. n \notin BuiltinPlain
  BY <1>1, <1>3, LookedUpIsBound
<1>5. n \in Reads(st.value)
  BY <1>4 DEF Reads
<1> QED BY <1>1, <1>2, <1>5 DEF Fits

LEMMA ReceiversJudged ==
  ASSUME AnalysisInv, KInv
  PROVE  ReceiversAreJudged
<1> SUFFICES ASSUME evaluated # None, WithinLimits,
                    NEW c, c = evaluated.cell, NEW i, i = evaluated.at,
                    NEW st, st = At(<<c, i>>), NEW held, held = evaluated.held
             PROVE  LET told == Findings(c, i)
                    IN /\ "xarray" \in imports[c].modules /\ st.value.attr = "values"
                            /\ st.value.form = "attribute" /\ ~st.value.called
                            /\ held = "Xarray" => "XR002" \in told
                       /\ "pandas" \in imports[c].modules /\ IsMethod(st, "to_csv")
                            /\ held = "Pandas"
                            /\ {"index", "**"} \cap st.value.keywords = {} => "PD005" \in told
                       /\ "PD002" \in told => held = "Pandas"
                       /\ "PD003" \in told => st.value.attr = "string" \/ held = "Pandas"
                       /\ "NP004" \in told => Repeats(st) \/ held \in Origin \ {"Plain"}
  BY DEF ReceiversAreJudged
<1> DEFINE v == st.value
           r == Receiver(bindings[c], st)
           told == Fires(imports[c], bindings[c], st)
<1>0. WasEvaluated(c, i, st, held)
  BY DEF WasEvaluated
<1>1. IsValue(v) /\ st = cells[c].body[i] /\ (IsInsideLoop(st) <=> Repeats(st))
  BY <1>0, EvaluatedIsWell
<1>2. v.form \in {"attribute", "subscript", "math"} => v.of \in Name
  BY <1>1 DEF IsValue
<1>3. v.of \in Name /\ r \in Origin => held = r
  BY <1>0, ReceiverIsHeld
<1>4. Findings(c, i) = told
  BY <1>1 DEF Findings
<1>5. ASSUME "xarray" \in imports[c].modules, v.attr = "values", v.form = "attribute", ~v.called,
             held = "Xarray"
      PROVE  "XR002" \in told
  <2>1. r \notin {"Pandas", "Numpy", "Plain"}
    BY <1>2, <1>3, <1>5 DEF Origin
  <2>2. XR002(bindings[c], st)
    BY <1>5, <2>1 DEF XR002
  <2> QED BY <1>5, <2>2, ReceiverRules
<1>6. ASSUME "pandas" \in imports[c].modules, IsMethod(st, "to_csv"), held = "Pandas",
             {"index", "**"} \cap v.keywords = {}
      PROVE  "PD005" \in told
  <2>1. r \notin {"Plain", "Xarray"}
    BY <1>2, <1>3, <1>6 DEF Origin, IsMethod
  <2>2. PD005(bindings[c], st)
    BY <1>6, <2>1 DEF PD005, KeywordArgPresentOrUnknown
  <2> QED BY <1>6, <2>2, ReceiverRules
<1>7. ASSUME "PD002" \in told PROVE held = "Pandas"
  <2>1. PD002(bindings[c], st)
    BY <1>7, ReceiverRules
  <2>2. r = "Pandas" /\ v.form = "attribute"
    BY <2>1 DEF PD002, IsMethod
  <2> QED BY <1>2, <1>3, <2>2 DEF Origin
<1>8. ASSUME "PD003" \in told PROVE v.attr = "string" \/ held = "Pandas"
  <2>1. PD003(bindings[c], st)
    BY <1>8, ReceiverRules
  <2>2. v.form = "subscript" /\ (v.attr = "string" \/ r = "Pandas")
    BY <2>1 DEF PD003
  <2> QED BY <1>2, <1>3, <2>2 DEF Origin
<1>9. ASSUME "NP004" \in told PROVE Repeats(st) \/ held \in Origin \ {"Plain"}
  <2>1. NP004(bindings[c], st)
    BY <1>9, ReceiverRules
  <2>2. v.form = "math" /\ (Repeats(st) \/ IsArrayLike(r))
    BY <1>1, <2>1 DEF NP004
  <2> QED BY <1>2, <1>3, <2>2 DEF IsArrayLike
<1> HIDE DEF told
<1> QED BY <1>4, <1>5, <1>6, <1>7, <1>8, <1>9

-----------------------------------------------------------------------------
\* What is called by an imported name is of the module that xray takes it for.
LEMMA CalledIsHeld ==
  ASSUME AnalysisInv, KInv, WithinLimits, NEW c, NEW i, NEW st, NEW held,
         WasEvaluated(c, i, st, held), st.value.called, st.value.of \in Imported \cup {None}
  PROVE  CallModule(imports[c], st.value) = held /\ held \in imports[c].modules
<1> DEFINE v == st.value
           n == v.of
<1>1. /\ Sound /\ c \in Parsed /\ IsValue(v)
      /\ v.form = "bare" => MayBeCalled(n)
      /\ n \in Reads(v) => Fits(c, st.scope, n, held)
  BY EvaluatedIsWell
<1>2. ControlOK /\ ContextsKnow /\ Ready /\ OneModulePerName /\ NothingShadowed
  BY <1>1 DEF Sound, WithinLimits
<1>3. n \in Name \cup BuiltinPlain
  BY <1>1 DEF IsValue
<1>4. n # None
  BY <1>3, ModulesAssumption, AnythingAssumption
<1>5. n \in Imported
  BY <1>4
<1>6. PICK imp \in AllImports : imp.binding = n
  BY <1>5 DEF Imported
<1>7. n \in Name /\ n \in Reads(v)
  BY <1>2, <1>3, <1>5 DEF NothingShadowed, Reads
<1>8. held = imp.module
  BY <1>1, <1>6, <1>7 DEF Fits
<1>9. CallModule(imports[c], v) = imp.module
  BY <1>1, <1>2, <1>6, CallModuleIs
<1>10. imp.module \in imports[c].modules
  <2>1. Knows(imports[c], AllImports, Asked(After))
    BY <1>1, <1>2, ImportsAreWell
  <2> QED BY <1>6, <2>1 DEF Knows
<1> QED BY <1>8, <1>9, <1>10

LEMMA CallsReach ==
  ASSUME AnalysisInv, KInv
  PROVE  CallsReachTheirLibrary
<1> SUFFICES ASSUME evaluated # None, WithinLimits,
                    NEW c, c = evaluated.cell, NEW i, i = evaluated.at,
                    NEW st, st = At(<<c, i>>), NEW held, held = evaluated.held,
                    st.value.of \in Imported \cup {None}
             PROVE  LET told == Findings(c, i)
                        Reaches(m, f) ==
                          st.value.called /\ CallTerminalName(st.value) = f /\ held = m
                        Lacks(k) == {k, "**"} \cap st.value.keywords = {}
                    IN /\ "XR007" \in told <=> (Repeats(st) /\ Reaches("xarray", "concat"))
                       /\ "XR010" \in told <=> (Repeats(st) /\ Reaches("xarray", "merge"))
                       /\ "DK009" \in told <=> (Repeats(st) /\ Reaches("dask", "concatenate"))
                       /\ "PD004" \in told <=> (Reaches("pandas", "read_csv") /\ Lacks("dtype"))
                       /\ "IO001" \in told <=>
                            (FlagMissingCompression /\ Reaches("numpy", "save"))
                       /\ "IO003" \in told <=>
                            /\ \E f \in {"open", "open_array", "open_group"} : Reaches("zarr", f)
                            /\ Lacks("chunks")
                       /\ "IO005" \in told <=> (Reaches("h5py", "File") /\ Lacks("swmr"))
  BY DEF CallsReachTheirLibrary
<1> DEFINE v == st.value
           ctx == imports[c]
           told == Fires(ctx, bindings[c], st)
           Reaches(m, f) == v.called /\ CallTerminalName(v) = f /\ held = m
           Lacks(k) == {k, "**"} \cap v.keywords = {}
<1>0. WasEvaluated(c, i, st, held)
  BY DEF WasEvaluated
<1>1. st = cells[c].body[i] /\ (IsInsideLoop(st) <=> Repeats(st))
  BY <1>0, EvaluatedIsWell
<1>2. v.called => CallModule(ctx, v) = held /\ held \in ctx.modules
  BY <1>0, CalledIsHeld
<1>3. Findings(c, i) = told
  BY <1>1 DEF Findings
<1>4. \A m, f : /\ IsCallOf(ctx, st, m, f) <=> Reaches(m, f)
                /\ Reaches(m, f) => m \in ctx.modules
  BY <1>2 DEF IsCallOf
<1>5. \A k : KeywordArgPresentOrUnknown(st, k) <=> ~Lacks(k)
  BY DEF KeywordArgPresentOrUnknown
<1> HIDE DEF told, Reaches, Lacks, ctx
<1>6. /\ "XR007" \in told <=> (Repeats(st) /\ Reaches("xarray", "concat"))
      /\ "XR010" \in told <=> (Repeats(st) /\ Reaches("xarray", "merge"))
  BY <1>1, <1>4, CallRules DEF told, XR007, XR010
<1>7. "DK009" \in told <=> (Repeats(st) /\ Reaches("dask", "concatenate"))
  BY <1>1, <1>4, CallRules DEF told, DK009
<1>8. "PD004" \in told <=> (Reaches("pandas", "read_csv") /\ Lacks("dtype"))
  BY <1>4, <1>5, CallRules DEF told, PD004
<1>9. "IO001" \in told <=> (FlagMissingCompression /\ Reaches("numpy", "save"))
  BY <1>4, CallRules DEF told, IO001
<1>10. "IO003" \in told <=>
         /\ \E f \in {"open", "open_array", "open_group"} : Reaches("zarr", f)
         /\ Lacks("chunks")
  BY <1>4, <1>5, CallRules DEF told, IO003
<1>11. "IO005" \in told <=> (Reaches("h5py", "File") /\ Lacks("swmr"))
  BY <1>4, <1>5, CallRules DEF told, IO005
<1> QED BY <1>3, <1>6, <1>7, <1>8, <1>9, <1>10, <1>11 DEF Reaches, Lacks

\* The rules about a receiver miss no object they are about where they only make
\* an exception for what is provably something else, and report nothing else
\* where they only report what is known.
THEOREM ReceiversAreAlwaysJudged == KernelSpec => []ReceiversAreJudged
<1>1. AnalysisInv /\ KInv => ReceiversAreJudged
  BY ReceiversJudged
<1> QED BY <1>1, KernelInvariant, PTL

\* The rules about functions of a library report exactly the calls that reach it,
\* from whichever cell it is imported and by whatever name.
THEOREM CallsAlwaysReachTheirLibrary == KernelSpec => []CallsReachTheirLibrary
<1>1. AnalysisInv /\ KInv => CallsReachTheirLibrary
  BY CallsReach
<1> QED BY <1>1, KernelInvariant, PTL
=============================================================================
