---------------------------- MODULE JobPagesLemmas ----------------------------
(***************************************************************************)
(* What the data operators of JobPages compute, for texts, lines and       *)
(* tables of any length.                                                   *)
(*                                                                         *)
(* The induction is over a set of naturals: a set that contains 0 and the  *)
(* successor of each of its members is Nat, which is an instance of the    *)
(* library's theorem that a well-founded relation has minimal elements.    *)
(* A fold is then a chain of values, one for each index of the sequence,   *)
(* and a fact about the fold is an invariant of the chain.                 *)
(***************************************************************************)
EXTENDS JobPages, SequenceTheorems, FiniteSetTheorems, TLAPS

------------------------------------------------------------------------------
(* Induction, maxima and folds. *)

\* Induction over the naturals, for a set in the place of a predicate.
LEMMA SetInduction ==
  ASSUME NEW T \in SUBSET Nat, 0 \in T, \A n \in T : n + 1 \in T
  PROVE  T = Nat
<1> DEFINE R == OpToRel(<, Nat)
           U == Nat \ T
<1>1. SUFFICES ASSUME U # {} PROVE FALSE
  OBVIOUS
<1>2. PICK x \in U : \A y \in U : ~(<<y, x>> \in R)
  <2>1. IsWellFoundedOn(R, Nat)
    BY NatLessThanWellFounded
  <2> HIDE DEF R
  <2> QED BY <1>1, <2>1, WFMin
<1>3. x # 0 /\ x - 1 \in Nat /\ x - 1 < x
  OBVIOUS
<1>4. <<x - 1, x>> \in R
  BY <1>3 DEF OpToRel
<1>5. x - 1 \in T
  BY <1>2, <1>3, <1>4
<1> QED BY <1>3, <1>5

\* The same up to a bound.
LEMMA BoundedSetInduction ==
  ASSUME NEW n \in Nat, NEW T, 0 \in T, \A i \in 0 .. n - 1 : i \in T => i + 1 \in T
  PROVE  \A i \in 0 .. n : i \in T
<1> DEFINE U == {i \in Nat : i <= n => i \in T}
<1>1. 0 \in U
  OBVIOUS
<1>2. ASSUME NEW i \in U PROVE i + 1 \in U
  OBVIOUS
<1>3. U = Nat
  <2> HIDE DEF U
  <2>1. U \in SUBSET Nat
    BY DEF U
  <2> QED BY <1>1, <1>2, <2>1, SetInduction
<1> QED BY <1>3

\* A set of naturals has a least element.
LEMMA LeastOfNaturals ==
  ASSUME NEW T \in SUBSET Nat, T # {}
  PROVE  Min(T) \in T /\ \A y \in T : Min(T) <= y
<1> DEFINE R == OpToRel(<, Nat)
<1>1. PICK x \in T : \A y \in T : ~(<<y, x>> \in R)
  <2>1. IsWellFoundedOn(R, Nat)
    BY NatLessThanWellFounded
  <2> HIDE DEF R
  <2> QED BY <2>1, WFMin
<1>2. ASSUME NEW y \in T PROVE x <= y
  <2>1. x \in Nat /\ y \in Nat
    OBVIOUS
  <2>2. CASE y < x
    <3>1. <<y, x>> \in R
      BY <2>1, <2>2 DEF OpToRel
    <3> QED BY <1>1, <3>1
  <2> HIDE DEF R
  <2> QED BY <2>1, <2>2
<1> HIDE DEF R
<1> QED BY <1>2 DEF Min

\* A set of naturals with a bound has a greatest element.
LEMMA GreatestUpTo ==
  ASSUME NEW n \in Nat, NEW T \in SUBSET (1 .. n), T # {}
  PROVE  Max(T) \in T /\ \A y \in T : y <= Max(T)
<1> DEFINE D == {n - t : t \in T}
<1>1. D \in SUBSET Nat /\ D # {}
  <2>1. \A t \in T : t \in Int /\ n - t \in Nat
    OBVIOUS
  <2> QED BY <2>1
<1>2. Min(D) \in D /\ \A y \in D : Min(D) <= y
  <2> HIDE DEF D
  <2> QED BY <1>1, LeastOfNaturals
<1>3. PICK x \in T : Min(D) = n - x
  BY <1>2
<1>4. ASSUME NEW y \in T PROVE x >= y
  <2>1. n - x <= n - y
    BY <1>2, <1>3
  <2>2. x \in Int /\ y \in Int /\ n \in Int
    OBVIOUS
  <2> QED BY <2>1, <2>2
<1> QED BY <1>4 DEF Max

\* A fold over 1 .. n of the step F has a value for every set of indices.
FoldOf(f, n, base, F) ==
  f = [T \in SUBSET (1 .. n) |->
         IF T = {} THEN base ELSE F[Max(T)][f[T \ {Max(T)}]]]

LEMMA FoldExists ==
  ASSUME NEW n \in Nat, NEW A, NEW base \in A, NEW F \in [1 .. n -> [A -> A]]
  PROVE  \E f \in [SUBSET (1 .. n) -> A] : FoldOf(f, n, base, F)
<1> DEFINE Good == {k \in 0 .. n : \E f \in [SUBSET (1 .. k) -> A] : FoldOf(f, k, base, F)}
<1>1. 0 \in Good
  <2> DEFINE f == [T \in SUBSET (1 .. 0) |-> base]
  <2>1. f \in [SUBSET (1 .. 0) -> A] /\ \A T \in SUBSET (1 .. 0) : T = {}
    OBVIOUS
  <2>2. FoldOf(f, 0, base, F)
    BY <2>1, Zenon DEF FoldOf
  <2> QED BY <2>1, <2>2
<1>2. ASSUME NEW k \in 0 .. n - 1, k \in Good PROVE k + 1 \in Good
  <2>1. PICK f \in [SUBSET (1 .. k) -> A] : FoldOf(f, k, base, F)
    BY <1>2
  <2> DEFINE g == [T \in SUBSET (1 .. k + 1) |->
                     IF k + 1 \in T THEN F[k + 1][f[T \ {k + 1}]] ELSE f[T]]
  <2>2. ASSUME NEW T \in SUBSET (1 .. k + 1)
        PROVE  /\ g[T] \in A
               /\ g[T] = IF T = {} THEN base ELSE F[Max(T)][g[T \ {Max(T)}]]
    <3>1. CASE k + 1 \in T
      <4>1. Max(T) = k + 1
        <5>1. k + 1 \in Nat /\ T # {}
          BY <3>1
        <5>2. Max(T) \in T /\ \A y \in T : y <= Max(T)
          BY <5>1, GreatestUpTo
        <5>3. Max(T) \in 1 .. k + 1 /\ k + 1 <= Max(T)
          BY <3>1, <5>2
        <5> HIDE DEF g
        <5> QED BY <5>3
      <4>2. T \ {k + 1} \in SUBSET (1 .. k)
        OBVIOUS
      <4>3. g[T \ {k + 1}] = f[T \ {k + 1}] /\ f[T \ {k + 1}] \in A
        BY <4>2
      <4>4. g[T] = F[k + 1][f[T \ {k + 1}]]
        BY <3>1
      <4>5. k + 1 \in 1 .. n /\ F[k + 1] \in [A -> A]
        OBVIOUS
      <4> HIDE DEF g
      <4> QED BY <3>1, <4>1, <4>3, <4>4, <4>5
    <3>2. CASE k + 1 \notin T
      <4>1. T \in SUBSET (1 .. k)
        BY <3>2
      <4>2. g[T] = f[T] /\ f[T] \in A
        BY <3>2, <4>1
      <4>3. f[T] = IF T = {} THEN base ELSE F[Max(T)][f[T \ {Max(T)}]]
        BY <2>1, <4>1, Zenon DEF FoldOf
      <4>4. g[T \ {Max(T)}] = f[T \ {Max(T)}]
        BY <3>2, <4>1
      <4> HIDE DEF g
      <4> QED BY <4>2, <4>3, <4>4
    <3> QED BY <3>1, <3>2
  <2>3. g \in [SUBSET (1 .. k + 1) -> A]
    BY <2>2
  <2>4. FoldOf(g, k + 1, base, F)
    <3>1. g = [T \in SUBSET (1 .. k + 1) |-> g[T]]
      OBVIOUS
    <3> HIDE DEF g
    <3> QED BY <2>2, <3>1, Zenon DEF FoldOf
  <2> HIDE DEF g
  <2>5. k + 1 \in 0 .. n
    OBVIOUS
  <2> QED BY <2>3, <2>4, <2>5
<1>3. n \in Good
  <2>1. \A k \in 0 .. n - 1 : k \in Good => k + 1 \in Good
    BY <1>2
  <2>2. n \in 0 .. n
    OBVIOUS
  <2> HIDE DEF Good
  <2> QED BY <1>1, <2>1, <2>2, BoundedSetInduction
<1> QED BY <1>3

\* A fold takes the indices from the first to the last.
LEMMA LastIndex ==
  ASSUME NEW n \in Nat, NEW i \in 1 .. n
  PROVE  /\ 1 .. i \in SUBSET (1 .. n) /\ 1 .. i # {}
         /\ Max(1 .. i) = i
         /\ (1 .. i) \ {i} = 1 .. i - 1
<1>1. 1 .. i # {} /\ i \in Nat /\ i \in 1 .. i
  OBVIOUS
<1>2. Max(1 .. i) \in 1 .. i /\ \A y \in 1 .. i : y <= Max(1 .. i)
  BY <1>1, GreatestUpTo
<1>3. i <= Max(1 .. i)
  BY <1>1, <1>2
<1>4. Max(1 .. i) = i
  BY <1>2, <1>3
<1> QED BY <1>1, <1>4

\* The values of a fold after each index, one from the other.
FoldChain(f, n, A, base, F) ==
  /\ f \in [0 .. n -> A]
  /\ f[0] = base
  /\ \A i \in 1 .. n : f[i] = F[i][f[i - 1]]

\* The value for a set of indices is one step from that for all but the last, as long
\* as the values stay in the domain of the steps.
FoldValues(h, n, A, base, F) ==
  /\ h[{}] = base
  /\ \A T \in SUBSET (1 .. n) :
       T # {} /\ h[T \ {Max(T)}] \in A => h[T] = F[Max(T)][h[T \ {Max(T)}]]

LEMMA FoldIsChain ==
  ASSUME NEW n \in Nat, NEW A, NEW base \in A, NEW F \in [1 .. n -> [A -> A]],
         NEW h, FoldValues(h, n, A, base, F)
  PROVE  \E f : FoldChain(f, n, A, base, F) /\ f[n] = h[1 .. n]
<1> DEFINE f == [i \in 0 .. n |-> h[1 .. i]]
<1>1. f[0] = base
  <2>1. 1 .. 0 = {} /\ 0 \in 0 .. n
    OBVIOUS
  <2> QED BY <2>1 DEF FoldValues
<1>2. ASSUME NEW i \in 1 .. n, f[i - 1] \in A
      PROVE  f[i] = F[i][f[i - 1]] /\ f[i] \in A
  <2>1. /\ 1 .. i \in SUBSET (1 .. n) /\ 1 .. i # {}
        /\ Max(1 .. i) = i /\ (1 .. i) \ {i} = 1 .. i - 1
    BY LastIndex
  <2>2. f[i] = h[1 .. i] /\ f[i - 1] = h[1 .. i - 1]
    OBVIOUS
  <2> HIDE DEF f
  <2>3. h[1 .. i] = F[i][h[1 .. i - 1]]
    BY <1>2, <2>1, <2>2 DEF FoldValues
  <2> QED BY <1>2, <2>2, <2>3
<1>3. \A i \in 0 .. n : f[i] \in A
  <2> DEFINE Good == {i \in 0 .. n : f[i] \in A}
  <2>1. 0 \in Good
    BY <1>1
  <2>2. ASSUME NEW i \in 0 .. n - 1, i \in Good PROVE i + 1 \in Good
    <3>1. i + 1 \in 1 .. n /\ i + 1 \in 0 .. n /\ (i + 1) - 1 = i
      OBVIOUS
    <3> HIDE DEF f
    <3> QED BY <1>2, <2>2, <3>1
  <2>3. \A i \in 0 .. n - 1 : i \in Good => i + 1 \in Good
    BY <2>2
  <2> HIDE DEF Good
  <2>4. \A i \in 0 .. n : i \in Good
    BY <2>1, <2>3, BoundedSetInduction
  <2> QED BY <2>4 DEF Good
<1>4. f \in [0 .. n -> A] /\ f[n] = h[1 .. n]
  <2>1. f = [i \in 0 .. n |-> f[i]] /\ n \in 0 .. n
    OBVIOUS
  <2> QED BY <1>3, <2>1
<1>5. ASSUME NEW i \in 1 .. n PROVE f[i] = F[i][f[i - 1]]
  <2>1. i - 1 \in 0 .. n
    OBVIOUS
  <2> HIDE DEF f
  <2> QED BY <1>2, <1>3, <2>1
<1> HIDE DEF f
<1> QED BY <1>1, <1>4, <1>5 DEF FoldChain

------------------------------------------------------------------------------
(* The lines of a text. *)

Chars == {"nl", "x"}

SplitStates == [out : Seq(Texts), cur : Texts]

NoLines == [out |-> <<>>, cur |-> <<>>]

LEMMA SplitStepType ==
  ASSUME NEW a \in SplitStates, NEW c \in Chars
  PROVE  SplitStep(a, c) \in SplitStates
<1>1. a.out \in Seq(Texts) /\ a.cur \in Seq(Chars) /\ Texts = Seq(Chars)
  BY DEF SplitStates, Texts, Chars
<1>2. Append(a.out, a.cur) \in Seq(Texts) /\ Append(a.cur, c) \in Texts /\ <<>> \in Texts
  BY <1>1, AppendProperties, EmptySeq
<1>3. CASE c = "nl"
  BY <1>2, <1>3 DEF SplitStates, SplitStep
<1>4. CASE c # "nl"
  <2>1. SplitStep(a, c) = [out |-> a.out, cur |-> Append(a.cur, c)]
    BY <1>4 DEF SplitStates, SplitStep
  <2> QED BY <1>1, <1>2, <2>1 DEF SplitStates
<1> QED BY <1>3, <1>4

\* The states of splitLines, one after each byte.
SplitChain(s, f) ==
  /\ f \in [0 .. Len(s) -> SplitStates]
  /\ f[0] = NoLines
  /\ \A i \in 1 .. Len(s) : f[i] = SplitStep(f[i - 1], s[i])

\* Scan goes through such states.
LEMMA ScanChain ==
  ASSUME NEW s \in Texts
  PROVE  \E f : SplitChain(s, f) /\ Scan(s) = f[Len(s)]
<1> DEFINE n == Len(s)
           F == [i \in 1 .. n |-> [a \in SplitStates |-> SplitStep(a, s[i])]]
           Eqn(h) == h = [T \in SUBSET DOMAIN s |->
                            IF T = {} THEN NoLines
                            ELSE SplitStep(h[T \ {Max(T)}], s[Max(T)])]
           h == CHOOSE h : Eqn(h)
<1>1. n \in Nat /\ DOMAIN s = 1 .. n /\ \A i \in 1 .. n : s[i] \in Chars
  BY DEF Texts, Chars
<1>2. NoLines \in SplitStates
  BY DEF NoLines, SplitStates, Texts
<1>3. F \in [1 .. n -> [SplitStates -> SplitStates]]
  BY <1>1, SplitStepType
<1>4. \E g : Eqn(g)
  <2>1. PICK g \in [SUBSET (1 .. n) -> SplitStates] : FoldOf(g, n, NoLines, F)
    <3> HIDE DEF F, n
    <3> QED BY <1>1, <1>2, <1>3, FoldExists
  <2>2. ASSUME NEW T \in SUBSET (1 .. n), T # {}
        PROVE  F[Max(T)][g[T \ {Max(T)}]] = SplitStep(g[T \ {Max(T)}], s[Max(T)])
    <3>1. Max(T) \in 1 .. n
      <4> HIDE DEF n
      <4> QED BY <1>1, <2>2, GreatestUpTo
    <3>2. g[T \ {Max(T)}] \in SplitStates
      BY <2>1
    <3> QED BY <3>1, <3>2
  <2>3. g = [T \in SUBSET (1 .. n) |-> g[T]]
    BY <2>1
  <2>4. ASSUME NEW T \in SUBSET (1 .. n)
        PROVE  g[T] = IF T = {} THEN NoLines ELSE SplitStep(g[T \ {Max(T)}], s[Max(T)])
    <3>1. g[T] = IF T = {} THEN NoLines ELSE F[Max(T)][g[T \ {Max(T)}]]
      <4> HIDE DEF F
      <4> QED BY <2>1, Zenon DEF FoldOf
    <3> HIDE DEF F
    <3> QED BY <2>2, <3>1
  <2> HIDE DEF F, n
  <2> QED BY <1>1, <2>3, <2>4, Zenon
<1>5. Eqn(h)
  BY <1>4
<1>6. Scan(s) = h[1 .. n]
  BY <1>1, Zenon DEF Scan, FoldLeft, MapThenFoldSet, NoLines
<1>7. ASSUME NEW T \in SUBSET (1 .. n), T # {}, h[T \ {Max(T)}] \in SplitStates
      PROVE  h[T] = F[Max(T)][h[T \ {Max(T)}]]
  <2>1. Max(T) \in 1 .. n
    <3> HIDE DEF n, h
    <3> QED BY <1>1, <1>7, GreatestUpTo
  <2>2. h[T] = SplitStep(h[T \ {Max(T)}], s[Max(T)])
    BY <1>1, <1>5, <1>7
  <2> HIDE DEF h
  <2> QED BY <1>7, <2>1, <2>2
<1>8. h[{}] = NoLines
  BY <1>5
<1>9. PICK f : FoldChain(f, n, SplitStates, NoLines, F) /\ f[n] = h[1 .. n]
  <2> HIDE DEF h, F, n
  <2>1. FoldValues(h, n, SplitStates, NoLines, F)
    BY <1>7, <1>8 DEF FoldValues
  <2> QED BY <1>1, <1>2, <1>3, <2>1, FoldIsChain
<1>10. ASSUME NEW i \in 1 .. n
       PROVE  f[i] = SplitStep(f[i - 1], s[i])
  <2>1. f[i - 1] \in SplitStates
    BY <1>1, <1>9 DEF FoldChain
  <2> QED BY <1>9, <2>1 DEF FoldChain
<1> HIDE DEF F, h
<1> QED BY <1>6, <1>9, <1>10 DEF SplitChain, FoldChain

\* A line of a text, from one place to another: there is no newline in it.
LineAt(s, line, from, to) ==
  line = SubSeq(s, from, to) /\ \A j \in from .. to : s[j] # "nl"

\* After i bytes the lines begin where pos says, each but the last has its newline,
\* and the last is what was read since.
LinesUpTo(s, i, a, pos) ==
  /\ pos \in [1 .. Len(a.out) + 1 -> 1 .. i + 1]
  /\ pos[1] = 1
  /\ \A k \in 1 .. Len(a.out) :
       /\ LineAt(s, a.out[k], pos[k], pos[k + 1] - 2)
       /\ pos[k] < pos[k + 1] /\ s[pos[k + 1] - 1] = "nl"
  /\ LineAt(s, a.cur, pos[Len(a.out) + 1], i)

\* One byte keeps it so.
LEMMA SplitStepLines ==
  ASSUME NEW s \in Texts, NEW i \in 1 .. Len(s), NEW a \in SplitStates,
         NEW pos, LinesUpTo(s, i - 1, a, pos)
  PROVE  \E p : LinesUpTo(s, i, SplitStep(a, s[i]), p)
<1> DEFINE m == Len(a.out)
           b == SplitStep(a, s[i])
<1>1. /\ m \in Nat /\ a.out \in Seq(Texts) /\ a.cur \in Texts
      /\ s \in Seq(Chars) /\ s[i] \in Chars /\ i \in Nat /\ Len(s) \in Nat
  BY DEF SplitStates, Texts, Chars
<1>2. /\ pos \in [1 .. m + 1 -> 1 .. i] /\ pos[1] = 1
      /\ LineAt(s, a.cur, pos[m + 1], i - 1)
      /\ \A k \in 1 .. m : /\ LineAt(s, a.out[k], pos[k], pos[k + 1] - 2)
                           /\ pos[k] < pos[k + 1] /\ s[pos[k + 1] - 1] = "nl"
  <2>1. (i - 1) + 1 = i
    BY <1>1
  <2> QED BY <2>1 DEF LinesUpTo
<1>3. CASE s[i] = "nl"
  <2> DEFINE p == [k \in 1 .. m + 2 |-> IF k <= m + 1 THEN pos[k] ELSE i + 1]
  <2>1. b = [out |-> Append(a.out, a.cur), cur |-> <<>>]
    BY <1>3 DEF SplitStep
  <2>2. /\ Len(b.out) = m + 1 /\ b.cur = <<>>
        /\ \A k \in 1 .. m : b.out[k] = a.out[k]
        /\ b.out[m + 1] = a.cur
    BY <1>1, <2>1, AppendProperties
  <2>3. p \in [1 .. m + 2 -> 1 .. i + 1] /\ p[1] = 1 /\ p[m + 2] = i + 1
    BY <1>1, <1>2
  <2>4. ASSUME NEW k \in 1 .. m + 1
        PROVE  /\ LineAt(s, b.out[k], p[k], p[k + 1] - 2)
               /\ p[k] < p[k + 1] /\ s[p[k + 1] - 1] = "nl"
    <3>1. CASE k \in 1 .. m
      <4>1. p[k] = pos[k] /\ p[k + 1] = pos[k + 1]
        BY <1>1, <3>1
      <4> HIDE DEF p, b
      <4> QED BY <1>2, <2>2, <3>1, <4>1
    <3>2. CASE k = m + 1
      <4>1. p[k] = pos[m + 1] /\ p[k + 1] = i + 1 /\ pos[m + 1] \in 1 .. i
        BY <1>1, <1>2, <3>2
      <4>2. (i + 1) - 2 = i - 1 /\ (i + 1) - 1 = i
        BY <1>1
      <4> HIDE DEF p, b
      <4> QED BY <1>1, <1>2, <1>3, <2>2, <3>2, <4>1, <4>2
    <3> QED BY <1>1, <3>1, <3>2
  <2>5. LineAt(s, b.cur, i + 1, i)
    BY <1>1, <2>2, SubSeqEmpty DEF LineAt
  <2> HIDE DEF p, b
  <2>6. LinesUpTo(s, i, b, p)
    <3>1. (m + 1) + 1 = m + 2
      BY <1>1
    <3> QED BY <2>2, <2>3, <2>4, <2>5, <3>1 DEF LinesUpTo
  <2> QED BY <2>6 DEF b
<1>4. CASE s[i] # "nl"
  <2>1. b.out = a.out /\ b.cur = Append(a.cur, s[i])
    BY <1>4 DEF SplitStep, SplitStates
  <2>2. pos[m + 1] \in 1 .. i
    BY <1>1, <1>2
  <2>3. LineAt(s, b.cur, pos[m + 1], i)
    <3>1. a.cur = SubSeq(s, pos[m + 1], i - 1)
      BY <1>2 DEF LineAt
    <3>2. Append(a.cur, s[i]) = a.cur \o <<s[i]>>
      BY <1>1, AppendIsConcat DEF Texts, Chars
    <3>3. pos[m + 1] \in 1 .. Len(s) /\ i \in pos[m + 1] .. Len(s)
      BY <1>1, <2>2
    <3>4. SubSeq(s, pos[m + 1], i) = SubSeq(s, pos[m + 1], i - 1) \o <<s[i]>>
      BY <1>1, <3>3, SubSeqRecursiveSecond
    <3>5. \A j \in pos[m + 1] .. i : s[j] # "nl"
      <4>1. \A j \in pos[m + 1] .. i : j \in pos[m + 1] .. i - 1 \/ j = i
        BY <2>2, <1>1
      <4> QED BY <1>2, <1>4, <4>1 DEF LineAt
    <3> QED BY <2>1, <3>1, <3>2, <3>4, <3>5 DEF LineAt
  <2>4. pos \in [1 .. m + 1 -> 1 .. i + 1]
    <3>1. \A k \in 1 .. i : k \in 1 .. i + 1
      BY <1>1
    <3> QED BY <1>2, <3>1
  <2> HIDE DEF b
  <2>5. LinesUpTo(s, i, b, pos)
    BY <1>2, <2>1, <2>3, <2>4 DEF LinesUpTo
  <2> QED BY <2>5 DEF b
<1> QED BY <1>3, <1>4

\* Where the last line of a text ends: before the newline at the end, if there is one.
EndOf(s) == IF s # <<>> /\ Last(s) = "nl" THEN Len(s) - 1 ELSE Len(s)

\* The lines of a text and where they begin, one after the other to the end.
LinesOf(s, ls, pos) ==
  /\ pos \in [1 .. Len(ls) + 1 -> 1 .. Len(s) + 2]
  /\ pos[1] = 1
  /\ \A k \in 1 .. Len(ls) :
       LineAt(s, ls[k], pos[k], pos[k + 1] - 2) /\ pos[k] < pos[k + 1]
  /\ \A k \in 2 .. Len(ls) : s[pos[k] - 1] = "nl"
  /\ ls = <<>> <=> s = <<>>
  /\ ls # <<>> => pos[Len(ls) + 1] - 2 = EndOf(s)

\* splitLines returns the lines of any text.
LEMMA SplitLinesOf ==
  ASSUME NEW s \in Texts
  PROVE  SplitLines(s) \in Seq(Texts) /\ \E pos : LinesOf(s, SplitLines(s), pos)
<1> DEFINE n == Len(s)
<1>1. n \in Nat /\ s \in Seq(Chars) /\ n \in 0 .. n /\ \A i \in 1 .. n : s[i] \in Chars
  BY DEF Texts, Chars
<1>2. PICK f : SplitChain(s, f) /\ Scan(s) = f[n]
  BY ScanChain
<1>3. \E p : LinesUpTo(s, n, Scan(s), p)
  <2> DEFINE Good == {i \in 0 .. n : \E p : LinesUpTo(s, i, f[i], p)}
  <2>1. 0 \in Good
    <3> DEFINE p == [k \in 1 .. 1 |-> 1]
    <3>1. f[0].out = <<>> /\ f[0].cur = <<>> /\ Len(<<>>) = 0 /\ 0 + 1 = 1
      BY <1>2 DEF SplitChain, NoLines
    <3>2. p \in [1 .. 1 -> 1 .. 1] /\ p[1] = 1
      OBVIOUS
    <3>3. LineAt(s, <<>>, 1, 0)
      BY SubSeqEmpty DEF LineAt
    <3> HIDE DEF p
    <3>4. LinesUpTo(s, 0, f[0], p)
      BY <3>1, <3>2, <3>3 DEF LinesUpTo
    <3> QED BY <1>1, <3>4
  <2>2. ASSUME NEW i \in 0 .. n - 1, i \in Good PROVE i + 1 \in Good
    <3>1. i + 1 \in 1 .. n /\ i + 1 \in 0 .. n /\ (i + 1) - 1 = i /\ i \in 0 .. n
      BY <1>1
    <3>2. f[i + 1] = SplitStep(f[i], s[i + 1]) /\ f[i] \in SplitStates
      BY <1>2, <3>1 DEF SplitChain
    <3>3. PICK p : LinesUpTo(s, i, f[i], p)
      BY <2>2
    <3>4. \E q : LinesUpTo(s, i + 1, SplitStep(f[i], s[i + 1]), q)
      BY <3>1, <3>2, <3>3, SplitStepLines
    <3> QED BY <3>1, <3>2, <3>4
  <2>3. \A i \in 0 .. n - 1 : i \in Good => i + 1 \in Good
    BY <2>2
  <2>4. \A i \in 0 .. n : i \in Good
    <3> HIDE DEF n, Good
    <3> QED BY <1>1, <2>1, <2>3, BoundedSetInduction
  <2> QED BY <1>1, <1>2, <2>4
<1> DEFINE out == Scan(s).out
           cur == Scan(s).cur
           m == Len(out)
<1>4. Scan(s) \in SplitStates
  BY <1>1, <1>2 DEF SplitChain
<1>5. out \in Seq(Texts) /\ cur \in Texts /\ cur \in Seq(Chars) /\ m \in Nat
  BY <1>4 DEF SplitStates, Texts, Chars
<1>6. PICK p : LinesUpTo(s, n, Scan(s), p)
  BY <1>3
<1>7. /\ p \in [1 .. m + 1 -> 1 .. n + 1] /\ p[1] = 1
      /\ \A k \in 1 .. m : /\ LineAt(s, out[k], p[k], p[k + 1] - 2)
                           /\ p[k] < p[k + 1] /\ s[p[k + 1] - 1] = "nl"
      /\ LineAt(s, cur, p[m + 1], n)
  BY <1>6 DEF LinesUpTo
<1>8. p[m + 1] \in 1 .. n + 1
  <2>1. m + 1 \in 1 .. m + 1
    BY <1>5
  <2> HIDE DEF m, n
  <2> QED BY <1>7, <2>1
<1>9. \A k \in 2 .. m + 1 : s[p[k] - 1] = "nl"
  <2>1. ASSUME NEW k \in 2 .. m + 1 PROVE s[p[k] - 1] = "nl"
    <3>1. k - 1 \in 1 .. m /\ (k - 1) + 1 = k
      BY <1>5
    <3> QED BY <1>7, <3>1
  <2> QED BY <2>1
<1>10. Len(cur) = IF p[m + 1] <= n THEN n - p[m + 1] + 1 ELSE 0
  <2>1. cur = SubSeq(s, p[m + 1], n)
    BY <1>7 DEF LineAt
  <2>2. \A i \in p[m + 1] .. n : s[i] \in Chars
    BY <1>1, <1>8
  <2>3. p[m + 1] \in Int /\ n \in Int
    BY <1>1, <1>8
  <2> HIDE DEF n, cur, m
  <2> QED BY <2>1, <2>2, <2>3, SubSeqProperties
<1>11. CASE cur = <<>>
  <2>1. SplitLines(s) = out
    BY <1>11 DEF SplitLines
  <2>2. p[m + 1] = n + 1
    BY <1>1, <1>8, <1>10, <1>11
  <2>3. p \in [1 .. m + 1 -> 1 .. n + 2]
    <3>1. \A k \in 1 .. n + 1 : k \in 1 .. n + 2
      BY <1>1
    <3> QED BY <1>7, <3>1
  <2>4. out = <<>> <=> m = 0
    BY <1>5, EmptySeq
  <2>5. s = <<>> <=> n = 0
    BY <1>1, EmptySeq
  <2>6. ASSUME m = 0 PROVE n = 0
    BY <1>1, <1>7, <2>2, <2>6
  <2>7. ASSUME m # 0 PROVE n # 0 /\ p[m + 1] - 2 = EndOf(s)
    <3>1. m + 1 \in 2 .. m + 1 /\ m \in 1 .. m
      BY <1>5, <2>7
    <3>2. s[(n + 1) - 1] = "nl"
      BY <1>9, <2>2, <3>1
    <3>3. p[m] < p[m + 1] /\ p[m] \in 1 .. n + 1
      BY <1>7, <3>1
    <3>4. n # 0 /\ s[n] = "nl"
      BY <1>1, <2>2, <3>2, <3>3
    <3> QED BY <1>1, <2>2, <2>5, <3>4 DEF EndOf, Last
  <2>8. LinesOf(s, out, p)
    <3>1. \A k \in 2 .. m : k \in 2 .. m + 1
      BY <1>5
    <3> QED BY <1>7, <1>9, <2>3, <2>4, <2>5, <2>6, <2>7, <3>1 DEF LinesOf
  <2> QED BY <1>5, <2>1, <2>8
<1>12. CASE cur # <<>>
  <2> DEFINE ls == Append(out, cur)
             q == [k \in 1 .. m + 2 |-> IF k <= m + 1 THEN p[k] ELSE n + 2]
  <2>1. SplitLines(s) = ls
    BY <1>12 DEF SplitLines
  <2>2. /\ ls \in Seq(Texts) /\ ls # <<>> /\ Len(ls) = m + 1
        /\ \A k \in 1 .. m : ls[k] = out[k]
        /\ ls[m + 1] = cur
    BY <1>5, AppendProperties
  <2>3. p[m + 1] <= n
    BY <1>5, <1>10, <1>12, EmptySeq
  <2>4. s # <<>> /\ EndOf(s) = n
    <3>1. n \in p[m + 1] .. n /\ n # 0
      BY <1>1, <1>8, <2>3
    <3>2. s[n] # "nl"
      BY <1>7, <3>1 DEF LineAt
    <3> QED BY <3>1, <3>2, EmptySeq DEF EndOf, Last
  <2>5. q \in [1 .. m + 2 -> 1 .. n + 2] /\ q[1] = 1 /\ q[m + 2] = n + 2
    BY <1>1, <1>5, <1>7
  <2>6. ASSUME NEW k \in 1 .. m + 1
        PROVE  LineAt(s, ls[k], q[k], q[k + 1] - 2) /\ q[k] < q[k + 1]
    <3>1. CASE k \in 1 .. m
      <4>1. q[k] = p[k] /\ q[k + 1] = p[k + 1]
        BY <1>5, <3>1
      <4> HIDE DEF q, ls
      <4> QED BY <1>7, <2>2, <3>1, <4>1
    <3>2. CASE k = m + 1
      <4>1. q[k] = p[m + 1] /\ q[k + 1] = n + 2 /\ (n + 2) - 2 = n /\ p[m + 1] < n + 2
        BY <1>1, <1>5, <1>8, <3>2
      <4> HIDE DEF q, ls, n, cur
      <4> QED BY <1>7, <2>2, <3>2, <4>1
    <3> QED BY <1>5, <3>1, <3>2
  <2>7. ASSUME NEW k \in 2 .. m + 1 PROVE s[q[k] - 1] = "nl"
    <3>1. q[k] = p[k]
      BY <1>5
    <3> HIDE DEF q
    <3> QED BY <1>9, <3>1
  <2>8. (m + 1) + 1 = m + 2 /\ (n + 2) - 2 = n
    BY <1>1, <1>5
  <2> HIDE DEF q, ls
  <2>9. LinesOf(s, ls, q)
    BY <2>2, <2>4, <2>5, <2>6, <2>7, <2>8 DEF LinesOf
  <2> QED BY <2>1, <2>2, <2>9
<1> QED BY <1>11, <1>12

------------------------------------------------------------------------------
(* Lines put together again. *)

LEMMA JoinStepType ==
  ASSUME NEW t \in Texts, NEW l \in Texts
  PROVE  /\ JoinStep(t, l) \in Texts
         /\ Len(JoinStep(t, l)) = Len(t) + 1 + Len(l)
         /\ \A i \in 1 .. Len(t) + 1 + Len(l) :
              JoinStep(t, l)[i] = IF i <= Len(t) THEN t[i]
                                  ELSE IF i = Len(t) + 1 THEN "nl"
                                  ELSE l[i - (Len(t) + 1)]
<1>1. t \in Seq(Chars) /\ l \in Seq(Chars) /\ <<"nl">> \in Seq(Chars) /\ Len(<<"nl">>) = 1
      /\ <<"nl">>[1] = "nl" /\ Len(t) \in Nat /\ Len(l) \in Nat
  BY DEF Texts, Chars
<1> DEFINE u == t \o <<"nl">>
<1>2. /\ u \in Seq(Chars) /\ Len(u) = Len(t) + 1
      /\ \A i \in 1 .. Len(t) + 1 : u[i] = IF i <= Len(t) THEN t[i] ELSE "nl"
  BY <1>1, ConcatProperties
<1>3. /\ u \o l \in Seq(Chars) /\ Len(u \o l) = Len(u) + Len(l)
      /\ \A i \in 1 .. Len(u) + Len(l) :
           (u \o l)[i] = IF i <= Len(u) THEN u[i] ELSE l[i - Len(u)]
  <2> HIDE DEF u
  <2> QED BY <1>1, <1>2, ConcatProperties
<1>4. JoinStep(t, l) = u \o l
  BY DEF JoinStep
<1> HIDE DEF u
<1> QED BY <1>1, <1>2, <1>3, <1>4 DEF Texts, Chars

\* A line without newlines adds one newline, its own.
LEMMA JoinStepNewlines ==
  ASSUME NEW t \in Texts, NEW l \in Texts, Newlines(l) = {}, IsFiniteSet(Newlines(t))
  PROVE  /\ IsFiniteSet(Newlines(JoinStep(t, l)))
         /\ Cardinality(Newlines(JoinStep(t, l))) = Cardinality(Newlines(t)) + 1
<1>1. Len(t) \in Nat /\ Len(l) \in Nat
  BY DEF Texts
<1>2. \A i \in 1 .. Len(l) : l[i] # "nl"
  BY DEF Newlines
<1>3. Newlines(JoinStep(t, l)) = Newlines(t) \cup {Len(t) + 1}
  <2>1. ASSUME NEW i \in 1 .. Len(t) + 1 + Len(l)
        PROVE  JoinStep(t, l)[i] = "nl" <=> i \in Newlines(t) \cup {Len(t) + 1}
    <3> DEFINE c == JoinStep(t, l)[i]
    <3>. c = IF i <= Len(t) THEN t[i]
             ELSE IF i = Len(t) + 1 THEN "nl" ELSE l[i - (Len(t) + 1)]
      BY JoinStepType
    <3> HIDE DEF c
    <3>1. CASE i <= Len(t)
      <4>1. c = t[i] /\ i # Len(t) + 1 /\ i \in 1 .. Len(t)
        BY <1>1, <3>1
      <4> QED BY <4>1 DEF Newlines, c
    <3>2. CASE i = Len(t) + 1
      <4>1. c = "nl"
        BY <1>1, <3>2
      <4> QED BY <3>2, <4>1 DEF c
    <3>3. CASE i > Len(t) + 1
      <4>1. i - (Len(t) + 1) \in 1 .. Len(l)
        BY <1>1, <3>3
      <4>2. JoinStep(t, l)[i] = l[i - (Len(t) + 1)]
        BY <1>1, <3>3, JoinStepType
      <4>3. i \notin Newlines(t) /\ i # Len(t) + 1
        BY <1>1, <3>3 DEF Newlines
      <4> QED BY <1>2, <4>1, <4>2, <4>3
    <3> QED BY <1>1, <3>1, <3>2, <3>3
  <2>2. \A i \in Newlines(t) \cup {Len(t) + 1} : i \in 1 .. Len(t) + 1 + Len(l)
    BY <1>1 DEF Newlines
  <2> QED BY <2>1, <2>2, JoinStepType DEF Newlines
<1>4. Len(t) + 1 \notin Newlines(t)
  BY <1>1 DEF Newlines
<1> QED BY <1>3, <1>4, FS_AddElement

\* A newline between two parts of a text.
LEMMA JoinAdjacent ==
  ASSUME NEW s \in Texts, NEW k \in 1 .. Len(s), s[k] = "nl",
         NEW m \in 1 .. k, NEW e \in k .. Len(s)
  PROVE  JoinStep(SubSeq(s, m, k - 1), SubSeq(s, k + 1, e)) = SubSeq(s, m, e)
<1>1. s \in Seq(Chars) /\ Len(s) \in Nat
  BY DEF Texts, Chars
<1>2. SubSeq(s, m, k) = SubSeq(s, m, k - 1) \o <<"nl">>
  <2>1. m \in 1 .. Len(s) /\ k \in m .. Len(s)
    BY <1>1
  <2> QED BY <1>1, <2>1, SubSeqRecursiveSecond
<1>3. SubSeq(s, m, k) \o SubSeq(s, k + 1, e) = SubSeq(s, m, e)
  <2>1. m \in 1 .. Len(s) + 1 /\ k \in m - 1 .. Len(s) /\ e \in k .. Len(s)
    BY <1>1
  <2> QED BY <1>1, <2>1, ConcatAdjacentSubSeq
<1> QED BY <1>2, <1>3 DEF JoinStep

\* The texts of joinLines that begins with b, one after each further line.
JoinChain(b, s, f) ==
  /\ f \in [0 .. Len(s) -> Texts]
  /\ f[0] = b
  /\ \A i \in 1 .. Len(s) : f[i] = JoinStep(f[i - 1], s[i])

\* joinLines goes through such texts.
LEMMA FoldJoinChain ==
  ASSUME NEW b \in Texts, NEW s \in Seq(Texts)
  PROVE  \E f : JoinChain(b, s, f) /\ FoldLeft(JoinStep, b, s) = f[Len(s)]
<1> DEFINE n == Len(s)
           F == [i \in 1 .. n |-> [a \in Texts |-> JoinStep(a, s[i])]]
           Eqn(h) == h = [T \in SUBSET DOMAIN s |->
                            IF T = {} THEN b
                            ELSE JoinStep(h[T \ {Max(T)}], s[Max(T)])]
           h == CHOOSE h : Eqn(h)
<1>1. n \in Nat /\ DOMAIN s = 1 .. n /\ \A i \in 1 .. n : s[i] \in Texts
  OBVIOUS
<1>2. b \in Texts
  OBVIOUS
<1>3. F \in [1 .. n -> [Texts -> Texts]]
  BY <1>1, JoinStepType
<1>4. \E g : Eqn(g)
  <2>1. PICK g \in [SUBSET (1 .. n) -> Texts] : FoldOf(g, n, b, F)
    <3> HIDE DEF F, n
    <3> QED BY <1>1, <1>2, <1>3, FoldExists
  <2>2. ASSUME NEW T \in SUBSET (1 .. n), T # {}
        PROVE  F[Max(T)][g[T \ {Max(T)}]] = JoinStep(g[T \ {Max(T)}], s[Max(T)])
    <3>1. Max(T) \in 1 .. n
      <4> HIDE DEF n
      <4> QED BY <1>1, <2>2, GreatestUpTo
    <3>2. g[T \ {Max(T)}] \in Texts
      BY <2>1
    <3> QED BY <3>1, <3>2
  <2>3. g = [T \in SUBSET (1 .. n) |-> g[T]]
    BY <2>1
  <2>4. ASSUME NEW T \in SUBSET (1 .. n)
        PROVE  g[T] = IF T = {} THEN b ELSE JoinStep(g[T \ {Max(T)}], s[Max(T)])
    <3>1. g[T] = IF T = {} THEN b ELSE F[Max(T)][g[T \ {Max(T)}]]
      <4> HIDE DEF F
      <4> QED BY <2>1, Zenon DEF FoldOf
    <3> HIDE DEF F
    <3> QED BY <2>2, <3>1
  <2> HIDE DEF F, n
  <2> QED BY <1>1, <2>3, <2>4, Zenon
<1>5. Eqn(h)
  BY <1>4
<1>6. FoldLeft(JoinStep, b, s) = h[1 .. n]
  BY <1>1, Zenon DEF FoldLeft, MapThenFoldSet
<1>7. ASSUME NEW T \in SUBSET (1 .. n), T # {}, h[T \ {Max(T)}] \in Texts
      PROVE  h[T] = F[Max(T)][h[T \ {Max(T)}]]
  <2>1. Max(T) \in 1 .. n
    <3> HIDE DEF n, h
    <3> QED BY <1>1, <1>7, GreatestUpTo
  <2>2. h[T] = JoinStep(h[T \ {Max(T)}], s[Max(T)])
    BY <1>1, <1>5, <1>7
  <2> HIDE DEF h
  <2> QED BY <1>7, <2>1, <2>2
<1>8. h[{}] = b
  BY <1>5
<1>9. PICK f : FoldChain(f, n, Texts, b, F) /\ f[n] = h[1 .. n]
  <2> HIDE DEF h, F, n
  <2>1. FoldValues(h, n, Texts, b, F)
    BY <1>7, <1>8 DEF FoldValues
  <2> QED BY <1>1, <1>2, <1>3, <2>1, FoldIsChain
<1>10. ASSUME NEW i \in 1 .. n
       PROVE  f[i] = JoinStep(f[i - 1], s[i])
  <2>1. f[i - 1] \in Texts
    BY <1>1, <1>9 DEF FoldChain
  <2> QED BY <1>9, <2>1 DEF FoldChain
<1> HIDE DEF F, h
<1> QED BY <1>6, <1>9, <1>10 DEF JoinChain, FoldChain

\* A line has its place in the text, behind the newline of the line before.
PlaceOf(s, ls, pos, k) ==
  /\ pos[k] \in 1 .. Len(s) + 2 /\ pos[k + 1] \in 1 .. Len(s) + 2
  /\ pos[k] < pos[k + 1]
  /\ ls[k] = SubSeq(s, pos[k], pos[k + 1] - 2)
  /\ Newlines(ls[k]) = {}
  /\ k # 1 => pos[k] - 1 \in 1 .. Len(s) /\ s[pos[k] - 1] = "nl"

LEMMA LinePlaces ==
  ASSUME NEW s \in Texts, NEW ls \in Seq(Texts), NEW pos, LinesOf(s, ls, pos),
         NEW k \in 1 .. Len(ls)
  PROVE  PlaceOf(s, ls, pos, k)
<1>1. Len(ls) \in Nat /\ Len(s) \in Nat /\ s \in Seq(Chars)
  BY DEF Texts, Chars
<1>2. k \in 1 .. Len(ls) + 1 /\ k + 1 \in 1 .. Len(ls) + 1
  BY <1>1
<1>3. /\ pos[k] \in 1 .. Len(s) + 2 /\ pos[k + 1] \in 1 .. Len(s) + 2
      /\ pos[k] < pos[k + 1]
      /\ LineAt(s, ls[k], pos[k], pos[k + 1] - 2)
  BY <1>2 DEF LinesOf
<1>4. Newlines(ls[k]) = {}
  <2> DEFINE from == pos[k]
             to == pos[k + 1] - 2
  <2>1. from \in Int /\ to \in Int /\ \A j \in from .. to : s[j] \in Chars
    BY <1>1, <1>3
  <2>2. ls[k] = SubSeq(s, from, to) /\ \A j \in from .. to : s[j] # "nl"
    BY <1>3 DEF LineAt
  <2> HIDE DEF from, to
  <2>3. /\ Len(ls[k]) = IF from <= to THEN to - from + 1 ELSE 0
        /\ \A j \in 1 .. to - from + 1 : ls[k][j] = s[from + j - 1]
    BY <2>1, <2>2, SubSeqProperties
  <2>4. ASSUME NEW j \in 1 .. Len(ls[k]) PROVE ls[k][j] # "nl"
    <3>1. j \in 1 .. to - from + 1 /\ from + j - 1 \in from .. to
      BY <2>1, <2>3
    <3> QED BY <2>2, <2>3, <3>1
  <2> QED BY <2>4 DEF Newlines
<1>5. ASSUME k # 1 PROVE pos[k] - 1 \in 1 .. Len(s) /\ s[pos[k] - 1] = "nl"
  <2>1. k \in 2 .. Len(ls) /\ k - 1 \in 1 .. Len(ls) /\ k - 1 \in 1 .. Len(ls) + 1
        /\ (k - 1) + 1 = k
    BY <1>1, <1>5
  <2>2. pos[k - 1] < pos[k] /\ pos[k - 1] \in 1 .. Len(s) + 2 /\ s[pos[k] - 1] = "nl"
    BY <2>1 DEF LinesOf
  <2>3. pos[k] - 1 \in 1 .. Len(s)
    <3> DEFINE w == pos[k - 1]
               x == pos[k]
               y == pos[k + 1]
    <3>1. w < x /\ x < y /\ w \in 1 .. Len(s) + 2 /\ x \in 1 .. Len(s) + 2 /\ y \in 1 .. Len(s) + 2
      BY <1>3, <2>2
    <3> HIDE DEF w, x, y
    <3>2. x - 1 \in 1 .. Len(s)
      BY <1>1, <3>1
    <3> QED BY <3>2 DEF x
  <2> QED BY <2>2, <2>3
<1>6. ls[k] = SubSeq(s, pos[k], pos[k + 1] - 2)
  BY <1>3 DEF LineAt
<1> QED BY <1>3, <1>4, <1>5, <1>6 DEF PlaceOf

\* The last lines of a text, put together, are the text from the first of them to its
\* end, with a newline between each two.
LEMMA JoinLinesOf ==
  ASSUME NEW s \in Texts, NEW ls \in Seq(Texts), NEW pos, LinesOf(s, ls, pos),
         NEW a \in 1 .. Len(ls)
  PROVE  LET text == JoinLines(SubSeq(ls, a, Len(ls)))
         IN  /\ text = SubSeq(s, pos[a], EndOf(s))
             /\ Cardinality(Newlines(text)) = Len(ls) - a
             /\ pos[a] \in 1 .. EndOf(s) + 1
<1>0. ASSUME NEW k \in 1 .. Len(ls)
      PROVE  /\ pos[k] \in 1 .. Len(s) + 2 /\ pos[k + 1] \in 1 .. Len(s) + 2
             /\ pos[k] < pos[k + 1] /\ ls[k] \in Texts
             /\ ls[k] = SubSeq(s, pos[k], pos[k + 1] - 2) /\ Newlines(ls[k]) = {}
             /\ k # 1 => pos[k] - 1 \in 1 .. Len(s) /\ s[pos[k] - 1] = "nl"
  <2>1. ls[k] \in Texts
    OBVIOUS
  <2>2. PlaceOf(s, ls, pos, k)
    BY LinePlaces
  <2> QED BY <2>1, <2>2 DEF PlaceOf
<1> DEFINE m == Len(ls)
           t == SubSeq(ls, a, m)
           b == ls[a]
           u == SubSeq(ls, a + 1, m)
           n == m - a
<1>1. m \in Nat /\ n \in Nat /\ a \in Nat /\ Len(s) \in Nat /\ b \in Texts
      /\ a \in 1 .. m /\ m \in a .. m /\ n \in 0 .. n
  BY DEF Texts
<1>2. /\ t \in Seq(Texts) /\ t # <<>> /\ Head(t) = b /\ Tail(t) = u
  <2>1. Head(t) = b /\ Tail(t) = u
    <3> HIDE DEF m
    <3> QED BY <1>1, HeadTailOfSubSeq DEF m
  <2>2. \A i \in a .. m : ls[i] \in Texts
    BY <1>1
  <2>3. t \in Seq(Texts) /\ Len(t) = m - a + 1
    <3> HIDE DEF m
    <3>1. Len(t) = IF a <= m THEN m - a + 1 ELSE 0
      BY <1>1, <2>2, SubSeqProperties
    <3> QED BY <1>1, <2>2, <3>1, SubSeqProperties
  <2>4. t # <<>>
    <3>1. Len(t) # 0
      BY <1>1, <2>3
    <3> HIDE DEF t
    <3> QED BY <3>1, Len(<<>>) = 0
  <2> QED BY <2>1, <2>3, <2>4
<1>3. u \in Seq(Texts) /\ Len(u) = n /\ \A i \in 1 .. n : u[i] = ls[a + i]
  <2>1. \A i \in a + 1 .. m : ls[i] \in Texts
    BY <1>1
  <2>2. a + 1 \in Int /\ m \in Int
    BY <1>1
  <2>3. /\ u \in Seq(Texts) /\ Len(u) = IF a + 1 <= m THEN m - (a + 1) + 1 ELSE 0
        /\ \A i \in 1 .. m - (a + 1) + 1 : u[i] = ls[a + 1 + i - 1]
    <3> HIDE DEF m
    <3> QED BY <2>1, <2>2, SubSeqProperties
  <2>4. \A i \in 1 .. n : i \in 1 .. m - (a + 1) + 1 /\ a + 1 + i - 1 = a + i
    BY <1>1
  <2>5. Len(u) = n
    BY <1>1, <2>3
  <2> HIDE DEF u
  <2> QED BY <2>3, <2>4, <2>5
<1>4. JoinLines(t) = FoldLeft(JoinStep, b, u)
  <2> HIDE DEF t, b, u
  <2> QED BY <1>2 DEF JoinLines
<1>5. PICK f : JoinChain(b, u, f) /\ FoldLeft(JoinStep, b, u) = f[n]
  <2> HIDE DEF b, u, n
  <2> QED BY <1>1, <1>3, FoldJoinChain
<1> DEFINE Ok(i) == /\ f[i] = SubSeq(s, pos[a], pos[a + i + 1] - 2)
                    /\ IsFiniteSet(Newlines(f[i])) /\ Cardinality(Newlines(f[i])) = i
                    /\ pos[a] < pos[a + i + 1]
           Good == {i \in 0 .. n : Ok(i)}
<1>6. 0 \in Good
  <2>1. f[0] = ls[a] /\ a + 0 + 1 = a + 1
    BY <1>1, <1>5 DEF JoinChain
  <2>2. ls[a] = SubSeq(s, pos[a], pos[a + 1] - 2) /\ pos[a] < pos[a + 1] /\ Newlines(ls[a]) = {}
    BY <1>0
  <2>3. Ok(0)
    <3> HIDE DEF n
    <3> QED BY <2>1, <2>2, FS_EmptySet
  <2>4. 0 \in 0 .. n
    BY <1>1
  <2> HIDE DEF Ok, n
  <2> QED BY <2>3, <2>4
<1>7. ASSUME NEW i \in 0 .. n - 1, Ok(i) PROVE Ok(i + 1)
  <2> DEFINE k == a + i + 1
  <2>1. /\ k \in 1 .. m /\ k # 1 /\ i + 1 \in 1 .. n /\ (i + 1) - 1 = i
        /\ a + (i + 1) = k /\ a + (i + 1) + 1 = k + 1 /\ i \in 0 .. n /\ i \in Nat
    BY <1>1
  <2>2. f[i + 1] = JoinStep(f[i], ls[k]) /\ f[i] \in Texts
    <3> HIDE DEF n, u, b, k
    <3> QED BY <1>3, <1>5, <2>1 DEF JoinChain
  <2> HIDE DEF k
  <2>3. /\ pos[k] \in 1 .. Len(s) + 2 /\ pos[k + 1] \in 1 .. Len(s) + 2
        /\ pos[k] < pos[k + 1] /\ ls[k] \in Texts
        /\ ls[k] = SubSeq(s, pos[k], pos[k + 1] - 2) /\ Newlines(ls[k]) = {}
        /\ pos[k] - 1 \in 1 .. Len(s) /\ s[pos[k] - 1] = "nl"
    <3> HIDE DEF n
    <3> QED BY <1>0, <2>1
  <2>4. pos[a] \in 1 .. Len(s) + 2 /\ pos[a] < pos[k]
    <3>1. pos[a] < pos[k]
      BY <1>7 DEF k
    <3>2. pos[a] \in 1 .. Len(s) + 2
      BY <1>0
    <3> QED BY <3>1, <3>2
  <2> DEFINE c == pos[k] - 1
             e == pos[k + 1] - 2
  <2>5. /\ c \in 1 .. Len(s) /\ s[c] = "nl" /\ pos[a] \in 1 .. c /\ e \in c .. Len(s)
        /\ pos[k] - 2 = c - 1 /\ pos[k] = c + 1
    <3> DEFINE w == pos[a]
               x == pos[k]
               y == pos[k + 1]
    <3>1. w < x /\ x < y /\ w \in 1 .. Len(s) + 2 /\ x \in 1 .. Len(s) + 2 /\ y \in 1 .. Len(s) + 2
      BY <2>3, <2>4
    <3> HIDE DEF w, x, y
    <3>2. w \in 1 .. x - 1 /\ y - 2 \in x - 1 .. Len(s) /\ x - 2 = (x - 1) - 1 /\ x = (x - 1) + 1
      BY <1>1, <3>1
    <3> QED BY <2>3, <3>2 DEF w, x, y
  <2>6. f[i + 1] = SubSeq(s, pos[a], e)
    <3>1. f[i] = SubSeq(s, pos[a], c - 1)
      BY <1>7, <2>5 DEF k
    <3>2. ls[k] = SubSeq(s, c + 1, e)
      BY <2>3, <2>5
    <3> HIDE DEF c, e
    <3> QED BY <2>2, <2>5, <3>1, <3>2, JoinAdjacent
  <2>7. /\ IsFiniteSet(Newlines(f[i + 1]))
        /\ Cardinality(Newlines(f[i + 1])) = i + 1
    BY <1>7, <2>2, <2>3, JoinStepNewlines
  <2>8. pos[a] < pos[k + 1]
    BY <2>3, <2>4
  <2> QED BY <2>1, <2>6, <2>7, <2>8
<1>8. n \in Good
  <2>1. \A i \in 0 .. n - 1 : i \in Good => i + 1 \in Good
    <3> HIDE DEF Ok
    <3>1. \A i \in 0 .. n - 1 : i + 1 \in 0 .. n
      BY <1>1
    <3> QED BY <1>7, <3>1
  <2> HIDE DEF Good, n
  <2> QED BY <1>1, <1>6, <2>1, BoundedSetInduction
<1>9. /\ f[n] = SubSeq(s, pos[a], EndOf(s)) /\ Cardinality(Newlines(f[n])) = m - a
      /\ pos[a] \in 1 .. EndOf(s) + 1
  <2>1. a + n + 1 = m + 1
    BY <1>1
  <2>2. ls # <<>>
    BY <1>1, EmptySeq
  <2>3. pos[m + 1] - 2 = EndOf(s)
    BY <2>2 DEF LinesOf
  <2> HIDE DEF n
  <2>4. /\ f[n] = SubSeq(s, pos[a], pos[m + 1] - 2) /\ Cardinality(Newlines(f[n])) = n
        /\ pos[a] < pos[m + 1]
    BY <1>8, <2>1
  <2>5. pos[a] \in 1 .. EndOf(s) + 1
    <3> DEFINE x == pos[a]
               y == pos[m + 1]
    <3>1. x \in 1 .. Len(s) + 2 /\ y \in 1 .. Len(s) + 2 /\ x < y
      <4>1. m \in 1 .. m /\ Len(ls) = m
        BY <1>1
      <4>2. pos[m + 1] \in 1 .. Len(s) + 2
        BY <1>0, <4>1
      <4>3. pos[a] \in 1 .. Len(s) + 2
        BY <1>0
      <4> QED BY <2>4, <4>2, <4>3
    <3> HIDE DEF x, y
    <3>2. x \in 1 .. (y - 2) + 1
      BY <1>1, <3>1
    <3> QED BY <2>3, <3>2 DEF x, y
  <2> QED BY <2>3, <2>4, <2>5 DEF n
<1> QED BY <1>4, <1>5, <1>9

------------------------------------------------------------------------------
(* The end of a log. *)

\* A part of the rest of a text is a part of the text.
LEMMA PartOfRest ==
  ASSUME NEW log \in Texts, NEW from \in 0 .. Len(log),
         NEW x \in Nat \ {0}, NEW y \in Nat, y <= Len(log) - from
  PROVE  /\ SubSeq(log, from + 1, Len(log)) \in Texts
         /\ Len(SubSeq(log, from + 1, Len(log))) = Len(log) - from
         /\ \A i \in 1 .. Len(log) - from :
              SubSeq(log, from + 1, Len(log))[i] = log[from + i]
         /\ SubSeq(SubSeq(log, from + 1, Len(log)), x, y) = SubSeq(log, from + x, from + y)
<1> DEFINE n == Len(log)
           s == SubSeq(log, from + 1, n)
<1>1. n \in Nat /\ log \in Seq(Chars) /\ from \in Nat /\ Texts = Seq(Chars)
      /\ \A i \in 1 .. n : log[i] \in Chars
  BY DEF Texts, Chars
<1>2. /\ s \in Texts /\ Len(s) = n - from
      /\ \A i \in 1 .. n - from : s[i] = log[from + i]
  <2>1. from + 1 \in Int /\ n \in Int /\ \A i \in from + 1 .. n : log[i] \in Chars
    BY <1>1
  <2>2. /\ s \in Seq(Chars) /\ Len(s) = IF from + 1 <= n THEN n - (from + 1) + 1 ELSE 0
        /\ \A i \in 1 .. n - (from + 1) + 1 : s[i] = log[from + 1 + i - 1]
    <3> HIDE DEF n
    <3> QED BY <2>1, SubSeqProperties
  <2>3. /\ n - (from + 1) + 1 = n - from
        /\ \A i \in 1 .. n - from : from + 1 + i - 1 = from + i
        /\ ~(from + 1 <= n) => n - from = 0
    BY <1>1
  <2> HIDE DEF s, n
  <2> QED BY <1>1, <2>2, <2>3
<1>3. SubSeq(s, x, y) = SubSeq(log, from + x, from + y)
  <2> DEFINE u == SubSeq(s, x, y)
             v == SubSeq(log, from + x, from + y)
  <2>1. \A i \in x .. y : i \in 1 .. n - from /\ s[i] = log[from + i] /\ log[from + i] \in Chars
    BY <1>1, <1>2
  <2>2. \A i \in from + x .. from + y : log[i] \in Chars
    BY <1>1
  <2>3. /\ u \in Seq(Chars) /\ Len(u) = IF x <= y THEN y - x + 1 ELSE 0
        /\ \A i \in 1 .. y - x + 1 : u[i] = s[x + i - 1]
    <3>1. \A i \in x .. y : s[i] \in Chars
      BY <2>1
    <3> HIDE DEF s, n
    <3> QED BY <3>1, SubSeqProperties
  <2>4. /\ v \in Seq(Chars)
        /\ Len(v) = IF from + x <= from + y THEN (from + y) - (from + x) + 1 ELSE 0
        /\ \A i \in 1 .. (from + y) - (from + x) + 1 : v[i] = log[from + x + i - 1]
    <3>1. from + x \in Int /\ from + y \in Int
      BY <1>1
    <3> QED BY <2>2, <3>1, SubSeqProperties
  <2>5. Len(u) = Len(v) /\ (from + y) - (from + x) + 1 = y - x + 1
    BY <1>1, <2>3, <2>4
  <2>6. ASSUME NEW i \in 1 .. Len(u) PROVE u[i] = v[i]
    <3>1. i \in 1 .. y - x + 1
      BY <2>3
    <3>2. x + i - 1 \in x .. y /\ from + (x + i - 1) = from + x + i - 1
      BY <1>1, <3>1
    <3> HIDE DEF u, v, s
    <3> QED BY <2>1, <2>3, <2>4, <2>5, <3>1, <3>2
  <2> HIDE DEF u, v
  <2>7. u = v
    BY <2>3, <2>4, <2>5, <2>6, SeqEqual
  <2> QED BY <2>7 DEF u, v
<1> QED BY <1>2, <1>3

\* What readLogTail returns is an end of the log, wherever it began to read: splitLines
\* and joinLines, byte by byte, lose no line and make none up.
THEOREM TailIsEnd ==
  ASSUME NEW log \in Texts, NEW from \in 0 .. Len(log),
         from = 0 \/ Len(log) - from >= MaxLogBytes
  PROVE  IsEndOf(JoinLines(LastOf(SplitLines(SubSeq(log, from + 1, Len(log))), MaxLines)), log)
<1> DEFINE n == Len(log)
           s == SubSeq(log, from + 1, n)
           ls == SplitLines(s)
           m == Len(ls)
           text == JoinLines(LastOf(ls, MaxLines))
<1>1. /\ n \in Nat /\ from \in Nat /\ n - from \in Nat
      /\ MaxLogBytes \in Nat \ {0} /\ MaxLines \in Nat \ {0}
  BY SizesAssumption DEF Texts
<1>2. s \in Texts /\ Len(s) = n - from /\ \A i \in 1 .. n - from : s[i] = log[from + i]
  <2>1. 1 \in Nat \ {0} /\ 0 \in Nat /\ 0 <= n - from
    BY <1>1
  <2> QED BY <2>1, PartOfRest
<1>3. ls \in Seq(Texts) /\ \E pos : LinesOf(s, ls, pos)
  <2> HIDE DEF s
  <2> QED BY <1>2, SplitLinesOf
<1>4. PICK pos : LinesOf(s, ls, pos)
  BY <1>3
<1>5. m \in Nat
  BY <1>3
<1>6. EndOf(log) = IF s = <<>> THEN EndOf(log) ELSE from + EndOf(s)
  <2>1. SUFFICES ASSUME s # <<>> PROVE EndOf(log) = from + EndOf(s)
    OBVIOUS
  <2>2. Len(s) # 0
    <3> HIDE DEF s
    <3> QED BY <1>2, <2>1, EmptySeq DEF Texts
  <2>3. n - from \in 1 .. n - from /\ from + (n - from) = n /\ n # 0
    BY <1>1, <1>2, <2>2
  <2>4. s[n - from] = log[n] /\ log # <<>>
    BY <1>2, <2>3, Len(<<>>) = 0
  <2> HIDE DEF s
  <2>5. CASE log[n] = "nl"
    <3>1. EndOf(log) = n - 1 /\ EndOf(s) = (n - from) - 1
      BY <1>2, <2>1, <2>4, <2>5 DEF EndOf, Last
    <3> QED BY <1>1, <3>1
  <2>6. CASE log[n] # "nl"
    <3>1. EndOf(log) = n /\ EndOf(s) = n - from
      BY <1>2, <2>1, <2>4, <2>6 DEF EndOf, Last
    <3> QED BY <1>1, <3>1
  <2> QED BY <2>5, <2>6
<1>7. CASE ls = <<>>
  <2>1. s = <<>> /\ Len(s) = 0
    BY <1>4, <1>7 DEF LinesOf
  <2>2. from = 0 /\ n = 0
    <3> HIDE DEF s
    <3> QED BY <1>1, <1>2, <2>1
  <2>3. log = <<>>
    BY <2>2, EmptySeq DEF Texts
  <2>4. text = <<>>
    BY <1>1, <1>7, Len(<<>>) = 0 DEF LastOf, JoinLines
  <2>5. Newlines(<<>>) = {} /\ Cardinality({}) = 0
    BY FS_EmptySet DEF Newlines
  <2>6. SubSeq(log, 1, 0) = <<>>
    BY SubSeqEmpty
  <2> HIDE DEF text
  <2>7. IsEndOf(text, log)
    BY <1>1, <2>2, <2>3, <2>4, <2>5, <2>6 DEF IsEndOf
  <2> QED BY <2>7 DEF text
<1>8. CASE ls # <<>>
  <2> DEFINE a == IF m <= MaxLines THEN 1 ELSE m - MaxLines + 1
  <2>1. m # 0
    <3> HIDE DEF ls
    <3> QED BY <1>3, <1>8, EmptySeq
  <2>2. a \in 1 .. m /\ m - a + 1 <= MaxLines /\ (a # 1 => m - a + 1 = MaxLines)
    BY <1>1, <1>5, <2>1
  <2>3. LastOf(ls, MaxLines) = SubSeq(ls, a, m)
    <3> HIDE DEF ls
    <3> QED BY <1>3, SubSeqFull DEF LastOf
  <2> HIDE DEF a
  <2>4. /\ text = SubSeq(s, pos[a], EndOf(s))
        /\ Cardinality(Newlines(text)) = m - a
        /\ pos[a] \in 1 .. EndOf(s) + 1
    <3> HIDE DEF s, ls
    <3> QED BY <1>2, <1>3, <1>4, <2>2, <2>3, JoinLinesOf
  <2>5. s # <<>>
    BY <1>4, <1>8 DEF LinesOf
  <2>6. EndOf(s) \in Nat /\ EndOf(s) <= n - from
    <3>1. Len(s) # 0
      <4> HIDE DEF s
      <4> QED BY <1>2, <2>5, EmptySeq DEF Texts
    <3> HIDE DEF s
    <3> QED BY <1>1, <1>2, <3>1 DEF EndOf
  <2> DEFINE i == from + pos[a]
             end == EndOf(log)
  <2>7. end = from + EndOf(s) /\ i \in 1 .. end + 1
    <3>1. end = from + EndOf(s)
      BY <1>6, <2>5
    <3> DEFINE x == pos[a]
               y == EndOf(s)
    <3>2. x \in 1 .. y + 1 /\ y \in Nat
      BY <2>4, <2>6
    <3> HIDE DEF s, x, y
    <3>3. from + x \in 1 .. (from + y) + 1
      BY <1>1, <3>2
    <3> QED BY <3>1, <3>3 DEF x, y
  <2>8. text = SubSeq(log, i, end)
    <3>1. pos[a] \in Nat \ {0}
      <4> HIDE DEF s
      <4> QED BY <2>4, <2>6
    <3>2. SubSeq(s, pos[a], EndOf(s)) = SubSeq(log, from + pos[a], from + EndOf(s))
      BY <2>6, <3>1, PartOfRest
    <3> QED BY <2>4, <2>7, <3>2
  <2>9. \/ i = 1
        \/ log[i - 1] = "nl" /\ m - a + 1 = MaxLines
        \/ n - i + 1 >= MaxLogBytes
    <3>1. CASE a = 1
      <4>1. pos[a] = 1
        BY <1>4, <3>1 DEF LinesOf
      <4> QED BY <1>1, <4>1
    <3>2. CASE a # 1
      <4>1. PlaceOf(s, ls, pos, a)
        <5> HIDE DEF s, ls
        <5> QED BY <1>2, <1>3, <1>4, <2>2, LinePlaces
      <4>2. pos[a] - 1 \in 1 .. n - from /\ s[pos[a] - 1] = "nl"
        <5> HIDE DEF s, ls
        <5> QED BY <1>2, <3>2, <4>1 DEF PlaceOf
      <4>3. from + (pos[a] - 1) = i - 1
        <5> DEFINE x == pos[a]
        <5>1. x \in Int
          <6>1. x - 1 \in Int /\ x \in 1 .. EndOf(s) + 1
            BY <2>4, <4>2
          <6> HIDE DEF x, s
          <6> QED BY <2>6, <6>1
        <5> HIDE DEF x
        <5>2. from + (x - 1) = (from + x) - 1
          BY <1>1, <5>1
        <5> QED BY <5>2 DEF x
      <4>4. log[i - 1] = "nl"
        <5> HIDE DEF s, i
        <5> QED BY <1>2, <4>2, <4>3
      <4> QED BY <2>2, <3>2, <4>4
    <3> QED BY <3>1, <3>2
  <2> HIDE DEF text, i, m, ls
  <2>10. IsEndOf(text, log)
    <3>1. /\ Cardinality(Newlines(text)) + 1 <= MaxLines
          /\ Cardinality(Newlines(text)) + 1 = m - a + 1
      BY <1>5, <2>2, <2>4
    <3> QED BY <2>7, <2>8, <2>9, <3>1 DEF IsEndOf, EndOf
  <2> QED BY <2>10 DEF text, ls
<1> QED BY <1>7, <1>8

\* What NoticeIsEnd asks of the end of a log in a notification.
IsNoticeOf(tail, log) ==
  LET cut == Len(log) - Len(tail)
  IN /\ Len(tail) <= TailBytes
     /\ tail = SubSeq(log, cut + 1, Len(log))
     /\ Len(log) <= TailBytes => cut = 0
     /\ log # <<>> => tail # <<>>
     /\ \/ cut = 0 \/ log[cut] = "nl"
        \/ Newlines(tail) \subseteq {Len(tail)}

\* tailFile returns such an end, for logs of any length and newlines in any place.
THEOREM TailFileIsNotice ==
  ASSUME NEW log \in Texts
  PROVE  LET tail == IF Len(log) > TailBytes THEN AfterNewline(LastOf(log, TailBytes)) ELSE log
         IN  tail \in Texts /\ IsNoticeOf(tail, log)
<1> DEFINE n == Len(log)
           T == TailBytes
<1>1. n \in Nat /\ T \in Nat /\ T # 0 /\ log \in Seq(Chars)
  BY SizesAssumption DEF Texts, Chars
<1>2. CASE ~(n > T)
  <2>1. SubSeq(log, 1, n) = log /\ n - n = 0 /\ 0 + 1 = 1 /\ n <= T
    BY <1>1, <1>2, SubSeqFull
  <2> QED BY <1>2, <2>1 DEF IsNoticeOf
<1>3. CASE n > T
  <2> DEFINE from == n - T
             b == SubSeq(log, from + 1, n)
  <2>1. from \in 0 .. n /\ from # 0 /\ n - from = T /\ from + 1 = n - T + 1
        /\ from + T = n /\ T <= n - from /\ from \in Nat /\ ~(n <= T)
    <3> HIDE DEF n, T, b
    <3> QED BY <1>1, <1>3
  <2>2. b \in Texts /\ Len(b) = T /\ \A i \in 1 .. T : b[i] = log[from + i]
    <3>1. 1 \in Nat \ {0} /\ T \in Nat /\ T <= n - from
      <4> HIDE DEF n, T, b, from
      <4> QED BY <1>1, <2>1
    <3> HIDE DEF from, T
    <3> QED BY <2>1, <3>1, PartOfRest
  <2>3. LastOf(log, TailBytes) = b
    <3>1. ~(Len(log) <= TailBytes)
      BY <2>1
    <3> QED BY <2>1, <3>1 DEF LastOf
  <2>4. CASE Newlines(b) = {} \/ Min(Newlines(b)) = Len(b)
    <3>1. AfterNewline(b) = b
      BY <2>4 DEF AfterNewline
    <3>2. Newlines(b) \subseteq {Len(b)}
      <4>1. SUFFICES ASSUME Newlines(b) # {}, Min(Newlines(b)) = Len(b) PROVE Newlines(b) \subseteq {Len(b)}
        BY <2>4
      <4> HIDE DEF b
      <4>2. Newlines(b) \in SUBSET Nat /\ \A j \in Newlines(b) : j <= Len(b) /\ j \in Nat
        BY <1>1, <2>2 DEF Newlines
      <4>3. \A j \in Newlines(b) : Len(b) <= j
        BY <4>1, <4>2, LeastOfNaturals
      <4> QED BY <1>1, <2>2, <4>2, <4>3
    <3>3. b # <<>>
      <4> HIDE DEF b
      <4> QED BY <1>1, <2>2, Len(<<>>) = 0
    <3>4. b = SubSeq(log, (n - Len(b)) + 1, n) /\ Len(b) <= T /\ ~(n <= T)
      <4>1. Len(b) <= T
        <5> HIDE DEF b, T
        <5> QED BY <1>1, <2>2
      <4>2. (n - Len(b)) + 1 = from + 1
        BY <2>1, <2>2
      <4> QED BY <2>1, <4>1, <4>2
    <3> HIDE DEF b
    <3>5. IsNoticeOf(b, log)
      BY <3>2, <3>3, <3>4 DEF IsNoticeOf
    <3> QED BY <1>3, <2>2, <2>3, <3>1, <3>5
  <2>5. CASE ~(Newlines(b) = {} \/ Min(Newlines(b)) = Len(b))
    <3> DEFINE k == Min(Newlines(b))
               tail == SubSeq(b, k + 1, T)
    <3>1. AfterNewline(b) = tail
      BY <2>2, <2>5 DEF AfterNewline
    <3>2. k \in 1 .. T /\ k # T /\ b[k] = "nl"
      <4> HIDE DEF b
      <4>1. Newlines(b) \in SUBSET Nat
        BY DEF Newlines
      <4>2. k \in Newlines(b)
        BY <2>5, <4>1, LeastOfNaturals
      <4> HIDE DEF k
      <4>3. k # Len(b)
        BY <2>5 DEF k
      <4> QED BY <2>2, <4>2, <4>3 DEF Newlines
    <3> HIDE DEF k
    <3>3. tail = SubSeq(log, from + (k + 1), from + T)
      <4>1. k + 1 \in Nat \ {0} /\ T <= n - from
        <5> HIDE DEF n, T, b, from, tail
        <5> QED BY <1>1, <2>1, <3>2
      <4> HIDE DEF from
      <4> QED BY <1>1, <2>1, <4>1, PartOfRest
    <3>4. tail \in Texts /\ Len(tail) = T - k
      <4>1. b \in Seq(Chars) /\ k + 1 \in Int /\ T \in Int /\ k + 1 <= T
        BY <1>1, <2>2, <3>2 DEF Texts, Chars
      <4>2. \A i \in k + 1 .. T : b[i] \in Chars
        <5> HIDE DEF b, T
        <5>1. \A i \in k + 1 .. T : i \in 1 .. Len(b)
          BY <1>1, <2>2, <3>2
        <5> QED BY <4>1, <5>1
      <4>3. T - (k + 1) + 1 = T - k
        BY <1>1, <3>2
      <4> HIDE DEF b, T
      <4> QED BY <4>1, <4>2, <4>3, SubSeqProperties DEF Texts, Chars
    <3> DEFINE cut == n - Len(tail)
    <3>5. cut = from + k /\ cut + 1 = from + (k + 1) /\ Len(tail) <= T /\ Len(tail) # 0
      <4> HIDE DEF tail, n, T, from, b
      <4> QED BY <1>1, <2>1, <3>2, <3>4
    <3>6. log[cut] = "nl"
      <4> HIDE DEF b, cut, from
      <4> QED BY <2>2, <3>2, <3>5
    <3>7. tail = SubSeq(log, cut + 1, n)
      BY <2>1, <3>3, <3>5
    <3>8. tail # <<>> /\ ~(n <= T)
      <4> HIDE DEF tail
      <4> QED BY <1>1, <1>3, <3>5, Len(<<>>) = 0
    <3>9. IsNoticeOf(tail, log)
      <4> HIDE DEF tail
      <4> QED BY <3>5, <3>6, <3>7, <3>8 DEF IsNoticeOf
    <3> HIDE DEF tail, b
    <3> QED BY <1>3, <2>3, <3>1, <3>4, <3>9
  <2> QED BY <2>4, <2>5
<1> QED BY <1>2, <1>3

------------------------------------------------------------------------------
(* The list of a user's jobs. *)

\* The jobs of a user up to the i-th of the table.
OwnUpTo(u, i) == {j \in 1 .. i : table[j].user = u}

\* A list of jobs has each of a set once, the last first.
Lists(ids, S) ==
  /\ ToSet(ids) = S /\ IsFiniteSet(S) /\ Len(ids) = Cardinality(S)
  /\ \A a, b \in 1 .. Len(ids) : a < b => ids[a] > ids[b]

\* One more row of the user comes to the front.
LEMMA ListsMore ==
  ASSUME NEW i \in Nat, NEW ids \in Seq(Nat), NEW S \in SUBSET (1 .. i), Lists(ids, S)
  PROVE  LET more == <<i + 1>> \o ids
         IN  more \in Seq(Nat) /\ Lists(more, S \cup {i + 1})
<1> DEFINE more == <<i + 1>> \o ids
           n == Len(ids)
<1>1. n \in Nat /\ DOMAIN ids = 1 .. n /\ \A a \in 1 .. n : ids[a] \in S
  BY DEF Lists, ToSet
<1>2. /\ more \in Seq(Nat) /\ Len(more) = n + 1 /\ DOMAIN more = 1 .. n + 1
      /\ \A a \in 1 .. n + 1 : more[a] = IF a = 1 THEN i + 1 ELSE ids[a - 1]
  <2>1. <<i + 1>> \in Seq(Nat) /\ Len(<<i + 1>>) = 1 /\ <<i + 1>>[1] = i + 1
    OBVIOUS
  <2>2. /\ more \in Seq(Nat) /\ Len(more) = 1 + n
        /\ \A a \in 1 .. 1 + n : more[a] = IF a <= 1 THEN <<i + 1>>[a] ELSE ids[a - 1]
    BY <2>1, ConcatProperties
  <2>3. DOMAIN more = 1 .. Len(more)
    <3> HIDE DEF more
    <3> QED BY <2>2
  <2> HIDE DEF more
  <2>4. ASSUME NEW a \in 1 .. n + 1
        PROVE  more[a] = IF a = 1 THEN i + 1 ELSE ids[a - 1]
    <3>1. a \in 1 .. 1 + n /\ (a <= 1 <=> a = 1)
      BY <1>1
    <3> QED BY <2>1, <2>2, <3>1
  <2>5. 1 + n = n + 1
    BY <1>1
  <2> QED BY <2>2, <2>3, <2>4, <2>5
<1> HIDE DEF more
<1>3. ToSet(more) = S \cup {i + 1}
  <2>1. ASSUME NEW j \in S \cup {i + 1} PROVE \E a \in 1 .. n + 1 : more[a] = j
    <3>1. CASE j = i + 1
      <4>1. 1 \in 1 .. n + 1
        BY <1>1
      <4> QED BY <1>2, <3>1, <4>1
    <3>2. CASE j \in S
      <4>1. PICK a \in 1 .. n : ids[a] = j
        BY <1>1, <3>2 DEF Lists, ToSet
      <4>2. a + 1 \in 1 .. n + 1 /\ a + 1 # 1 /\ (a + 1) - 1 = a
        BY <1>1
      <4> QED BY <1>2, <4>1, <4>2
    <3> QED BY <3>1, <3>2
  <2>2. ASSUME NEW a \in 1 .. n + 1 PROVE more[a] \in S \cup {i + 1}
    <3>1. a = 1 \/ a - 1 \in 1 .. n
      BY <1>1
    <3> QED BY <1>1, <1>2, <3>1
  <2>3. ToSet(more) = {more[a] : a \in 1 .. n + 1}
    BY <1>2 DEF ToSet
  <2> HIDE DEF n
  <2> QED BY <2>1, <2>2, <2>3
<1>4. IsFiniteSet(S \cup {i + 1}) /\ Cardinality(S \cup {i + 1}) = n + 1
  <2>1. IsFiniteSet(S) /\ Cardinality(S) = n /\ i + 1 \notin S
    BY DEF Lists
  <2> QED BY <2>1, FS_AddElement
<1>5. ASSUME NEW a \in 1 .. n + 1, NEW b \in 1 .. n + 1, a < b PROVE more[a] > more[b]
  <2>1. b # 1 /\ b - 1 \in 1 .. n /\ more[b] = ids[b - 1] /\ ids[b - 1] \in 1 .. i
    <3>1. b # 1 /\ b - 1 \in 1 .. n
      BY <1>1, <1>5
    <3> QED BY <1>1, <1>2, <3>1
  <2>2. CASE a = 1
    <3>1. more[a] = i + 1
      BY <1>2, <2>2
    <3> QED BY <2>1, <3>1
  <2>3. CASE a # 1
    <3>1. a - 1 \in 1 .. n /\ a - 1 < b - 1
      BY <1>1, <1>5, <2>3
    <3>2. ids[a - 1] > ids[b - 1]
      BY <2>1, <3>1 DEF Lists
    <3> QED BY <1>2, <2>1, <2>3, <3>2
  <2> QED BY <2>2, <2>3
<1> HIDE DEF n
<1>6. Len(more) = n + 1 /\ Lists(more, S \cup {i + 1})
  BY <1>2, <1>3, <1>4, <1>5 DEF Lists
<1> QED BY <1>2, <1>6 DEF more

\* The rows that OwnJobs goes through, for one row after the other.
LEMMA OwnJobsChain ==
  ASSUME table \in Seq(Rows), NEW u
  PROVE  \E f : /\ f \in [0 .. Len(table) -> Seq(Nat)]
                /\ f[0] = <<>>
                /\ \A i \in 1 .. Len(table) :
                     f[i] = IF table[i].user = u THEN <<i>> \o f[i - 1] ELSE f[i - 1]
                /\ OwnJobs(u) = f[Len(table)]
<1> DEFINE n == Len(table)
           s == [i \in 1 .. n |-> i]
           Step(a, i) == IF table[i].user = u THEN <<i>> \o a ELSE a
           F == [i \in 1 .. n |-> [a \in Seq(Nat) |-> Step(a, i)]]
           none == <<>>
           Value(h, T) == IF T = {} THEN none
                          ELSE IF table[s[Max(T)]].user = u
                               THEN <<s[Max(T)]>> \o h[T \ {Max(T)}]
                               ELSE h[T \ {Max(T)}]
           Eqn(h) == h = [T \in SUBSET DOMAIN s |-> Value(h, T)]
           h == CHOOSE h : Eqn(h)
<1>1. n \in Nat /\ DOMAIN s = 1 .. n /\ \A i \in 1 .. n : s[i] = i
  OBVIOUS
<1>2. none \in Seq(Nat)
  OBVIOUS
<1>3. F \in [1 .. n -> [Seq(Nat) -> Seq(Nat)]]
  <2>1. ASSUME NEW i \in 1 .. n, NEW a \in Seq(Nat) PROVE Step(a, i) \in Seq(Nat)
    <3>1. <<i>> \in Seq(Nat)
      BY <1>1
    <3>2. <<i>> \o a \in Seq(Nat)
      BY <3>1, ConcatProperties
    <3> QED BY <3>2
  <2> HIDE DEF Step
  <2> QED BY <2>1
<1>4. \E g : Eqn(g)
  <2>1. PICK g \in [SUBSET (1 .. n) -> Seq(Nat)] : FoldOf(g, n, none, F)
    <3> HIDE DEF F, n, none
    <3> QED BY <1>1, <1>2, <1>3, FoldExists
  <2>2. ASSUME NEW T \in SUBSET (1 .. n), T # {}
        PROVE  /\ Max(T) \in 1 .. n
               /\ F[Max(T)][g[T \ {Max(T)}]] = Step(g[T \ {Max(T)}], Max(T))
    <3>1. Max(T) \in 1 .. n
      <4> HIDE DEF n
      <4> QED BY <1>1, <2>2, GreatestUpTo
    <3>2. g[T \ {Max(T)}] \in Seq(Nat)
      BY <2>1
    <3> HIDE DEF Step
    <3> QED BY <3>1, <3>2
  <2>3. g = [T \in SUBSET (1 .. n) |-> g[T]]
    BY <2>1
  <2>4. ASSUME NEW T \in SUBSET (1 .. n)
        PROVE  g[T] = Value(g, T)
    <3>1. g[T] = IF T = {} THEN none ELSE F[Max(T)][g[T \ {Max(T)}]]
      <4> HIDE DEF F
      <4> QED BY <2>1, Zenon DEF FoldOf
    <3>2. CASE T = {}
      BY <3>1, <3>2
    <3>3. CASE T # {}
      <4>1. s[Max(T)] = Max(T)
        BY <1>1, <2>2, <3>3
      <4>2. g[T] = Step(g[T \ {Max(T)}], Max(T))
        <5> HIDE DEF F, Step
        <5> QED BY <2>2, <3>1, <3>3
      <4> HIDE DEF F, s
      <4> QED BY <3>3, <4>1, <4>2
    <3> QED BY <3>2, <3>3
  <2>5. [T \in SUBSET (1 .. n) |-> g[T]] = [T \in SUBSET (1 .. n) |-> Value(g, T)]
    <3> HIDE DEF F, n, s, Value
    <3> QED BY <2>4, Zenon
  <2>6. Eqn(g)
    <3> HIDE DEF F, n, s, Value
    <3> QED BY <1>1, <2>3, <2>5
  <2> HIDE DEF Eqn
  <2> QED BY <2>6
<1>5. Eqn(h)
  BY <1>4
<1>6. OwnJobs(u) = h[1 .. n]
  <2>1. OwnJobs(u) = h[DOMAIN s]
    BY Zenon DEF OwnJobs, FoldLeft, MapThenFoldSet
  <2> QED BY <1>1, <2>1
<1>7. ASSUME NEW T \in SUBSET (1 .. n), T # {}, h[T \ {Max(T)}] \in Seq(Nat)
      PROVE  h[T] = F[Max(T)][h[T \ {Max(T)}]]
  <2>1. Max(T) \in 1 .. n
    <3> HIDE DEF n, h
    <3> QED BY <1>1, <1>7, GreatestUpTo
  <2>2. s[Max(T)] = Max(T)
    BY <1>1, <2>1
  <2>3. h[T] = Step(h[T \ {Max(T)}], s[Max(T)])
    BY <1>1, <1>5, <1>7
  <2> HIDE DEF h, Step
  <2> QED BY <1>7, <2>1, <2>2, <2>3
<1>8. h[{}] = none
  BY <1>5
<1>9. PICK f : FoldChain(f, n, Seq(Nat), none, F) /\ f[n] = h[1 .. n]
  <2> HIDE DEF h, F, n, none
  <2>1. FoldValues(h, n, Seq(Nat), none, F)
    BY <1>7, <1>8 DEF FoldValues
  <2> QED BY <1>1, <1>2, <1>3, <2>1, FoldIsChain
<1>10. ASSUME NEW i \in 1 .. n
       PROVE  f[i] = Step(f[i - 1], i)
  <2>1. f[i - 1] \in Seq(Nat)
    <3>1. i - 1 \in 0 .. n
      BY <1>1
    <3> HIDE DEF F, h, none
    <3> QED BY <1>9, <3>1 DEF FoldChain
  <2> HIDE DEF Step
  <2> QED BY <1>9, <2>1 DEF FoldChain
<1> HIDE DEF F, h
<1> QED BY <1>6, <1>9, <1>10 DEF FoldChain

\* ListForUser's query, before its limit, has all the jobs of the user.
LEMMA OwnJobsLists ==
  ASSUME table \in Seq(Rows), NEW u
  PROVE  OwnJobs(u) \in Seq(Nat) /\ Lists(OwnJobs(u), OwnUpTo(u, Len(table)))
<1> DEFINE n == Len(table)
<1>1. n \in Nat /\ n \in 0 .. n
  OBVIOUS
<1>2. PICK f : /\ f \in [0 .. n -> Seq(Nat)] /\ f[0] = <<>>
               /\ \A i \in 1 .. n :
                    f[i] = IF table[i].user = u THEN <<i>> \o f[i - 1] ELSE f[i - 1]
               /\ OwnJobs(u) = f[n]
  BY OwnJobsChain
<1> DEFINE Good == {i \in 0 .. n : Lists(f[i], OwnUpTo(u, i))}
<1>3. 0 \in Good
  <2>1. OwnUpTo(u, 0) = {}
    BY DEF OwnUpTo
  <2>2. Lists(<<>>, {})
    BY FS_EmptySet DEF Lists, ToSet
  <2> QED BY <1>1, <1>2, <2>1, <2>2
<1>4. ASSUME NEW i \in 0 .. n - 1, i \in Good PROVE i + 1 \in Good
  <2>1. /\ i + 1 \in 1 .. n /\ i + 1 \in 0 .. n /\ (i + 1) - 1 = i /\ i \in Nat
        /\ i \in 0 .. n /\ 1 .. i + 1 = (1 .. i) \cup {i + 1}
    BY <1>1
  <2>2. f[i] \in Seq(Nat) /\ Lists(f[i], OwnUpTo(u, i)) /\ OwnUpTo(u, i) \in SUBSET (1 .. i)
    BY <1>2, <1>4, <2>1 DEF OwnUpTo
  <2>3. CASE table[i + 1].user = u
    <3>1. f[i + 1] = <<i + 1>> \o f[i]
      BY <1>2, <2>1, <2>3
    <3>2. OwnUpTo(u, i + 1) = OwnUpTo(u, i) \cup {i + 1}
      BY <2>1, <2>3 DEF OwnUpTo
    <3>3. Lists(<<i + 1>> \o f[i], OwnUpTo(u, i) \cup {i + 1})
      BY <2>1, <2>2, ListsMore
    <3> QED BY <2>1, <3>1, <3>2, <3>3
  <2>4. CASE table[i + 1].user # u
    <3>1. f[i + 1] = f[i]
      BY <1>2, <2>1, <2>4
    <3>2. OwnUpTo(u, i + 1) = OwnUpTo(u, i)
      BY <2>1, <2>4 DEF OwnUpTo
    <3> QED BY <2>1, <2>2, <3>1, <3>2
  <2> QED BY <2>3, <2>4
<1>5. n \in Good
  <2>1. \A i \in 0 .. n - 1 : i \in Good => i + 1 \in Good
    BY <1>4
  <2> HIDE DEF Good, n
  <2> QED BY <1>1, <1>3, <2>1, BoundedSetInduction
<1> QED BY <1>1, <1>2, <1>5

\* The latest of a set of jobs, up to a limit, the last first.
LatestOf(ids, own, limit) ==
  /\ ToSet(ids) \subseteq own
  /\ Len(ids) = Min({limit, Cardinality(own)})
  /\ \A a, b \in 1 .. Len(ids) : a < b => ids[a] > ids[b]
  /\ \A i \in own \ ToSet(ids), k \in ToSet(ids) : i < k

\* ListForUser returns the latest of the user's jobs in order, as many as the limit
\* or as there are.
THEOREM ListForUserLatest ==
  ASSUME table \in Seq(Rows), NEW u, NEW limit \in Nat \ {0}
  PROVE  /\ ListForUser(u, limit) \in Seq(1 .. Len(table))
         /\ LatestOf(ListForUser(u, limit), OwnUpTo(u, Len(table)), limit)
<1> DEFINE n == Len(table)
           all == OwnJobs(u)
           own == OwnUpTo(u, n)
           c == Len(all)
           ids == ListForUser(u, limit)
<1>1. /\ n \in Nat /\ all \in Seq(Nat) /\ c \in Nat /\ DOMAIN all = 1 .. c
      /\ ToSet(all) = own /\ c = Cardinality(own) /\ own \in SUBSET (1 .. n)
      /\ \A a, b \in 1 .. c : a < b => all[a] > all[b]
  <2>1. all \in Seq(Nat) /\ Lists(all, own)
    BY OwnJobsLists
  <2>2. n \in Nat /\ own \in SUBSET (1 .. n)
    BY DEF OwnUpTo
  <2> HIDE DEF all, own, n
  <2> QED BY <2>1, <2>2 DEF Lists
<1>2. own = {all[a] : a \in 1 .. c}
  BY <1>1 DEF ToSet
<1> HIDE DEF all, own, c
<1> DEFINE m == IF limit < c THEN limit ELSE c
<1>3. m \in 0 .. c /\ m <= limit /\ m = Min({limit, c})
  <2>1. m \in 0 .. c /\ m <= limit /\ m \in {limit, c} /\ m <= c /\ m \in Nat
    BY <1>1
  <2>2. {limit, c} \in SUBSET Nat /\ {limit, c} # {}
    BY <1>1
  <2>3. Min({limit, c}) \in {limit, c} /\ \A y \in {limit, c} : Min({limit, c}) <= y
    BY <2>2, LeastOfNaturals
  <2>4. Min({limit, c}) <= limit /\ Min({limit, c}) <= c
    BY <2>3
  <2> QED BY <1>1, <2>1, <2>3, <2>4
<1>4. /\ Len(ids) = m /\ DOMAIN ids = 1 .. m /\ ids \in Seq(1 .. n)
      /\ \A a \in 1 .. m : ids[a] = all[a]
  <2>1. \A a \in 1 .. c : all[a] \in 1 .. n
    BY <1>1, <1>2
  <2>2. CASE limit < c
    <3>1. ids = SubSeq(all, 1, limit)
      BY <2>2 DEF ListForUser, all, c
    <3>2. 1 \in Int /\ limit \in Int /\ \A a \in 1 .. limit : all[a] \in 1 .. n
      BY <1>1, <2>1, <2>2
    <3>3. 1 <= limit /\ limit - 1 + 1 = limit /\ m = limit
      BY <2>2
    <3> HIDE DEF n, ids
    <3>4. /\ ids \in Seq(1 .. n) /\ Len(ids) = limit
          /\ \A a \in 1 .. limit : ids[a] = all[1 + a - 1]
      BY <3>1, <3>2, <3>3, SubSeqProperties
    <3>5. \A a \in 1 .. limit : 1 + a - 1 = a
      OBVIOUS
    <3> HIDE DEF m
    <3> QED BY <3>3, <3>4, <3>5
  <2>3. CASE ~(limit < c)
    <3>1. ids = all /\ m = c
      BY <2>3 DEF ListForUser, all, c
    <3>2. all \in Seq(1 .. n)
      <4>1. all \in [1 .. c -> 1 .. n]
        BY <1>1, <2>1
      <4> QED BY <1>1, <4>1, SeqDef
    <3> HIDE DEF ids, m
    <3> QED BY <1>1, <3>1, <3>2 DEF c
  <2> QED BY <2>2, <2>3
<1> HIDE DEF ids
<1>5. ToSet(ids) = {all[a] : a \in 1 .. m}
  BY <1>4 DEF ToSet
<1>6. ASSUME NEW i \in own \ ToSet(ids), NEW k \in ToSet(ids) PROVE i < k
  <2>1. PICK a \in 1 .. c : i = all[a]
    BY <1>2, <1>6
  <2>2. PICK b \in 1 .. m : k = all[b]
    BY <1>5, <1>6
  <2> HIDE DEF m
  <2>3. a \notin 1 .. m
    BY <1>5, <1>6, <2>1
  <2>4. b < a /\ b \in 1 .. c
    BY <1>1, <1>3, <2>1, <2>2, <2>3
  <2>5. all[b] > all[a]
    BY <1>1, <2>1, <2>4
  <2>6. i \in Nat /\ k \in Nat
    BY <1>1, <2>1, <2>2, <2>4
  <2> QED BY <2>1, <2>2, <2>5, <2>6
<1> HIDE DEF m
<1>7. ToSet(ids) \subseteq own
  <2>1. \A a \in 1 .. m : a \in 1 .. c
    BY <1>1, <1>3
  <2> QED BY <1>2, <1>5, <2>1
<1>8. \A a, b \in 1 .. Len(ids) : a < b => ids[a] > ids[b]
  <2>1. \A a \in 1 .. m : a \in 1 .. c
    BY <1>1, <1>3
  <2> QED BY <1>1, <1>4, <2>1
<1>9. LatestOf(ids, own, limit)
  BY <1>1, <1>3, <1>4, <1>6, <1>7, <1>8 DEF LatestOf
<1> QED BY <1>4, <1>9 DEF ids, own

=============================================================================
