----------------------------- MODULE FoldProofs -----------------------------
(***************************************************************************)
(* What a fold of the community modules computes.  They define it by a     *)
(* recursive function on the subsets of what is folded, which exists only  *)
(* because these are finite; and no induction theorem can be used.  What   *)
(* follows is by the least number at which a claim would fail.             *)
(***************************************************************************)
EXTENDS Integers, Sequences, FiniteSetsExt, SequenceTheorems, FiniteSetTheorems, WellFoundedInduction,
        TLAPS

(* A set of numbers has a least one.                                       *)
LEMMA LeastOfSet ==
    ASSUME NEW T \in SUBSET Nat, T # {}
    PROVE  \E m \in T : \A k \in T : m <= k
<1>1. IsWellFoundedOn(OpToRel(<, Nat), Nat)
  BY NatLessThanWellFounded
<1>2. PICK m \in T : \A k \in T : <<k, m>> \notin OpToRel(<, Nat)
  BY <1>1, WFMin, Zenon
<1>3. \A k \in T : ~(k < m)
  BY <1>2 DEF OpToRel
<1>4. QED
  BY <1>3

(* What holds of a number whenever it holds of the one before it.          *)
LEMMA AllNumbers ==
    ASSUME NEW n \in Nat, NEW good \in SUBSET (0 .. n), 0 \in good,
           \A k \in 1 .. n : k - 1 \in good => k \in good
    PROVE  \A k \in 0 .. n : k \in good
<1> SUFFICES ASSUME (0 .. n) \ good # {}
             PROVE  FALSE
  OBVIOUS
<1>1. PICK m \in (0 .. n) \ good : \A k \in (0 .. n) \ good : m <= k
  <2>1. (0 .. n) \ good \in SUBSET Nat
    OBVIOUS
  <2>2. QED
    BY <2>1, LeastOfSet
<1>2. m \in 1 .. n
  BY <1>1
<1>3. m - 1 \notin (0 .. n) \ good
  BY <1>1, <1>2
<1>4. QED
  BY <1>1, <1>2, <1>3

(* A recursion that takes one element at a time from a finite set, in any  *)
(* order, has a function.                                                  *)
Picks(pick, S) ==
    /\ pick \in [(SUBSET S) \ {{}} -> S]
    /\ \A u \in (SUBSET S) \ {{}} : pick[u] \in u

Steps(step, S, A) == step \in [S -> [A -> A]]

IsSetFold(f, S, A, base, pick, step) ==
    /\ f \in [SUBSET S -> A]
    /\ \A u \in SUBSET S :
          f[u] = IF u = {} THEN base ELSE step[pick[u]][f[u \ {pick[u]}]]

LEMMA FoldExists ==
    ASSUME NEW S, IsFiniteSet(S), NEW A, NEW base, base \in A,
           NEW pick, Picks(pick, S), NEW step, Steps(step, S, A)
    PROVE  \E f : IsSetFold(f, S, A, base, pick, step)
<1> DEFINE Value(f, u) == IF u = {} THEN base ELSE step[pick[u]][f[u \ {pick[u]}]]
           Upto(n) == \E f \in [SUBSET S -> A] : \A u \in SUBSET S :
                         Cardinality(u) <= n => f[u] = Value(f, u)
           good == {n \in 0 .. Cardinality(S) : Upto(n)}
<1>0. /\ pick \in [(SUBSET S) \ {{}} -> S] /\ \A u \in (SUBSET S) \ {{}} : pick[u] \in u
      /\ step \in [S -> [A -> A]]
  BY DEF Picks, Steps
<1>1. Cardinality(S) \in Nat /\ \A u \in SUBSET S : IsFiniteSet(u) /\ Cardinality(u) \in 0 .. Cardinality(S)
  BY FS_Subset, FS_CardinalityType
<1>2. ASSUME NEW f \in [SUBSET S -> A], NEW u \in SUBSET S
      PROVE  Value(f, u) \in A
  <2>1. CASE u # {}
    <3>1. pick[u] \in S /\ u \ {pick[u]} \in SUBSET S
      BY <1>0, <2>1
    <3>2. f[u \ {pick[u]}] \in A /\ step[pick[u]] \in [A -> A]
      BY <1>0, <3>1
    <3>3. QED
      BY <2>1, <3>2
  <2>2. QED
    BY <2>1
<1>3. 0 \in good
  <2> DEFINE f == [u \in SUBSET S |-> base]
  <2>1. f \in [SUBSET S -> A]
    OBVIOUS
  <2>2. \A u \in SUBSET S : Cardinality(u) <= 0 => u = {}
    BY <1>1, FS_EmptySet
  <2>3. \A u \in SUBSET S : Cardinality(u) <= 0 => f[u] = Value(f, u)
    BY <2>2
  <2>4. Upto(0)
    <3> HIDE DEF f, Value
    <3>1. QED
      BY <2>1, <2>3
  <2> HIDE DEF Upto
  <2>5. QED
    BY <1>1, <2>4
<1>4. ASSUME NEW n \in 1 .. Cardinality(S), n - 1 \in good
      PROVE  n \in good
  <2>1. PICK f \in [SUBSET S -> A] : \A u \in SUBSET S : Cardinality(u) <= n - 1 => f[u] = Value(f, u)
    BY <1>4
  <2> DEFINE g == [u \in SUBSET S |-> IF Cardinality(u) <= n - 1 THEN f[u] ELSE Value(f, u)]
  <2>2. g \in [SUBSET S -> A]
    <3>1. \A u \in SUBSET S : f[u] \in A /\ Value(f, u) \in A
      BY <1>2
    <3> HIDE DEF Value
    <3>2. QED
      BY <3>1
  <2>3. ASSUME NEW u \in SUBSET S, Cardinality(u) <= n, u # {}
        PROVE  g[u \ {pick[u]}] = f[u \ {pick[u]}]
    <3>1. pick[u] \in u /\ u \ {pick[u]} \in SUBSET S
      <4>1. u \in (SUBSET S) \ {{}}
        BY <2>3
      <4>2. QED
        BY <1>0, <4>1
    <3>2. Cardinality(u \ {pick[u]}) = Cardinality(u) - 1
      BY <1>1, <3>1, FS_RemoveElement
    <3>3. Cardinality(u \ {pick[u]}) <= n - 1
      BY <1>1, <2>3, <3>2
    <3> HIDE DEF Value
    <3>4. QED
      BY <3>1, <3>3
  <2>4. ASSUME NEW u \in SUBSET S, Cardinality(u) <= n
        PROVE  g[u] = Value(g, u)
    <3>1. Value(g, u) = Value(f, u)
      <4> HIDE DEF g
      <4>1. QED
        BY <2>3, <2>4
    <3>2. CASE Cardinality(u) <= n - 1
      <4>1. f[u] = Value(f, u)
        <5> HIDE DEF Value
        <5>1. QED
          BY <2>1, <3>2
      <4> HIDE DEF Value
      <4>2. QED
        BY <3>1, <3>2, <4>1
    <3>3. CASE ~(Cardinality(u) <= n - 1)
      <4> HIDE DEF Value
      <4>1. QED
        BY <3>1, <3>3
    <3>4. QED
      BY <3>2, <3>3
  <2>5. Upto(n)
    <3> HIDE DEF g, Value
    <3>1. QED
      BY <2>2, <2>4
  <2> HIDE DEF Upto
  <2>6. QED
    BY <2>5
<1>5. Cardinality(S) \in good
  <2> HIDE DEF good
  <2>1. good \in SUBSET (0 .. Cardinality(S))
    BY DEF good
  <2>2. QED
    BY <1>1, <1>3, <1>4, <2>1, AllNumbers
<1>6. PICK f \in [SUBSET S -> A] : \A u \in SUBSET S :
         Cardinality(u) <= Cardinality(S) => f[u] = Value(f, u)
  BY <1>5
<1>7. \A u \in SUBSET S : f[u] = Value(f, u)
  <2> HIDE DEF Value
  <2>1. QED
    BY <1>1, <1>6
<1>8. QED
  <2> HIDE DEF good
  <2>1. QED
    BY <1>7 DEF IsSetFold
-----------------------------------------------------------------------------
(* Sequences: FoldLeft takes the last index of the rest first.             *)

LEMMA MaxOfSet ==
    ASSUME NEW n \in Nat, NEW u \in SUBSET (1 .. n), u # {}
    PROVE  Max(u) \in u /\ \A k \in u : k <= Max(u)
<1> DEFINE T == {n - i : i \in u}
<1>1. T \in SUBSET Nat /\ T # {}
  <2>1. \A i \in u : i \in 1 .. n /\ n - i \in Nat
    OBVIOUS
  <2>2. QED
    BY <2>1
<1>2. PICK m \in T : \A k \in T : m <= k
  <2> HIDE DEF T
  <2>1. QED
    BY <1>1, LeastOfSet
<1>3. PICK i \in u : m = n - i
  BY <1>2
<1>4. ASSUME NEW j \in u
      PROVE  i >= j
  <2>1. n - j \in T
    OBVIOUS
  <2> HIDE DEF T
  <2>2. n - i <= n - j /\ i \in Int /\ j \in Int
    BY <1>2, <1>3, <2>1
  <2>3. QED
    BY <2>2
<1>5. Max(u) \in u /\ \A k \in u : Max(u) >= k
  BY <1>4 DEF Max
<1>6. \A k \in u : k \in Int
  OBVIOUS
<1>7. QED
  BY <1>5, <1>6

LEMMA MaxOfPrefix ==
    ASSUME NEW k \in Nat \ {0}
    PROVE  Max(1 .. k) = k /\ (1 .. k) \ {k} = 1 .. k - 1
<1>1. Max(1 .. k) \in 1 .. k /\ \A j \in 1 .. k : j <= Max(1 .. k)
  <2>1. 1 .. k \in SUBSET (1 .. k) /\ 1 .. k # {} /\ k \in Nat
    OBVIOUS
  <2>2. QED
    BY <2>1, MaxOfSet
<1>2. k <= Max(1 .. k) /\ Max(1 .. k) <= k /\ Max(1 .. k) \in Int
  BY <1>1
<1>3. QED
  BY <1>2

(* The values on the prefixes of a sequence are determined step by step.   *)
SameStep(f, g, k) == f[1 .. k - 1] = g[1 .. k - 1] => f[1 .. k] = g[1 .. k]

LEMMA PrefixesAgree ==
    ASSUME NEW n \in Nat, NEW f, NEW g, f[{}] = g[{}],
           \A k \in 1 .. n : SameStep(f, g, k)
    PROVE  \A k \in 0 .. n : f[1 .. k] = g[1 .. k]
<1> DEFINE good == {k \in 0 .. n : f[1 .. k] = g[1 .. k]}
<1>1. 0 \in good
  <2>1. 1 .. 0 = {}
    OBVIOUS
  <2>2. QED
    BY <2>1
<1>2. \A k \in 1 .. n : k - 1 \in good => k \in good
  BY DEF SameStep
<1>3. good \in SUBSET (0 .. n)
  OBVIOUS
<1> HIDE DEF good
<1>4. \A k \in 0 .. n : k \in good
  BY <1>1, <1>2, <1>3, AllNumbers
<1>5. QED
  BY <1>4 DEF good

IsIndexFold(f, n, A, base, step) ==
    /\ f \in [SUBSET (1 .. n) -> A]
    /\ \A u \in SUBSET (1 .. n) :
          f[u] = IF u = {} THEN base ELSE step[Max(u)][f[u \ {Max(u)}]]

LEMMA FoldOverIndices ==
    ASSUME NEW n \in Nat, NEW A, NEW base, base \in A, NEW step, Steps(step, 1 .. n, A)
    PROVE  \E f : IsIndexFold(f, n, A, base, step)
<1> DEFINE pick == [u \in (SUBSET (1 .. n)) \ {{}} |-> Max(u)]
<1>1. Picks(pick, 1 .. n) /\ \A u \in (SUBSET (1 .. n)) \ {{}} : pick[u] = Max(u)
  BY MaxOfSet DEF Picks
<1>2. IsFiniteSet(1 .. n)
  BY FS_Interval
<1> HIDE DEF pick
<1>3. PICK f : IsSetFold(f, 1 .. n, A, base, pick, step)
  BY <1>1, <1>2, FoldExists
<1>4. ASSUME NEW u \in SUBSET (1 .. n)
      PROVE  f[u] = IF u = {} THEN base ELSE step[Max(u)][f[u \ {Max(u)}]]
  <2>1. u # {} => pick[u] = Max(u)
    BY <1>1
  <2>2. QED
    BY <1>3, <2>1 DEF IsSetFold
<1>5. QED
  BY <1>3, <1>4 DEF IsSetFold, IsIndexFold

(* A fold over sequences of E, step by step: the function F is that of the *)
(* sequences; h is that which FoldLeft chooses from, so there is one; and  *)
(* whatever it chooses, f, gives the value of F.                           *)
IsPrefixFold(f, s, A, base, step) ==
    /\ f[{}] = base
    /\ \A k \in 1 .. Len(s) :
          f[1 .. k - 1] \in A => f[1 .. k] = step[f[1 .. k - 1]][s[k]]

IsSequenceFold(h, s, A, base, step) ==
    /\ h \in [SUBSET (1 .. Len(s)) -> A]
    /\ \A u \in SUBSET (1 .. Len(s)) :
          h[u] = IF u = {} THEN base ELSE step[h[u \ {Max(u)}]][s[Max(u)]]

FoldsTo(F, E, A, base, step) ==
    /\ F \in [Seq(E) -> A] /\ F[<<>>] = base
    /\ \A s \in Seq(E), e \in E : F[Append(s, e)] = step[F[s]][e]
    /\ \A s \in Seq(E) :
          /\ \E h : IsSequenceFold(h, s, A, base, step)
          /\ \A f : IsPrefixFold(f, s, A, base, step) => f[1 .. Len(s)] = F[s]

LEMMA SequenceFold ==
    ASSUME NEW E, NEW A, NEW base, base \in A, NEW step, step \in [A -> [E -> A]]
    PROVE  \E F : FoldsTo(F, E, A, base, step)
<1> DEFINE Fold(h, s) == IsSequenceFold(h, s, A, base, step)
           H(s) == CHOOSE h : Fold(h, s)
           F == [s \in Seq(E) |-> H(s)[1 .. Len(s)]]
<1>1. ASSUME NEW s \in Seq(E)
      PROVE  \E h : Fold(h, s)
  <2> DEFINE at == [i \in 1 .. Len(s) |-> [acc \in A |-> step[acc][s[i]]]]
  <2>1. Len(s) \in Nat /\ \A i \in 1 .. Len(s) : s[i] \in E
    OBVIOUS
  <2>2. Steps(at, 1 .. Len(s), A)
    BY <2>1 DEF Steps
  <2>3. PICK h : IsIndexFold(h, Len(s), A, base, at)
    <3> HIDE DEF at
    <3>1. QED
      BY <2>1, <2>2, FoldOverIndices
  <2>4. ASSUME NEW u \in SUBSET (1 .. Len(s)), u # {}
        PROVE  at[Max(u)][h[u \ {Max(u)}]] = step[h[u \ {Max(u)}]][s[Max(u)]]
    <3>1. Max(u) \in 1 .. Len(s)
      BY <2>1, <2>4, MaxOfSet
    <3>2. h[u \ {Max(u)}] \in A
      BY <2>3 DEF IsIndexFold
    <3>3. QED
      BY <3>1, <3>2
  <2> HIDE DEF at
  <2>5. Fold(h, s)
    BY <2>3, <2>4 DEF IsIndexFold, IsSequenceFold
  <2>6. QED
    BY <2>5
<1>2. ASSUME NEW s \in Seq(E)
      PROVE  Fold(H(s), s) /\ Len(s) \in Nat /\ H(s)[{}] = base /\ H(s)[1 .. Len(s)] \in A
  <2>1. Fold(H(s), s)
    BY <1>1
  <2> HIDE DEF H
  <2>2. {} \in SUBSET (1 .. Len(s)) /\ 1 .. Len(s) \in SUBSET (1 .. Len(s)) /\ Len(s) \in Nat
    OBVIOUS
  <2>3. QED
    BY <2>1, <2>2 DEF IsSequenceFold
<1> HIDE DEF H, Fold
<1>3. ASSUME NEW s \in Seq(E), NEW k \in 1 .. Len(s)
      PROVE  H(s)[1 .. k] = step[H(s)[1 .. k - 1]][s[k]] /\ H(s)[1 .. k - 1] \in A
  <2>1. 1 .. k \in SUBSET (1 .. Len(s)) /\ 1 .. k - 1 \in SUBSET (1 .. Len(s))
        /\ 1 .. k # {} /\ k \in Nat \ {0}
    <3>1. k \in Nat \ {0} /\ k <= Len(s) /\ Len(s) \in Nat
      OBVIOUS
    <3>2. k \in 1 .. k /\ (\A i \in 1 .. k : i \in 1 .. Len(s)) /\ (\A i \in 1 .. k - 1 : i \in 1 .. Len(s))
      BY <3>1
    <3>3. QED
      BY <3>1, <3>2
  <2>2. H(s)[1 .. k] = step[H(s)[(1 .. k) \ {Max(1 .. k)}]][s[Max(1 .. k)]]
        /\ H(s)[1 .. k - 1] \in A
    <3>1. IsSequenceFold(H(s), s, A, base, step)
      BY <1>2 DEF Fold
    <3>2. \A u \in SUBSET (1 .. Len(s)) : H(s)[u] \in A
      BY <3>1 DEF IsSequenceFold
    <3>3. \A u \in SUBSET (1 .. Len(s)) :
             u # {} => H(s)[u] = step[H(s)[u \ {Max(u)}]][s[Max(u)]]
      BY <3>1 DEF IsSequenceFold
    <3>4. QED
      BY <2>1, <3>2, <3>3
  <2>3. QED
    BY <2>1, <2>2, MaxOfPrefix
<1>4. ASSUME NEW s \in Seq(E), NEW f, IsPrefixFold(f, s, A, base, step)
      PROVE  f[1 .. Len(s)] = F[s]
  <2>1. ASSUME NEW k \in 1 .. Len(s)
        PROVE  SameStep(f, H(s), k)
    BY <1>3, <1>4 DEF SameStep, IsPrefixFold
  <2>2. f[{}] = H(s)[{}] /\ Len(s) \in Nat
    BY <1>2, <1>4 DEF IsPrefixFold
  <2>3. \A k \in 0 .. Len(s) : f[1 .. k] = H(s)[1 .. k]
    BY <2>1, <2>2, PrefixesAgree
  <2>4. QED
    BY <2>2, <2>3
<1>5. F \in [Seq(E) -> A]
  BY <1>2
<1>6. F[<<>>] = base
  <2>1. <<>> \in Seq(E) /\ Len(<<>>) = 0 /\ 1 .. 0 = {}
    OBVIOUS
  <2>2. F[<<>>] = H(<<>>)[{}]
    BY <2>1
  <2>3. QED
    BY <1>2, <2>1, <2>2
<1>7. ASSUME NEW s \in Seq(E), NEW e \in E
      PROVE  F[Append(s, e)] = step[F[s]][e]
  <2>1. PICK t : t = Append(s, e)
    OBVIOUS
  <2>2. /\ t \in Seq(E) /\ Len(s) \in Nat /\ Len(t) = Len(s) + 1 /\ t[Len(s) + 1] = e
        /\ \A i \in 1 .. Len(s) : t[i] = s[i]
    BY <2>1
  <2>3. F[t] = H(t)[1 .. Len(s) + 1]
    BY <2>2
  <2> HIDE DEF F
  <2>4. IsPrefixFold(H(t), s, A, base, step)
    <3>1. H(t)[{}] = base
      BY <1>2, <2>2
    <3>2. ASSUME NEW k \in 1 .. Len(s)
          PROVE  H(t)[1 .. k] = step[H(t)[1 .. k - 1]][s[k]]
      <4>1. k \in 1 .. Len(t) /\ t[k] = s[k]
        BY <2>2
      <4>2. QED
        BY <1>3, <2>2, <4>1
    <3>3. QED
      BY <3>1, <3>2 DEF IsPrefixFold
  <2>5. H(t)[1 .. Len(s)] = F[s]
    BY <1>4, <2>4
  <2>6. H(t)[1 .. Len(s) + 1] = step[H(t)[1 .. Len(s)]][e]
    <3>1. Len(s) + 1 \in 1 .. Len(t) /\ (Len(s) + 1) - 1 = Len(s)
      BY <2>2
    <3>2. QED
      BY <1>3, <2>2, <3>1
  <2>7. QED
    BY <2>1, <2>3, <2>5, <2>6
<1>8. QED
  <2> HIDE DEF F
  <2>1. \A s \in Seq(E) : \E h : IsSequenceFold(h, s, A, base, step)
    BY <1>1 DEF Fold
  <2>2. FoldsTo(F, E, A, base, step)
    BY <1>4, <1>5, <1>6, <1>7, <2>1 DEF FoldsTo
  <2>3. QED
    BY <2>2

-----------------------------------------------------------------------------
(* The beginnings of a sequence.                                           *)

LEMMA Beginnings ==
    ASSUME NEW S, NEW s \in Seq(S)
    PROVE  /\ SubSeq(s, 1, 0) = <<>> /\ SubSeq(s, 1, Len(s)) = s
           /\ \A i \in 0 .. Len(s) : SubSeq(s, 1, i) \in Seq(S) /\ Len(SubSeq(s, 1, i)) = i
           /\ \A i \in 0 .. Len(s) : \A j \in 1 .. i : SubSeq(s, 1, i)[j] = s[j]
           /\ \A i \in 1 .. Len(s) : SubSeq(s, 1, i) = Append(SubSeq(s, 1, i - 1), s[i])
<1>1. Len(s) \in Nat /\ \A i \in 1 .. Len(s) : s[i] \in S
  OBVIOUS
<1>2. ASSUME NEW i \in 0 .. Len(s)
      PROVE  /\ SubSeq(s, 1, i) \in Seq(S) /\ Len(SubSeq(s, 1, i)) = i
             /\ \A j \in 1 .. i : SubSeq(s, 1, i)[j] = s[j]
  <2>1. \A j \in 1 .. i : s[j] \in S
    BY <1>1
  <2>2. i \in Int /\ i >= 0
    BY <1>1
  <2>3. QED
    BY <2>1, <2>2, SubSeqProperties
<1>3. ASSUME NEW i \in 1 .. Len(s)
      PROVE  SubSeq(s, 1, i) = Append(SubSeq(s, 1, i - 1), s[i])
  <2>1. SubSeq(s, 1, i) = SubSeq(s, 1, i - 1) \o <<s[i]>>
    <3>1. 1 \in 1 .. Len(s) /\ i \in 1 .. Len(s)
      BY <1>1
    <3>2. QED
      BY <3>1, SubSeqRecursiveSecond
  <2>2. SubSeq(s, 1, i - 1) \in Seq(S) /\ s[i] \in S
    BY <1>1, <1>2
  <2>3. QED
    BY <2>1, <2>2, AppendIsConcat
<1>4. SubSeq(s, 1, 0) = <<>>
  BY SubSeqEmpty
<1>5. SubSeq(s, 1, Len(s)) = s
  BY SubSeqFull
<1>6. QED
  BY <1>2, <1>3, <1>4, <1>5

LEMMA BeginningsOfAppend ==
    ASSUME NEW S, NEW s \in Seq(S), NEW e \in S
    PROVE  \A i \in 0 .. Len(s) : SubSeq(Append(s, e), 1, i) = SubSeq(s, 1, i)
<1>1. PICK t : t = Append(s, e)
  OBVIOUS
<1>2. /\ t \in Seq(S) /\ Len(s) \in Nat /\ Len(t) = Len(s) + 1
      /\ \A i \in 1 .. Len(s) : t[i] = s[i]
  BY <1>1
<1>3. ASSUME NEW i \in 0 .. Len(s)
      PROVE  SubSeq(t, 1, i) = SubSeq(s, 1, i)
  <2>1. i \in 0 .. Len(t) /\ i \in Nat /\ \A j \in 1 .. i : j \in 1 .. Len(s)
    BY <1>2
  <2>2. /\ SubSeq(t, 1, i) \in Seq(S) /\ Len(SubSeq(t, 1, i)) = i
        /\ \A j \in 1 .. i : SubSeq(t, 1, i)[j] = t[j]
    BY <1>2, <2>1, Beginnings
  <2>3. /\ SubSeq(s, 1, i) \in Seq(S) /\ Len(SubSeq(s, 1, i)) = i
        /\ \A j \in 1 .. i : SubSeq(s, 1, i)[j] = s[j]
    BY Beginnings
  <2>4. \A j \in 1 .. i : SubSeq(t, 1, i)[j] = SubSeq(s, 1, i)[j]
    BY <1>2, <2>1, <2>2, <2>3
  <2>5. QED
    BY <2>2, <2>3, <2>4, SeqEqual
<1>4. QED
  BY <1>1, <1>3

LEMMA BeginningsAfter ==
    ASSUME NEW S, NEW h \in S, NEW s \in Seq(S)
    PROVE  \A i \in 0 .. Len(s) : SubSeq(<<h>> \o s, 1, i + 1) = <<h>> \o SubSeq(s, 1, i)
<1>1. PICK t : t = <<h>> \o s
  OBVIOUS
<1>2. <<h>> \in Seq(S) /\ Len(<<h>>) = 1 /\ <<h>>[1] = h /\ Len(s) \in Nat
  OBVIOUS
<1>3. /\ t \in Seq(S) /\ Len(t) = 1 + Len(s) /\ t[1] = h
      /\ \A j \in 2 .. Len(s) + 1 : t[j] = s[j - 1]
  BY <1>1, <1>2, ConcatProperties
<1>4. ASSUME NEW i \in 0 .. Len(s)
      PROVE  SubSeq(t, 1, i + 1) = <<h>> \o SubSeq(s, 1, i)
  <2>1. i \in Nat /\ i <= Len(s) /\ i + 1 \in 0 .. Len(t)
    BY <1>2, <1>3
  <2>2. PICK x : x = SubSeq(s, 1, i)
    OBVIOUS
  <2>3. x \in Seq(S) /\ Len(x) = i /\ \A j \in 1 .. i : x[j] = s[j]
    BY <2>1, <2>2, Beginnings
  <2>4. /\ <<h>> \o x \in Seq(S) /\ Len(<<h>> \o x) = 1 + i /\ (<<h>> \o x)[1] = h
        /\ \A j \in 2 .. i + 1 : (<<h>> \o x)[j] = x[j - 1]
    BY <1>2, <2>1, <2>3, ConcatProperties
  <2>5. /\ SubSeq(t, 1, i + 1) \in Seq(S) /\ Len(SubSeq(t, 1, i + 1)) = i + 1
        /\ \A j \in 1 .. i + 1 : SubSeq(t, 1, i + 1)[j] = t[j]
    BY <1>3, <2>1, Beginnings
  <2>6. ASSUME NEW j \in 1 .. i + 1
        PROVE  SubSeq(t, 1, i + 1)[j] = (<<h>> \o x)[j]
    <3>1. SubSeq(t, 1, i + 1)[j] = t[j]
      BY <2>5
    <3>2. CASE j = 1
      BY <1>3, <2>4, <3>1, <3>2
    <3>3. CASE j # 1
      <4>1. j \in 2 .. i + 1 /\ j - 1 \in 1 .. i /\ j \in 2 .. Len(s) + 1
        BY <2>1, <3>3
      <4>2. QED
        BY <1>3, <2>3, <2>4, <3>1, <4>1
    <3>4. QED
      BY <3>2, <3>3
  <2>7. QED
    BY <2>1, <2>2, <2>4, <2>5, <2>6, SeqEqual
<1>5. QED
  BY <1>1, <1>4

LEMMA ConcatAppend ==
    ASSUME NEW S, NEW a \in Seq(S), NEW b \in Seq(S), NEW l \in S
    PROVE  a \o Append(b, l) = Append(a \o b, l)
<1>1. <<l>> \in Seq(S) /\ a \o b \in Seq(S)
  BY ConcatProperties
<1>2. Append(b, l) = b \o <<l>> /\ Append(a \o b, l) = (a \o b) \o <<l>>
  BY <1>1, AppendIsConcat
<1>3. QED
  BY <1>1, <1>2, ConcatAssociative

-----------------------------------------------------------------------------
(* Finite sets: what holds of a set whenever it holds of the set without   *)
(* any one of its elements; and sums.                                      *)

LEMMA AllSubsets ==
    ASSUME NEW S, IsFiniteSet(S), NEW good \in SUBSET (SUBSET S), {} \in good,
           \A u \in SUBSET S : u # {} /\ (\A x \in u : u \ {x} \in good) => u \in good
    PROVE  \A u \in SUBSET S : u \in good
<1> DEFINE sizes == {n \in 0 .. Cardinality(S) : \A u \in SUBSET S : Cardinality(u) <= n => u \in good}
<1>1. Cardinality(S) \in Nat /\ \A u \in SUBSET S : IsFiniteSet(u) /\ Cardinality(u) \in 0 .. Cardinality(S)
  BY FS_Subset, FS_CardinalityType
<1>2. 0 \in sizes
  <2>1. \A u \in SUBSET S : Cardinality(u) <= 0 => u = {}
    BY <1>1, FS_EmptySet
  <2>2. \A u \in SUBSET S : Cardinality(u) <= 0 => u \in good
    BY <2>1
  <2>3. 0 \in 0 .. Cardinality(S)
    BY <1>1
  <2>4. QED
    BY <2>2, <2>3
<1>3. ASSUME NEW n \in 1 .. Cardinality(S), n - 1 \in sizes
      PROVE  n \in sizes
  <2>1. ASSUME NEW u \in SUBSET S, Cardinality(u) <= n
        PROVE  u \in good
    <3>1. CASE u = {}
      BY <3>1
    <3>2. CASE u # {}
      <4>1. ASSUME NEW x \in u
            PROVE  u \ {x} \in good
        <5>1. Cardinality(u \ {x}) = Cardinality(u) - 1 /\ u \ {x} \in SUBSET S
          BY <1>1, FS_RemoveElement
        <5>2. Cardinality(u \ {x}) <= n - 1
          BY <1>1, <2>1, <5>1
        <5>3. QED
          BY <1>3, <5>1, <5>2
      <4>2. QED
        BY <3>2, <4>1
    <3>3. QED
      BY <3>1, <3>2
  <2>2. n \in 0 .. Cardinality(S)
    BY <1>1
  <2>3. QED
    BY <2>1, <2>2
<1>4. sizes \in SUBSET (0 .. Cardinality(S))
  OBVIOUS
<1> HIDE DEF sizes
<1>5. \A n \in 0 .. Cardinality(S) : n \in sizes
  BY <1>1, <1>2, <1>3, <1>4, AllNumbers
<1>6. Cardinality(S) \in sizes
  BY <1>1, <1>5
<1>7. QED
  BY <1>1, <1>6 DEF sizes

Sums(f, S, weight) ==
    /\ f \in [SUBSET S -> Nat] /\ f[{}] = 0
    /\ \A u \in SUBSET S : u # {} => \E p \in u : f[u] = weight[p] + f[u \ {p}]

Weights(weight, S) == weight \in [S -> Nat]

AnyOrder(f, S, weight) == \A u \in SUBSET S : \A x \in u : f[u] = weight[x] + f[u \ {x}]

(* The order in which a sum is taken does not matter.                      *)
LEMMA SumInAnyOrder ==
    ASSUME NEW S, IsFiniteSet(S), NEW weight, Weights(weight, S), NEW f, Sums(f, S, weight)
    PROVE  AnyOrder(f, S, weight)
<1> DEFINE good == {u \in SUBSET S : \A x \in u : f[u] = weight[x] + f[u \ {x}]}
<1>1. /\ f \in [SUBSET S -> Nat] /\ weight \in [S -> Nat]
      /\ \A u \in SUBSET S : u # {} => \E p \in u : f[u] = weight[p] + f[u \ {p}]
  BY DEF Sums, Weights
<1>2. {} \in good /\ good \in SUBSET (SUBSET S)
  OBVIOUS
<1>3. ASSUME NEW u \in SUBSET S, u # {}, \A x \in u : u \ {x} \in good
      PROVE  u \in good
  <2>1. PICK p \in u : f[u] = weight[p] + f[u \ {p}]
    BY <1>1, <1>3
  <2>2. ASSUME NEW x \in u, x # p
        PROVE  f[u] = weight[x] + f[u \ {x}]
    <3>1. PICK v : v = (u \ {x}) \ {p}
      OBVIOUS
    <3>2. v = (u \ {p}) \ {x} /\ v \in SUBSET S /\ p \in u \ {x} /\ x \in u \ {p}
      BY <2>2, <3>1
    <3>3. f[u \ {p}] = weight[x] + f[v] /\ f[u \ {x}] = weight[p] + f[v]
      <4>1. u \ {p} \in good /\ u \ {x} \in good
        BY <1>3
      <4>2. QED
        BY <3>1, <3>2, <4>1
    <3>4. f[v] \in Nat /\ weight[x] \in Nat /\ weight[p] \in Nat
      BY <1>1, <3>2
    <3>5. QED
      BY <2>1, <3>3, <3>4
  <2>3. QED
    BY <2>1, <2>2
<1> HIDE DEF good
<1>4. \A u \in SUBSET S : u \in good
  BY <1>2, <1>3, AllSubsets
<1>5. QED
  BY <1>4 DEF good, AnyOrder

(* A sum over things of different keys is no larger than one over the keys *)
(* if none of them weighs more than its key.                               *)
Keyed(key, C, L, weight, limit) ==
    /\ key \in [C -> L]
    /\ \A c \in C : weight[c] <= limit[key[c]]
    /\ \A c, d \in C : key[c] = key[d] => c = d

LEMMA SumBelow ==
    ASSUME NEW C, IsFiniteSet(C), NEW weight, Weights(weight, C), NEW f, Sums(f, C, weight),
           NEW L, IsFiniteSet(L), NEW limit, Weights(limit, L), NEW g, Sums(g, L, limit),
           NEW key, Keyed(key, C, L, weight, limit)
    PROVE  f[C] <= g[L]
<1> DEFINE of(v) == {c \in C : key[c] \in v}
           good == {v \in SUBSET L : f[of(v)] <= g[v]}
<1>1. /\ f \in [SUBSET C -> Nat] /\ weight \in [C -> Nat] /\ f[{}] = 0
      /\ g \in [SUBSET L -> Nat] /\ limit \in [L -> Nat] /\ g[{}] = 0
      /\ key \in [C -> L] /\ (\A c \in C : weight[c] <= limit[key[c]])
      /\ (\A c, d \in C : key[c] = key[d] => c = d)
  BY DEF Sums, Weights, Keyed
<1>2. \A u \in SUBSET C : \A x \in u : f[u] = weight[x] + f[u \ {x}]
  <2>1. AnyOrder(f, C, weight)
    BY Zenon, SumInAnyOrder
  <2>2. QED
    BY <2>1 DEF AnyOrder
<1>3. {} \in good
  <2>1. of({}) = {} /\ {} \in SUBSET L
    OBVIOUS
  <2> HIDE DEF of
  <2>2. f[of({})] = 0 /\ g[{}] = 0
    BY <1>1, <2>1
  <2>3. f[of({})] <= g[{}]
    BY <2>2
  <2>4. QED
    BY <2>1, <2>3
<1>4. ASSUME NEW v \in SUBSET L, v # {}, \A x \in v : v \ {x} \in good
      PROVE  v \in good
  <2>1. PICK p \in v : g[v] = limit[p] + g[v \ {p}]
    BY <1>4 DEF Sums
  <2>2. f[of(v \ {p})] <= g[v \ {p}] /\ v \ {p} \in SUBSET L
    BY <1>4
  <2>3. /\ f[of(v)] \in Nat /\ f[of(v \ {p})] \in Nat /\ g[v \ {p}] \in Nat /\ limit[p] \in Nat
    <3>1. of(v) \in SUBSET C /\ of(v \ {p}) \in SUBSET C
      OBVIOUS
    <3> HIDE DEF of
    <3>2. QED
      BY <1>1, <2>2, <3>1
  <2>4. CASE \E c \in C : key[c] = p
    <3>1. PICK c \in C : key[c] = p
      BY <2>4
    <3>2. c \in of(v) /\ of(v) \in SUBSET C /\ of(v) \ {c} = of(v \ {p})
      BY <1>1, <3>1
    <3> HIDE DEF of
    <3>3. f[of(v)] = weight[c] + f[of(v \ {p})]
      BY <1>2, <3>2
    <3>4. weight[c] <= limit[p] /\ weight[c] \in Nat
      BY <1>1, <3>1
    <3>5. f[of(v)] <= g[v]
      BY <2>1, <2>2, <2>3, <3>3, <3>4
    <3>6. QED
      BY <3>5
  <2>5. CASE ~ \E c \in C : key[c] = p
    <3>1. of(v) = of(v \ {p})
      BY <1>1, <2>5
    <3> HIDE DEF of
    <3>2. f[of(v)] <= g[v]
      BY <2>1, <2>2, <2>3, <3>1
    <3>3. QED
      BY <3>2
  <2>6. QED
    BY <2>4, <2>5
<1>5. good \in SUBSET (SUBSET L)
  OBVIOUS
<1>6. L \in good
  <2> HIDE DEF good
  <2>1. \A v \in SUBSET L : v \in good
    BY <1>3, <1>4, <1>5, AllSubsets
  <2>2. QED
    BY <2>1
<1>7. of(L) = C
  BY <1>1
<1> HIDE DEF of
<1>8. QED
  BY <1>6, <1>7

(* What MapThenSumSet chooses from, and what it chooses.                   *)
SumsUp(f, S, weight) ==
    f = [u \in SUBSET S |-> IF u = {} THEN 0
                            ELSE weight[CHOOSE x \in u : TRUE] + f[u \ {CHOOSE x \in u : TRUE}]]

LEMMA SumExists ==
    ASSUME NEW S, IsFiniteSet(S), NEW weight, Weights(weight, S)
    PROVE  \E f : SumsUp(f, S, weight)
<1> DEFINE pick == [u \in (SUBSET S) \ {{}} |-> CHOOSE x \in u : TRUE]
           step == [x \in S |-> [a \in Nat |-> weight[x] + a]]
<1>1. \A u \in (SUBSET S) \ {{}} : (CHOOSE x \in u : TRUE) \in u
  OBVIOUS
<1>2. Picks(pick, S) /\ \A u \in (SUBSET S) \ {{}} : pick[u] = CHOOSE x \in u : TRUE
  BY <1>1 DEF Picks
<1>3. Steps(step, S, Nat) /\ \A x \in S, a \in Nat : step[x][a] = weight[x] + a
  BY DEF Steps, Weights
<1> HIDE DEF pick, step
<1>4. 0 \in Nat
  OBVIOUS
<1>5. PICK f : IsSetFold(f, S, Nat, 0, pick, step)
  BY <1>2, <1>3, <1>4, FoldExists
<1>6. f \in [SUBSET S -> Nat]
  BY <1>5 DEF IsSetFold
<1>7. ASSUME NEW u \in SUBSET S
      PROVE  f[u] = IF u = {} THEN 0
                    ELSE weight[CHOOSE x \in u : TRUE] + f[u \ {CHOOSE x \in u : TRUE}]
  <2>1. CASE u # {}
    <3>1. PICK p : p = CHOOSE x \in u : TRUE
      OBVIOUS
    <3>2. p \in u /\ pick[u] = p
      BY <1>1, <1>2, <2>1, <3>1
    <3>3. f[u] = step[p][f[u \ {p}]]
      BY <1>5, <2>1, <3>2 DEF IsSetFold
    <3>4. p \in S /\ f[u \ {p}] \in Nat
      BY <1>6, <3>2
    <3>5. QED
      BY <1>3, <2>1, <3>1, <3>3, <3>4
  <2>2. CASE u = {}
    BY <1>5, <2>2 DEF IsSetFold
  <2>3. QED
    BY <2>1, <2>2
<1>8. QED
  BY <1>6, <1>7 DEF SumsUp

LEMMA SumIsSum ==
    ASSUME NEW S, IsFiniteSet(S), NEW weight, Weights(weight, S), NEW f, SumsUp(f, S, weight)
    PROVE  Sums(f, S, weight)
<1> DEFINE good == {u \in SUBSET S : f[u] \in Nat}
<1>1. ASSUME NEW u \in SUBSET S, u # {}
      PROVE  \E p \in u : f[u] = weight[p] + f[u \ {p}]
  <2>1. PICK p : p = CHOOSE x \in u : TRUE
    OBVIOUS
  <2>2. p \in u
    BY <1>1, <2>1
  <2>3. f[u] = weight[p] + f[u \ {p}]
    BY <1>1, <2>1 DEF SumsUp
  <2>4. QED
    BY <2>2, <2>3
<1>2. f[{}] = 0 /\ DOMAIN f = SUBSET S /\ f = [u \in SUBSET S |-> f[u]]
  BY DEF SumsUp
<1>3. ASSUME NEW u \in SUBSET S, u # {}, \A x \in u : u \ {x} \in good
      PROVE  u \in good
  <2>1. PICK p \in u : f[u] = weight[p] + f[u \ {p}]
    BY <1>1, <1>3
  <2>2. f[u \ {p}] \in Nat /\ weight[p] \in Nat
    BY <1>3 DEF Weights
  <2>3. QED
    BY <2>1, <2>2
<1>4. {} \in good /\ good \in SUBSET (SUBSET S)
  BY <1>2
<1>5. \A u \in SUBSET S : u \in good
  <2> HIDE DEF good
  <2>1. QED
    BY <1>3, <1>4, AllSubsets
<1>6. f \in [SUBSET S -> Nat]
  BY <1>2, <1>5
<1>7. QED
  BY <1>1, <1>2, <1>6 DEF Sums
=============================================================================
