-------------------------- MODULE CastSliceProofs --------------------------
(***************************************************************************)
(* Adjacent slices of a recording show what the recording shows: by what   *)
(* SliceCast and a player hold after every line.                           *)
(***************************************************************************)
EXTENDS CastSlice, FoldProofs

(* What a player and SliceCast keep.                                       *)
ShownEvents == [typ : {"h", "o", "i", "r"}, t : Nat, size : Nat, data : Seq(STRING), n : Nat]
ShowStates == [out : Seq(ShownEvents), size : Nat]
SliceStates == [out : Seq(CastLines), size : Seq(CastLines), restored : BOOLEAN]

LEMMA ShowStepType ==
    ASSUME NEW offset \in Nat, NEW first \in Nat
    PROVE  /\ NothingShown \in ShowStates
           /\ \A acc \in ShowStates, l \in CastLines : ShowStep(acc, l, offset, first) \in ShowStates
<1>1. NothingShown \in ShowStates
  BY DEF NothingShown, ShowStates
<1>2. ASSUME NEW acc \in ShowStates, NEW l \in CastLines
      PROVE  ShowStep(acc, l, offset, first) \in ShowStates
  <2>1. acc.out \in Seq(ShownEvents) /\ acc.size \in Nat /\ l.n \in Nat
    BY DEF ShowStates, CastLines
  <2>2. PICK e : e = [typ |-> l.typ, t |-> l.t + offset, size |-> acc.size, data |-> l.data, n |-> l.n]
    OBVIOUS
  <2>3. e \in ShownEvents
    BY <2>1, <2>2 DEF CastLines, ShownEvents
  <2>4. Append(acc.out, e) \in Seq(ShownEvents)
    BY <2>1, <2>3
  <2>5. [acc EXCEPT !.size = l.n] \in ShowStates
    BY <2>1 DEF ShowStates
  <2>6. [acc EXCEPT !.out = Append(acc.out, e)] \in ShowStates
    BY <2>4 DEF ShowStates
  <2>7. QED
    BY <2>2, <2>5, <2>6 DEF ShowStep
<1>3. QED
  BY <1>1, <1>2

LEMMA ShiftedType ==
    ASSUME NEW l \in CastLines, NEW by \in Int
    PROVE  Shifted(l, by) \in CastLines
<1>1. PICK t : t = IF l.t + by < 0 THEN 0 ELSE l.t + by
  OBVIOUS
<1>2. t \in Nat
  BY <1>1 DEF CastLines
<1>3. [l EXCEPT !.t = t] \in CastLines
  BY <1>2 DEF CastLines
<1>4. QED
  BY <1>1, <1>3 DEF Shifted

LEMMA AtStartType ==
    ASSUME NEW size \in Seq(CastLines)
    PROVE  AtStart(size) \in Seq(CastLines)
<1>1. CASE size # <<>>
  <2>1. PICK r : r = [Head(size) EXCEPT !.t = 0]
    OBVIOUS
  <2>2. Head(size) \in CastLines
    BY <1>1
  <2>3. r \in CastLines
    BY <2>1, <2>2 DEF CastLines
  <2>4. QED
    BY <1>1, <2>1, <2>3 DEF AtStart
<1>2. QED
  BY <1>1 DEF AtStart

LEMMA SliceStepType ==
    ASSUME NEW from \in Nat, NEW to \in Nat
    PROVE  /\ NothingSliced \in SliceStates
           /\ \A acc \in SliceStates, l \in CastLines : SliceStep(acc, l, from, to) \in SliceStates
<1>1. NothingSliced \in SliceStates
  BY DEF NothingSliced, SliceStates
<1>2. ASSUME NEW acc \in SliceStates, NEW l \in CastLines
      PROVE  SliceStep(acc, l, from, to) \in SliceStates
  <2>1. acc.out \in Seq(CastLines) /\ acc.size \in Seq(CastLines)
    BY DEF SliceStates
  <2>2. PICK e : e = Shifted(l, -from)
    OBVIOUS
  <2>3. PICK x : x = IF acc.restored THEN acc.out ELSE acc.out \o AtStart(acc.size)
    OBVIOUS
  <2>4. e \in CastLines
    BY <2>2, ShiftedType
  <2>5. x \in Seq(CastLines)
    BY <2>1, <2>3, AtStartType
  <2>6. Append(x, e) \in Seq(CastLines)
    BY <2>4, <2>5
  <2>7. [acc EXCEPT !.out = Append(x, e), !.restored = TRUE] \in SliceStates
    BY <2>6 DEF SliceStates
  <2>8. PICK r : r = IF l.typ = "r" THEN <<l>> ELSE acc.size
    OBVIOUS
  <2>9. r \in Seq(CastLines)
    BY <2>1, <2>8
  <2>10. [acc EXCEPT !.size = r] \in SliceStates
    BY <2>9 DEF SliceStates
  <2>11. CASE l.t < from
    BY <2>8, <2>10, <2>11 DEF SliceStep
  <2>12. CASE ~(l.t < from) /\ l.t >= to
    BY <2>12 DEF SliceStep
  <2>13. CASE ~(l.t < from) /\ ~(l.t >= to)
    BY <2>2, <2>3, <2>7, <2>13 DEF SliceStep
  <2>14. QED
    BY <2>11, <2>12, <2>13
<1>3. QED
  BY <1>1, <1>2

LEMMA ShowUnfolded ==
    ASSUME NEW s, NEW offset, NEW first
    PROVE  LET It(f) == [u \in SUBSET (DOMAIN s) |->
                            IF u = {} THEN NothingShown
                            ELSE ShowStep(f[u \ {Max(u)}], s[Max(u)], offset, first)]
           IN ShowState(s, offset, first) = (CHOOSE f : f = It(f))[DOMAIN s]
BY Zenon DEF ShowState, FoldLeft, MapThenFoldSet

(* ShowState is what ShowStep makes of one line after the other.             *)
LEMMA ShowLineByLine ==
    ASSUME NEW offset \in Nat, NEW first \in Nat
    PROVE  /\ ShowState(<<>>, offset, first) = NothingShown
           /\ \A s \in Seq(CastLines) :
                 /\ ShowState(s, offset, first) \in ShowStates
                 /\ \A l \in CastLines :
                       ShowState(Append(s, l), offset, first) = ShowStep(ShowState(s, offset, first), l, offset, first)
<1> DEFINE step == [acc \in ShowStates |-> [l \in CastLines |-> ShowStep(acc, l, offset, first)]]
<1>1. NothingShown \in ShowStates
  BY ShowStepType
<1>2. step \in [ShowStates -> [CastLines -> ShowStates]]
      /\ \A acc \in ShowStates, l \in CastLines : step[acc][l] = ShowStep(acc, l, offset, first)
  BY ShowStepType
<1> HIDE DEF step
<1>3. PICK F : FoldsTo(F, CastLines, ShowStates, NothingShown, step)
  BY <1>1, <1>2, SequenceFold
<1>4. ASSUME NEW s \in Seq(CastLines)
      PROVE  ShowState(s, offset, first) = F[s]
  <2> DEFINE It(f) == [u \in SUBSET (DOMAIN s) |->
                         IF u = {} THEN NothingShown
                         ELSE ShowStep(f[u \ {Max(u)}], s[Max(u)], offset, first)]
             f == CHOOSE f : f = It(f)
  <2>1. ShowState(s, offset, first) = f[DOMAIN s]
    BY ShowUnfolded
  <2>2. Len(s) \in Nat /\ DOMAIN s = 1 .. Len(s) /\ \A i \in 1 .. Len(s) : s[i] \in CastLines
    OBVIOUS
  <2>3. PICK h : IsSequenceFold(h, s, ShowStates, NothingShown, step)
    BY <1>3 DEF FoldsTo
  <2>4. h = It(h)
    <3>1. ASSUME NEW u \in SUBSET (1 .. Len(s)), u # {}
          PROVE  h[u] = ShowStep(h[u \ {Max(u)}], s[Max(u)], offset, first)
      <4>1. Max(u) \in 1 .. Len(s) /\ u \ {Max(u)} \in SUBSET (1 .. Len(s))
        BY <2>2, <3>1, MaxOfSet
      <4>2. h[u] = step[h[u \ {Max(u)}]][s[Max(u)]] /\ h[u \ {Max(u)}] \in ShowStates
        BY <2>3, <3>1, <4>1 DEF IsSequenceFold
      <4>3. s[Max(u)] \in CastLines
        BY <2>2, <4>1
      <4>4. QED
        BY <1>2, <4>2, <4>3
    <3>2. h \in [SUBSET (1 .. Len(s)) -> ShowStates] /\ h[{}] = NothingShown
      BY <2>3 DEF IsSequenceFold
    <3>3. QED
      BY <2>2, <3>1, <3>2
  <2>5. f = It(f)
    <3> HIDE DEF It
    <3>1. QED
      BY <2>4
  <2> HIDE DEF f
  <2>6. IsPrefixFold(f, s, ShowStates, NothingShown, step)
    <3>1. \A u \in SUBSET (1 .. Len(s)) : f[u] = It(f)[u]
      <4> HIDE DEF It
      <4>1. QED
        BY <2>5
    <3>2. f[{}] = NothingShown
      BY <2>2, <3>1
    <3>3. ASSUME NEW k \in 1 .. Len(s), f[1 .. k - 1] \in ShowStates
          PROVE  f[1 .. k] = step[f[1 .. k - 1]][s[k]]
      <4>1. k \in Nat \ {0} /\ k <= Len(s) /\ 1 .. k \in SUBSET (1 .. Len(s)) /\ 1 .. k # {}
        <5>1. k \in Nat \ {0} /\ k <= Len(s) /\ k \in 1 .. k
          BY <2>2
        <5>2. \A i \in 1 .. k : i \in 1 .. Len(s)
          BY <2>2, <5>1
        <5>3. QED
          BY <5>1, <5>2
      <4>2. Max(1 .. k) = k /\ (1 .. k) \ {k} = 1 .. k - 1
        BY <4>1, MaxOfPrefix
      <4>3. f[1 .. k] = ShowStep(f[1 .. k - 1], s[k], offset, first)
        BY <2>2, <3>1, <4>1, <4>2
      <4>4. s[k] \in CastLines
        BY <2>2
      <4>5. QED
        BY <1>2, <3>3, <4>3, <4>4
    <3>4. QED
      BY <3>2, <3>3 DEF IsPrefixFold
  <2>7. f[1 .. Len(s)] = F[s]
    BY <1>3, <2>6 DEF FoldsTo
  <2>8. QED
    BY <2>1, <2>2, <2>7
<1>5. F \in [Seq(CastLines) -> ShowStates] /\ F[<<>>] = NothingShown
      /\ \A s \in Seq(CastLines), l \in CastLines : F[Append(s, l)] = step[F[s]][l]
  BY <1>3 DEF FoldsTo
<1>6. ShowState(<<>>, offset, first) = NothingShown
  <2>1. <<>> \in Seq(CastLines)
    OBVIOUS
  <2>2. QED
    BY <1>4, <1>5, <2>1
<1>7. ASSUME NEW s \in Seq(CastLines)
      PROVE  /\ ShowState(s, offset, first) \in ShowStates
             /\ \A l \in CastLines :
                   ShowState(Append(s, l), offset, first) = ShowStep(ShowState(s, offset, first), l, offset, first)
  <2>1. ShowState(s, offset, first) = F[s] /\ F[s] \in ShowStates
    BY <1>4, <1>5
  <2>2. ASSUME NEW l \in CastLines
        PROVE  ShowState(Append(s, l), offset, first) = ShowStep(ShowState(s, offset, first), l, offset, first)
    <3>1. Append(s, l) \in Seq(CastLines)
      OBVIOUS
    <3>2. ShowState(Append(s, l), offset, first) = F[Append(s, l)] /\ F[Append(s, l)] = step[F[s]][l]
      BY <1>4, <1>5, <3>1
    <3>3. QED
      BY <1>2, <2>1, <3>2
  <2>3. QED
    BY <2>1, <2>2
<1>8. QED
  BY <1>6, <1>7

LEMMA SliceUnfolded ==
    ASSUME NEW s, NEW from, NEW to
    PROVE  LET It(f) == [u \in SUBSET (DOMAIN s) |->
                            IF u = {} THEN NothingSliced
                            ELSE SliceStep(f[u \ {Max(u)}], s[Max(u)], from, to)]
           IN SliceState(s, from, to) = (CHOOSE f : f = It(f))[DOMAIN s]
BY Zenon DEF SliceState, FoldLeft, MapThenFoldSet

(* SliceState is what SliceStep makes of one line after the other.           *)
LEMMA SliceLineByLine ==
    ASSUME NEW from \in Nat, NEW to \in Nat
    PROVE  /\ SliceState(<<>>, from, to) = NothingSliced
           /\ \A s \in Seq(CastLines) :
                 /\ SliceState(s, from, to) \in SliceStates
                 /\ \A l \in CastLines :
                       SliceState(Append(s, l), from, to) = SliceStep(SliceState(s, from, to), l, from, to)
<1> DEFINE step == [acc \in SliceStates |-> [l \in CastLines |-> SliceStep(acc, l, from, to)]]
<1>1. NothingSliced \in SliceStates
  BY SliceStepType
<1>2. step \in [SliceStates -> [CastLines -> SliceStates]]
      /\ \A acc \in SliceStates, l \in CastLines : step[acc][l] = SliceStep(acc, l, from, to)
  BY SliceStepType
<1> HIDE DEF step
<1>3. PICK F : FoldsTo(F, CastLines, SliceStates, NothingSliced, step)
  BY <1>1, <1>2, SequenceFold
<1>4. ASSUME NEW s \in Seq(CastLines)
      PROVE  SliceState(s, from, to) = F[s]
  <2> DEFINE It(f) == [u \in SUBSET (DOMAIN s) |->
                         IF u = {} THEN NothingSliced
                         ELSE SliceStep(f[u \ {Max(u)}], s[Max(u)], from, to)]
             f == CHOOSE f : f = It(f)
  <2>1. SliceState(s, from, to) = f[DOMAIN s]
    BY SliceUnfolded
  <2>2. Len(s) \in Nat /\ DOMAIN s = 1 .. Len(s) /\ \A i \in 1 .. Len(s) : s[i] \in CastLines
    OBVIOUS
  <2>3. PICK h : IsSequenceFold(h, s, SliceStates, NothingSliced, step)
    BY <1>3 DEF FoldsTo
  <2>4. h = It(h)
    <3>1. ASSUME NEW u \in SUBSET (1 .. Len(s)), u # {}
          PROVE  h[u] = SliceStep(h[u \ {Max(u)}], s[Max(u)], from, to)
      <4>1. Max(u) \in 1 .. Len(s) /\ u \ {Max(u)} \in SUBSET (1 .. Len(s))
        BY <2>2, <3>1, MaxOfSet
      <4>2. h[u] = step[h[u \ {Max(u)}]][s[Max(u)]] /\ h[u \ {Max(u)}] \in SliceStates
        BY <2>3, <3>1, <4>1 DEF IsSequenceFold
      <4>3. s[Max(u)] \in CastLines
        BY <2>2, <4>1
      <4>4. QED
        BY <1>2, <4>2, <4>3
    <3>2. h \in [SUBSET (1 .. Len(s)) -> SliceStates] /\ h[{}] = NothingSliced
      BY <2>3 DEF IsSequenceFold
    <3>3. QED
      BY <2>2, <3>1, <3>2
  <2>5. f = It(f)
    <3> HIDE DEF It
    <3>1. QED
      BY <2>4
  <2> HIDE DEF f
  <2>6. IsPrefixFold(f, s, SliceStates, NothingSliced, step)
    <3>1. \A u \in SUBSET (1 .. Len(s)) : f[u] = It(f)[u]
      <4> HIDE DEF It
      <4>1. QED
        BY <2>5
    <3>2. f[{}] = NothingSliced
      BY <2>2, <3>1
    <3>3. ASSUME NEW k \in 1 .. Len(s), f[1 .. k - 1] \in SliceStates
          PROVE  f[1 .. k] = step[f[1 .. k - 1]][s[k]]
      <4>1. k \in Nat \ {0} /\ k <= Len(s) /\ 1 .. k \in SUBSET (1 .. Len(s)) /\ 1 .. k # {}
        <5>1. k \in Nat \ {0} /\ k <= Len(s) /\ k \in 1 .. k
          BY <2>2
        <5>2. \A i \in 1 .. k : i \in 1 .. Len(s)
          BY <2>2, <5>1
        <5>3. QED
          BY <5>1, <5>2
      <4>2. Max(1 .. k) = k /\ (1 .. k) \ {k} = 1 .. k - 1
        BY <4>1, MaxOfPrefix
      <4>3. f[1 .. k] = SliceStep(f[1 .. k - 1], s[k], from, to)
        BY <2>2, <3>1, <4>1, <4>2
      <4>4. s[k] \in CastLines
        BY <2>2
      <4>5. QED
        BY <1>2, <3>3, <4>3, <4>4
    <3>4. QED
      BY <3>2, <3>3 DEF IsPrefixFold
  <2>7. f[1 .. Len(s)] = F[s]
    BY <1>3, <2>6 DEF FoldsTo
  <2>8. QED
    BY <2>1, <2>2, <2>7
<1>5. F \in [Seq(CastLines) -> SliceStates] /\ F[<<>>] = NothingSliced
      /\ \A s \in Seq(CastLines), l \in CastLines : F[Append(s, l)] = step[F[s]][l]
  BY <1>3 DEF FoldsTo
<1>6. SliceState(<<>>, from, to) = NothingSliced
  <2>1. <<>> \in Seq(CastLines)
    OBVIOUS
  <2>2. QED
    BY <1>4, <1>5, <2>1
<1>7. ASSUME NEW s \in Seq(CastLines)
      PROVE  /\ SliceState(s, from, to) \in SliceStates
             /\ \A l \in CastLines :
                   SliceState(Append(s, l), from, to) = SliceStep(SliceState(s, from, to), l, from, to)
  <2>1. SliceState(s, from, to) = F[s] /\ F[s] \in SliceStates
    BY <1>4, <1>5
  <2>2. ASSUME NEW l \in CastLines
        PROVE  SliceState(Append(s, l), from, to) = SliceStep(SliceState(s, from, to), l, from, to)
    <3>1. Append(s, l) \in Seq(CastLines)
      OBVIOUS
    <3>2. SliceState(Append(s, l), from, to) = F[Append(s, l)] /\ F[Append(s, l)] = step[F[s]][l]
      BY <1>4, <1>5, <3>1
    <3>3. QED
      BY <1>2, <2>1, <3>2
  <2>3. QED
    BY <2>1, <2>2
<1>8. QED
  BY <1>6, <1>7
-----------------------------------------------------------------------------
(* A cast as the recorder leaves it: a header, then lines that are none,   *)
(* in the order of their times.                                            *)
CastSorted(tail) ==
    /\ \A i \in 1 .. Len(tail) : tail[i].typ # "h"
    /\ \A i, j \in 1 .. Len(tail) : i < j => tail[i].t <= tail[j].t

Upto(tail, k) == SubSeq(tail, 1, k)

(* After k lines: what the full replay has shown from time `from` on, what *)
(* the slice holds, and what a player of the slice has shown.              *)
Full(header, tail, k, from) == ShowState(<<header>> \o Upto(tail, k), 0, from)
Cut(tail, k, from, to) == SliceState(Upto(tail, k), from, to)
Player(header, lines, from) == ShowState(<<header>> \o lines, from, 0)

(* A player has the size of the header before anything else.               *)
LEMMA PlayerBegins ==
    ASSUME NEW header \in CastLines, header.typ = "h", NEW offset \in Nat, NEW first \in Nat
    PROVE  ShowState(<<header>>, offset, first) = [out |-> <<>>, size |-> header.n]
<1>1. <<>> \in Seq(CastLines) /\ <<header>> = Append(<<>>, header)
  OBVIOUS
<1>2. ShowState(<<header>>, offset, first) = ShowStep(NothingShown, header, offset, first)
  BY <1>1, ShowLineByLine
<1>3. QED
  BY <1>2 DEF ShowStep, NothingShown

(* One more line.                                                          *)
LEMMA FullStep ==
    ASSUME NEW header \in CastLines, NEW tail \in Seq(CastLines), NEW k \in 1 .. Len(tail),
           NEW from \in Nat
    PROVE  /\ Full(header, tail, k - 1, from) \in ShowStates
           /\ Full(header, tail, k, from) = ShowStep(Full(header, tail, k - 1, from), tail[k], 0, from)
<1>1. PICK s : s = Upto(tail, k - 1)
  OBVIOUS
<1>2. s \in Seq(CastLines) /\ tail[k] \in CastLines /\ Upto(tail, k) = Append(s, tail[k])
  <2>1. k - 1 \in 0 .. Len(tail)
    OBVIOUS
  <2>2. QED
    BY <1>1, <2>1, Beginnings DEF Upto
<1>3. <<header>> \in Seq(CastLines) /\ <<header>> \o s \in Seq(CastLines)
  BY <1>2
<1>4. <<header>> \o Append(s, tail[k]) = Append(<<header>> \o s, tail[k])
  BY <1>2, <1>3, ConcatAppend
<1>5. 0 \in Nat
  OBVIOUS
<1>6. /\ ShowState(<<header>> \o s, 0, from) \in ShowStates
      /\ ShowState(Append(<<header>> \o s, tail[k]), 0, from)
           = ShowStep(ShowState(<<header>> \o s, 0, from), tail[k], 0, from)
  BY <1>2, <1>3, <1>5, ShowLineByLine
<1>7. QED
  BY <1>1, <1>2, <1>4, <1>6 DEF Full

LEMMA CutByLine ==
    ASSUME NEW tail \in Seq(CastLines), NEW k \in 1 .. Len(tail), NEW from \in Nat, NEW to \in Nat
    PROVE  /\ Cut(tail, k - 1, from, to) \in SliceStates
           /\ Cut(tail, k, from, to) = SliceStep(Cut(tail, k - 1, from, to), tail[k], from, to)
<1>1. PICK s : s = Upto(tail, k - 1)
  OBVIOUS
<1>2. s \in Seq(CastLines) /\ tail[k] \in CastLines /\ Upto(tail, k) = Append(s, tail[k])
  <2>1. k - 1 \in 0 .. Len(tail)
    OBVIOUS
  <2>2. QED
    BY <1>1, <2>1, Beginnings DEF Upto
<1>3. QED
  BY <1>1, <1>2, SliceLineByLine DEF Cut

LEMMA PlayerStep ==
    ASSUME NEW header \in CastLines, NEW lines \in Seq(CastLines), NEW l \in CastLines, NEW from \in Nat
    PROVE  /\ Player(header, lines, from) \in ShowStates
           /\ Player(header, Append(lines, l), from) = ShowStep(Player(header, lines, from), l, from, 0)
<1>1. <<header>> \in Seq(CastLines) /\ <<header>> \o lines \in Seq(CastLines)
  OBVIOUS
<1>2. <<header>> \o Append(lines, l) = Append(<<header>> \o lines, l)
  BY <1>1, ConcatAppend
<1>3. QED
  BY <1>1, <1>2, ShowLineByLine DEF Player

(* An event that is shifted back to where the slice begins is shown as in  *)
(* the full replay.                                                        *)
LEMMA ShownAlike ==
    ASSUME NEW p \in ShowStates, NEW f \in ShowStates, p.size = f.size, p.out = f.out,
           NEW l \in CastLines, NEW from \in Nat, l.t >= from, l.typ # "h"
    PROVE  ShowStep(p, Shifted(l, -from), from, 0) = ShowStep(f, l, 0, from)
<1>1. /\ p = f
      /\ l.t \in Nat /\ l.n \in Nat
  BY DEF ShowStates, CastLines
<1>2. PICK e : e = Shifted(l, -from)
  OBVIOUS
<1>3. /\ e.typ = l.typ /\ e.n = l.n /\ e.data = l.data /\ e.t = l.t - from
  BY <1>1, <1>2 DEF Shifted, CastLines
<1>4. e.t + from = l.t /\ l.t + 0 = l.t /\ ~(e.t + from < 0) /\ ~(l.t + 0 < from)
  BY <1>1, <1>3
<1>5. QED
  BY <1>1, <1>2, <1>3, <1>4 DEF ShowStep

-----------------------------------------------------------------------------
(* One window.  Before it nothing is shown from its beginning on, and the  *)
(* slice remembers the size; in it a player of the slice is where that of  *)
(* the full replay is.                                                     *)
BeforeWindow(header, g, f) ==
    /\ ~g.restored /\ g.out = <<>> /\ f.out = <<>>
    /\ \/ g.size = <<>> /\ f.size = header.n
       \/ \E r \in CastLines : g.size = <<r>> /\ r.typ = "r" /\ f.size = r.n

InWindow(header, g, f, from) == g.restored /\ Player(header, g.out, from) = f

LEMMA WaitsOn ==
    ASSUME NEW header \in CastLines, NEW g \in SliceStates, NEW f \in ShowStates,
           NEW l \in CastLines, l.typ # "h", NEW from \in Nat, NEW to \in Nat,
           BeforeWindow(header, g, f), l.t < from
    PROVE  BeforeWindow(header, SliceStep(g, l, from, to), ShowStep(f, l, 0, from))
<1>1. /\ g.size \in Seq(CastLines) /\ l.t \in Nat /\ l.n \in Nat /\ l.t + 0 < from
      /\ l.typ \in {"o", "i", "r"}
  BY DEF SliceStates, CastLines
<1>2. PICK g1 : g1 = SliceStep(g, l, from, to)
  OBVIOUS
<1>3. PICK f1 : f1 = ShowStep(f, l, 0, from)
  OBVIOUS
<1>4. /\ g1.restored = g.restored /\ g1.out = g.out
      /\ g1.size = IF l.typ = "r" THEN <<l>> ELSE g.size
  BY <1>2 DEF SliceStep, SliceStates
<1>5. f1.out = f.out /\ f1.size = IF l.typ = "r" THEN l.n ELSE f.size
  BY <1>1, <1>3 DEF ShowStep, ShowStates
<1>6. BeforeWindow(header, g1, f1)
  <2>1. CASE l.typ = "r"
    BY <1>4, <1>5, <2>1 DEF BeforeWindow
  <2>2. CASE l.typ # "r"
    BY <1>4, <1>5, <2>2 DEF BeforeWindow
  <2>3. QED
    BY <2>1, <2>2
<1>7. QED
  BY <1>2, <1>3, <1>6

LEMMA WindowBegins ==
    ASSUME NEW header \in CastLines, header.typ = "h", NEW g \in SliceStates, NEW f \in ShowStates,
           NEW l \in CastLines, l.typ # "h", NEW from \in Nat, NEW to \in Nat,
           BeforeWindow(header, g, f), l.t >= from, l.t < to
    PROVE  InWindow(header, SliceStep(g, l, from, to), ShowStep(f, l, 0, from), from)
<1>1. PICK start : start = AtStart(g.size)
  OBVIOUS
<1>2. PICK e : e = Shifted(l, -from)
  OBVIOUS
<1>3. start \in Seq(CastLines) /\ e \in CastLines
  <2>1. g.size \in Seq(CastLines) /\ -from \in Int
    BY DEF SliceStates
  <2>2. QED
    BY <1>1, <1>2, <2>1, AtStartType, ShiftedType
<1>4. Player(header, <<>>, from) = [out |-> <<>>, size |-> header.n]
  <2>1. <<header>> \o <<>> = <<header>> /\ 0 \in Nat
    OBVIOUS
  <2>2. QED
    BY <2>1, PlayerBegins DEF Player
<1>5. Player(header, start, from) = [out |-> <<>>, size |-> f.size]
  <2>1. CASE g.size = <<>> /\ f.size = header.n
    BY <1>1, <1>4, <2>1 DEF AtStart
  <2>2. ASSUME NEW r \in CastLines, g.size = <<r>>, r.typ = "r", f.size = r.n
        PROVE  Player(header, start, from) = [out |-> <<>>, size |-> f.size]
    <3>1. PICK z : z = [r EXCEPT !.t = 0]
      OBVIOUS
    <3>2. z \in CastLines /\ z.typ = "r" /\ z.n = r.n
      BY <2>2, <3>1 DEF CastLines
    <3>3. start = <<z>> /\ <<z>> = Append(<<>>, z) /\ <<>> \in Seq(CastLines)
      BY <1>1, <2>2, <3>1 DEF AtStart
    <3>4. Player(header, Append(<<>>, z), from) = ShowStep(Player(header, <<>>, from), z, from, 0)
      BY <3>2, <3>3, PlayerStep
    <3>5. QED
      BY <1>4, <2>2, <3>2, <3>3, <3>4 DEF ShowStep
  <2>3. QED
    BY <2>1, <2>2 DEF BeforeWindow
<1>6. PICK p : p = Player(header, start, from)
  OBVIOUS
<1>7. p \in ShowStates /\ p.size = f.size /\ p.out = f.out
  <2>1. p \in ShowStates
    BY <1>3, <1>6, PlayerStep
  <2>2. QED
    BY <1>5, <1>6, <2>1 DEF BeforeWindow
<1>8. SliceStep(g, l, from, to).restored
      /\ SliceStep(g, l, from, to).out = Append(start, e)
  <2>1. <<>> \o start = start
    BY <1>3
  <2>2. g.out = <<>> /\ ~g.restored
    BY DEF BeforeWindow
  <2>3. l.t \in Nat /\ ~(l.t < from) /\ ~(l.t >= to)
    BY DEF CastLines
  <2>4. SliceStep(g, l, from, to) = [g EXCEPT !.out = Append(start, e), !.restored = TRUE]
    BY <1>1, <1>2, <2>1, <2>2, <2>3 DEF SliceStep
  <2>5. QED
    BY <2>4 DEF SliceStates
<1>9. Player(header, Append(start, e), from) = ShowStep(p, e, from, 0)
  BY <1>3, <1>6, PlayerStep
<1>10. ShowStep(p, e, from, 0) = ShowStep(f, l, 0, from)
  BY <1>2, <1>7, ShownAlike
<1>11. QED
  BY <1>8, <1>9, <1>10 DEF InWindow

LEMMA WindowContinues ==
    ASSUME NEW header \in CastLines, NEW g \in SliceStates, NEW f \in ShowStates,
           NEW l \in CastLines, l.typ # "h", NEW from \in Nat, NEW to \in Nat,
           InWindow(header, g, f, from), l.t >= from, l.t < to
    PROVE  InWindow(header, SliceStep(g, l, from, to), ShowStep(f, l, 0, from), from)
<1>1. PICK e : e = Shifted(l, -from)
  OBVIOUS
<1>2. g.out \in Seq(CastLines) /\ e \in CastLines
  BY <1>1, ShiftedType DEF SliceStates
<1>3. g.restored /\ l.t \in Nat /\ ~(l.t < from) /\ ~(l.t >= to)
  BY DEF InWindow, CastLines
<1>4. SliceStep(g, l, from, to) = [g EXCEPT !.out = Append(g.out, e), !.restored = TRUE]
  BY <1>1, <1>3 DEF SliceStep
<1>5. SliceStep(g, l, from, to).restored
      /\ SliceStep(g, l, from, to).out = Append(g.out, e)
  BY <1>4 DEF SliceStates
<1>6. Player(header, Append(g.out, e), from) = ShowStep(f, e, from, 0)
  BY <1>2, PlayerStep DEF InWindow
<1>7. ShowStep(f, e, from, 0) = ShowStep(f, l, 0, from)
  BY <1>1, ShownAlike
<1>8. QED
  BY <1>5, <1>6, <1>7 DEF InWindow

(* After the window a slice gets nothing.                                  *)
LEMMA WindowOver ==
    ASSUME NEW g, NEW l \in CastLines, NEW from \in Nat, NEW to \in Nat, from < to, l.t >= to
    PROVE  SliceStep(g, l, from, to) = g
<1>1. l.t \in Nat /\ ~(l.t < from)
  BY DEF CastLines
<1>2. QED
  BY <1>1 DEF SliceStep

(* So it is after any number of lines.                                     *)
Before(tail, k, time) == k = 0 \/ tail[k].t < time
Within(tail, k, from, to) == k # 0 /\ tail[k].t >= from /\ tail[k].t < to

WindowAfter(header, tail, k, from, to) ==
    /\ Before(tail, k, from) => BeforeWindow(header, Cut(tail, k, from, to), Full(header, tail, k, from))
    /\ Within(tail, k, from, to) =>
          InWindow(header, Cut(tail, k, from, to), Full(header, tail, k, from), from)

LEMMA OneWindow ==
    ASSUME NEW header \in CastLines, header.typ = "h", NEW tail \in Seq(CastLines), CastSorted(tail),
           NEW from \in Nat, NEW to \in Nat, from < to
    PROVE  \A k \in 0 .. Len(tail) : WindowAfter(header, tail, k, from, to)
<1> DEFINE good == {k \in 0 .. Len(tail) : WindowAfter(header, tail, k, from, to)}
<1>1. Len(tail) \in Nat /\ \A k \in 1 .. Len(tail) : tail[k] \in CastLines /\ tail[k].t \in Nat
  <2>1. Len(tail) \in Nat /\ \A k \in 1 .. Len(tail) : tail[k] \in CastLines
    OBVIOUS
  <2>2. \A l \in CastLines : l.t \in Nat
    BY DEF CastLines
  <2>3. QED
    BY <2>1, <2>2
<1>2. WindowAfter(header, tail, 0, from, to)
  <2>1. Upto(tail, 0) = <<>> /\ <<header>> \o <<>> = <<header>> /\ 0 \in Nat
    BY Beginnings DEF Upto
  <2>2. Full(header, tail, 0, from) = [out |-> <<>>, size |-> header.n]
    BY <2>1, PlayerBegins DEF Full
  <2>3. Cut(tail, 0, from, to) = NothingSliced
    BY <2>1, SliceLineByLine DEF Cut
  <2>4. QED
    BY <2>2, <2>3 DEF WindowAfter, BeforeWindow, Within, NothingSliced
<1>3. ASSUME NEW k \in 1 .. Len(tail), WindowAfter(header, tail, k - 1, from, to)
      PROVE  WindowAfter(header, tail, k, from, to)
  <2>1. PICK g : g = Cut(tail, k - 1, from, to)
    OBVIOUS
  <2>2. PICK f : f = Full(header, tail, k - 1, from)
    OBVIOUS
  <2>3. /\ g \in SliceStates /\ Cut(tail, k, from, to) = SliceStep(g, tail[k], from, to)
        /\ f \in ShowStates /\ Full(header, tail, k, from) = ShowStep(f, tail[k], 0, from)
    BY <2>1, <2>2, CutByLine, FullStep
  <2>4. /\ tail[k] \in CastLines /\ tail[k].t \in Nat /\ tail[k].typ # "h" /\ k # 0
        /\ k - 1 = 0 \/ (tail[k - 1].t \in Nat /\ tail[k - 1].t <= tail[k].t)
    <3>1. k - 1 # 0 => k - 1 \in 1 .. Len(tail) /\ k - 1 < k
      OBVIOUS
    <3>2. QED
      BY <1>1, <3>1 DEF CastSorted
  <2>5. CASE tail[k].t < from
    <3>1. Before(tail, k - 1, from) /\ ~Within(tail, k, from, to)
      BY <2>4, <2>5 DEF Before, Within
    <3>2. BeforeWindow(header, g, f)
      BY <1>3, <2>1, <2>2, <3>1 DEF WindowAfter
    <3>3. BeforeWindow(header, SliceStep(g, tail[k], from, to), ShowStep(f, tail[k], 0, from))
      BY <2>3, <2>4, <2>5, <3>2, WaitsOn
    <3>4. QED
      BY <2>3, <3>1, <3>3 DEF WindowAfter
  <2>6. CASE tail[k].t >= from /\ tail[k].t < to
    <3>1. ~Before(tail, k, from)
      BY <2>4, <2>6 DEF Before
    <3>2. Before(tail, k - 1, from) \/ Within(tail, k - 1, from, to)
      BY <2>4, <2>6 DEF Before, Within
    <3>3. BeforeWindow(header, g, f) \/ InWindow(header, g, f, from)
      BY <1>3, <2>1, <2>2, <3>2 DEF WindowAfter
    <3>4. InWindow(header, SliceStep(g, tail[k], from, to), ShowStep(f, tail[k], 0, from), from)
      <4>1. CASE BeforeWindow(header, g, f)
        BY <2>3, <2>4, <2>6, <4>1, WindowBegins
      <4>2. CASE InWindow(header, g, f, from)
        BY <2>3, <2>4, <2>6, <4>2, WindowContinues
      <4>3. QED
        BY <3>3, <4>1, <4>2
    <3>5. QED
      BY <2>3, <3>1, <3>4 DEF WindowAfter
  <2>7. CASE tail[k].t >= to
    <3>1. ~Before(tail, k, from) /\ ~Within(tail, k, from, to)
      BY <2>4, <2>7 DEF Before, Within
    <3>2. QED
      BY <3>1 DEF WindowAfter
  <2>8. QED
    BY <2>4, <2>5, <2>6, <2>7
<1>4. 0 \in good /\ \A k \in 1 .. Len(tail) : k - 1 \in good => k \in good
  <2>1. 0 \in 0 .. Len(tail) /\ \A k \in 1 .. Len(tail) : k \in 0 .. Len(tail)
    BY <1>1
  <2>2. QED
    BY <1>2, <1>3, <2>1
<1>5. good \in SUBSET (0 .. Len(tail))
  OBVIOUS
<1> HIDE DEF good
<1>6. \A k \in 0 .. Len(tail) : k \in good
  BY <1>1, <1>4, <1>5, AllNumbers
<1>7. QED
  BY <1>6 DEF good

-----------------------------------------------------------------------------
(* Two windows.  What has been shown from a on is what the player of the   *)
(* first one has shown, then what has been shown from b on.                *)
TilesAfter(header, tail, k, a, b) ==
    /\ Full(header, tail, k, a).size = Full(header, tail, k, b).size
    /\ Full(header, tail, k, a).out
         = Player(header, Cut(tail, k, a, b).out, a).out \o Full(header, tail, k, b).out

(* The size does not depend on the time from which on events are shown;    *)
(* an event is added to what is shown from its time on, or not at all.     *)
LEMMA ShownTwice ==
    ASSUME NEW f \in ShowStates, NEW e \in ShowStates, f.size = e.size,
           NEW l \in CastLines, NEW a \in Nat, NEW b \in Nat, a < b, l.t >= b
    PROVE  /\ ShowStep(f, l, 0, a).size = ShowStep(e, l, 0, b).size
           /\ \/ ShowStep(f, l, 0, a).out = f.out /\ ShowStep(e, l, 0, b).out = e.out
              \/ \E x \in ShownEvents : /\ ShowStep(f, l, 0, a).out = Append(f.out, x)
                                        /\ ShowStep(e, l, 0, b).out = Append(e.out, x)
<1>1. /\ l.t \in Nat /\ l.n \in Nat /\ ~(l.t + 0 < a) /\ ~(l.t + 0 < b) /\ l.t + 0 \in Nat
      /\ f.size \in Nat
  BY DEF CastLines, ShowStates
<1>2. PICK x : x = [typ |-> l.typ, t |-> l.t + 0, size |-> f.size, data |-> l.data, n |-> l.n]
  OBVIOUS
<1>3. x \in ShownEvents
  BY <1>1, <1>2 DEF ShownEvents, CastLines
<1>4. CASE l.typ \in {"h", "r"}
  BY <1>4 DEF ShowStep, ShowStates
<1>5. CASE l.typ \notin {"h", "r"}
  <2>1. /\ ShowStep(f, l, 0, a) = [f EXCEPT !.out = Append(@, x)]
        /\ ShowStep(e, l, 0, b) = [e EXCEPT !.out = Append(@, x)]
    BY <1>1, <1>2, <1>5 DEF ShowStep
  <2>2. QED
    BY <1>3, <2>1 DEF ShowStates
<1>6. QED
  BY <1>4, <1>5

LEMMA ShownSizes ==
    ASSUME NEW f \in ShowStates, NEW e \in ShowStates, f.size = e.size,
           NEW l \in CastLines, NEW a \in Nat, NEW b \in Nat
    PROVE  ShowStep(f, l, 0, a).size = ShowStep(e, l, 0, b).size
BY DEF ShowStep, ShowStates

LEMMA WindowsTile ==
    ASSUME NEW header \in CastLines, header.typ = "h", NEW tail \in Seq(CastLines), CastSorted(tail),
           NEW a \in Nat, NEW b \in Nat, a < b
    PROVE  \A k \in 0 .. Len(tail) : TilesAfter(header, tail, k, a, b)
<1> DEFINE good == {k \in 0 .. Len(tail) : TilesAfter(header, tail, k, a, b)}
<1>1. Len(tail) \in Nat /\ \A k \in 1 .. Len(tail) : tail[k] \in CastLines /\ tail[k].t \in Nat
  <2>1. Len(tail) \in Nat /\ \A k \in 1 .. Len(tail) : tail[k] \in CastLines
    OBVIOUS
  <2>2. \A l \in CastLines : l.t \in Nat
    BY DEF CastLines
  <2>3. QED
    BY <2>1, <2>2
<1>2. TilesAfter(header, tail, 0, a, b)
  <2>1. Upto(tail, 0) = <<>> /\ <<header>> \o <<>> = <<header>> /\ 0 \in Nat
    BY Beginnings DEF Upto
  <2>2. /\ Full(header, tail, 0, a) = [out |-> <<>>, size |-> header.n]
        /\ Full(header, tail, 0, b) = [out |-> <<>>, size |-> header.n]
    <3>1. /\ ShowState(<<header>>, 0, a) = [out |-> <<>>, size |-> header.n]
          /\ ShowState(<<header>>, 0, b) = [out |-> <<>>, size |-> header.n]
      BY <2>1, PlayerBegins
    <3>2. QED
      BY <2>1, <3>1 DEF Full
  <2>3. Cut(tail, 0, a, b).out = <<>>
    BY <2>1, SliceLineByLine DEF Cut, NothingSliced
  <2>4. Player(header, Cut(tail, 0, a, b).out, a).out = <<>>
    <3>1. ShowState(<<header>>, a, 0) = [out |-> <<>>, size |-> header.n]
      BY <2>1, PlayerBegins
    <3>2. Player(header, <<>>, a).out = <<>>
      BY <2>1, <3>1 DEF Player
    <3>3. QED
      BY Zenon, <2>3, <3>2
  <2>5. /\ Full(header, tail, 0, a).size = Full(header, tail, 0, b).size
        /\ Full(header, tail, 0, a).out = <<>> /\ Full(header, tail, 0, b).out = <<>>
    BY <2>2
  <2>6. <<>> \o <<>> = <<>>
    OBVIOUS
  <2>7. QED
    BY Zenon, <2>4, <2>5, <2>6 DEF TilesAfter
<1>3. ASSUME NEW k \in 1 .. Len(tail), TilesAfter(header, tail, k - 1, a, b)
      PROVE  TilesAfter(header, tail, k, a, b)
  <2>1. PICK f : f = Full(header, tail, k - 1, a)
    OBVIOUS
  <2>2. PICK e : e = Full(header, tail, k - 1, b)
    OBVIOUS
  <2>3. PICK p : p = Player(header, Cut(tail, k - 1, a, b).out, a)
    OBVIOUS
  <2>4. /\ f \in ShowStates /\ Full(header, tail, k, a) = ShowStep(f, tail[k], 0, a)
        /\ e \in ShowStates /\ Full(header, tail, k, b) = ShowStep(e, tail[k], 0, b)
    <3>1. f \in ShowStates /\ Full(header, tail, k, a) = ShowStep(f, tail[k], 0, a)
      BY <2>1, FullStep
    <3>2. e \in ShowStates /\ Full(header, tail, k, b) = ShowStep(e, tail[k], 0, b)
      BY <2>2, FullStep
    <3>3. QED
      BY <3>1, <3>2
  <2>5. tail[k] \in CastLines /\ tail[k].t \in Nat /\ k \in 0 .. Len(tail) /\ k # 0
    BY <1>1
  <2>6. f.size = e.size /\ f.out = p.out \o e.out /\ p.out \in Seq(ShownEvents)
    <3>1. Cut(tail, k - 1, a, b) \in SliceStates
      BY CutByLine
    <3>2. p \in ShowStates
      <4>1. Cut(tail, k - 1, a, b).out \in Seq(CastLines)
        BY <3>1 DEF SliceStates
      <4>2. QED
        BY <2>3, <2>5, <4>1, PlayerStep
    <3>3. QED
      BY <1>3, <2>1, <2>2, <2>3, <3>2 DEF TilesAfter, ShowStates
  <2>7. CASE tail[k].t < b
    <3>1. Full(header, tail, k, b).out = <<>>
      <4>1. Before(tail, k, b) /\ b + 1 \in Nat /\ b < b + 1
        BY <2>7 DEF Before
      <4>2. WindowAfter(header, tail, k, b, b + 1)
        BY <2>5, <4>1, OneWindow
      <4>3. QED
        BY <4>1, <4>2 DEF WindowAfter, BeforeWindow
    <3>2. WindowAfter(header, tail, k, a, b)
      BY <2>5, OneWindow
    <3>3. Player(header, Cut(tail, k, a, b).out, a).out = Full(header, tail, k, a).out
      <4>1. CASE tail[k].t < a
        <5>1. BeforeWindow(header, Cut(tail, k, a, b), Full(header, tail, k, a))
          BY <3>2, <4>1 DEF WindowAfter, Before
        <5>2. <<header>> \o <<>> = <<header>> /\ 0 \in Nat
          OBVIOUS
        <5>3. Player(header, <<>>, a) = [out |-> <<>>, size |-> header.n]
          BY <5>2, PlayerBegins DEF Player
        <5>4. QED
          BY <5>1, <5>3 DEF BeforeWindow
      <4>2. CASE tail[k].t >= a
        BY <2>5, <2>7, <3>2, <4>2 DEF WindowAfter, Within, InWindow
      <4>3. QED
        BY <2>5, <4>1, <4>2
    <3>4. ShowStep(f, tail[k], 0, a).size = ShowStep(e, tail[k], 0, b).size
      BY <2>4, <2>5, <2>6, ShownSizes
    <3>5. Full(header, tail, k, a).out \in Seq(ShownEvents)
      <4>1. 0 \in Nat
        OBVIOUS
      <4>2. ShowStep(f, tail[k], 0, a) \in ShowStates
        BY <2>4, <2>5, <4>1, ShowStepType
      <4>3. QED
        BY <2>4, <4>2 DEF ShowStates
    <3>6. PICK x : x = Full(header, tail, k, a).out
      OBVIOUS
    <3>7. x = x \o <<>>
      BY <3>5, <3>6
    <3>8. Full(header, tail, k, a).size = Full(header, tail, k, b).size
      BY <2>4, <3>4
    <3>9. QED
      BY Zenon, <3>1, <3>3, <3>6, <3>7, <3>8 DEF TilesAfter
  <2>8. CASE tail[k].t >= b
    <3>1. Cut(tail, k, a, b) = Cut(tail, k - 1, a, b)
      BY <2>5, <2>8, CutByLine, WindowOver
    <3>2. /\ ShowStep(f, tail[k], 0, a).size = ShowStep(e, tail[k], 0, b).size
          /\ ShowStep(f, tail[k], 0, a).out = p.out \o ShowStep(e, tail[k], 0, b).out
      <4>1. e.out \in Seq(ShownEvents)
        BY <2>4 DEF ShowStates
      <4>2. ASSUME NEW x \in ShownEvents
            PROVE  p.out \o Append(e.out, x) = Append(p.out \o e.out, x)
        <5>1. PICK u : u = p.out
          OBVIOUS
        <5>2. PICK v : v = e.out
          OBVIOUS
        <5>3. u \in Seq(ShownEvents) /\ v \in Seq(ShownEvents)
          BY <2>6, <4>1, <5>1, <5>2
        <5>4. u \o Append(v, x) = Append(u \o v, x)
          BY <5>3, ConcatAppend
        <5>5. QED
          BY <5>1, <5>2, <5>4
      <4>3. PICK f1 : f1 = ShowStep(f, tail[k], 0, a)
        OBVIOUS
      <4>4. PICK e1 : e1 = ShowStep(e, tail[k], 0, b)
        OBVIOUS
      <4>5. /\ f1.size = e1.size
            /\ \/ f1.out = f.out /\ e1.out = e.out
               \/ \E x \in ShownEvents : f1.out = Append(f.out, x) /\ e1.out = Append(e.out, x)
        <5>1. PICK l : l = tail[k]
          OBVIOUS
        <5>2. l \in CastLines /\ l.t >= b /\ f \in ShowStates /\ e \in ShowStates /\ f.size = e.size
          BY <2>4, <2>5, <2>6, <2>8, <5>1
        <5>3. /\ ShowStep(f, l, 0, a).size = ShowStep(e, l, 0, b).size
              /\ \/ ShowStep(f, l, 0, a).out = f.out /\ ShowStep(e, l, 0, b).out = e.out
                 \/ \E x \in ShownEvents : /\ ShowStep(f, l, 0, a).out = Append(f.out, x)
                                           /\ ShowStep(e, l, 0, b).out = Append(e.out, x)
          BY ZenonT(30), <5>2, ShownTwice
        <5>4. QED
          BY <4>3, <4>4, <5>1, <5>3
      <4>6. f1.out = p.out \o e1.out
        BY <2>6, <4>2, <4>5
      <4>7. QED
        BY <4>3, <4>4, <4>5, <4>6
    <3>3. QED
      BY <2>3, <2>4, <3>1, <3>2 DEF TilesAfter
  <2>9. QED
    BY <2>5, <2>7, <2>8
<1>4. 0 \in good /\ \A k \in 1 .. Len(tail) : k - 1 \in good => k \in good
  <2>1. 0 \in 0 .. Len(tail) /\ \A k \in 1 .. Len(tail) : k \in 0 .. Len(tail)
    BY <1>1
  <2>2. QED
    BY <1>2, <1>3, <2>1
<1>5. good \in SUBSET (0 .. Len(tail))
  OBVIOUS
<1> HIDE DEF good
<1>6. \A k \in 0 .. Len(tail) : k \in good
  BY <1>1, <1>4, <1>5, AllNumbers
<1>7. QED
  BY <1>6 DEF good

LEMMA HeadTailOfCast ==
    ASSUME NEW header \in CastLines, NEW tail \in Seq(CastLines)
    PROVE  /\ <<header>> \o tail # <<>> /\ Head(<<header>> \o tail) = header
           /\ Tail(<<header>> \o tail) = tail
<1>1. PICK c : c = <<header>> \o tail
  OBVIOUS
<1>2. <<header>> \in Seq(CastLines) /\ Len(<<header>>) = 1 /\ <<header>>[1] = header /\ Len(tail) \in Nat
  OBVIOUS
<1>3. /\ c \in Seq(CastLines) /\ Len(c) = 1 + Len(tail) /\ c[1] = header
      /\ \A j \in 2 .. Len(tail) + 1 : c[j] = tail[j - 1]
  BY <1>1, <1>2, ConcatProperties
<1>4. c # <<>> /\ Head(c) = header
  BY <1>2, <1>3, EmptySeq
<1>5. /\ Tail(c) \in Seq(CastLines) /\ Len(Tail(c)) = Len(tail)
      /\ \A j \in 1 .. Len(tail) : Tail(c)[j] = c[j + 1]
  BY <1>2, <1>3, <1>4, HeadTailProperties
<1>6. \A j \in 1 .. Len(tail) : j + 1 \in 2 .. Len(tail) + 1 /\ (j + 1) - 1 = j
  BY <1>2
<1>7. \A j \in 1 .. Len(tail) : Tail(c)[j] = tail[j]
  BY <1>3, <1>5, <1>6
<1>8. Tail(c) = tail
  BY <1>5, <1>7, SeqEqual
<1>9. QED
  BY <1>1, <1>4, <1>8

(* What a player shows of the two slices of a recording, one after the     *)
(* other, is what it shows of the recording from the first one on.         *)
THEOREM AdjacentSlices ==
    ASSUME NEW header \in CastLines, header.typ = "h", NEW tail \in Seq(CastLines), CastSorted(tail),
           NEW a \in Nat, NEW b \in Nat, NEW end \in Nat, a < b, b < end,
           \A i \in 1 .. Len(tail) : tail[i].t < end
    PROVE  LET cast == <<header>> \o tail IN
           Shown(Slice(cast, a, b), a, 0) \o Shown(Slice(cast, b, end), b, 0) = Shown(cast, 0, a)
<1>1. PICK cast : cast = <<header>> \o tail
  OBVIOUS
<1>2. cast # <<>> /\ Head(cast) = header /\ Tail(cast) = tail
  <2>1. <<header>> \in Seq(CastLines)
    OBVIOUS
  <2>2. QED
    BY <1>1, <2>1, HeadTailOfCast
<1>3. WindowOpen(a, b) /\ WindowOpen(b, end)
  BY DEF WindowOpen
<1>4. PICK n : n = Len(tail)
  OBVIOUS
<1>5. n \in 0 .. Len(tail) /\ Upto(tail, n) = tail
  BY <1>4, Beginnings DEF Upto
<1>6. ASSUME NEW from \in Nat, NEW to \in Nat, WindowOpen(from, to)
      PROVE  Shown(Slice(cast, from, to), from, 0) = Player(header, Cut(tail, n, from, to).out, from).out
  BY <1>2, <1>5, <1>6 DEF Slice, Shown, Player, Cut
<1>7. ASSUME NEW from \in Nat
      PROVE  Full(header, tail, n, from).out = Shown(cast, 0, from)
  BY <1>1, <1>5 DEF Full, Shown
<1>8. Full(header, tail, n, a).out
        = Player(header, Cut(tail, n, a, b).out, a).out \o Full(header, tail, n, b).out
  BY <1>5, WindowsTile DEF TilesAfter
<1>9. Full(header, tail, n, b).out = Player(header, Cut(tail, n, b, end).out, b).out
  <2>1. WindowAfter(header, tail, n, b, end)
    BY <1>5, OneWindow
  <2>2. Len(tail) \in Nat /\ (n # 0 => n \in 1 .. Len(tail) /\ tail[n] \in CastLines)
    BY <1>4
  <2>3. n # 0 => tail[n].t \in Nat /\ tail[n].t < end
    BY <2>2 DEF CastLines
  <2>4. Before(tail, n, b) \/ Within(tail, n, b, end)
    BY <2>3 DEF Before, Within
  <2>5. CASE Before(tail, n, b)
    <3>1. BeforeWindow(header, Cut(tail, n, b, end), Full(header, tail, n, b))
      BY <2>1, <2>5 DEF WindowAfter
    <3>2. <<header>> \o <<>> = <<header>> /\ 0 \in Nat
      OBVIOUS
    <3>3. Player(header, <<>>, b).out = <<>>
      <4>1. ShowState(<<header>>, b, 0) = [out |-> <<>>, size |-> header.n]
        BY <3>2, PlayerBegins
      <4>2. QED
        BY <3>2, <4>1 DEF Player
    <3>4. QED
      BY Zenon, <3>1, <3>3 DEF BeforeWindow
  <2>6. CASE Within(tail, n, b, end)
    BY <2>1, <2>6 DEF WindowAfter, InWindow
  <2>7. QED
    BY <2>4, <2>5, <2>6
<1>10. /\ Shown(Slice(cast, a, b), a, 0) = Player(header, Cut(tail, n, a, b).out, a).out
       /\ Shown(Slice(cast, b, end), b, 0) = Player(header, Cut(tail, n, b, end).out, b).out
       /\ Full(header, tail, n, a).out = Shown(cast, 0, a)
  BY <1>3, <1>6, <1>7
<1>11. QED
  BY Zenon, <1>1, <1>8, <1>9, <1>10
=============================================================================
