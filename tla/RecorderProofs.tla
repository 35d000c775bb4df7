--------------------------- MODULE RecorderProofs ---------------------------
(***************************************************************************)
(* What Recorder.tla claims of Spec, for any settings, output, input and   *)
(* sizes of the queues.                                                    *)
(***************************************************************************)
EXTENDS Recorder, FoldProofs, CastSliceProofs, SequenceTheorems, FiniteSetTheorems, TLAPS

-----------------------------------------------------------------------------
(* Settle and NotYetDue for the blocks there can be: none or one.          *)

LEMMA OneIsMax == Max({1}) = 1
BY DEF Max

LEMMA SettleFold ==
    ASSUME NEW r, NEW blocks, NEW rule
    PROVE  LET It(f) == [s \in SUBSET (DOMAIN blocks) |->
                            IF s = {} THEN r
                            ELSE LET i == Max(s)
                                     acc == f[s \ {i}]
                                     p == blocks[i]
                                 IN IF Due(p, rule) THEN EmitSettled(acc, p, Plain(p, rule)) ELSE acc]
           IN Settle(r, blocks, rule) = (CHOOSE f : f = It(f))[DOMAIN blocks]
BY Zenon DEF Settle, FoldLeft, MapThenFoldSet

LEMMA SettleNone ==
    ASSUME NEW r, NEW rule
    PROVE  Settle(r, <<>>, rule) = r
<1> DEFINE It(f) == [s \in SUBSET (DOMAIN <<>>) |->
                       IF s = {} THEN r
                       ELSE LET i == Max(s)
                                acc == f[s \ {i}]
                                p == <<>>[i]
                            IN IF Due(p, rule) THEN EmitSettled(acc, p, Plain(p, rule)) ELSE acc]
           iter == CHOOSE f : f = It(f)
           one == [s \in SUBSET {} |-> r]
<1>1. Settle(r, <<>>, rule) = iter[DOMAIN <<>>]
  BY SettleFold
<1>2. DOMAIN <<>> = {}
  OBVIOUS
<1>3. one = It(one)
  BY <1>2
<1> HIDE DEF It
<1>4. iter = It(iter)
  BY <1>3
<1>5. It(iter)[{}] = r
  BY <1>2 DEF It
<1>6. QED
  BY <1>1, <1>2, <1>4, <1>5

LEMMA SettleOne ==
    ASSUME NEW r, NEW p, NEW rule
    PROVE  Settle(r, <<p>>, rule) = IF Due(p, rule) THEN EmitSettled(r, p, Plain(p, rule)) ELSE r
<1> DEFINE Step(acc, b) == IF Due(b, rule) THEN EmitSettled(acc, b, Plain(b, rule)) ELSE acc
           It(f) == [s \in SUBSET (DOMAIN <<p>>) |->
                       IF s = {} THEN r
                       ELSE LET i == Max(s)
                                acc == f[s \ {i}]
                                b == <<p>>[i]
                            IN Step(acc, b)]
           iter == CHOOSE f : f = It(f)
           one == [s \in SUBSET {1} |-> IF s = {} THEN r ELSE Step(r, p)]
<1>1. Settle(r, <<p>>, rule) = iter[DOMAIN <<p>>]
  BY SettleFold
<1>2. DOMAIN <<p>> = {1} /\ <<p>>[1] = p
  OBVIOUS
<1> HIDE DEF Step
<1>3. ASSUME NEW f, f[{}] = r
      PROVE  It(f) = one
  <2>1. \A s \in SUBSET {1} : s # {} => s = {1} /\ Max(s) = 1 /\ s \ {1} = {}
    BY OneIsMax
  <2>2. QED
    BY <1>2, <1>3, <2>1
<1>4. one[{}] = r
  OBVIOUS
<1>5. one = It(one)
  BY <1>3, <1>4
<1>6. \A f : It(f)[{}] = r
  BY <1>2
<1> HIDE DEF It
<1>7. iter = It(iter)
  BY <1>5
<1>8. iter = one
  BY <1>3, <1>6, <1>7
<1>9. QED
  BY <1>1, <1>2, <1>8 DEF Step

LEMMA NotYetDueFold ==
    ASSUME NEW blocks
    PROVE  LET It(f) == [s \in SUBSET (DOMAIN blocks) |->
                            IF s = {} THEN <<>>
                            ELSE LET i == Max(s)
                                     acc == f[s \ {i}]
                                     p == blocks[i]
                                 IN IF Due(p, "hang") THEN acc ELSE Append(acc, p)]
           IN NotYetDue(blocks) = (CHOOSE f : f = It(f))[DOMAIN blocks]
BY Zenon DEF NotYetDue, FoldLeft, MapThenFoldSet

LEMMA NotYetDueNone == NotYetDue(<<>>) = <<>>
<1> DEFINE It(f) == [s \in SUBSET (DOMAIN <<>>) |->
                       IF s = {} THEN <<>>
                       ELSE LET i == Max(s)
                                acc == f[s \ {i}]
                                p == <<>>[i]
                            IN IF Due(p, "hang") THEN acc ELSE Append(acc, p)]
           iter == CHOOSE f : f = It(f)
           one == [s \in SUBSET {} |-> <<>>]
<1>1. NotYetDue(<<>>) = iter[DOMAIN <<>>]
  BY NotYetDueFold
<1>2. DOMAIN <<>> = {}
  OBVIOUS
<1>3. one = It(one)
  BY <1>2
<1> HIDE DEF It
<1>4. iter = It(iter)
  BY <1>3
<1>5. It(iter)[{}] = <<>>
  BY <1>2 DEF It
<1>6. QED
  BY <1>1, <1>2, <1>4, <1>5

LEMMA NotYetDueOne ==
    ASSUME NEW p
    PROVE  NotYetDue(<<p>>) = IF Due(p, "hang") THEN <<>> ELSE <<p>>
<1> DEFINE none == <<>>
           Step(acc, b) == IF Due(b, "hang") THEN acc ELSE Append(acc, b)
           It(f) == [s \in SUBSET (DOMAIN <<p>>) |->
                       IF s = {} THEN none
                       ELSE LET i == Max(s)
                                acc == f[s \ {i}]
                                b == <<p>>[i]
                            IN Step(acc, b)]
           iter == CHOOSE f : f = It(f)
           one == [s \in SUBSET {1} |-> IF s = {} THEN none ELSE Step(none, p)]
<1>1. NotYetDue(<<p>>) = iter[DOMAIN <<p>>]
  BY NotYetDueFold DEF none
<1>2. DOMAIN <<p>> = {1} /\ <<p>>[1] = p
  OBVIOUS
<1> HIDE DEF Step, none
<1>3. ASSUME NEW f, f[{}] = none
      PROVE  It(f) = one
  <2>1. \A s \in SUBSET {1} : s # {} => s = {1} /\ Max(s) = 1 /\ s \ {1} = {}
    BY OneIsMax
  <2>2. QED
    BY <1>2, <1>3, <2>1
<1>4. one[{}] = none
  OBVIOUS
<1>5. one = It(one)
  BY <1>3, <1>4
<1>6. \A f : It(f)[{}] = none
  BY <1>2
<1> HIDE DEF It
<1>7. iter = It(iter)
  BY <1>5
<1>8. iter = one
  BY <1>3, <1>6, <1>7
<1>9. Append(<<>>, p) = <<p>>
  OBVIOUS
<1>10. QED
  BY <1>1, <1>2, <1>8, <1>9 DEF Step, none

-----------------------------------------------------------------------------
(* Of what kind the results of the operators are.                          *)

LEMMA LastExists ==
    ASSUME NEW n \in Nat, NEW S \in SUBSET (1 .. n), S # {}
    PROVE  \E i \in S : \A j \in S : j <= i
BY MaxOfSet

(* Both parts of a block that was cut are parts of it.                     *)
LEMMA SplitType ==
    ASSUME NEW b \in Seq(STRING)
    PROVE  /\ SplitUTF8Tail(b).complete \in Seq(STRING)
           /\ SplitUTF8Tail(b).rest \in Seq(STRING)
<1> DEFINE heads == {i \in DOMAIN b : b[i] # "c"}
           i == CHOOSE i \in heads : \A j \in heads : j <= i
<1>1. CASE heads = {}
  <2>1. SplitUTF8Tail(b) = [complete |-> b, rest |-> <<>>]
    BY <1>1, Zenon DEF SplitUTF8Tail
  <2>2. QED
    BY <2>1
<1>2. CASE heads # {}
  <2>1. Len(b) \in Nat /\ heads \in SUBSET (1 .. Len(b))
    OBVIOUS
  <2>2. i \in heads
    <3> HIDE DEF heads
    <3>1. \E k \in heads : \A j \in heads : j <= k
      BY <1>2, <2>1, LastExists
    <3>2. QED
      BY <3>1
  <2>3. i \in 1 .. Len(b)
    BY <2>1, <2>2
  <2>4. \/ SplitUTF8Tail(b) = [complete |-> SubSeq(b, 1, i - 1), rest |-> SubSeq(b, i, Len(b))]
        \/ SplitUTF8Tail(b) = [complete |-> b, rest |-> <<>>]
    BY Zenon DEF SplitUTF8Tail
  <2> HIDE DEF i, heads
  <2>5. SubSeq(b, 1, i - 1) \in Seq(STRING) /\ SubSeq(b, i, Len(b)) \in Seq(STRING)
    <3>1. \A k \in 1 .. i - 1 : b[k] \in STRING
      BY <2>3
    <3>2. \A k \in i .. Len(b) : b[k] \in STRING
      BY <2>3
    <3>3. i \in Int /\ i - 1 \in Int /\ Len(b) \in Int
      BY <2>3
    <3>4. QED
      BY <3>1, <3>2, <3>3, SubSeqProperties
  <2>6. CASE SplitUTF8Tail(b) = [complete |-> SubSeq(b, 1, i - 1), rest |-> SubSeq(b, i, Len(b))]
    <3> DEFINE x == SubSeq(b, 1, i - 1)
               y == SubSeq(b, i, Len(b))
    <3>1. SplitUTF8Tail(b) = [complete |-> x, rest |-> y] /\ x \in Seq(STRING) /\ y \in Seq(STRING)
      BY <2>5, <2>6
    <3> HIDE DEF x, y
    <3>2. QED
      BY <3>1
  <2>7. CASE SplitUTF8Tail(b) = [complete |-> b, rest |-> <<>>]
    BY <2>7
  <2>8. QED
    BY <2>4, <2>6, <2>7
<1>3. QED
  BY <1>1, <1>2

LEMMA PrintableType ==
    ASSUME NEW b \in Seq(STRING)
    PROVE  Printable(b) \in SUBSET STRING
<1> DEFINE whole(i) == b[i] \in DOMAIN Lead /\ i + Lead[b[i]] <= Len(b)
                       /\ \A j \in i + 1 .. i + Lead[b[i]] : b[j] = "c"
           wholes == {k \in DOMAIN b : whole(k)}
           kept == {i \in DOMAIN b : b[i] \notin Control \cup DOMAIN Lead \cup {"c"}}
                   \cup UNION {i .. i + Lead[b[i]] : i \in wholes}
<1>1. ASSUME NEW i \in wholes, NEW j \in i .. i + Lead[b[i]]
      PROVE  b[j] \in STRING
  <2>1. i \in 1 .. Len(b) /\ i + Lead[b[i]] <= Len(b) /\ b[i] \in {"l2", "l3", "l4"}
    BY DEF Lead
  <2>2. Lead[b[i]] \in Nat
    BY <2>1 DEF Lead
  <2> HIDE DEF wholes
  <2>3. j \in 1 .. Len(b)
    BY <2>1, <2>2
  <2>4. QED
    BY <2>3
<1>2. \A i \in kept : b[i] \in STRING
  <2> HIDE DEF wholes
  <2>1. QED
    BY <1>1
<1>3. Printable(b) = {b[i] : i \in kept}
  BY Zenon DEF Printable, CharacterIn
<1> HIDE DEF kept
<1>4. QED
  BY <1>2, <1>3

(* What Encode keeps, and that it keeps the length.                        *)
KeptAsItIs(b, i) ==
    \/ b[i] \notin DOMAIN Lead \cup {"c"}
    \/ \E k \in 1 .. i : CharacterIn(b, k) /\ i <= k + Lead[b[k]]

LEMMA EncodeTyped ==
    ASSUME NEW b \in Seq(STRING)
    PROVE  /\ Encode(b) \in Seq(STRING) /\ Len(Encode(b)) = Len(b)
           /\ \A i \in 1 .. Len(b) : Encode(b)[i] = IF KeptAsItIs(b, i) THEN b[i] ELSE Replacement
<1> DEFINE e == [i \in 1 .. Len(b) |-> IF KeptAsItIs(b, i) THEN b[i] ELSE Replacement]
<1>0. \A i \in 1 .. Len(b) : b[i] \in STRING
  OBVIOUS
<1>1. Encode(b) = e
  BY DEF Encode, KeptAsItIs
<1>2. \A i \in 1 .. Len(b) : e[i] \in STRING
  <2>1. \A i \in 1 .. Len(b) : e[i] = b[i] \/ e[i] = Replacement
    OBVIOUS
  <2> HIDE DEF e
  <2>2. Replacement \in STRING
    BY ReplacementIsACharacter
  <2>3. ASSUME NEW i \in 1 .. Len(b)
        PROVE  e[i] \in STRING
    <3>1. b[i] \in STRING /\ (e[i] = b[i] \/ e[i] = Replacement)
      BY <1>0, <2>1
    <3>2. QED
      BY <2>2, <3>1
  <2>4. QED
    BY <2>3
<1>3. e \in Seq(STRING) /\ Len(e) = Len(b)
  <2>1. Len(b) \in Nat /\ e \in [1 .. Len(b) -> STRING]
    BY <1>2
  <2> HIDE DEF e
  <2>2. QED
    BY <2>1
<1>4. QED
  BY <1>1, <1>3

-----------------------------------------------------------------------------
(* What is done to the queue: it becomes s from r, with the same lines or  *)
(* with one more.                                                          *)

QueueMoves(r, s) ==
    /\ s \in Queues /\ Len(s.lines) <= PendingCap
    /\ s.closed = r.closed
    /\ s.header = r.header \/ (r.header = "none" /\ s.header = "line")
    /\ r.dropped <= s.dropped /\ r.masked <= s.masked /\ (r.stopped => s.stopped)

Keeps(r, s) == s.lines = r.lines /\ s.lastT = r.lastT

Adds(r, s, l) ==
    /\ ~r.closed /\ l \in CastLines
    /\ s.lines = Append(r.lines, l) /\ s.lastT = l.t /\ r.lastT <= l.t

(* Why an input need not have a line.                                      *)
Excused(s) ==
    s.closed \/ ~opt.recordInput \/ s.dropped > 0 \/ opt.passwordMode = "omit"

LEMMA DecideHeaderMoves ==
    ASSUME NEW r \in Queues, Len(r.lines) <= PendingCap
    PROVE  /\ QueueMoves(r, DecideHeader(r)) /\ Keeps(r, DecideHeader(r))
           /\ DecideHeader(r).header # "none" /\ DecideHeader(r).masked = r.masked
           /\ DecideHeader(r).dropped = r.dropped
<1>1. CASE r.header # "none"
  BY <1>1 DEF DecideHeader, QueueMoves, Keeps, Queues
<1>2. CASE r.header = "none"
  <2> DEFINE s == [r EXCEPT !.header = "line", !.headerSize = r.size, !.bytes = @ + 1]
  <2>1. DecideHeader(r) = s
    BY <1>2 DEF DecideHeader
  <2>2. /\ s \in Queues /\ s.header = "line" /\ s.lines = r.lines /\ s.lastT = r.lastT
        /\ s.closed = r.closed /\ s.dropped = r.dropped /\ s.masked = r.masked
        /\ s.stopped = r.stopped /\ r.dropped \in Nat /\ r.masked \in Nat
    <3>1. r.bytes + 1 \in Nat /\ r.size \in Nat
      BY DEF Queues
    <3>2. [r EXCEPT !.header = "line"] \in Queues
      BY DEF Queues
    <3>3. [r EXCEPT !.header = "line", !.headerSize = r.size] \in Queues
      BY <3>1, <3>2 DEF Queues
    <3>4. s \in Queues
      BY <3>1, <3>3 DEF Queues
    <3>5. QED
      BY <3>4 DEF Queues
  <2> HIDE DEF s
  <2>3. QED
    BY <1>2, <2>1, <2>2 DEF QueueMoves, Keeps
<1>3. QED
  BY <1>1, <1>2

LEMMA AppendLineMoves ==
    ASSUME RecorderConstants, NEW r \in Queues, Len(r.lines) <= PendingCap, NEW line \in CastLines
    PROVE  LET s == AppendLine(r, line) IN
           /\ QueueMoves(r, s) /\ s.masked = r.masked /\ s.lastT \in {r.lastT, line.t}
           /\ r.closed => s = r
           /\ \/ Keeps(r, s) /\ (line.typ = "i" => Excused(s))
              \/ Adds(r, s, [line EXCEPT !.t = s.lastT])
<1> DEFINE s == AppendLine(r, line)
           at == Later(line.t, r.lastT)
           length == Len(r.lines) + 1
           headed == IF length >= HeaderQueueCap THEN DecideHeader(r) ELSE r
           l == [line EXCEPT !.t = at]
           full == [headed EXCEPT !.lines = Append(@, l), !.bytes = @ + 1, !.lastT = at]
<1>1. /\ at \in {r.lastT, line.t} /\ at \in Nat /\ r.lastT <= at /\ r.lastT \in Nat
      /\ length \in Nat
  BY DEF Later, Queues, CastLines
<1>2. /\ headed \in Queues /\ headed.lines = r.lines /\ QueueMoves(r, headed)
      /\ headed.masked = r.masked
  <2>1. QueueMoves(r, r)
    BY DEF QueueMoves, Queues
  <2>2. QED
    BY <2>1, DecideHeaderMoves DEF QueueMoves, Keeps
<1>3. l \in CastLines /\ l.t = at
  <2> HIDE DEF at
  <2>1. QED
    BY <1>1 DEF CastLines
<1>4. CASE Refused(r, line.typ)
  <2>1. s = r
    BY <1>4 DEF AppendLine
  <2>2. line.typ = "i" => Excused(r)
    BY <1>4 DEF Refused, Excused
  <2>3. QED
    BY <2>1, <2>2 DEF QueueMoves, Keeps, Queues
<1>5. CASE ~Refused(r, line.typ) /\ line.typ = "o" /\ r.bytes >= MaxSessionBytes
  <2>1. s = [r EXCEPT !.stopped = TRUE] /\ ~r.closed
    BY <1>5 DEF AppendLine, Refused
  <2>2. /\ s \in Queues /\ s.lines = r.lines /\ s.lastT = r.lastT /\ s.header = r.header
        /\ s.closed = r.closed /\ s.dropped = r.dropped /\ s.masked = r.masked
        /\ s.stopped /\ r.dropped \in Nat /\ r.masked \in Nat
    BY <2>1 DEF Queues
  <2> HIDE DEF s
  <2>3. QED
    BY <1>5, <2>1, <2>2 DEF QueueMoves, Keeps, s
<1>6. CASE /\ ~Refused(r, line.typ) /\ ~(line.typ = "o" /\ r.bytes >= MaxSessionBytes)
           /\ length > PendingCap
  <2>1. s = [r EXCEPT !.dropped = @ + 1] /\ ~r.closed
    BY <1>6 DEF AppendLine, Refused
  <2>2. /\ s \in Queues /\ s.lines = r.lines /\ s.lastT = r.lastT /\ s.header = r.header
        /\ s.closed = r.closed /\ s.dropped = r.dropped + 1 /\ s.masked = r.masked
        /\ s.stopped = r.stopped /\ r.dropped \in Nat /\ r.masked \in Nat
    <3>1. s = [r EXCEPT !.dropped = @ + 1]
      BY <2>1
    <3>2. r.dropped + 1 \in Nat /\ r.dropped \in Nat /\ r.masked \in Nat
      BY DEF Queues
    <3> HIDE DEF s
    <3>3. s \in Queues
      BY <3>1, <3>2 DEF Queues
    <3>4. QED
      BY <3>1, <3>2, <3>3 DEF Queues
  <2> HIDE DEF s
  <2>3. QueueMoves(r, s) /\ Keeps(r, s) /\ Excused(s)
    BY <2>2 DEF QueueMoves, Keeps, Excused
  <2>4. QED
    BY <2>1, <2>2, <2>3 DEF s
<1>7. CASE /\ ~Refused(r, line.typ) /\ ~(line.typ = "o" /\ r.bytes >= MaxSessionBytes)
           /\ ~(length > PendingCap)
  <2>1. s = full /\ ~r.closed
    BY <1>7 DEF AppendLine, Refused
  <2>2. PendingCap \in Nat /\ length <= PendingCap
    BY <1>1, <1>7 DEF RecorderConstants
  <2>3. Append(r.lines, l) \in Seq(CastLines) /\ Len(Append(r.lines, l)) = length
    BY <1>3, AppendProperties DEF Queues
  <2> HIDE DEF headed, l, at, length
  <2>4. /\ full \in Queues /\ full.lines = Append(r.lines, l) /\ full.lastT = at
        /\ full.closed = headed.closed /\ full.header = headed.header /\ full.masked = headed.masked
        /\ full.dropped = headed.dropped /\ full.stopped = headed.stopped
    <3> DEFINE longer == Append(r.lines, l)
    <3>1. longer \in Seq(CastLines)
      BY <2>3
    <3>2. full = [headed EXCEPT !.lines = longer, !.bytes = @ + 1, !.lastT = at]
      BY <1>2
    <3> HIDE DEF longer, full
    <3>3. headed.bytes + 1 \in Nat /\ headed \in Queues
      BY <1>2 DEF Queues
    <3>4. [headed EXCEPT !.lines = longer] \in Queues
      BY <3>1, <3>3 DEF Queues
    <3>5. [headed EXCEPT !.lines = longer, !.bytes = @ + 1] \in Queues
      BY <3>3, <3>4 DEF Queues
    <3>6. full \in Queues
      BY <1>1, <3>2, <3>3, <3>5 DEF Queues
    <3>7. QED
      BY <3>2, <3>3 , <3>6 DEF longer, Queues
  <2> HIDE DEF full
  <2>5. QueueMoves(r, s) /\ s.masked = r.masked
    BY <1>2, <2>1, <2>2, <2>3, <2>4 DEF QueueMoves
  <2>6. [line EXCEPT !.t = s.lastT] = l
    BY <2>1, <2>4 DEF l
  <2>7. Adds(r, s, l)
    BY <1>1, <1>3, <2>1, <2>4 DEF Adds
  <2>8. QED
    BY <1>1, <2>1, <2>4, <2>5, <2>6, <2>7
<1>8. QED
  BY <1>4, <1>5, <1>6, <1>7

(* Input that waits no longer.                                             *)
LEMMA EmitMoves ==
    ASSUME RecorderConstants, NEW r \in Queues, Len(r.lines) <= PendingCap,
           NEW p \in PendingInputs, NEW plain \in BOOLEAN
    PROVE  LET s == EmitSettled(r, p, plain) IN
           /\ QueueMoves(r, s) /\ s.lastT \in {r.lastT, p.t}
           /\ \/ Keeps(r, s) /\ Excused(s)
              \/ \E l \in CastLines :
                    /\ Adds(r, s, l) /\ l.typ = "i" /\ l.n = p.n /\ l.plain = plain
                    /\ ~plain => s.masked = r.masked + 1
<1> DEFINE s == EmitSettled(r, p, plain)
<1>1. p.n \in Nat /\ p.t \in Nat
  BY DEF PendingInputs
<1>2. ASSUME NEW b \in BOOLEAN, NEW last \in Nat
      PROVE  LET l == [InputLine(p.n, b, p.t) EXCEPT !.t = last] IN
             /\ InputLine(p.n, b, p.t) \in CastLines /\ l \in CastLines
             /\ InputLine(p.n, b, p.t).typ = "i" /\ InputLine(p.n, b, p.t).t = p.t
             /\ l.typ = "i" /\ l.n = p.n /\ l.plain = b
  <2> DEFINE line == InputLine(p.n, b, p.t)
  <2>1. line = [typ |-> "i", data |-> <<>>, n |-> p.n, plain |-> b, t |-> p.t]
    BY DEF InputLine, Line
  <2>2. <<>> \in Seq(STRING)
    OBVIOUS
  <2>3. line \in CastLines
    BY <1>1, <2>1, <2>2 DEF CastLines
  <2> HIDE DEF line
  <2>4. [line EXCEPT !.t = last] \in CastLines
    BY <2>3 DEF CastLines
  <2>5. /\ [line EXCEPT !.t = last].typ = "i" /\ [line EXCEPT !.t = last].n = p.n
        /\ [line EXCEPT !.t = last].plain = b
    BY <2>1
  <2>6. QED
    BY <2>1, <2>3, <2>4, <2>5 DEF line
<1>3. CASE plain
  <2>1. s = AppendLine(r, InputLine(p.n, TRUE, p.t))
    BY <1>3 DEF EmitSettled
  <2> HIDE DEF s
  <2> DEFINE line == InputLine(p.n, TRUE, p.t)
  <2>0. line \in CastLines /\ line.t = p.t /\ line.typ = "i"
    BY <1>1, <1>2
  <2>2. QueueMoves(r, s) /\ s.lastT \in {r.lastT, p.t}
    <3> HIDE DEF line
    <3>1. QED
      BY <2>0, <2>1, AppendLineMoves DEF line
  <2>3. s.lastT \in Nat
    BY <2>2 DEF QueueMoves, Queues
  <2>4. \/ Keeps(r, s) /\ Excused(s)
        \/ Adds(r, s, [InputLine(p.n, TRUE, p.t) EXCEPT !.t = s.lastT])
    BY <1>2, <2>1, AppendLineMoves
  <2>5. QED
    BY <1>2, <1>3, <2>2, <2>3, <2>4 DEF s
<1>4. CASE ~plain /\ opt.passwordMode = "omit"
  <2>1. s = r
    BY <1>4 DEF EmitSettled
  <2>2. QED
    BY <1>4, <2>1 DEF QueueMoves, Keeps, Excused, Queues
<1>5. CASE ~plain /\ opt.passwordMode # "omit"
  <2> DEFINE m == [r EXCEPT !.masked = @ + 1]
  <2>1. s = AppendLine(m, InputLine(p.n, FALSE, p.t))
    BY <1>5 DEF EmitSettled
  <2>2. /\ m \in Queues /\ m.lines = r.lines /\ m.masked = r.masked + 1 /\ m.lastT = r.lastT
        /\ m.closed = r.closed /\ m.header = r.header /\ m.dropped = r.dropped
        /\ m.stopped = r.stopped /\ r.masked \in Nat
    <3> HIDE DEF s
    <3>1. r.masked \in Nat /\ r.masked + 1 \in Nat
      BY DEF Queues
    <3>2. m \in Queues
      BY <3>1 DEF Queues
    <3>3. QED
      BY <3>1 DEF Queues
  <2> HIDE DEF s, m
  <2> DEFINE line == InputLine(p.n, FALSE, p.t)
  <2>0. line \in CastLines /\ line.t = p.t /\ line.typ = "i"
    BY <1>1, <1>2
  <2>3. QueueMoves(m, s) /\ s.lastT \in {r.lastT, p.t} /\ s.masked = r.masked + 1
    <3> HIDE DEF line
    <3>1. QED
      BY <2>0, <2>1, <2>2, AppendLineMoves DEF line
  <2>4. QueueMoves(r, s) /\ s.lastT \in Nat
    BY <2>2, <2>3 DEF QueueMoves, Queues
  <2>5. \/ Keeps(m, s) /\ Excused(s)
        \/ Adds(m, s, [InputLine(p.n, FALSE, p.t) EXCEPT !.t = s.lastT])
    BY <1>2, <2>1, <2>2, AppendLineMoves
  <2>6. \/ Keeps(r, s) /\ Excused(s)
        \/ Adds(r, s, [InputLine(p.n, FALSE, p.t) EXCEPT !.t = s.lastT])
    BY <2>2, <2>5 DEF Keeps, Adds
  <2>7. QED
    BY <1>2, <1>5, <2>3, <2>4, <2>6 DEF s
<1>6. QED
  BY <1>3, <1>4, <1>5

(* What still waits after Settle.                                          *)
Remaining(blocks, rule) == IF rule = "hang" THEN NotYetDue(blocks) ELSE <<>>

(* The line l of the block p: plain only if the echo was seen.             *)
LineOf(l, p, r, s) ==
    /\ Adds(r, s, l) /\ l.typ = "i" /\ l.n = p.n
    /\ l.plain => p.reached
    /\ ~l.plain => s.masked = r.masked + 1

LEMMA SettleMoves ==
    ASSUME RecorderConstants, NEW r \in Queues, Len(r.lines) <= PendingCap,
           NEW blocks \in Seq(PendingInputs), Len(blocks) <= 1, NEW rule
    PROVE  LET s == Settle(r, blocks, rule) IN
           /\ QueueMoves(r, s)
           /\ s.lastT = r.lastT \/ (blocks # <<>> /\ s.lastT = blocks[1].t)
           /\ Remaining(blocks, rule) \in {<<>>, blocks}
           /\ blocks = <<>> => s = r
           /\ \/ Keeps(r, s) /\ (Remaining(blocks, rule) = blocks \/ Excused(s))
              \/ /\ blocks # <<>> /\ Remaining(blocks, rule) = <<>>
                 /\ \E l \in CastLines : LineOf(l, blocks[1], r, s)
<1> DEFINE s == Settle(r, blocks, rule)
<1>1. CASE blocks = <<>>
  <2>1. s = r /\ Remaining(blocks, rule) = blocks
    BY <1>1, SettleNone, NotYetDueNone DEF Remaining
  <2> HIDE DEF s
  <2>2. QueueMoves(r, s) /\ Keeps(r, s)
    BY <2>1 DEF QueueMoves, Keeps, Queues
  <2>3. QED
    BY <1>1, <2>1, <2>2 DEF s
<1>2. CASE blocks # <<>>
  <2> DEFINE p == blocks[1]
             plain == Plain(p, rule)
  <2>1. blocks = <<p>> /\ p \in PendingInputs
    <3>1. Len(blocks) = 1
      <4>1. Len(blocks) \in Nat \ {0}
        BY <1>2, EmptySeq
      <4>2. \A k \in Nat \ {0} : k <= 1 => k = 1
        OBVIOUS
      <4>3. QED
        BY <4>1, <4>2
    <3>2. p \in PendingInputs
      BY <3>1
    <3>3. <<p>> \in Seq(PendingInputs) /\ Len(<<p>>) = 1 /\ <<p>>[1] = blocks[1]
      BY <3>2
    <3>4. \A i \in 1 .. Len(blocks) : blocks[i] = <<p>>[i]
      BY <3>1, <3>3
    <3>5. QED
      BY <3>1, <3>2, <3>3, <3>4, SeqEqual
  <2>2. plain \in BOOLEAN /\ (plain => p.reached)
    BY DEF Plain
  <2> HIDE DEF p, plain
  <2>3. CASE Due(p, rule)
    <3>1. s = EmitSettled(r, p, plain)
      BY <2>1, <2>3, SettleOne DEF plain
    <3>2. Remaining(blocks, rule) = <<>>
      BY <2>1, <2>3, NotYetDueOne DEF Remaining
    <3> HIDE DEF s
    <3>3. /\ QueueMoves(r, s) /\ s.lastT \in {r.lastT, p.t}
          /\ \/ Keeps(r, s) /\ Excused(s)
             \/ \E l \in CastLines :
                   /\ Adds(r, s, l) /\ l.typ = "i" /\ l.n = p.n /\ l.plain = plain
                   /\ ~plain => s.masked = r.masked + 1
      BY <2>1, <2>2, <3>1, EmitMoves
    <3>4. (Keeps(r, s) /\ Excused(s)) \/ \E l \in CastLines : LineOf(l, p, r, s)
      BY <2>2, <3>3 DEF LineOf
    <3>5. QED
      BY <1>2, <3>2, <3>3, <3>4 DEF s, p
  <2>4. CASE ~Due(p, rule)
    <3>1. s = r
      BY <2>1, <2>4, SettleOne
    <3>2. Remaining(blocks, rule) = blocks
      BY <2>1, <2>4, NotYetDueOne DEF Remaining, Due
    <3> HIDE DEF s
    <3>3. QueueMoves(r, s) /\ Keeps(r, s)
      BY <3>1 DEF QueueMoves, Keeps, Queues
    <3>4. QED
      BY <1>2, <3>1, <3>2, <3>3 DEF s
  <2>5. QED
    BY <2>3, <2>4
<1>3. QED
  BY <1>1, <1>2

-----------------------------------------------------------------------------
(* The lines of a recording, and one more at either end.                   *)

Sorted(all, last) ==
    /\ \A i \in DOMAIN all : all[i].t <= last
    /\ \A i, j \in DOMAIN all : i < j =>
          /\ all[i].t <= all[j].t
          /\ all[i].typ = "i" /\ all[j].typ = "i" => all[i].n < all[j].n

HeadedOnce(all) == \A i \in DOMAIN all : all[i].typ = "h" => i = 1
Unheaded(all) == \A i \in DOMAIN all : all[i].typ # "h"
InputsOf(all) == {l \in Range(all) : l.typ = "i"}

LEMMA LineAppended ==
    ASSUME NEW all \in Seq(CastLines), NEW l \in CastLines, NEW last \in Nat, last <= l.t,
           Sorted(all, last), HeadedOnce(all), l.typ # "h",
           l.typ = "i" => \A k \in InputsOf(all) : k.n < l.n
    PROVE  LET more == Append(all, l) IN
           /\ more \in Seq(CastLines) /\ Sorted(more, l.t) /\ HeadedOnce(more)
           /\ Unheaded(all) => Unheaded(more)
           /\ all # <<>> => more # <<>> /\ more[1] = all[1]
           /\ InputsOf(more) = InputsOf(all) \cup {k \in {l} : k.typ = "i"}
<1> DEFINE more == Append(all, l)
           n == Len(all)
<1>1. /\ more \in Seq(CastLines) /\ more # <<>>
      /\ DOMAIN more = 1 .. n + 1 /\ DOMAIN all = 1 .. n /\ n \in Nat
      /\ \A i \in 1 .. n : more[i] = all[i]
      /\ more[n + 1] = l
  BY AppendProperties
<1>2. \A i \in 1 .. n : all[i] \in CastLines /\ all[i].t \in Nat
  <2>1. \A k \in CastLines : k.t \in Nat
    BY DEF CastLines
  <2>2. QED
    BY <2>1
<1>3. \A i \in 1 .. n : all[i].typ = "i" => all[i] \in InputsOf(all)
  BY <1>1 DEF InputsOf, Range
<1>4. l.t \in Nat
  BY DEF CastLines
<1> HIDE DEF more, n
<1>5. \A i \in DOMAIN more : (i \in 1 .. n /\ more[i] = all[i]) \/ (i = n + 1 /\ more[i] = l)
  BY <1>1
<1>6. Sorted(more, l.t)
  <2>1. \A i \in DOMAIN more : more[i].t <= l.t
    BY <1>1, <1>2, <1>4, <1>5 DEF Sorted
  <2>2. ASSUME NEW i \in DOMAIN more, NEW j \in DOMAIN more, i < j
        PROVE  /\ more[i].t <= more[j].t
               /\ more[i].typ = "i" /\ more[j].typ = "i" => more[i].n < more[j].n
    <3>1. i \in 1 .. n /\ more[i] = all[i]
      BY <1>1, <2>2
    <3>2. CASE j \in 1 .. n
      BY <1>1, <2>2, <3>1, <3>2 DEF Sorted
    <3>3. CASE j = n + 1
      BY <1>1, <1>3, <2>1, <3>1, <3>3
    <3>4. QED
      BY <1>1, <3>2, <3>3
  <2>3. QED
    BY <2>1, <2>2 DEF Sorted
<1>7. HeadedOnce(more) /\ (Unheaded(all) => Unheaded(more))
  BY <1>1, <1>5 DEF HeadedOnce, Unheaded
<1>8. all # <<>> => more[1] = all[1]
  <2>1. all # <<>> => n # 0
    BY EmptySeq DEF n
  <2>2. QED
    BY <1>1, <2>1
<1>9. Range(more) = Range(all) \cup {l}
  BY <1>1, <1>5 DEF Range
<1>10. QED
  BY <1>1, <1>6, <1>7, <1>8, <1>9 DEF InputsOf, more

LEMMA HeaderPrepended ==
    ASSUME NEW all \in Seq(CastLines), NEW h \in CastLines, NEW last \in Nat,
           Sorted(all, last), Unheaded(all), h.typ = "h", h.t = 0
    PROVE  LET more == <<h>> \o all IN
           /\ more \in Seq(CastLines) /\ Sorted(more, last) /\ HeadedOnce(more)
           /\ more # <<>> /\ more[1] = h
           /\ InputsOf(more) = InputsOf(all)
<1> DEFINE more == <<h>> \o all
           n == Len(all)
<1>1. /\ <<h>> \in Seq(CastLines) /\ Len(<<h>>) = 1 /\ <<h>>[1] = h /\ n \in Nat
      /\ DOMAIN all = 1 .. n
  OBVIOUS
<1>2. /\ more \in Seq(CastLines) /\ Len(more) = 1 + n
      /\ \A i \in 1 .. 1 + n : more[i] = IF i <= 1 THEN <<h>>[i] ELSE all[i - 1]
  BY <1>1, ConcatProperties
<1>3. DOMAIN more = 1 .. n + 1 /\ more # <<>>
  BY <1>1, <1>2
<1>4. \A i \in 1 .. n : all[i] \in CastLines /\ all[i].t \in Nat
  <2>1. \A k \in CastLines : k.t \in Nat
    BY DEF CastLines
  <2>2. QED
    BY <2>1
<1> HIDE DEF more, n
<1>5. more[1] = h /\ \A i \in 2 .. n + 1 : more[i] = all[i - 1] /\ i - 1 \in 1 .. n
  BY <1>1, <1>2
<1>6. \A i \in DOMAIN more : i = 1 \/ i \in 2 .. n + 1
  BY <1>1, <1>3
<1>7. Sorted(more, last)
  <2>1. \A i \in DOMAIN more : more[i].t <= last
    <3>1. \A i \in 1 .. n : all[i].t <= last
      BY <1>1 DEF Sorted
    <3>2. QED
      BY <1>5, <1>6, <3>1
  <2>2. ASSUME NEW i \in DOMAIN more, NEW j \in DOMAIN more, i < j
        PROVE  /\ more[i].t <= more[j].t
               /\ more[i].typ = "i" /\ more[j].typ = "i" => more[i].n < more[j].n
    <3>1. j \in 2 .. n + 1 /\ more[j] = all[j - 1] /\ j - 1 \in 1 .. n
      BY <1>1, <1>3, <1>5, <2>2
    <3>2. CASE i = 1
      BY <1>4, <1>5, <3>1, <3>2
    <3>3. CASE i \in 2 .. n + 1
      <4>1. more[i] = all[i - 1] /\ i - 1 \in 1 .. n /\ i - 1 < j - 1
        BY <1>5, <2>2, <3>1, <3>3
      <4>2. \A k, m \in 1 .. n : k < m =>
               /\ all[k].t <= all[m].t
               /\ all[k].typ = "i" /\ all[m].typ = "i" => all[k].n < all[m].n
        BY <1>1 DEF Sorted
      <4>3. QED
        BY <3>1, <4>1, <4>2
    <3>4. QED
      BY <1>6, <3>2, <3>3
  <2>3. QED
    BY <2>1, <2>2 DEF Sorted
<1>8. HeadedOnce(more)
  BY <1>1, <1>5, <1>6 DEF HeadedOnce, Unheaded
<1>9. Range(more) = {h} \cup Range(all)
  <2>1. Range(<<h>>) = {h}
    BY <1>1 DEF Range
  <2>2. QED
    <3>1. Range(<<h>> \o all) = Range(<<h>>) \cup Range(all)
      BY <1>1, RangeConcatenation
    <3>2. QED
      BY <2>1, <3>1, Zenon DEF more
<1>10. QED
  BY <1>2, <1>3, <1>5, <1>7, <1>8, <1>9 DEF InputsOf, more

-----------------------------------------------------------------------------
(* TypeOK: first the queue.                                                *)

Fine(r) == r \in Queues /\ Len(r.lines) <= PendingCap /\ r.lastT <= now
Waiting(blocks) ==
    blocks \in Seq(PendingInputs) /\ Len(blocks) <= 1 /\ \A i \in DOMAIN blocks : blocks[i].t <= now

LEMMA SettingsKnown ==
    ASSUME RecorderConstants, TypeOK
    PROVE  /\ opt \in Options /\ work.shell \in Seq(STRING)
           /\ work.cuts \subseteq 1 .. Len(work.shell) /\ work.blocks \subseteq Seq(STRING)
           /\ work.sizes \subseteq Nat \ {0} /\ work.ticks \in Nat /\ work.callers \subseteq Callers
           /\ now \in Nat /\ pos \in Nat
<1>1. PICK s \in Scenarios : opt = s.opt /\ work = s.work
  BY DEF TypeOK
<1>2. /\ s.opt \in Options
      /\ s.work.shell \in Seq(STRING) /\ s.work.cuts \subseteq 1 .. Len(s.work.shell)
      /\ s.work.blocks \subseteq Seq(STRING) /\ s.work.inputs \in Nat
      /\ s.work.sizes \subseteq Nat \ {0} /\ s.work.ticks \in Nat
      /\ s.work.callers \subseteq Callers
  BY Zenon DEF RecorderConstants
<1>3. now \in 0 .. work.ticks /\ pos \in 0 .. Len(work.shell)
  BY DEF TypeOK
<1>4. Len(work.shell) \in Nat /\ work.ticks \in Nat
  BY <1>1, <1>2
<1>5. now \in Nat /\ pos \in Nat
  BY <1>3, <1>4
<1>6. QED
  BY <1>1, <1>2, <1>5

LEMMA FineSettled ==
    ASSUME RecorderConstants, NEW r, Fine(r), NEW blocks, Waiting(blocks), NEW rule
    PROVE  Fine(Settle(r, blocks, rule))
<1> DEFINE s == Settle(r, blocks, rule)
<1>1. QueueMoves(r, s) /\ (s.lastT = r.lastT \/ (blocks # <<>> /\ s.lastT = blocks[1].t))
  BY SettleMoves DEF Fine, Waiting
<1>2. blocks # <<>> => 1 \in DOMAIN blocks
  BY EmptySeq DEF Waiting
<1> HIDE DEF s
<1>3. s.lastT <= now
  BY <1>1, <1>2 DEF Fine, Waiting
<1>4. QED
  BY <1>1, <1>3 DEF Fine, QueueMoves, s

LEMMA FineAppended ==
    ASSUME RecorderConstants, NEW r, Fine(r), NEW line \in CastLines, line.t <= now
    PROVE  Fine(AppendLine(r, line))
<1> DEFINE s == AppendLine(r, line)
<1>1. QueueMoves(r, s) /\ s.lastT \in {r.lastT, line.t}
  BY AppendLineMoves DEF Fine
<1> HIDE DEF s
<1>2. QED
  BY <1>1 DEF Fine, QueueMoves, s

LEMMA FineChanged ==
    ASSUME NEW r, Fine(r)
    PROVE  /\ Fine(DecideHeader(r))
           /\ Fine([r EXCEPT !.masked = @ + 1]) /\ Fine([r EXCEPT !.dropped = @ + 1])
           /\ Fine([r EXCEPT !.closed = TRUE])
           /\ \A n \in Nat : Fine([r EXCEPT !.size = n])
<1>1. r \in Queues /\ r.masked + 1 \in Nat /\ r.dropped + 1 \in Nat
  BY DEF Fine, Queues
<1>2. Fine(DecideHeader(r))
  BY DecideHeaderMoves DEF Fine, QueueMoves, Keeps
<1>3. Fine([r EXCEPT !.masked = @ + 1])
  BY <1>1 DEF Fine, Queues
<1>4. Fine([r EXCEPT !.dropped = @ + 1])
  BY <1>1 DEF Fine, Queues
<1>5. Fine([r EXCEPT !.closed = TRUE])
  BY <1>1 DEF Fine, Queues
<1>6. \A n \in Nat : Fine([r EXCEPT !.size = n])
  BY <1>1 DEF Fine, Queues
<1>7. QED
  BY <1>2, <1>3, <1>4, <1>5, <1>6

(* The same block, with more seen.                                         *)
LEMMA MatchMoves ==
    ASSUME NEW block \in Seq(STRING), pend \in Seq(PendingInputs), Len(pend) <= 1
    PROVE  LET m == MatchPending(block) IN
           /\ m \in Seq(PendingInputs) /\ Len(m) = Len(pend)
           /\ \A k \in DOMAIN m :
                /\ k \in DOMAIN pend
                /\ m[k].n = pend[k].n /\ m[k].t = pend[k].t /\ m[k].printable = pend[k].printable
                /\ m[k].seen \subseteq pend[k].seen \cup Range(block)
                /\ m[k].reached => \/ pend[k].reached
                                   \/ pend[k].printable \subseteq pend[k].seen \cup Range(block)
<1> DEFINE New(k) == LET seen == pend[k].seen \cup Range(block)
                     IN IF pend[k].reached THEN pend[k]
                        ELSE [pend[k] EXCEPT !.seen = seen, !.reached = pend[k].printable \subseteq seen]
           m == [k \in DOMAIN pend |-> New(k)]
           n == Len(pend)
<1>1. n \in Nat /\ DOMAIN pend = 1 .. n /\ \A k \in 1 .. n : pend[k] \in PendingInputs
  OBVIOUS
<1>2. Range(block) \subseteq STRING
  BY RangeOfSeq
<1>3. ASSUME NEW p \in PendingInputs
      PROVE  LET seen == p.seen \cup Range(block)
                 b == p.printable \subseteq seen
                 x == [p EXCEPT !.seen = seen, !.reached = b] IN
             /\ x \in PendingInputs /\ x.n = p.n /\ x.t = p.t /\ x.printable = p.printable
             /\ x.seen = seen /\ (x.reached => b)
  <2> DEFINE seen == p.seen \cup Range(block)
             b == p.printable \subseteq seen
             x == [p EXCEPT !.seen = seen, !.reached = b]
  <2>1. seen \in SUBSET STRING /\ b \in BOOLEAN
    BY <1>2 DEF PendingInputs
  <2> HIDE DEF seen, b
  <2>2. x \in PendingInputs
    BY <2>1 DEF PendingInputs
  <2>3. x.n = p.n /\ x.t = p.t /\ x.printable = p.printable /\ x.seen = seen /\ x.reached = b
    BY DEF PendingInputs
  <2> HIDE DEF x
  <2>4. QED
    BY <2>2, <2>3 DEF x, seen, b
<1>4. ASSUME NEW k \in 1 .. n
      PROVE  /\ New(k) \in PendingInputs
             /\ New(k).n = pend[k].n /\ New(k).t = pend[k].t /\ New(k).printable = pend[k].printable
             /\ New(k).seen \subseteq pend[k].seen \cup Range(block)
             /\ New(k).reached => \/ pend[k].reached
                                  \/ pend[k].printable \subseteq pend[k].seen \cup Range(block)
  <2>1. CASE pend[k].reached
    BY <1>1, <2>1
  <2>2. CASE ~pend[k].reached
    BY <1>1, <1>3, <2>2
  <2>3. QED
    BY <2>1, <2>2
<1> HIDE DEF New
<1>5. m \in Seq(PendingInputs) /\ Len(m) = n /\ DOMAIN m = 1 .. n /\ \A k \in 1 .. n : m[k] = New(k)
  BY <1>1, <1>4
<1>6. MatchPending(block) = m
  BY DEF MatchPending, New
<1> HIDE DEF m, n
<1>7. QED
  BY <1>1, <1>4, <1>5, <1>6 DEF n

LEMMA WaitingKept ==
    ASSUME TypeOK
    PROVE  /\ Fine(q) /\ Waiting(pend) /\ Waiting(<<>>)
           /\ \A block \in Seq(STRING) : Waiting(MatchPending(block))
           /\ Waiting(NotYetDue(pend))
<1>1. Fine(q) /\ Waiting(pend) /\ Waiting(<<>>)
  BY DEF TypeOK, Fine, Waiting
<1>2. ASSUME NEW block \in Seq(STRING)
      PROVE  Waiting(MatchPending(block))
  BY <1>1, MatchMoves DEF Waiting
<1>3. NotYetDue(pend) \in {<<>>, pend}
  <2>1. CASE pend = <<>>
    BY <2>1, NotYetDueNone
  <2>2. CASE pend # <<>>
    <3>1. pend = <<pend[1]>>
      <4>1. Len(pend) \in Nat \ {0} /\ Len(pend) <= 1
        BY <1>1, <2>2, EmptySeq DEF Waiting
      <4>2. \A k \in Nat \ {0} : k <= 1 => k = 1
        OBVIOUS
      <4>3. Len(pend) = 1
        BY <4>1, <4>2
      <4>4. pend \in Seq(PendingInputs)
        BY <1>1 DEF Waiting
      <4> DEFINE p == pend[1]
      <4>a. p \in PendingInputs
        <5>1. 1 \in 1 .. Len(pend)
          BY <4>3
        <5>2. QED
          BY <4>4, <5>1, ElementOfSeq
      <4> HIDE DEF p
      <4>b. <<p>> \in Seq(PendingInputs) /\ Len(<<p>>) = 1 /\ <<p>>[1] = p
        BY <4>a
      <4>5. <<pend[1]>> \in Seq(PendingInputs) /\ Len(<<pend[1]>>) = 1 /\ <<pend[1]>>[1] = pend[1]
        BY <4>b DEF p
      <4>6. \A i \in 1 .. Len(pend) : pend[i] = <<pend[1]>>[i]
        BY <4>3, <4>5
      <4>7. QED
        BY <4>3, <4>4, <4>5, <4>6, SeqEqual
    <3>2. QED
      BY <3>1, NotYetDueOne
  <2>3. QED
    BY <2>1, <2>2
<1>4. QED
  BY <1>1, <1>2, <1>3

LEMMA LineTypes ==
    /\ \A n \in Nat, plain \in BOOLEAN, t \in Nat :
         /\ InputLine(n, plain, t) \in CastLines /\ InputLine(n, plain, t).typ = "i"
         /\ InputLine(n, plain, t).n = n /\ InputLine(n, plain, t).plain = plain
         /\ InputLine(n, plain, t).t = t
    /\ \A block \in Seq(STRING), t \in Nat :
         /\ OutputLine(block, t) \in CastLines /\ OutputLine(block, t).typ = "o"
         /\ OutputLine(block, t).t = t
    /\ \A typ \in {"h", "r"}, size \in Nat, t \in Nat :
         /\ SizeLine(typ, size, t) \in CastLines /\ SizeLine(typ, size, t).typ = typ
         /\ SizeLine(typ, size, t).t = t
    /\ \A l \in CastLines, t \in Nat :
         /\ [l EXCEPT !.t = t] \in CastLines /\ [l EXCEPT !.t = t].typ = l.typ
         /\ [l EXCEPT !.t = t].n = l.n /\ [l EXCEPT !.t = t].plain = l.plain
         /\ [l EXCEPT !.t = t].t = t /\ l.typ \in {"h", "o", "i", "r"} /\ l.n \in Nat
         /\ l.plain \in BOOLEAN /\ l.t \in Nat
<1>0. <<>> \in Seq(STRING)
  OBVIOUS
<1>1. ASSUME NEW typ \in {"h", "o", "i", "r"}, NEW data \in Seq(STRING), NEW n \in Nat,
             NEW plain \in BOOLEAN, NEW t \in Nat
      PROVE  Line(typ, data, n, plain, t) \in CastLines
  BY <1>1 DEF Line, CastLines
<1>2. ASSUME NEW n \in Nat, NEW plain \in BOOLEAN, NEW t \in Nat
      PROVE  /\ InputLine(n, plain, t) \in CastLines /\ InputLine(n, plain, t).typ = "i"
             /\ InputLine(n, plain, t).n = n /\ InputLine(n, plain, t).plain = plain
             /\ InputLine(n, plain, t).t = t
  <2>1. InputLine(n, plain, t) \in CastLines
    BY <1>0, <1>1 DEF InputLine
  <2>2. QED
    BY <2>1 DEF InputLine, Line
<1>3. ASSUME NEW block \in Seq(STRING), NEW t \in Nat
      PROVE  /\ OutputLine(block, t) \in CastLines /\ OutputLine(block, t).typ = "o"
             /\ OutputLine(block, t).t = t
  <2>1. OutputLine(block, t) \in CastLines
    BY <1>1, EncodeTyped DEF OutputLine
  <2>2. QED
    BY <2>1 DEF OutputLine, Line
<1>4. ASSUME NEW typ \in {"h", "r"}, NEW size \in Nat, NEW t \in Nat
      PROVE  /\ SizeLine(typ, size, t) \in CastLines /\ SizeLine(typ, size, t).typ = typ
             /\ SizeLine(typ, size, t).t = t
  <2>1. SizeLine(typ, size, t) \in CastLines
    BY <1>0, <1>1 DEF SizeLine
  <2>2. QED
    BY <2>1 DEF SizeLine, Line
<1>5. ASSUME NEW l \in CastLines, NEW t \in Nat
      PROVE  /\ [l EXCEPT !.t = t] \in CastLines /\ [l EXCEPT !.t = t].typ = l.typ
             /\ [l EXCEPT !.t = t].n = l.n /\ [l EXCEPT !.t = t].plain = l.plain
             /\ [l EXCEPT !.t = t].t = t /\ l.typ \in {"h", "o", "i", "r"} /\ l.n \in Nat
             /\ l.plain \in BOOLEAN /\ l.t \in Nat
  BY DEF CastLines
<1>6. QED
  BY <1>2, <1>3, <1>4, <1>5

LEMMA QueueTyped ==
    ASSUME RecorderConstants, TypeOK, Next
    PROVE  q' \in Queues /\ Len(q'.lines) <= PendingCap /\ q'.lastT <= now'
<1> USE SettingsKnown, WaitingKept
<1>1. ASSUME now' = now, Fine(q')
      PROVE  q' \in Queues /\ Len(q'.lines) <= PendingCap /\ q'.lastT <= now'
  BY <1>1 DEF Fine
<1>2. ASSUME q' = q
      PROVE  q' \in Queues /\ Len(q'.lines) <= PendingCap /\ q'.lastT <= now'
  <2>1. now' = now \/ now' = now + 1
    BY Zenon DEF Next, OutputSplit, OutputMatch, OutputAppend, Reader, SkipInput, WriteInput,
         WriteInputMasked, DeferToProgram, WriteInputDeferred, DeferAfterClose, DeferredPlain,
         WriteResize, ReaderAppend, NotReader, EventSnapshot, EventWrite, Flush, FlushTake,
         FlushWrite, FlushEnd, NotFlusher, Close, CloseTail, CloseTailAppend, CloseMark, CloseTake,
         CloseMeta, NotCloser, Tick
  <2>2. Fine(q) /\ q.lastT \in Nat /\ now \in Nat
    BY DEF Fine, Queues
  <2>3. QED
    BY <1>2, <2>1, <2>2 DEF Fine
<1>3. CASE OutputMatch
  <2>1. pump.block \in Seq(STRING)
    BY DEF TypeOK
  <2>2. Fine(Settle(q, MatchPending(pump.block), "boundary"))
    BY <2>1, FineSettled
  <2>3. now' = now /\ (q' = q \/ q' = Settle(q, MatchPending(pump.block), "boundary"))
    BY <1>3 DEF OutputMatch
  <2>4. QED
    BY <1>1, <1>2, <2>2, <2>3
<1>4. CASE OutputAppend
  <2>1. PICK t \in pump.since .. now : q' = AppendLine(q, OutputLine(pump.block, t))
    BY <1>4 DEF OutputAppend
  <2>2. pump.block \in Seq(STRING) /\ pump.since \in 0 .. now /\ t \in Nat /\ t <= now
    BY DEF TypeOK
  <2> DEFINE line == OutputLine(pump.block, t)
  <2>3. line \in CastLines /\ line.t <= now
    BY <2>2, LineTypes
  <2> HIDE DEF line
  <2>4. Fine(AppendLine(q, line)) /\ now' = now
    BY <1>4, <2>3, FineAppended DEF OutputAppend
  <2>5. QED
    BY <1>1, <2>1, <2>4 DEF line
<1> DEFINE settled == Settle(q, pend, "boundary")
<1>5. Fine(settled)
  BY FineSettled
<1> HIDE DEF settled
<1>6. CASE \E b \in work.blocks, mode \in Modes :
             \/ SkipInput(b, mode) \/ DeferToProgram(b, mode) \/ DeferAfterClose(b, mode)
  BY <1>2, <1>6 DEF SkipInput, DeferToProgram, DeferAfterClose
<1>7. CASE \/ DeferredPlain
           \/ \E b \in work.blocks, mode \in Modes :
                \/ WriteInput(b, mode) \/ WriteInputMasked(b, mode) \/ WriteInputDeferred(b, mode)
  <2>1. /\ now' = now
        /\ q' \in {settled, [settled EXCEPT !.masked = @ + 1], [settled EXCEPT !.dropped = @ + 1]}
    BY <1>7 DEF WriteInput, WriteInputMasked, WriteInputDeferred, DeferredPlain, NotReader,
                SettleBoundary, settled
  <2>2. QED
    BY <1>1, <1>5, <2>1, FineChanged
<1>8. CASE \E s \in work.sizes : WriteResize(s)
  <2>1. PICK s \in work.sizes : q' = DecideHeader([settled EXCEPT !.size = s]) /\ now' = now
    BY <1>8 DEF WriteResize, NotReader, SettleBoundary, settled
  <2>2. Fine([settled EXCEPT !.size = s])
    BY <1>5, FineChanged
  <2>3. QED
    BY <1>1, <2>1, <2>2, FineChanged
<1>9. CASE ReaderAppend
  <2>1. PICK t \in reader.line.t .. now : q' = AppendLine(q, [reader.line EXCEPT !.t = t])
    BY <1>9 DEF ReaderAppend
  <2>2. reader.line \in CastLines
    BY <1>9 DEF ReaderAppend, TypeOK
  <2>3. t \in Nat /\ t <= now
    <3>1. reader.line.t \in Nat
      BY <2>2, LineTypes
    <3>2. QED
      BY <3>1
  <2> DEFINE line == [reader.line EXCEPT !.t = t]
  <2>4. line \in CastLines /\ line.t <= now
    BY <2>2, <2>3, LineTypes
  <2> HIDE DEF line
  <2>5. Fine(AppendLine(q, line)) /\ now' = now
    BY <1>9, <2>4, FineAppended DEF ReaderAppend, NotReader
  <2>6. QED
    BY <1>1, <2>1, <2>5 DEF line
<1>10. CASE \E e \in Callers : EventSnapshot(e) \/ EventWrite(e)
  <2>1. q' = q \/ (q' = settled /\ now' = now)
    BY <1>10 DEF EventSnapshot, EventWrite, lockVars, SettleBoundary, settled
  <2>2. QED
    BY <1>1, <1>2, <1>5, <2>1
<1>11. CASE FlushTake
  <2> DEFINE r == Settle(q, pend, "hang")
             headed == DecideHeader(r)
             taken == [headed EXCEPT !.lines = <<>>, !.header = "flushed"]
  <2>1. now' = now /\ (q' = r \/ q' = taken)
    BY <1>11 DEF FlushTake, NotFlusher, SettleOverdue
  <2>2. Fine(r)
    BY FineSettled
  <2>3. Fine(headed)
    BY <2>2, FineChanged
  <2> HIDE DEF r, headed
  <2>4. Fine(taken)
    <3>1. PendingCap \in Nat /\ <<>> \in Seq(CastLines) /\ Len(<<>>) = 0
      BY DEF RecorderConstants
    <3>2. taken \in Queues /\ taken.lines = <<>> /\ taken.lastT = headed.lastT
      BY <2>3, <3>1 DEF Fine, Queues
    <3> HIDE DEF taken
    <3>3. QED
      BY <2>3, <3>1, <3>2 DEF Fine
  <2>5. QED
    BY <1>1, <2>1, <2>2, <2>4
<1>12. CASE FlushWrite \/ FlushEnd \/ OutputSplit \/ CloseTail \/ CloseMeta
  BY <1>2, <1>12 DEF FlushWrite, FlushEnd, OutputSplit, CloseTail, CloseMeta
<1>13. CASE CloseTailAppend
  <2>1. PICK t \in closer.since .. now : q' = AppendLine(q, OutputLine(closer.block, t))
    BY <1>13 DEF CloseTailAppend
  <2>2. closer.block \in Seq(STRING) /\ closer.since \in 0 .. now
    <3>1. closer.at = "tail"
      BY <1>13 DEF CloseTailAppend
    <3>2. closer \in [at : {"tail"}, block : Seq(STRING), since : 0 .. now]
      BY <3>1 DEF TypeOK
    <3>3. QED
      BY <3>2
  <2>3. t \in Nat /\ t <= now
    BY <2>2
  <2> DEFINE line == OutputLine(closer.block, t)
  <2>4. line \in CastLines /\ line.t <= now
    BY <2>2, <2>3, LineTypes
  <2> HIDE DEF line
  <2>5. Fine(AppendLine(q, line)) /\ now' = now
    BY <1>13, <2>4, FineAppended DEF CloseTailAppend, NotCloser
  <2>6. QED
    BY <1>1, <2>1, <2>5 DEF line
<1>14. CASE CloseMark
  <2> DEFINE r == Settle(q, pend, "close")
  <2>1. Fine(r)
    BY FineSettled
  <2>2. q' = DecideHeader([r EXCEPT !.closed = TRUE]) /\ now' = now
    BY <1>14 DEF CloseMark, NotCloser, SettleForced
  <2> HIDE DEF r
  <2>3. QED
    BY <1>1, <2>1, <2>2, FineChanged
<1>15. CASE CloseTake
  <2>1. /\ q' = [q EXCEPT !.lines = <<>>, !.header = IF @ = "line" THEN "none" ELSE @]
        /\ now' = now
    BY <1>15 DEF CloseTake, NotCloser
  <2> DEFINE header == IF q.header = "line" THEN "none" ELSE q.header
             taken == [q EXCEPT !.lines = <<>>, !.header = header]
  <2>a. Fine(q) /\ header \in {"none", "line", "flushed"} /\ q' = taken
    BY <2>1 DEF Fine, Queues
  <2>2. Fine(q')
    <3>1. PendingCap \in Nat /\ <<>> \in Seq(CastLines) /\ Len(<<>>) = 0
      BY DEF RecorderConstants
    <3> HIDE DEF header
    <3>2. taken \in Queues /\ taken.lines = <<>> /\ taken.lastT = q.lastT
      BY <2>a, <3>1 DEF Fine, Queues
    <3> HIDE DEF taken
    <3>3. QED
      BY <2>a, <3>1, <3>2 DEF Fine
  <2>3. QED
    BY <1>1, <2>1, <2>2
<1>16. CASE Tick
  BY <1>2, <1>16 DEF Tick, lockVars
<1>17. QED
  BY <1>3, <1>4, <1>6, <1>7, <1>8, <1>9, <1>10, <1>11, <1>12, <1>13, <1>14, <1>15, <1>16
     DEF Next, Reader, Flush, Close

(* The other variables, by the goroutine that changes them.                *)
OutputStep == OutputSplit \/ OutputMatch \/ OutputAppend
EventStep == \E e \in Callers : EventSnapshot(e) \/ EventWrite(e)

LEMMA ClockTyped ==
    ASSUME RecorderConstants, TypeOK, Next
    PROVE  /\ opt' = opt /\ work' = work /\ now' \in {now, now + 1} /\ now' \in 0 .. work'.ticks
           /\ now \in Nat /\ now' \in Nat
           /\ (pos' = pos \/ OutputSplit) /\ pos' \in 0 .. Len(work'.shell)
<1>1. opt' = opt /\ work' = work
  BY Zenon DEF Next, OutputSplit, OutputMatch, OutputAppend, Reader, SkipInput, WriteInput,
       WriteInputMasked, DeferToProgram, WriteInputDeferred, DeferAfterClose, DeferredPlain,
       WriteResize, ReaderAppend, NotReader, EventSnapshot, EventWrite, Flush, FlushTake,
       FlushWrite, FlushEnd, NotFlusher, Close, CloseTail, CloseTailAppend, CloseMark, CloseTake,
       CloseMeta, NotCloser, Tick
<1>2. now' = now \/ (now' = now + 1 /\ now < work.ticks)
  BY Zenon DEF Next, OutputSplit, OutputMatch, OutputAppend, Reader, SkipInput, WriteInput,
       WriteInputMasked, DeferToProgram, WriteInputDeferred, DeferAfterClose, DeferredPlain,
       WriteResize, ReaderAppend, NotReader, EventSnapshot, EventWrite, Flush, FlushTake,
       FlushWrite, FlushEnd, NotFlusher, Close, CloseTail, CloseTailAppend, CloseMark, CloseTake,
       CloseMeta, NotCloser, Tick
<1>3. pos' = pos \/ OutputSplit
  BY Zenon DEF Next, OutputMatch, OutputAppend, Reader, SkipInput, WriteInput,
       WriteInputMasked, DeferToProgram, WriteInputDeferred, DeferAfterClose, DeferredPlain,
       WriteResize, ReaderAppend, NotReader, EventSnapshot, EventWrite, Flush, FlushTake,
       FlushWrite, FlushEnd, NotFlusher, Close, CloseTail, CloseTailAppend, CloseMark, CloseTake,
       CloseMeta, NotCloser, Tick, pumpVars
<1>4. OutputSplit => pos' \in work.cuts
  BY DEF OutputSplit
<1>5. work.ticks \in Nat /\ work.cuts \subseteq 1 .. Len(work.shell) /\ now \in 0 .. work.ticks
      /\ pos \in 0 .. Len(work.shell) /\ Len(work.shell) \in Nat
  <2>1. /\ work.ticks \in Nat /\ work.cuts \subseteq 1 .. Len(work.shell)
        /\ work.shell \in Seq(STRING)
    BY SettingsKnown
  <2>2. now \in 0 .. work.ticks /\ pos \in 0 .. Len(work.shell)
    BY DEF TypeOK
  <2>3. QED
    BY <2>1, <2>2
<1>6. now' \in 0 .. work.ticks /\ now \in Nat /\ now' \in Nat
  BY <1>2, <1>5
<1>7. pos' \in 0 .. Len(work.shell)
  BY <1>3, <1>4, <1>5
<1>8. QED
  BY <1>1, <1>2, <1>3, <1>6, <1>7

LEMMA PendTyped ==
    ASSUME RecorderConstants, TypeOK, Next
    PROVE  /\ pend' \in Seq(PendingInputs) /\ Len(pend') <= 1
           /\ \A i \in DOMAIN pend' : pend'[i].t <= now'
<1> USE SettingsKnown, WaitingKept
<1>1. ASSUME Waiting(pend')
      PROVE  /\ pend' \in Seq(PendingInputs) /\ Len(pend') <= 1
             /\ \A i \in DOMAIN pend' : pend'[i].t <= now'
  <2>1. now \in Nat /\ now' \in Nat /\ now <= now'
    BY ClockTyped
  <2>2. \A i \in DOMAIN pend' : pend'[i].t \in Nat /\ pend'[i].t <= now
    <3>1. \A p \in PendingInputs : p.t \in Nat
      BY DEF PendingInputs
    <3>2. QED
      BY <1>1, <3>1 DEF Waiting
  <2>3. QED
    BY <1>1, <2>1, <2>2 DEF Waiting
<1>2. CASE OutputMatch
  <2>1. pump.block \in Seq(STRING)
    BY DEF TypeOK
  <2>2. pend' = <<>> \/ pend' = MatchPending(pump.block)
    BY <1>2 DEF OutputMatch
  <2>3. QED
    BY <1>1, <2>1, <2>2
<1>3. CASE CloseTail
  <2>1. tail \in Seq(STRING)
    BY DEF TypeOK
  <2>2. pend' = pend \/ pend' = MatchPending(tail)
    BY <1>3 DEF CloseTail
  <2>3. QED
    BY <1>1, <2>1, <2>2
<1>4. CASE \E b \in work.blocks, mode \in Modes : WriteInputDeferred(b, mode)
  <2>1. PICK b \in work.blocks, mode \in Modes : WriteInputDeferred(b, mode)
    BY <1>4
  <2> DEFINE p == [n |-> Len(typed) + 1, printable |-> Printable(b), size |-> Len(b),
                   t |-> now, seen |-> {}, reached |-> FALSE]
  <2>2. pend' = <<>> \/ pend' = <<p>>
    BY <2>1 DEF WriteInputDeferred
  <2>3. p \in PendingInputs
    <3>1. Len(typed) + 1 \in Nat
      BY DEF TypeOK
    <3>2. b \in Seq(STRING) /\ Len(b) \in Nat
      OBVIOUS
    <3>3. Printable(b) \in SUBSET STRING
      BY <3>2, PrintableType
    <3>4. QED
      BY <3>1, <3>2, <3>3 DEF PendingInputs
  <2>4. p.t <= now
    OBVIOUS
  <2> HIDE DEF p
  <2>5. Waiting(<<p>>)
    BY <2>3, <2>4 DEF Waiting
  <2>6. QED
    BY <1>1, <2>2, <2>5
<1>5. CASE FlushTake
  BY <1>1, <1>5 DEF FlushTake
<1>6. CASE ~OutputMatch /\ ~CloseTail /\ ~FlushTake
           /\ ~\E b \in work.blocks, mode \in Modes : WriteInputDeferred(b, mode)
  <2>1. pend' = pend \/ pend' = <<>>
    BY <1>6, Zenon DEF Next, OutputSplit, OutputAppend, Reader, SkipInput, WriteInput,
         WriteInputMasked, DeferToProgram, DeferAfterClose, DeferredPlain,
         WriteResize, ReaderAppend, NotReader, EventSnapshot, EventWrite, Flush,
         FlushWrite, FlushEnd, NotFlusher, Close, CloseTailAppend, CloseMark, CloseTake,
         CloseMeta, NotCloser, Tick, lockVars
  <2>2. QED
    BY <1>1, <2>1
<1>7. QED
  BY <1>2, <1>3, <1>4, <1>5, <1>6

LEMMA PumpTyped ==
    ASSUME RecorderConstants, TypeOK, Next
    PROVE  /\ tail' \in Seq(STRING)
           /\ pump' \in [at : {"read", "match", "append"}, block : Seq(STRING), since : 0 .. now']
<1> DEFINE Pumps == [at : {"read", "match", "append"}, block : Seq(STRING), since : 0 .. now']
<1>1. /\ tail \in Seq(STRING) /\ pump \in [at : {"read", "match", "append"}, block : Seq(STRING),
                                          since : 0 .. now]
  BY DEF TypeOK
<1>2. now \in Nat /\ now' \in Nat /\ now <= now'
  BY ClockTyped
<1>3. pump \in Pumps /\ pump.block \in Seq(STRING) /\ now \in 0 .. now' /\ 0 \in 0 .. now'
  BY <1>1, <1>2
<1>4. <<>> \in Seq(STRING)
  OBVIOUS
<1>5. CASE OutputSplit
  <2>1. PICK end \in {e \in work.cuts : e > pos} :
          LET split == SplitUTF8Tail(tail \o SubSeq(work.shell, pos + 1, end)) IN
          /\ tail' = split.rest
          /\ pump' = IF split.complete = <<>> THEN pump
                     ELSE [at |-> "match", block |-> split.complete, since |-> now]
    BY <1>5 DEF OutputSplit
  <2> DEFINE new == SubSeq(work.shell, pos + 1, end)
             split == SplitUTF8Tail(tail \o new)
  <2>2. new \in Seq(STRING)
    <3>1. /\ work.shell \in Seq(STRING) /\ work.cuts \subseteq 1 .. Len(work.shell)
          /\ pos \in Nat
      BY SettingsKnown
    <3>2. end \in 1 .. Len(work.shell)
      BY <3>1
    <3>3. \A i \in pos + 1 .. end : work.shell[i] \in STRING
      BY <3>1, <3>2
    <3>4. QED
      BY <3>1, <3>2, <3>3, SubSeqProperties
  <2> HIDE DEF new
  <2>3. tail \o new \in Seq(STRING)
    BY <1>1, <2>2, ConcatProperties
  <2>4. split.complete \in Seq(STRING) /\ split.rest \in Seq(STRING)
    BY <2>3, SplitType
  <2>5. /\ tail' = split.rest
        /\ pump' = IF split.complete = <<>> THEN pump
                   ELSE [at |-> "match", block |-> split.complete, since |-> now]
    BY <2>1 DEF new
  <2> HIDE DEF split
  <2>6. [at |-> "match", block |-> split.complete, since |-> now] \in Pumps
    BY <1>3, <2>4
  <2>7. QED
    BY <1>3, <2>4, <2>5, <2>6
<1>6. CASE OutputMatch
  <2>1. tail' = tail /\ pump' = [pump EXCEPT !.at = "append", !.since = now]
    BY <1>6 DEF OutputMatch
  <2>2. [pump EXCEPT !.at = "append", !.since = now] \in Pumps
    BY <1>3
  <2>3. QED
    BY <1>1, <2>1, <2>2
<1>7. CASE OutputAppend
  <2>1. tail' = tail /\ pump' = [at |-> "read", block |-> <<>>, since |-> 0]
    BY <1>7 DEF OutputAppend
  <2>2. QED
    BY <1>1, <1>3, <1>4, <2>1
<1>8. CASE ~OutputStep
  <2>1. pump' = pump /\ (tail' = tail \/ tail' = <<>>)
    BY <1>8, Zenon DEF OutputStep, Next, Reader, SkipInput, WriteInput,
         WriteInputMasked, DeferToProgram, WriteInputDeferred, DeferAfterClose, DeferredPlain,
         WriteResize, ReaderAppend, NotReader, EventSnapshot, EventWrite, Flush, FlushTake,
         FlushWrite, FlushEnd, NotFlusher, Close, CloseTail, CloseTailAppend, CloseMark, CloseTake,
         CloseMeta, NotCloser, Tick, pumpVars, lockVars
  <2>2. QED
    BY <1>1, <1>3, <1>4, <2>1
<1>9. QED
  BY <1>5, <1>6, <1>7, <1>8 DEF OutputStep

LEMMA SnapshotTyped ==
    ASSUME RecorderConstants, TypeOK
    PROVE  MetaNow \in Metas /\ MetaNow.ended = q.closed
BY DEF TypeOK, MetaNow, Metas, Queues

LEMMA HeaderLineTyped ==
    ASSUME NEW r \in Queues
    PROVE  /\ HeaderLine(r) \in Seq(CastLines)
           /\ HeaderLine(r) = <<>> \/ HeaderLine(r) = <<SizeLine("h", r.headerSize, 0)>>
           /\ SizeLine("h", r.headerSize, 0) \in CastLines
<1> DEFINE h == SizeLine("h", r.headerSize, 0)
<1>1. h \in CastLines
  <2>1. r.headerSize \in Nat
    BY DEF Queues
  <2>2. QED
    BY <2>1, LineTypes
<1>2. HeaderLine(r) = <<>> \/ HeaderLine(r) = <<h>>
  BY DEF HeaderLine
<1> HIDE DEF h
<1>3. <<h>> \in Seq(CastLines) /\ <<>> \in Seq(CastLines)
  BY <1>1
<1>4. HeaderLine(r) \in Seq(CastLines)
  BY <1>2, <1>3
<1>5. QED
  BY <1>1, <1>2, <1>4 DEF h

LEMMA FilesTyped ==
    ASSUME RecorderConstants, TypeOK, Next
    PROVE  /\ file' \in Seq(CastLines) /\ metaFile' \in Metas
           /\ flusher' \in [at : {"wait", "write", "gone"}, lines : Seq(CastLines)]
<1> DEFINE Flushers == [at : {"wait", "write", "gone"}, lines : Seq(CastLines)]
<1>1. /\ file \in Seq(CastLines) /\ metaFile \in Metas /\ flusher \in Flushers
      /\ flusher.lines \in Seq(CastLines) /\ q \in Queues /\ q.lines \in Seq(CastLines)
  BY DEF TypeOK, Queues
<1>2. <<>> \in Seq(CastLines)
  OBVIOUS
<1>3. CASE FlushTake
  <2> DEFINE r == Settle(q, pend, "hang")
             headed == DecideHeader(r)
             taken == HeaderLine(headed) \o headed.lines
  <2>1. /\ file' = file /\ metaFile' = metaFile
        /\ flusher' = flusher \/ flusher' = [at |-> "write", lines |-> taken]
    BY <1>3 DEF FlushTake, NotFlusher, SettleOverdue
  <2>2. headed \in Queues
    BY WaitingKept, FineSettled, FineChanged DEF Fine
  <2> HIDE DEF headed
  <2>3. taken \in Seq(CastLines)
    <3>1. headed.lines \in Seq(CastLines)
      BY <2>2 DEF Queues
    <3>2. HeaderLine(headed) \in Seq(CastLines)
      BY <2>2, HeaderLineTyped
    <3>3. QED
      BY <3>1, <3>2, ConcatProperties
  <2> HIDE DEF taken
  <2>4. [at |-> "write", lines |-> taken] \in Flushers
    BY <2>3
  <2>5. QED
    BY <1>1, <2>1, <2>4
<1>4. CASE FlushWrite
  <2>1. /\ file' = file \o flusher.lines /\ flusher' = [at |-> "wait", lines |-> <<>>]
        /\ metaFile' = metaFile
    BY <1>4 DEF FlushWrite, NotFlusher
  <2>2. file \o flusher.lines \in Seq(CastLines)
    BY <1>1, ConcatProperties
  <2>3. QED
    BY <1>1, <1>2, <2>1, <2>2
<1>5. CASE FlushEnd
  BY <1>1, <1>2, <1>5 DEF FlushEnd, NotFlusher
<1>6. CASE EventStep
  <2>1. file' = file /\ flusher' = flusher
    BY <1>6 DEF EventStep, EventSnapshot, EventWrite, diskVars
  <2>2. metaFile' \in Metas
    <3>1. CASE \E e \in Callers : EventSnapshot(e)
      BY <1>1, <3>1 DEF EventSnapshot, diskVars
    <3>2. CASE \E e \in Callers : EventWrite(e)
      <4>1. PICK e \in Callers : event[e].at = "write" /\ metaFile' \in {event[e].snap, metaFile}
        BY <3>2 DEF EventWrite
      <4>2. event[e] \in {Idle} \cup [at : {"write"}, snap : Metas] \cup [at : {"done"}, late : BOOLEAN]
        BY DEF TypeOK
      <4>3. event[e] \in [at : {"write"}, snap : Metas]
        BY <4>1, <4>2 DEF Idle
      <4>4. QED
        BY <1>1, <4>1, <4>3
    <3>3. QED
      BY <1>6, <3>1, <3>2 DEF EventStep
  <2>3. QED
    BY <1>1, <2>1, <2>2
<1>7. CASE CloseTake
  <2>1. file' = file \o HeaderLine(q) \o q.lines /\ metaFile' = metaFile /\ flusher' = flusher
    BY <1>7 DEF CloseTake, NotCloser
  <2>2. HeaderLine(q) \in Seq(CastLines)
    BY <1>1, HeaderLineTyped
  <2>3. file \o HeaderLine(q) \in Seq(CastLines)
    BY <1>1, <2>2, ConcatProperties
  <2>4. file \o HeaderLine(q) \o q.lines \in Seq(CastLines)
    BY <1>1, <2>3, ConcatProperties
  <2>5. QED
    BY <1>1, <2>1, <2>4
<1>8. CASE CloseMeta
  <2>1. file' = file /\ flusher' = flusher /\ closer.at = "meta"
        /\ metaFile' \in {closer.snap, metaFile}
    BY <1>8 DEF CloseMeta, NotCloser
  <2>2. closer \in [at : {"meta"}, snap : Metas]
    BY <2>1 DEF TypeOK
  <2>3. QED
    BY <1>1, <2>1, <2>2
<1>9. CASE OutputStep \/ Reader \/ CloseTail \/ CloseTailAppend \/ CloseMark \/ Tick
  <2>1. file' = file /\ metaFile' = metaFile /\ flusher' = flusher
    BY <1>9, Zenon DEF OutputStep, OutputSplit, OutputMatch, OutputAppend, Reader, SkipInput, WriteInput,
         WriteInputMasked, DeferToProgram, WriteInputDeferred, DeferAfterClose, DeferredPlain,
         WriteResize, ReaderAppend, NotReader, CloseTail, CloseTailAppend, CloseMark,
         NotCloser, Tick, diskVars
  <2>2. QED
    BY <1>1, <2>1
<1>10. QED
  BY <1>3, <1>4, <1>5, <1>6, <1>7, <1>8, <1>9
     DEF Next, OutputStep, EventStep, Flush, Close

(* The output seen since the last input.                                   *)
LEMMA ObservedMoves ==
    ASSUME NEW block \in Seq(STRING), windows \in Seq(SUBSET STRING), Observed(block)
    PROVE  /\ windows' \in Seq(SUBSET STRING) /\ Len(windows') = Len(windows)
           /\ \A n \in 1 .. Len(windows) : windows[n] \subseteq windows'[n]
           /\ Len(windows) # 0 => Range(block) \subseteq windows'[Len(windows)]
<1>1. CASE windows = <<>>
  BY <1>1 DEF Observed
<1>2. CASE windows # <<>>
  <2> DEFINE n == Len(windows)
             more == windows[n] \cup Range(block)
  <2>1. n \in Nat \ {0}
    BY <1>2, EmptySeq
  <2>2. Range(block) \subseteq STRING
    BY RangeOfSeq
  <2>3. windows[n] \in SUBSET STRING
    BY <2>1
  <2>4. more \in SUBSET STRING
    BY <2>2, <2>3
  <2>5. windows' = [windows EXCEPT ![n] = more]
    BY <1>2 DEF Observed
  <2>6. Range(block) \subseteq more /\ windows[n] \subseteq more
    OBVIOUS
  <2> HIDE DEF more
  <2>7. n \in 1 .. Len(windows)
    BY <2>1
  <2>8. /\ windows' \in Seq(SUBSET STRING) /\ Len(windows') = n
        /\ \A j \in 1 .. n : windows'[j] = IF j = n THEN more ELSE windows[j]
    <3> DEFINE B == SUBSET STRING
    <3>1. windows \in Seq(B) /\ more \in B /\ windows' = [windows EXCEPT ![n] = more]
      BY <2>4, <2>5
    <3> HIDE DEF B, n
    <3>2. n \in 1 .. Len(windows)
      BY <2>7
    <3>3. /\ windows' \in Seq(B) /\ Len(windows') = Len(windows)
          /\ \A j \in 1 .. Len(windows) : windows'[j] = IF j = n THEN more ELSE windows[j]
      BY <3>1, <3>2, ExceptSeq
    <3>4. QED
      BY <3>3 DEF B, n
  <2>9. QED
    BY <2>6, <2>7, <2>8
<1>3. QED
  BY <1>1, <1>2

Inputs == [b : Seq(STRING), mode : Modes, alt : BOOLEAN]

LEMMA ArrivesMoves ==
    ASSUME TypeOK, NEW b \in Seq(STRING), NEW mode \in Modes, Arrives(b, mode)
    PROVE  LET input == [b |-> b, mode |-> mode, alt |-> opt.tui /\ screen.open] IN
           /\ reader.at = "idle" /\ typed' = Append(typed, input) /\ input \in Inputs
           /\ typed' \in Seq(Inputs) /\ Len(typed') = Len(typed) + 1 /\ Len(typed) \in Nat
           /\ typed'[Len(typed) + 1] = input
           /\ \A n \in 1 .. Len(typed) : typed'[n] = typed[n]
<1> DEFINE alt == opt.tui /\ screen.open
           input == [b |-> b, mode |-> mode, alt |-> alt]
<1>1. reader.at = "idle" /\ typed' = Append(typed, input)
  BY DEF Arrives
<1>2. alt \in BOOLEAN
  OBVIOUS
<1> HIDE DEF alt
<1>3. input \in Inputs
  BY <1>2 DEF Inputs
<1> HIDE DEF input
<1>4. typed \in Seq(Inputs)
  BY DEF TypeOK, Inputs
<1>5. /\ typed' \in Seq(Inputs) /\ Len(typed') = Len(typed) + 1 /\ Len(typed) \in Nat
      /\ typed'[Len(typed) + 1] = input
      /\ \A n \in 1 .. Len(typed) : typed'[n] = typed[n]
  BY <1>1, <1>3, <1>4, AppendProperties
<1>6. QED
  BY <1>1, <1>3, <1>5 DEF input, alt

LEMMA ReaderTyped ==
    ASSUME RecorderConstants, TypeOK, Next
    PROVE  /\ typed' \in Seq(Inputs)
           /\ windows' \in Seq(SUBSET STRING)
           /\ reader' \in [at : {"idle", "plain"}] \cup [at : {"append"}, line : CastLines]
           /\ reader'.at = "append" => reader'.line.t <= now'
<1> DEFINE Readers == [at : {"idle", "plain"}] \cup [at : {"append"}, line : CastLines]
           ReaderFine == /\ reader' \in Readers
                         /\ reader'.at = "append" => reader'.line.t <= now'
           Goal == /\ typed' \in Seq(Inputs)
                   /\ windows' \in Seq(SUBSET STRING)
                   /\ ReaderFine
<1>1. /\ typed \in Seq(Inputs) /\ windows \in Seq(SUBSET STRING) /\ reader \in Readers
      /\ reader.at = "append" => reader.line.t <= now
  BY DEF TypeOK, Inputs
<1>2. now \in Nat /\ now' \in Nat /\ now <= now'
  BY ClockTyped
<1>3. ASSUME reader' = reader
      PROVE  ReaderFine
  <2>1. reader.at = "append" => reader.line.t \in Nat
    <3>1. reader.at = "append" => reader.line \in CastLines
      BY <1>1
    <3>2. QED
      BY <3>1, LineTypes
  <2>2. QED
    BY <1>1, <1>2, <1>3, <2>1
<1>4. ASSUME NEW l \in CastLines, l.t = now, Appends(l)
      PROVE  ReaderFine
  <2>1. reader' = [at |-> "append", line |-> l]
    BY <1>4 DEF Appends
  <2>2. [at |-> "append", line |-> l] \in Readers /\ [at |-> "append", line |-> l].line = l
    OBVIOUS
  <2>3. QED
    BY <1>2, <1>4, <2>1, <2>2
<1>5. Append(windows, {}) \in Seq(SUBSET STRING) /\ Len(typed) + 1 \in Nat /\ Len(typed) \in Nat
  <2>1. {} \in SUBSET STRING
    OBVIOUS
  <2>2. QED
    BY <1>1, <2>1, AppendProperties
<1> SUFFICES Goal
  OBVIOUS
<1> HIDE DEF Readers, ReaderFine
<1>6. CASE OutputMatch \/ CloseTail
  <2>1. pump.block \in Seq(STRING) /\ tail \in Seq(STRING)
    BY DEF TypeOK
  <2>2. /\ typed' = typed /\ reader' = reader
        /\ \E block \in Seq(STRING) : Observed(block)
    BY <1>6, <2>1 DEF OutputMatch, CloseTail, NotCloser
  <2>3. windows' \in Seq(SUBSET STRING)
    BY <1>1, <2>2, ObservedMoves
  <2>4. QED
    BY <1>1, <1>3, <2>2, <2>3
<1>7. ASSUME NEW b \in work.blocks, NEW mode \in Modes,
             \/ WriteInput(b, mode) \/ WriteInputMasked(b, mode)
             \/ DeferToProgram(b, mode) \/ WriteInputDeferred(b, mode) \/ DeferAfterClose(b, mode)
      PROVE  Goal
  <2>1. Arrives(b, mode)
    BY <1>7 DEF WriteInput, WriteInputMasked, DeferToProgram, WriteInputDeferred, DeferAfterClose
  <2>2. windows' = windows \/ windows' = Append(windows, {})
    BY <1>7 DEF WriteInput, WriteInputMasked, DeferToProgram, WriteInputDeferred, DeferAfterClose
  <2>3. b \in Seq(STRING)
    BY SettingsKnown
  <2>4. typed' \in Seq(Inputs)
    BY <2>1, <2>3, ArrivesMoves
  <2>5. \/ reader' = reader \/ reader' = [at |-> "plain"]
        \/ Appends(InputLine(Len(typed) + 1, TRUE, now)) \/ Appends(InputLine(Len(typed) + 1, FALSE, now))
    BY <1>7 DEF WriteInput, WriteInputMasked, DeferToProgram, WriteInputDeferred, DeferAfterClose
  <2>6. ASSUME NEW plain \in BOOLEAN
        PROVE  /\ InputLine(Len(typed) + 1, plain, now) \in CastLines
               /\ InputLine(Len(typed) + 1, plain, now).t = now
    BY <1>2, <1>5, LineTypes
  <2>7. ReaderFine
    <3>1. CASE reader' = reader
      BY <1>3, <3>1
    <3>2. CASE reader' = [at |-> "plain"]
      BY <3>2 DEF Readers, ReaderFine
    <3>3. CASE \E plain \in BOOLEAN : Appends(InputLine(Len(typed) + 1, plain, now))
      BY <1>4, <2>6, <3>3
    <3>4. QED
      BY <2>5, <3>1, <3>2, <3>3
  <2>8. QED
    BY <1>1, <1>5, <2>2, <2>4, <2>7
<1>8. CASE DeferredPlain
  <2>1. /\ typed' = typed /\ windows' = Append(windows, {})
        /\ Appends(InputLine(Len(typed), TRUE, now))
    BY <1>8 DEF DeferredPlain
  <2>2. ASSUME NEW plain \in BOOLEAN
        PROVE  /\ InputLine(Len(typed), plain, now) \in CastLines
               /\ InputLine(Len(typed), plain, now).t = now
    BY <1>2, <1>5, LineTypes
  <2>3. QED
    BY <1>1, <1>4, <1>5, <2>1, <2>2
<1>9. CASE \E s \in work.sizes : WriteResize(s)
  <2>1. PICK s \in work.sizes : Appends(SizeLine("r", s, now)) /\ typed' = typed /\ windows' = windows
    BY <1>9 DEF WriteResize
  <2>2. s \in Nat
    BY SettingsKnown
  <2>3. SizeLine("r", s, now) \in CastLines /\ SizeLine("r", s, now).t = now
    BY <1>2, <2>2, LineTypes
  <2>4. QED
    BY <1>1, <1>4, <2>1, <2>3
<1>10. CASE ReaderAppend
  BY <1>1, <1>10 DEF ReaderAppend, Idle, Readers, ReaderFine
<1>11. CASE \/ OutputSplit \/ OutputAppend \/ EventStep \/ Flush \/ Tick
            \/ CloseTailAppend \/ CloseMark \/ CloseTake \/ CloseMeta
            \/ \E b \in work.blocks, mode \in Modes : SkipInput(b, mode)
  <2>1. typed' = typed /\ windows' = windows /\ reader' = reader
    BY <1>11, Zenon DEF OutputSplit, OutputAppend, SkipInput, EventStep, EventSnapshot, EventWrite,
         Flush, FlushTake, FlushWrite, FlushEnd, NotFlusher, CloseTailAppend, CloseMark, CloseTake,
         CloseMeta, NotCloser, Tick, readerVars
  <2>2. QED
    BY <1>1, <1>3, <2>1
<1> HIDE DEF Goal
<1>12. QED
  BY <1>6, <1>7, <1>8, <1>9, <1>10, <1>11 DEF Next, EventStep, Reader, Close

LEMMA EventTyped ==
    ASSUME RecorderConstants, TypeOK, Next
    PROVE  event' \in [Callers -> {Idle} \cup [at : {"write"}, snap : Metas]
                                         \cup [at : {"done"}, late : BOOLEAN]]
<1> DEFINE Events == {Idle} \cup [at : {"write"}, snap : Metas] \cup [at : {"done"}, late : BOOLEAN]
<1>1. event \in [Callers -> Events]
  BY DEF TypeOK
<1>2. ASSUME NEW e \in Callers, EventSnapshot(e)
      PROVE  event' \in [Callers -> Events]
  <2>1. q' \in Queues
    BY QueueTyped
  <2>2. MetaNow' \in Metas
    BY <2>1 DEF MetaNow, Metas, Queues
  <2>3. event' = [event EXCEPT ![e] = [at |-> "write", snap |-> MetaNow']]
    BY <1>2 DEF EventSnapshot
  <2>4. QED
    BY <1>1, <2>2, <2>3
<1>3. ASSUME NEW e \in Callers, EventWrite(e)
      PROVE  event' \in [Callers -> Events]
  <2> DEFINE late == metaFile.ended /\ ~metaFile'.ended
  <2>1. event' = [event EXCEPT ![e] = [at |-> "done", late |-> late]] /\ late \in BOOLEAN
    <3>1. metaFile.ended \in BOOLEAN /\ metaFile'.ended \in BOOLEAN
      BY FilesTyped DEF TypeOK, Metas
    <3>2. event' = [event EXCEPT ![e] = [at |-> "done", late |-> late]]
      BY <1>3 DEF EventWrite
    <3>3. QED
      BY <3>1, <3>2
  <2> HIDE DEF late
  <2>2. [at |-> "done", late |-> late] \in Events
    BY <2>1
  <2> HIDE DEF Events
  <2>3. QED
    BY <1>1, <2>1, <2>2
<1>4. CASE ~EventStep
  <2>1. event' = event
    BY <1>4, Zenon DEF EventStep, Next, OutputSplit, OutputMatch, OutputAppend, Reader, SkipInput,
         WriteInput, WriteInputMasked, DeferToProgram, WriteInputDeferred, DeferAfterClose,
         DeferredPlain, WriteResize, ReaderAppend, NotReader, Flush, FlushTake, FlushWrite,
         FlushEnd, NotFlusher, Close, CloseTail, CloseTailAppend, CloseMark, CloseTake, CloseMeta,
         NotCloser, Tick
  <2>2. QED
    BY <1>1, <2>1
<1>5. QED
  BY <1>2, <1>3, <1>4 DEF EventStep

LEMMA CloserTyped ==
    ASSUME RecorderConstants, TypeOK, Next
    PROVE  /\ closer' \in [at : {"idle", "mark", "wait"}] \cup [at : {"done"}, saved : BOOLEAN]
                         \cup [at : {"tail"}, block : Seq(STRING), since : 0 .. now']
                         \cup [at : {"meta"}, snap : Metas]
           /\ cut' \in [out : Int, ins : Int]
<1> DEFINE Closers(t) == [at : {"idle", "mark", "wait"}] \cup [at : {"done"}, saved : BOOLEAN]
                         \cup [at : {"tail"}, block : Seq(STRING), since : 0 .. t]
                         \cup [at : {"meta"}, snap : Metas]
<1>1. closer \in Closers(now) /\ cut \in [out : Int, ins : Int] /\ tail \in Seq(STRING)
  BY DEF TypeOK
<1>2. now \in Nat /\ now' \in Nat /\ now <= now' /\ pos \in Nat
  BY ClockTyped, SettingsKnown
<1>3. Closers(now) \subseteq Closers(now')
  BY <1>2
<1>4. CASE CloseTail
  <2>1. /\ \/ closer' = [at |-> "mark"] \/ closer' = [at |-> "tail", block |-> tail, since |-> now]
        /\ cut' = [cut EXCEPT !.out = IF pump.at = "read" THEN pos ELSE -1]
    BY <1>4 DEF CloseTail
  <2>2. cut' \in [out : Int, ins : Int]
    <3> DEFINE out == IF pump.at = "read" THEN pos ELSE -1
    <3>1. out \in Int
      BY <1>2
    <3> HIDE DEF out
    <3>2. [cut EXCEPT !.out = out] \in [out : Int, ins : Int]
      BY <1>1, <3>1
    <3>3. QED
      BY <2>1, <3>2 DEF out
  <2>3. closer' \in Closers(now')
    BY <1>1, <1>2, <2>1
  <2>4. QED
    BY <2>2, <2>3
<1>5. CASE CloseTailAppend
  <2>1. closer' = [at |-> "mark"] /\ cut' = cut
    BY <1>5 DEF CloseTailAppend
  <2>2. QED
    BY <1>1, <2>1
<1>6. CASE CloseMark
  <2>1. closer' = [at |-> "wait"] /\ cut' = [cut EXCEPT !.ins = InputsBegun]
    BY <1>6 DEF CloseMark
  <2>2. InputsBegun \in Int
    <3>1. Len(typed) \in Nat
      BY DEF TypeOK
    <3>2. QED
      BY <3>1 DEF InputsBegun
  <2>3. cut' \in [out : Int, ins : Int]
    BY <1>1, <2>1, <2>2
  <2>4. QED
    BY <2>1, <2>3
<1>7. CASE CloseTake
  <2>1. closer' = [at |-> "meta", snap |-> MetaNow] /\ cut' = cut
    BY <1>7 DEF CloseTake
  <2>2. QED
    BY <1>1, <2>1, SnapshotTyped
<1>8. CASE CloseMeta
  <2>1. \E saved \in BOOLEAN : closer' = [at |-> "done", saved |-> saved] /\ cut' = cut
    BY <1>8 DEF CloseMeta
  <2>2. QED
    BY <1>1, <2>1
<1>9. CASE OutputSplit
  <2>1. closer' = closer /\ (cut' = cut \/ cut' = [cut EXCEPT !.out = -1])
    BY <1>9 DEF OutputSplit
  <2>2. [cut EXCEPT !.out = -1] \in [out : Int, ins : Int]
    BY <1>1
  <2>3. QED
    BY <1>1, <1>3, <2>1, <2>2
<1>10. CASE ~Close /\ ~OutputSplit
  <2>1. closer' = closer /\ cut' = cut
    BY <1>10, Zenon DEF Next, OutputMatch, OutputAppend, Reader, SkipInput, WriteInput,
         WriteInputMasked, DeferToProgram, WriteInputDeferred, DeferAfterClose, DeferredPlain,
         WriteResize, ReaderAppend, NotReader, EventSnapshot, EventWrite, Flush, FlushTake,
         FlushWrite, FlushEnd, NotFlusher, Tick
  <2>2. QED
    BY <1>1, <1>3, <2>1
<1>11. QED
  BY <1>4, <1>5, <1>6, <1>7, <1>8, <1>9, <1>10 DEF Close

LEMMA TypeStep ==
    ASSUME RecorderConstants, TypeOK, Next
    PROVE  TypeOK'
<1>1. \E s \in Scenarios : opt = s.opt /\ work = s.work
  BY DEF TypeOK
<1>2. \E s \in Scenarios : opt' = s.opt /\ work' = s.work
  BY <1>1, ClockTyped
<1>3. QED
  BY <1>2, ClockTyped, QueueTyped, PendTyped, PumpTyped, FilesTyped, ReaderTyped, EventTyped,
     CloserTyped, Zenon DEF TypeOK, Inputs

LEMMA TypeInit ==
    ASSUME RecorderConstants, Init
    PROVE  TypeOK
<1>1. PICK s \in Scenarios : opt = s.opt /\ work = s.work
  BY DEF Init
<1>2. work.ticks \in Nat /\ Len(work.shell) \in Nat /\ PendingCap \in Nat
  <2>1. s.work.ticks \in Nat /\ s.work.shell \in Seq(STRING) /\ PendingCap \in Nat
    BY Zenon DEF RecorderConstants
  <2>2. QED
    BY <1>1, <2>1
<1>3. /\ <<>> \in Seq(CastLines) /\ <<>> \in Seq(PendingInputs) /\ <<>> \in Seq(STRING)
      /\ <<>> \in Seq([b : Seq(STRING), mode : Modes, alt : BOOLEAN]) /\ <<>> \in Seq(SUBSET STRING)
      /\ Len(<<>>) = 0
  OBVIOUS
<1>4. q \in Queues /\ q.lines = <<>> /\ q.lastT = 0
  BY <1>3 DEF Init, Queues
<1>5. now = 0 /\ now \in 0 .. work.ticks /\ pos = 0 /\ pos \in 0 .. Len(work.shell)
  BY <1>2 DEF Init
<1>6. MetaNow \in Metas
  BY <1>4 DEF MetaNow, Metas, Queues
<1>7. /\ pend = <<>> /\ tail = <<>> /\ file = <<>> /\ metaFile = MetaNow
      /\ typed = <<>> /\ windows = <<>>
      /\ reader = Idle /\ event = [e \in Callers |-> Idle] /\ closer = Idle
  BY DEF Init
<1>8. pump \in [at : {"read", "match", "append"}, block : Seq(STRING), since : 0 .. now]
  BY <1>3, <1>5 DEF Init
<1>9. flusher \in [at : {"wait", "write", "gone"}, lines : Seq(CastLines)]
  BY <1>3 DEF Init
<1>10. cut \in [out : Int, ins : Int]
  BY DEF Init
<1>11. Len(q.lines) <= PendingCap /\ q.lastT <= now
  BY <1>2, <1>3, <1>4, <1>5
<1>12. Len(pend) <= 1 /\ \A i \in DOMAIN pend : pend[i].t <= now
  BY <1>3, <1>7
<1>13. /\ reader \in [at : {"idle", "plain"}] \cup [at : {"append"}, line : CastLines]
       /\ reader.at = "append" => reader.line.t <= now
  BY <1>7 DEF Idle
<1>14. closer \in [at : {"idle", "mark", "wait"}] \cup [at : {"done"}, saved : BOOLEAN]
                  \cup [at : {"tail"}, block : Seq(STRING), since : 0 .. now]
                  \cup [at : {"meta"}, snap : Metas]
  BY <1>7 DEF Idle
<1>15. event \in [Callers -> {Idle} \cup [at : {"write"}, snap : Metas]
                                    \cup [at : {"done"}, late : BOOLEAN]]
  BY <1>7
<1>16. QED
  BY <1>1, <1>3, <1>4, <1>5, <1>6, <1>7, <1>8, <1>9, <1>10, <1>11, <1>12, <1>13, <1>14, <1>15, Zenon
     DEF TypeOK

-----------------------------------------------------------------------------
(* What a step does to the queue.  blocks is what waits: pend, or pend     *)
(* after a block of output was matched with it.                            *)

SettledTo(blocks, r) ==
    /\ QueueMoves(q, r) /\ (q.closed => r = q)
    /\ \/ Keeps(q, r) /\ (blocks = <<>> \/ Excused(r))
       \/ blocks # <<>> /\ \E l \in CastLines : LineOf(l, blocks[1], q, r)

(* q becomes s from r by counters and the header.                          *)
After(r, s) ==
    /\ s.lines = r.lines /\ s.lastT = r.lastT
    /\ r.dropped <= s.dropped /\ r.masked <= s.masked /\ (r.stopped => s.stopped)
    /\ s.header = r.header \/ (r.header = "none" /\ s.header = "line")

(* The steps that settle what waits, whatever was seen of it.              *)
InputStep(b, mode) == WriteInput(b, mode) \/ WriteInputMasked(b, mode) \/ WriteInputDeferred(b, mode)
Settles ==
    \/ \E b \in work.blocks, mode \in Modes : InputStep(b, mode)
    \/ DeferredPlain \/ \E s \in work.sizes : WriteResize(s)
    \/ \E e \in Callers : EventSnapshot(e)
    \/ CloseMark

LEMMA ClosedHasNoBlocks ==
    ASSUME TypeOK, PhasesAgree, q.closed, NEW blocks, Waiting(blocks), Len(blocks) = Len(pend)
    PROVE  blocks = <<>>
<1>1. pend = <<>>
  BY DEF PhasesAgree
<1>2. Len(blocks) = 0
  BY <1>1
<1>3. QED
  BY <1>2, EmptySeq DEF Waiting

LEMMA SettledFrom ==
    ASSUME RecorderConstants, TypeOK, PhasesAgree,
           NEW blocks, Waiting(blocks), Len(blocks) = Len(pend), NEW rule, rule # "hang"
    PROVE  SettledTo(blocks, Settle(q, blocks, rule))
<1> DEFINE r == Settle(q, blocks, rule)
<1>1. Remaining(blocks, rule) = <<>>
  BY DEF Remaining
<1>2. /\ QueueMoves(q, r) /\ (blocks = <<>> => r = q)
      /\ \/ Keeps(q, r) /\ (<<>> = blocks \/ Excused(r))
         \/ blocks # <<>> /\ \E l \in CastLines : LineOf(l, blocks[1], q, r)
  BY <1>1, SettleMoves, WaitingKept DEF Fine, Waiting
<1> HIDE DEF r
<1>3. q.closed => r = q
  BY <1>2, ClosedHasNoBlocks
<1>4. QED
  BY <1>2, <1>3 DEF SettledTo, r

MaskedStep == \E b \in work.blocks, mode \in Modes : WriteInputMasked(b, mode)
SettlesBy(r) ==
    /\ Fine(r) /\ SettledTo(pend, r) /\ After(r, q')
    /\ q'.closed = (q.closed \/ CloseMark)
    /\ file' = file /\ flusher' = flusher
    /\ MaskedStep => q'.masked = r.masked + 1

LEMMA SettleStep ==
    ASSUME RecorderConstants, TypeOK, PhasesAgree, Settles
    PROVE  \E r : SettlesBy(r)
<1> DEFINE r == Settle(q, pend, "boundary")
           f == Settle(q, pend, "close")
<1>1. Fine(r) /\ Fine(f)
  BY FineSettled, WaitingKept
<1>2. SettledTo(pend, r) /\ SettledTo(pend, f)
  BY SettledFrom, WaitingKept
<1>3. file' = file /\ flusher' = flusher
  BY DEF Settles, InputStep, WriteInput, WriteInputMasked, WriteInputDeferred, DeferredPlain,
         WriteResize, NotReader, EventSnapshot, CloseMark, NotCloser, diskVars
<1>4. ASSUME NEW s, Fine(s)
      PROVE  /\ After(s, s) /\ After(s, [s EXCEPT !.masked = @ + 1])
             /\ After(s, [s EXCEPT !.dropped = @ + 1])
             /\ [s EXCEPT !.masked = @ + 1].closed = s.closed
             /\ [s EXCEPT !.dropped = @ + 1].closed = s.closed
             /\ \A n \in Nat : LET t == DecideHeader([s EXCEPT !.size = n]) IN
                  After(s, t) /\ t.closed = s.closed /\ t.header # "none"
             /\ LET t == DecideHeader([s EXCEPT !.closed = TRUE]) IN
                  After(s, t) /\ t.closed /\ t.header # "none"
  <2>1. s \in Queues /\ s.masked \in Nat /\ s.dropped \in Nat
    BY <1>4 DEF Fine, Queues
  <2>2. /\ After(s, s) /\ After(s, [s EXCEPT !.masked = @ + 1])
        /\ After(s, [s EXCEPT !.dropped = @ + 1])
        /\ [s EXCEPT !.masked = @ + 1].closed = s.closed
        /\ [s EXCEPT !.dropped = @ + 1].closed = s.closed
    BY <2>1 DEF After, Queues
  <2>3. ASSUME NEW u, Fine(u), u.lines = s.lines, u.lastT = s.lastT, u.dropped = s.dropped,
               u.masked = s.masked, u.header = s.header, u.stopped = s.stopped
        PROVE  /\ After(s, DecideHeader(u)) /\ DecideHeader(u).closed = u.closed
               /\ DecideHeader(u).header # "none"
    BY <2>1, <2>3, DecideHeaderMoves DEF After, QueueMoves, Keeps, Fine
  <2>4. ASSUME NEW n \in Nat
        PROVE  LET t == DecideHeader([s EXCEPT !.size = n]) IN
                  After(s, t) /\ t.closed = s.closed /\ t.header # "none"
    <3> DEFINE u == [s EXCEPT !.size = n]
    <3>1. Fine(u)
      BY <1>4, FineChanged
    <3>2. /\ u.lines = s.lines /\ u.lastT = s.lastT /\ u.dropped = s.dropped
          /\ u.masked = s.masked /\ u.header = s.header /\ u.closed = s.closed
          /\ u.stopped = s.stopped
      BY <2>1 DEF Queues
    <3> HIDE DEF u
    <3>3. QED
      BY <2>3, <3>1, <3>2 DEF u
  <2>5. LET t == DecideHeader([s EXCEPT !.closed = TRUE]) IN
           After(s, t) /\ t.closed /\ t.header # "none"
    <3> DEFINE u == [s EXCEPT !.closed = TRUE]
    <3>1. Fine(u)
      BY <1>4, FineChanged
    <3>2. /\ u.lines = s.lines /\ u.lastT = s.lastT /\ u.dropped = s.dropped
          /\ u.masked = s.masked /\ u.header = s.header /\ u.closed
          /\ u.stopped = s.stopped
      BY <2>1 DEF Queues
    <3> HIDE DEF u
    <3>3. QED
      BY <2>3, <3>1, <3>2 DEF u
  <2>6. QED
    BY <2>2, <2>4, <2>5
<1> HIDE DEF r, f
<1>5. r.closed = q.closed /\ f.closed = q.closed
  BY <1>2 DEF SettledTo, QueueMoves
<1>6. CASE CloseMark
  <2>1. q' = DecideHeader([f EXCEPT !.closed = TRUE])
    BY <1>6 DEF CloseMark, SettleForced, f
  <2>2. After(f, q') /\ q'.closed
    BY <1>1, <1>4, <2>1
  <2>3. q'.closed = (q.closed \/ CloseMark)
    BY <1>6, <2>2, <2>1, <1>1, QueueTyped DEF Next, Close, Queues
  <2>4. ~MaskedStep
    <3>1. MaskedStep => closer' = closer
      BY Zenon DEF MaskedStep, WriteInputMasked, NotReader
    <3>2. closer.at = "mark" /\ closer'.at = "wait"
      BY <1>6 DEF CloseMark
    <3>3. QED
      BY <3>1, <3>2
  <2>5. SettlesBy(f)
    BY <1>1, <1>2, <1>3, <2>2, <2>3, <2>4 DEF SettlesBy
  <2>6. QED
    BY <2>5
<1>7. CASE ~CloseMark /\ \E s \in work.sizes : WriteResize(s)
  <2>1. PICK s \in work.sizes : q' = DecideHeader([r EXCEPT !.size = s])
    BY <1>7 DEF WriteResize, SettleBoundary, r
  <2>2. s \in Nat
    BY SettingsKnown
  <2>3. After(r, q') /\ q'.closed = r.closed
    BY <1>1, <1>4, <2>1, <2>2
  <2>4. q.closed \in BOOLEAN
    BY DEF TypeOK, Queues
  <2>5. ~MaskedStep
    <3>1. MaskedStep => reader'.line.typ = "i"
      BY DEF MaskedStep, WriteInputMasked, Appends, InputLine, Line
    <3>2. reader'.line.typ = "r"
      BY <1>7 DEF WriteResize, Appends, SizeLine, Line
    <3>3. QED
      BY <3>1, <3>2
  <2>6. SettlesBy(r)
    BY <1>1, <1>2, <1>3, <1>5, <1>7, <2>3, <2>4, <2>5 DEF SettlesBy
  <2>7. QED
    BY <2>6
<1>8. CASE ~CloseMark /\ ~\E s \in work.sizes : WriteResize(s)
  <2>1. q' \in {r, [r EXCEPT !.masked = @ + 1], [r EXCEPT !.dropped = @ + 1]}
    BY <1>8 DEF Settles, InputStep, WriteInput, WriteInputMasked, WriteInputDeferred, DeferredPlain,
                EventSnapshot, SettleBoundary, r
  <2>2. After(r, q') /\ q'.closed = r.closed
    BY <1>1, <1>4, <2>1
  <2>3. q.closed \in BOOLEAN
    BY DEF TypeOK, Queues
  <2>4. MaskedStep => q'.masked = r.masked + 1
    <3>1. r \in Queues
      BY <1>1 DEF Fine
    <3>2. MaskedStep => q' = [r EXCEPT !.masked = @ + 1]
      BY DEF MaskedStep, WriteInputMasked, SettleBoundary, r
    <3>3. QED
      BY <3>1, <3>2 DEF Queues
  <2>5. SettlesBy(r)
    BY <1>1, <1>2, <1>3, <1>5, <1>8, <2>2, <2>3, <2>4 DEF SettlesBy
  <2>6. QED
    BY <2>5
<1>9. QED
  BY <1>6, <1>7, <1>8

LEMMA MatchStep ==
    ASSUME RecorderConstants, TypeOK, PhasesAgree, OutputMatch
    PROVE  LET matched == MatchPending(pump.block) IN
           /\ Waiting(matched) /\ Len(matched) = Len(pend)
           /\ \/ q' = q /\ pend' = matched
              \/ Fine(q') /\ SettledTo(matched, q') /\ pend' = <<>>
           /\ file' = file /\ flusher' = flusher
<1> DEFINE matched == MatchPending(pump.block)
<1>1. pump.block \in Seq(STRING)
  BY DEF TypeOK
<1>2. Waiting(matched) /\ Len(matched) = Len(pend)
  BY <1>1, WaitingKept, MatchMoves DEF Waiting
<1> HIDE DEF matched
<1>3. \/ q' = q /\ pend' = matched
      \/ q' = Settle(q, matched, "boundary") /\ pend' = <<>>
  BY DEF OutputMatch, matched
<1>4. Fine(Settle(q, matched, "boundary")) /\ SettledTo(matched, Settle(q, matched, "boundary"))
  BY <1>2, FineSettled, SettledFrom, WaitingKept
<1>5. file' = file /\ flusher' = flusher
  BY DEF OutputMatch, diskVars
<1>6. QED
  BY <1>2, <1>3, <1>4, <1>5 DEF matched

(* A line of output, or the line of the reader.                            *)
AppendedTo(line) ==
    /\ QueueMoves(q, q') /\ q'.masked = q.masked /\ (q.closed => q' = q)
    /\ \/ Keeps(q, q') /\ (line.typ = "i" => Excused(q'))
       \/ Adds(q, q', [line EXCEPT !.t = q'.lastT])

LEMMA AppendStep ==
    ASSUME RecorderConstants, TypeOK, OutputAppend \/ ReaderAppend \/ CloseTailAppend
    PROVE  \E line \in CastLines :
             /\ AppendedTo(line)
             /\ IF ReaderAppend
                THEN line.typ = reader.line.typ /\ line.n = reader.line.n /\ line.plain = reader.line.plain
                ELSE line.typ = "o"
             /\ file' = file /\ flusher' = flusher /\ pend' = pend
<1>1. q \in Queues /\ Len(q.lines) <= PendingCap /\ now \in Nat
  BY SettingsKnown DEF TypeOK
<1>2. ASSUME NEW line \in CastLines, q' = AppendLine(q, line)
      PROVE  AppendedTo(line)
  BY <1>1, <1>2, AppendLineMoves DEF AppendedTo
<1>3. file' = file /\ flusher' = flusher /\ pend' = pend
  BY DEF OutputAppend, ReaderAppend, NotReader, CloseTailAppend, NotCloser, diskVars
<1>4. CASE ReaderAppend
  <2>1. PICK t \in reader.line.t .. now : q' = AppendLine(q, [reader.line EXCEPT !.t = t])
    BY <1>4 DEF ReaderAppend
  <2>2. reader.line \in CastLines
    BY <1>4 DEF ReaderAppend, TypeOK
  <2>3. t \in Nat
    <3>1. reader.line.t \in Nat
      BY <2>2, LineTypes
    <3>2. QED
      BY <1>1, <3>1
  <2> DEFINE line == [reader.line EXCEPT !.t = t]
  <2>4. /\ line \in CastLines /\ line.typ = reader.line.typ /\ line.n = reader.line.n
        /\ line.plain = reader.line.plain
    BY <2>2, <2>3, LineTypes
  <2> HIDE DEF line
  <2>5. AppendedTo(line)
    BY <1>2, <2>1, <2>4 DEF line
  <2>6. QED
    BY <1>3, <1>4, <2>4, <2>5
<1>5. CASE ~ReaderAppend
  <2>1. \E block \in Seq(STRING), t \in Nat : q' = AppendLine(q, OutputLine(block, t))
    <3>1. CASE OutputAppend
      <4>1. pump.block \in Seq(STRING) /\ pump.since \in 0 .. now
        BY DEF TypeOK
      <4>2. PICK t \in pump.since .. now : q' = AppendLine(q, OutputLine(pump.block, t))
        BY <3>1 DEF OutputAppend
      <4>3. t \in Nat
        BY <1>1, <4>1
      <4>4. QED
        BY <4>1, <4>2, <4>3
    <3>2. CASE CloseTailAppend
      <4>1. closer.block \in Seq(STRING) /\ closer.since \in 0 .. now
        <5>1. closer.at = "tail"
          BY <3>2 DEF CloseTailAppend
        <5>2. closer \in [at : {"tail"}, block : Seq(STRING), since : 0 .. now]
          BY <5>1 DEF TypeOK
        <5>3. QED
          BY <5>2
      <4>2. PICK t \in closer.since .. now : q' = AppendLine(q, OutputLine(closer.block, t))
        BY <3>2 DEF CloseTailAppend
      <4>3. t \in Nat
        BY <1>1, <4>1
      <4>4. QED
        BY <4>1, <4>2, <4>3
    <3>3. QED
      BY <1>5, <3>1, <3>2
  <2>2. PICK block \in Seq(STRING), t \in Nat : q' = AppendLine(q, OutputLine(block, t))
    BY <2>1
  <2>3. OutputLine(block, t) \in CastLines /\ OutputLine(block, t).typ = "o"
    BY LineTypes
  <2>4. AppendedTo(OutputLine(block, t))
    BY <1>2, <2>2, <2>3
  <2>5. QED
    BY <1>3, <1>5, <2>3, <2>4
<1>6. QED
  BY <1>4, <1>5

(* flushOnce: what is overdue is settled; then nothing is taken before     *)
(* there is a header, or everything is.                                    *)
Takes(r, headed) ==
    /\ q' = [headed EXCEPT !.lines = <<>>, !.header = "flushed"]
    /\ After(r, headed) /\ headed \in Queues /\ headed.closed = r.closed
    /\ headed.header \in {"line", "flushed"}
    /\ IF headed.header = "line" THEN r.header # "flushed" ELSE r.header = "flushed"
    /\ LET taken == HeaderLine(headed) \o headed.lines IN
       flusher' = IF taken = <<>> THEN flusher ELSE [at |-> "write", lines |-> taken]

TakenFrom(r) ==
    /\ Fine(r) /\ QueueMoves(q, r) /\ (q.closed => r = q)
    /\ \/ Keeps(q, r) /\ (pend' = pend \/ Excused(r))
       \/ pend # <<>> /\ pend' = <<>> /\ \E l \in CastLines : LineOf(l, pend[1], q, r)
    /\ pend' \in {<<>>, pend}
    /\ \/ q' = r /\ flusher' = flusher /\ r.header = "none"
       \/ Takes(r, DecideHeader(r))
    /\ file' = file /\ flusher.at = "wait"

LEMMA TakeStep ==
    ASSUME RecorderConstants, TypeOK, PhasesAgree, FlushTake
    PROVE  \E r : TakenFrom(r)
<1> DEFINE r == Settle(q, pend, "hang")
           headed == DecideHeader(r)
<1>1. Fine(r) /\ Fine(headed)
  BY FineSettled, FineChanged, WaitingKept
<1>2. Remaining(pend, "hang") = NotYetDue(pend) /\ pend' = NotYetDue(pend)
  BY DEF Remaining, FlushTake
<1>3. /\ QueueMoves(q, r) /\ (pend = <<>> => r = q)
      /\ NotYetDue(pend) \in {<<>>, pend}
      /\ \/ Keeps(q, r) /\ (NotYetDue(pend) = pend \/ Excused(r))
         \/ /\ pend # <<>> /\ NotYetDue(pend) = <<>>
            /\ \E l \in CastLines : LineOf(l, pend[1], q, r)
  BY <1>2, SettleMoves, WaitingKept DEF Fine, Waiting
<1>4. \/ q' = r /\ flusher' = flusher /\ r.header = "none"
      \/ /\ q' = [headed EXCEPT !.lines = <<>>, !.header = "flushed"]
         /\ LET taken == HeaderLine(headed) \o headed.lines IN
            flusher' = IF taken = <<>> THEN flusher ELSE [at |-> "write", lines |-> taken]
  BY DEF FlushTake, SettleOverdue
<1>5. file' = file /\ flusher.at = "wait"
  BY DEF FlushTake
<1> HIDE DEF r
<1>6. /\ headed \in Queues /\ headed.closed = r.closed
      /\ headed.header \in {"line", "flushed"}
      /\ (IF headed.header = "line" THEN r.header # "flushed" ELSE r.header = "flushed")
      /\ After(r, headed)
  <2>1. QueueMoves(r, headed) /\ Keeps(r, headed) /\ headed.header # "none"
    BY <1>1, DecideHeaderMoves DEF Fine
  <2>2. r.header \in {"none", "line", "flushed"} /\ headed.header \in {"none", "line", "flushed"}
    BY <1>1 DEF Fine, Queues
  <2> HIDE DEF headed
  <2>3. QED
    BY <2>1, <2>2 DEF QueueMoves, Keeps, After
<1>7. q.closed => r = q
  BY <1>3, ClosedHasNoBlocks, WaitingKept
<1> HIDE DEF headed
<1>8. \/ Keeps(q, r) /\ (pend' = pend \/ Excused(r))
      \/ pend # <<>> /\ pend' = <<>> /\ \E l \in CastLines : LineOf(l, pend[1], q, r)
  BY <1>2, <1>3
<1>9. (q' = r /\ flusher' = flusher /\ r.header = "none") \/ Takes(r, headed)
  BY <1>4, <1>6 DEF Takes
<1>10. TakenFrom(r)
  BY <1>1, <1>2, <1>3, <1>5, <1>7, <1>8, <1>9 DEF headed, TakenFrom
<1>11. QED
  BY <1>10

-----------------------------------------------------------------------------
(* PhasesAgree and EndStays.                                               *)

(* The steps that leave the queue alone.                                   *)
Silent ==
    \/ \E b \in work.blocks, mode \in Modes :
         SkipInput(b, mode) \/ DeferToProgram(b, mode) \/ DeferAfterClose(b, mode)
    \/ OutputSplit \/ FlushWrite \/ FlushEnd \/ CloseTail \/ CloseMeta \/ Tick
    \/ \E e \in Callers : EventWrite(e)

LEMMA StepsAre ==
    Next <=> \/ Settles \/ OutputMatch \/ OutputAppend \/ ReaderAppend \/ CloseTailAppend
             \/ FlushTake \/ CloseTake \/ Silent
BY Zenon DEF Next, Settles, InputStep, Silent, Reader, Flush, Close

LEMMA SilentStep ==
    ASSUME TypeOK, Silent
    PROVE  /\ q' = q
           /\ pend' = pend \/ (CloseTail /\ pend' = MatchPending(tail))
           /\ CloseTail \/ FlushWrite \/ (file' = file)
           /\ FlushWrite \/ (flusher'.lines = flusher.lines) \/ FlushEnd
<1>1. q' = q
  BY DEF Silent, SkipInput, DeferToProgram, DeferAfterClose, OutputSplit, FlushWrite, FlushEnd, CloseTail,
         CloseMeta, Tick, EventWrite, lockVars
<1>2. pend' = pend \/ (CloseTail /\ pend' = MatchPending(tail))
  BY Zenon DEF Silent, SkipInput, DeferToProgram, DeferAfterClose, OutputSplit, FlushWrite, FlushEnd, CloseTail,
         CloseMeta, Tick, EventWrite, lockVars
<1>3. CloseTail \/ FlushWrite \/ (file' = file)
  BY Zenon DEF Silent, SkipInput, DeferToProgram, DeferAfterClose, NotReader, OutputSplit, FlushEnd,
         CloseMeta, Tick, EventWrite, diskVars
<1>4. FlushWrite \/ (flusher'.lines = flusher.lines) \/ FlushEnd
  BY Zenon DEF Silent, SkipInput, DeferToProgram, DeferAfterClose, NotReader, OutputSplit, CloseTail,
         CloseMeta, NotCloser, Tick, EventWrite
<1>5. QED
  BY <1>1, <1>2, <1>3, <1>4

LEMMA QueueStep ==
    ASSUME RecorderConstants, TypeOK, PhasesAgree, Next
    PROVE  /\ q'.closed = (q.closed \/ CloseMark)
           /\ q.closed /\ ~FlushTake /\ ~CloseTake => q'.lines = q.lines
           /\ q.closed => q'.dropped = q.dropped
           /\ q.header # "none" /\ ~CloseTake => q'.header # "none"
           /\ CloseMark => q'.header # "none"
           /\ q'.closed => pend' = <<>>
           /\ q.masked <= q'.masked /\ q.dropped <= q'.dropped
<1>0. q \in Queues /\ q.closed \in BOOLEAN /\ q.masked \in Nat /\ q.dropped \in Nat
  BY DEF TypeOK, Queues
<1>1. ASSUME NEW r, QueueMoves(q, r), q.closed => r = q, After(r, q')
      PROVE  /\ q.closed => q'.lines = q.lines
             /\ q.header # "none" => q'.header # "none"
             /\ q.masked <= q'.masked /\ q.dropped <= q'.dropped
  <2>1. r.masked \in Nat /\ r.dropped \in Nat /\ q'.masked \in Nat /\ q'.dropped \in Nat
    BY <1>1, QueueTyped DEF QueueMoves, Queues
  <2>2. QED
    BY <1>0, <1>1, <2>1 DEF QueueMoves, After
<1>2. CASE Settles
  <2>0. PICK r : SettlesBy(r)
    BY <1>2, SettleStep
  <2>1. Fine(r) /\ SettledTo(pend, r) /\ After(r, q') /\ q'.closed = (q.closed \/ CloseMark)
    BY <2>0 DEF SettlesBy
  <2>2. QueueMoves(q, r) /\ (q.closed => r = q)
    BY <2>1 DEF SettledTo
  <2>3. CloseMark => q'.header # "none"
    <3> DEFINE u == [SettleForced(q) EXCEPT !.closed = TRUE]
    <3>1. Fine(SettleForced(q))
      BY FineSettled, WaitingKept DEF SettleForced
    <3>2. u \in Queues /\ Len(u.lines) <= PendingCap
      BY <3>1, FineChanged DEF Fine
    <3>3. CloseMark => q' = DecideHeader(u)
      BY DEF CloseMark
    <3> HIDE DEF u
    <3>4. QED
      BY <3>2, <3>3, DecideHeaderMoves
  <2>4. q.closed => q'.dropped = q.dropped
    <3>1. ASSUME q.closed
          PROVE  q'.dropped = r.dropped
      <4>1. CASE \E b \in work.blocks, mode \in Modes : WriteInputDeferred(b, mode)
        BY <3>1, <4>1 DEF WriteInputDeferred
      <4>2. CASE \/ \E b \in work.blocks, mode \in Modes : WriteInput(b, mode) \/ WriteInputMasked(b, mode)
                 \/ DeferredPlain \/ \E e \in Callers : EventSnapshot(e)
        <5>1. SettleBoundary(q) = q
          BY <3>1, SettleNone DEF SettleBoundary, PhasesAgree
        <5>2. q' = q \/ q' = [q EXCEPT !.masked = @ + 1]
          BY <4>2, <5>1 DEF WriteInput, WriteInputMasked, DeferredPlain, EventSnapshot
        <5>3. q'.dropped = q.dropped
          BY <1>0, <5>2 DEF Queues
        <5>4. QED
          BY <2>2, <3>1, <5>3
      <4>3. CASE \E s \in work.sizes : WriteResize(s)
        <5>1. PICK s \in work.sizes : q' = DecideHeader([q EXCEPT !.size = s])
          BY <3>1, <4>3, SettleNone DEF WriteResize, SettleBoundary, PhasesAgree
        <5> DEFINE u == [q EXCEPT !.size = s]
        <5>2. s \in Nat /\ Fine(q)
          BY SettingsKnown, WaitingKept
        <5>3. u \in Queues /\ Len(u.lines) <= PendingCap
          BY <5>2, FineChanged DEF Fine
        <5>4. u.dropped = q.dropped
          BY <1>0 DEF Queues
        <5> HIDE DEF u
        <5>5. q'.dropped = q.dropped
          BY <5>1, <5>3, <5>4, DecideHeaderMoves DEF u
        <5>6. QED
          BY <2>2, <3>1, <5>5
      <4>4. CASE CloseMark
        BY <3>1, <4>4 DEF CloseMark, PhasesAgree
      <4>5. QED
        BY <1>2, <4>1, <4>2, <4>3, <4>4 DEF Settles, InputStep
    <3>2. QED
      BY <2>2, <3>1
  <2>5. q'.closed => pend' = <<>>
    <3>1. CASE \E b \in work.blocks, mode \in Modes : WriteInputDeferred(b, mode)
      <4>1. ~q.closed
        BY <3>1 DEF WriteInputDeferred
      <4>2. CloseMark => pend' = <<>>
        BY DEF CloseMark
      <4>3. QED
        BY <2>1, <4>1, <4>2
    <3>2. CASE ~\E b \in work.blocks, mode \in Modes : WriteInputDeferred(b, mode)
      BY <1>2, <3>2 DEF Settles, InputStep, WriteInput, WriteInputMasked, DeferredPlain, WriteResize,
                        EventSnapshot, CloseMark
    <3>3. QED
      BY <3>1, <3>2
  <2>6. QED
    BY <1>1, <2>1, <2>2, <2>3, <2>4, <2>5
<1>3. CASE ~Settles /\ OutputMatch
  <2> DEFINE matched == MatchPending(pump.block)
  <2>1. /\ Waiting(matched) /\ Len(matched) = Len(pend)
        /\ \/ q' = q /\ pend' = matched
           \/ Fine(q') /\ SettledTo(matched, q') /\ pend' = <<>>
    BY <1>3, MatchStep
  <2>2. q.closed => matched = <<>>
    BY <2>1, ClosedHasNoBlocks
  <2> HIDE DEF matched
  <2>3. /\ q'.closed = q.closed /\ (q.closed => q' = q) /\ (q.header # "none" => q'.header # "none")
        /\ q.masked <= q'.masked /\ q.dropped <= q'.dropped
    BY <1>0, <2>1 DEF SettledTo, QueueMoves
  <2>4. ~CloseMark
    BY <1>3 DEF Settles
  <2>5. QED
    BY <1>0, <2>1, <2>2, <2>3, <2>4
<1>4. CASE ~Settles /\ (OutputAppend \/ ReaderAppend \/ CloseTailAppend)
  <2>1. /\ QueueMoves(q, q') /\ (q.closed => q' = q) /\ pend' = pend
    BY <1>4, AppendStep DEF AppendedTo
  <2>2. ~CloseMark
    BY <1>4 DEF Settles
  <2>3. QED
    BY <1>0, <2>1, <2>2 DEF QueueMoves, PhasesAgree
<1>5. CASE ~Settles /\ FlushTake
  <2>0. PICK r : TakenFrom(r)
    BY <1>5, TakeStep
  <2>1. /\ Fine(r) /\ QueueMoves(q, r) /\ (q.closed => r = q)
        /\ pend' \in {<<>>, pend}
        /\ \/ q' = r
           \/ LET headed == DecideHeader(r) IN
              /\ q' = [headed EXCEPT !.lines = <<>>, !.header = "flushed"]
              /\ After(r, headed) /\ headed \in Queues /\ headed.closed = r.closed
    BY <2>0 DEF TakenFrom, Takes
  <2> DEFINE headed == DecideHeader(r)
  <2>2. ~CloseMark /\ r \in Queues
    BY <1>5, <2>1 DEF Settles, Fine
  <2>3. headed.dropped = r.dropped /\ headed.masked = r.masked
    BY <2>1, <2>2, DecideHeaderMoves DEF Fine
  <2>4. q' = r \/ (/\ q'.closed = r.closed /\ q'.dropped = r.dropped /\ q'.masked = r.masked
                   /\ q'.header = "flushed")
    <3>1. CASE q' = r
      BY <3>1
    <3>2. CASE q' # r
      <4>1. q' = [headed EXCEPT !.lines = <<>>, !.header = "flushed"] /\ headed \in Queues
            /\ headed.closed = r.closed
        BY <2>1, <3>2
      <4> HIDE DEF headed
      <4>2. QED
        BY <2>3, <4>1 DEF Queues
    <3>3. QED
      BY <3>1, <3>2
  <2>5. /\ q'.closed = q.closed /\ (q.closed => q'.dropped = q.dropped)
        /\ q.header # "none" => q'.header # "none"
        /\ q.masked <= q'.masked /\ q.dropped <= q'.dropped
    BY <1>0, <2>1, <2>4 DEF QueueMoves
  <2>6. q.closed => pend' = <<>>
    BY <2>1 DEF PhasesAgree
  <2>7. QED
    BY <1>0, <1>5, <2>2, <2>5, <2>6
<1>6. CASE ~Settles /\ CloseTake
  <2>1. /\ q' = [q EXCEPT !.lines = <<>>, !.header = IF @ = "line" THEN "none" ELSE @]
        /\ pend' = pend /\ ~CloseMark
    BY <1>6 DEF CloseTake, Settles
  <2>2. q'.closed = q.closed /\ q'.dropped = q.dropped /\ q'.masked = q.masked
    BY <1>0, <2>1 DEF Queues
  <2>3. QED
    BY <1>0, <1>6, <2>1, <2>2 DEF PhasesAgree
<1>7. CASE ~Settles /\ Silent
  <2>1. q' = q /\ (pend' = pend \/ (CloseTail /\ pend' = MatchPending(tail))) /\ ~CloseMark
    BY <1>7, SilentStep DEF Settles
  <2>2. q.closed => pend' = <<>>
    <3>1. tail \in Seq(STRING)
      BY DEF TypeOK
    <3>2. Waiting(MatchPending(tail)) /\ Len(MatchPending(tail)) = Len(pend)
      BY <3>1, WaitingKept, MatchMoves DEF Waiting
    <3>3. QED
      BY <2>1, <3>2, ClosedHasNoBlocks DEF PhasesAgree
  <2>3. QED
    BY <1>0, <2>1, <2>2
<1>8. QED
  BY <1>2, <1>3, <1>4, <1>5, <1>6, <1>7, StepsAre

(* How Close goes on.                                                      *)
LEMMA CloserMoves ==
    ASSUME Next
    PROVE  \/ closer' = closer /\ ~CloseMark /\ ~CloseTake /\ ~CloseMeta
           \/ ~CloseMark /\ closer.at \in {"idle", "tail"} /\ closer'.at \in {"tail", "mark"}
           \/ CloseMark /\ closer.at = "mark" /\ closer'.at = "wait"
           \/ ~CloseMark /\ CloseTake /\ closer.at = "wait" /\ closer'.at = "meta"
           \/ ~CloseMark /\ CloseMeta /\ closer.at = "meta" /\ closer'.at = "done"
<1>1. CASE Close
  <2>1. CASE CloseTail
    BY <2>1 DEF CloseTail, CloseMark
  <2>2. CASE CloseTailAppend
    BY <2>2 DEF CloseTailAppend, CloseMark
  <2>3. CASE CloseMark
    BY <2>3 DEF CloseMark
  <2>4. CASE CloseTake
    BY <2>4 DEF CloseTake, CloseMark
  <2>5. CASE CloseMeta
    BY <2>5 DEF CloseMeta, CloseMark
  <2>6. QED
    BY <1>1, <2>1, <2>2, <2>3, <2>4, <2>5 DEF Close
<1>2. CASE ~Close
  <2>1. closer' = closer
    BY <1>2, Zenon DEF Next, OutputSplit, OutputMatch, OutputAppend, Reader, SkipInput, WriteInput,
       WriteInputMasked, DeferToProgram, WriteInputDeferred, DeferAfterClose, DeferredPlain,
       WriteResize, ReaderAppend, NotReader, EventSnapshot, EventWrite, Flush, FlushTake,
       FlushWrite, FlushEnd, NotFlusher, Tick
  <2>2. QED
    BY <1>2, <2>1 DEF Close
<1>3. QED
  BY <1>1, <1>2

LEMMA MetaMoves ==
    ASSUME Next
    PROVE  CloseMeta \/ (metaFile' = metaFile) \/ \E e \in Callers : EventWrite(e)
BY Zenon DEF Next, OutputSplit, OutputMatch, OutputAppend, Reader, SkipInput, WriteInput,
       WriteInputMasked, DeferToProgram, WriteInputDeferred, DeferAfterClose, DeferredPlain,
       WriteResize, ReaderAppend, NotReader, EventSnapshot, Flush, FlushTake, FlushWrite, FlushEnd,
       NotFlusher, Close, CloseTail, CloseTailAppend, CloseMark, CloseTake, NotCloser, Tick, diskVars

LEMMA PhasesStep ==
    ASSUME RecorderConstants, TypeOK, PhasesAgree, EndStays, Next
    PROVE  PhasesAgree' /\ EndStays'
<1> DEFINE P1 == q.closed <=> closer.at \in {"wait", "meta", "done"}
           P2 == flusher.at = "gone" => q.closed
           P3 == closer.at \in {"meta", "done"} => flusher.at = "gone" /\ q.lines = <<>>
           P4 == flusher.at # "write" => flusher.lines = <<>>
           P6 == closer.at = "wait" => q.header # "none"
           P7 == closer.at = "meta" => closer.snap.ended
           P8 == metaFile.ended => Closed
           P9 == \A e \in Callers : event[e].at = "write" => ~event[e].snap.ended
<1>0. P1 /\ P2 /\ P3 /\ P4 /\ P6 /\ P7 /\ P8 /\ P9
  BY DEF PhasesAgree
<1>1. /\ q'.closed = (q.closed \/ CloseMark)
      /\ q.closed /\ ~FlushTake /\ ~CloseTake => q'.lines = q.lines
      /\ q.header # "none" /\ ~CloseTake => q'.header # "none"
      /\ CloseMark => q'.header # "none"
      /\ q'.closed => pend' = <<>>
  BY QueueStep
<1>2. q.closed \in BOOLEAN
  BY DEF TypeOK, Queues
<1>3. /\ closer \in [at : {"idle", "mark", "wait"}] \cup [at : {"done"}, saved : BOOLEAN]
                  \cup [at : {"tail"}, block : Seq(STRING), since : 0 .. now]
                  \cup [at : {"meta"}, snap : Metas]
  BY DEF TypeOK
<1>4. \/ closer' = closer /\ ~CloseMark /\ ~CloseTake /\ ~CloseMeta
      \/ ~CloseMark /\ closer.at \in {"idle", "tail"} /\ closer'.at \in {"tail", "mark"}
      \/ CloseMark /\ closer.at = "mark" /\ closer'.at = "wait"
      \/ ~CloseMark /\ CloseTake /\ closer.at = "wait" /\ closer'.at = "meta"
      \/ ~CloseMark /\ CloseMeta /\ closer.at = "meta" /\ closer'.at = "done"
  BY CloserMoves
(* How flushLoop goes on.                                                  *)
<1>5. \/ flusher' = flusher /\ ~FlushWrite
      \/ FlushTake /\ flusher.at = "wait" /\ flusher'.at = "write"
      \/ FlushWrite /\ flusher.at = "write" /\ flusher' = [at |-> "wait", lines |-> <<>>]
      \/ FlushEnd /\ closer.at = "wait" /\ flusher' = [at |-> "gone", lines |-> <<>>]
  <2>1. CASE FlushTake
    BY <2>1 DEF FlushTake, FlushWrite
  <2>2. CASE FlushWrite
    BY <2>2 DEF FlushWrite
  <2>3. CASE FlushEnd
    BY <2>3 DEF FlushEnd
  <2>4. CASE ~Flush
    <3>1. flusher' = flusher
      BY <2>4, Zenon DEF Next, OutputSplit, OutputMatch, OutputAppend, Reader, SkipInput, WriteInput,
         WriteInputMasked, DeferToProgram, WriteInputDeferred, DeferAfterClose, DeferredPlain,
         WriteResize, ReaderAppend, NotReader, EventSnapshot, EventWrite, Close, CloseTail,
         CloseTailAppend, CloseMark, CloseTake, CloseMeta, NotCloser, Tick
    <3>2. QED
      BY <2>4, <3>1 DEF Flush
  <2>5. QED
    BY <2>1, <2>2, <2>3, <2>4 DEF Flush
<1>6. CloseMeta \/ (metaFile' = metaFile) \/ \E e \in Callers : EventWrite(e)
  BY MetaMoves
<1>7. event' = event \/ EventStep
  BY Zenon DEF EventStep, Next, OutputSplit, OutputMatch, OutputAppend, Reader, SkipInput, WriteInput,
         WriteInputMasked, DeferToProgram, WriteInputDeferred, DeferAfterClose, DeferredPlain,
         WriteResize, ReaderAppend, NotReader, Flush, FlushTake, FlushWrite, FlushEnd,
         NotFlusher, Close, CloseTail, CloseTailAppend, CloseMark, CloseTake, CloseMeta, NotCloser, Tick
<1>8. CloseTake => flusher.at = "gone" /\ flusher' = flusher /\ q'.lines = <<>>
  <2>1. CloseTake => /\ flusher.at = "gone" /\ flusher' = flusher
                     /\ q' = [q EXCEPT !.lines = <<>>, !.header = IF @ = "line" THEN "none" ELSE @]
    BY DEF CloseTake, NotCloser
  <2>2. q \in Queues
    BY DEF TypeOK
  <2>3. QED
    BY <2>1, <2>2 DEF Queues
<1>9. P1'
  BY <1>0, <1>1, <1>2, <1>4
<1>10. P2'
  BY <1>0, <1>1, <1>2, <1>5, <1>9
<1>11. P3'
  <2>1. CASE CloseTake
    BY <1>8, <2>1
  <2>2. CASE ~CloseTake /\ closer.at \in {"meta", "done"}
    <3>1. flusher.at = "gone" /\ q.lines = <<>> /\ q.closed
      BY <1>0, <2>2
    <3>2. ~FlushTake /\ flusher' = flusher
      BY <1>5, <2>2, <3>1 DEF FlushTake, FlushWrite, FlushEnd
    <3>3. QED
      BY <1>1, <2>2, <3>1, <3>2
  <2>3. CASE ~CloseTake /\ closer.at \notin {"meta", "done"}
    BY <1>4, <2>3
  <2>4. QED
    BY <2>1, <2>2, <2>3
<1>12. P4'
  BY <1>0, <1>5
<1>13. P6'
  BY <1>0, <1>1, <1>4
<1>14. P7'
  <2>1. CASE CloseTake
    <3>1. closer.at = "wait" /\ closer' = [at |-> "meta", snap |-> MetaNow]
      BY <2>1 DEF CloseTake
    <3>2. MetaNow.ended
      BY <1>0, <3>1, SnapshotTyped
    <3>3. QED
      BY <3>1, <3>2
  <2>2. CASE ~CloseTake
    BY <1>0, <1>4, <2>2
  <2>3. QED
    BY <2>1, <2>2
<1>15. P8'
  <2>1. CASE CloseMeta
    BY <1>4, <2>1 DEF Closed, CloseMeta, CloseMark
  <2>2. CASE \E e \in Callers : EventWrite(e)
    <3>1. PICK e \in Callers : /\ event[e].at = "write" /\ closer' = closer
                              /\ metaFile' \in {event[e].snap, metaFile}
      BY <2>2 DEF EventWrite
    <3>2. QED
      BY <1>0, <3>1 DEF Closed
  <2>3. CASE metaFile' = metaFile /\ ~CloseMeta
    BY <1>0, <1>4, <2>3 DEF Closed
  <2>4. QED
    BY <1>6, <2>1, <2>2, <2>3
<1>16. P9'
  <2>1. CASE event' = event
    BY <1>0, <2>1
  <2>2. ASSUME NEW e \in Callers, EventSnapshot(e)
        PROVE  P9'
    <3>1. ~q.closed /\ event' = [event EXCEPT ![e] = [at |-> "write", snap |-> MetaNow']]
      BY <2>2 DEF EventSnapshot
    <3>2. ~q'.closed
      <4>1. ~CloseMark
        BY <2>2 DEF EventSnapshot, CloseMark, NotCloser
      <4>2. QED
        BY <1>1, <3>1, <4>1
    <3>3. ~MetaNow'.ended
      BY <3>2 DEF MetaNow
    <3>4. DOMAIN event = Callers
      BY DEF TypeOK
    <3>5. ASSUME NEW c \in Callers
          PROVE  event'[c].at = "write" => ~event'[c].snap.ended
      <4>1. event'[c] = IF c = e THEN [at |-> "write", snap |-> MetaNow'] ELSE event[c]
        BY <3>1, <3>4
      <4>2. QED
        BY <1>0, <3>3, <4>1
    <3>6. QED
      BY <3>5
  <2>3. ASSUME NEW e \in Callers, EventWrite(e)
        PROVE  P9'
    <3>1. DOMAIN event = Callers
      BY DEF TypeOK
    <3>2. PICK late : event' = [event EXCEPT ![e] = [at |-> "done", late |-> late]]
      BY <2>3 DEF EventWrite
    <3>3. QED
      BY <1>0, <3>1, <3>2
  <2>4. QED
    BY <1>7, <2>1, <2>2, <2>3 DEF EventStep
<1>17. EndStays'
  <2> DEFINE Late == \E e \in Callers : event[e].at = "done" /\ event[e].late
  <2>0. DOMAIN event = Callers
    BY DEF TypeOK
  <2>1. Late => Late'
    <3>1. CASE event' = event
      BY <3>1
    <3>2. ASSUME NEW e \in Callers, EventSnapshot(e)
          PROVE  Late => Late'
      BY <2>0, <3>2 DEF EventSnapshot
    <3>3. ASSUME NEW e \in Callers, EventWrite(e)
          PROVE  Late => Late'
      <4>1. event[e].at = "write" /\ PhasesAgree
        BY <3>3 DEF EventWrite
      <4>2. PICK late : event' = [event EXCEPT ![e] = [at |-> "done", late |-> late]]
        BY <3>3 DEF EventWrite
      <4>3. QED
        BY <2>0, <4>1, <4>2
    <3>4. QED
      BY <1>7, <3>1, <3>2, <3>3 DEF EventStep
  <2>2. CASE CloseMeta
    <3>1. PICK saved \in BOOLEAN : /\ metaFile' = IF saved THEN closer.snap ELSE metaFile
                                   /\ closer' = [at |-> "done", saved |-> saved]
                                   /\ closer.at = "meta"
      BY <2>2 DEF CloseMeta
    <3>2. CASE saved
      <4>1. metaFile'.ended
        BY <1>0, <3>1, <3>2
      <4>2. QED
        BY <4>1 DEF EndStays
    <3>3. CASE ~saved
      <4>1. ~closer'.saved
        BY <3>1, <3>3
      <4>2. QED
        BY <4>1 DEF EndStays
    <3>4. QED
      BY <3>2, <3>3
  <2>3. ASSUME NEW e \in Callers, EventWrite(e)
        PROVE  EndStays'
    <3> DEFINE late == metaFile.ended /\ ~metaFile'.ended
    <3>1. /\ event[e].at = "write" /\ metaFile' \in {event[e].snap, metaFile} /\ closer' = closer
          /\ event' = [event EXCEPT ![e] = [at |-> "done", late |-> late]]
      BY <2>3 DEF EventWrite
    <3>2. metaFile'.ended \/ ~metaFile'.ended
      OBVIOUS
    <3>3. CASE metaFile.ended /\ ~metaFile'.ended
      <4>1. late
        BY <3>3
      <4> HIDE DEF late
      <4>2. event'[e].at = "done" /\ event'[e].late
        BY <2>0, <3>1, <4>1
      <4>3. QED
        BY <4>2 DEF EndStays
    <3>4. CASE ~metaFile.ended
      <4>1. Closed => ~closer.saved \/ Late
        BY <3>4 DEF EndStays
      <4>2. Closed' => ~closer'.saved \/ Late'
        BY <2>1, <3>1, <4>1 DEF Closed
      <4>3. QED
        BY <4>2 DEF EndStays
    <3>5. CASE metaFile'.ended
      BY <3>5 DEF EndStays
    <3>6. QED
      BY <3>3, <3>4, <3>5
  <2>4. CASE metaFile' = metaFile /\ ~CloseMeta
    <3>1. Closed' => Closed /\ closer' = closer
      BY <1>4, <2>4 DEF Closed
    <3>2. Closed => metaFile.ended \/ ~closer.saved \/ Late
      BY DEF EndStays
    <3>3. Closed' => metaFile'.ended \/ ~closer'.saved \/ Late'
      BY <2>1, <2>4, <3>1, <3>2
    <3>4. QED
      BY <3>3 DEF EndStays
  <2>5. QED
    BY <1>6, <2>2, <2>3, <2>4
<1>18. PhasesAgree'
  BY <1>1, <1>9, <1>10, <1>11, <1>12, <1>13, <1>14, <1>15, <1>16 DEF PhasesAgree
<1>19. QED
  BY <1>17, <1>18

-----------------------------------------------------------------------------
(* HeaderFirst and InOrder, and what a step does to the lines of input.    *)

All(r) == file \o flusher.lines \o r.lines

BookOf(r) ==
    /\ All(r) \in Seq(CastLines) /\ Sorted(All(r), r.lastT)
    /\ HeadedOnce(All(r)) /\ Unheaded(r.lines)
    /\ Lines # <<>> => All(r) # <<>> /\ All(r)[1] = Lines[1]

LEMMA LinesTyped ==
    ASSUME TypeOK
    PROVE  /\ file \in Seq(CastLines) /\ flusher.lines \in Seq(CastLines)
           /\ q.lines \in Seq(CastLines) /\ file \o flusher.lines \in Seq(CastLines)
           /\ Lines \in Seq(CastLines) /\ q.lastT \in Nat
<1>1. /\ file \in Seq(CastLines) /\ flusher.lines \in Seq(CastLines) /\ q.lines \in Seq(CastLines)
      /\ q.lastT \in Nat
  BY DEF TypeOK, Queues
<1>2. file \o flusher.lines \in Seq(CastLines)
  BY <1>1, ConcatProperties
<1>3. file \o flusher.lines \o q.lines \in Seq(CastLines)
  BY <1>1, <1>2, ConcatProperties
<1>4. QED
  BY <1>1, <1>2, <1>3 DEF Lines

LEMMA BookNow ==
    ASSUME TypeOK, HeaderFirst, InOrder
    PROVE  BookOf(q) /\ All(q) = Lines /\ InputsOf(Lines) = Recorded
<1>1. All(q) = Lines
  BY DEF All, Lines
<1>2. Sorted(Lines, q.lastT)
  BY Zenon DEF InOrder, Sorted
<1>3. HeadedOnce(Lines) /\ Unheaded(q.lines)
  BY Zenon DEF HeaderFirst, HeadedOnce, Unheaded
<1>4. QED
  BY <1>1, <1>2, <1>3, LinesTyped, Zenon DEF BookOf, InputsOf, Recorded

LEMMA BookAdded ==
    ASSUME TypeOK, HeaderFirst, InOrder, NEW r, NEW l, Adds(q, r, l), l.typ # "h",
           l.typ = "i" => \A k \in Recorded : k.n < l.n
    PROVE  BookOf(r) /\ InputsOf(All(r)) = Recorded \cup {k \in {l} : k.typ = "i"}
<1>1. /\ l \in CastLines /\ r.lines = Append(q.lines, l) /\ r.lastT = l.t /\ q.lastT <= l.t
  BY DEF Adds
<1>2. All(r) = Append(Lines, l)
  <2> DEFINE written == file \o flusher.lines
             queued == q.lines
  <2>1. written \in Seq(CastLines) /\ queued \in Seq(CastLines)
    BY LinesTyped
  <2>2. All(r) = written \o Append(queued, l) /\ Lines = written \o queued
    BY <1>1 DEF All, Lines
  <2> HIDE DEF written, queued
  <2>3. written \o Append(queued, l) = Append(written \o queued, l)
    BY <1>1, <2>1, ConcatAppend
  <2>4. QED
    BY <2>2, <2>3
<1>3. /\ Sorted(Lines, q.lastT) /\ HeadedOnce(Lines) /\ Unheaded(q.lines)
      /\ InputsOf(Lines) = Recorded
  BY BookNow DEF BookOf
<1>4. LET more == Append(Lines, l) IN
           /\ more \in Seq(CastLines) /\ Sorted(more, l.t) /\ HeadedOnce(more)
           /\ Lines # <<>> => more # <<>> /\ more[1] = Lines[1]
           /\ InputsOf(more) = Recorded \cup {k \in {l} : k.typ = "i"}
  BY <1>1, <1>3, LinesTyped, LineAppended
<1>5. Unheaded(r.lines)
  <2>1. /\ DOMAIN q.lines = 1 .. Len(q.lines) /\ DOMAIN r.lines = 1 .. Len(q.lines) + 1
        /\ Len(q.lines) \in Nat
        /\ \A i \in 1 .. Len(q.lines) : r.lines[i] = q.lines[i]
        /\ r.lines[Len(q.lines) + 1] = l
    BY <1>1, LinesTyped, AppendProperties
  <2>2. \A i \in DOMAIN r.lines : i \in 1 .. Len(q.lines) \/ i = Len(q.lines) + 1
    BY <2>1
  <2>3. QED
    BY <1>3, <2>1, <2>2 DEF Unheaded
<1>6. QED
  BY <1>1, <1>2, <1>4, <1>5 DEF BookOf

(* S are the lines of input after blocks were settled.                     *)
Ledger(blocks, r, S) ==
    \/ S = Recorded /\ (blocks = <<>> \/ Excused(r))
    \/ /\ blocks # <<>> /\ ~q.closed
       /\ \E l \in CastLines :
            /\ S = Recorded \cup {l} /\ l.typ = "i" /\ l.n = blocks[1].n
            /\ l.plain => blocks[1].reached
            /\ ~l.plain => r.masked = q.masked + 1

LEMMA BookKept ==
    ASSUME TypeOK, HeaderFirst, InOrder, NEW r, Keeps(q, r)
    PROVE  BookOf(r) /\ InputsOf(All(r)) = Recorded
<1>1. All(r) = Lines /\ r.lines = q.lines /\ r.lastT = q.lastT
  BY DEF Keeps, All, Lines
<1>2. QED
  BY <1>1, BookNow DEF BookOf

LEMMA BookSettled ==
    ASSUME TypeOK, HeaderFirst, InOrder, NEW r, NEW p, NEW l \in CastLines, LineOf(l, p, q, r),
           \A k \in Recorded : k.n < p.n
    PROVE  /\ BookOf(r) /\ InputsOf(All(r)) = Recorded \cup {l}
           /\ ~q.closed /\ l.typ = "i" /\ l.n = p.n
           /\ l.plain => p.reached
           /\ ~l.plain => r.masked = q.masked + 1
<1>1. Adds(q, r, l) /\ l.typ = "i" /\ l.n = p.n
  BY DEF LineOf
<1>2. BookOf(r) /\ InputsOf(All(r)) = Recorded \cup {k \in {l} : k.typ = "i"}
  BY <1>1, BookAdded
<1>3. QED
  BY <1>1, <1>2 DEF LineOf, Adds

LEMMA LedgerOf ==
    ASSUME TypeOK, HeaderFirst, InOrder, NEW r, NEW blocks, SettledTo(blocks, r),
           blocks # <<>> => \A k \in Recorded : k.n < blocks[1].n
    PROVE  BookOf(r) /\ Ledger(blocks, r, InputsOf(All(r)))
<1>1. CASE Keeps(q, r) /\ (blocks = <<>> \/ Excused(r))
  BY <1>1, BookKept DEF Ledger
<1>2. CASE blocks # <<>> /\ \E l \in CastLines : LineOf(l, blocks[1], q, r)
  <2>1. PICK l \in CastLines : LineOf(l, blocks[1], q, r)
    BY <1>2
  <2>2. /\ BookOf(r) /\ InputsOf(All(r)) = Recorded \cup {l}
        /\ ~q.closed /\ l.typ = "i" /\ l.n = blocks[1].n
        /\ l.plain => blocks[1].reached
        /\ ~l.plain => r.masked = q.masked + 1
    BY <1>2, <2>1, BookSettled
  <2>3. QED
    BY <1>2, <2>2 DEF Ledger
<1>3. QED
  BY <1>1, <1>2 DEF SettledTo

HeaderOut == q.header = "flushed" \/ closer.at \in {"meta", "done"}

(* The lines are those of r, and nothing is said of the header.            *)
LEMMA BookTurned ==
    ASSUME TypeOK, TypeOK', HeaderFirst, NEW r, BookOf(r), Lines' = All(r),
           q'.lastT = r.lastT, q'.lines = r.lines,
           HeaderOut' => HeaderOut, ~HeaderOut' => ~HeaderOut /\ file' = file /\ flusher'.lines = flusher.lines
    PROVE  HeaderFirst' /\ InOrder' /\ Recorded' = InputsOf(All(r))
<1>1. Sorted(Lines', q'.lastT) /\ HeadedOnce(Lines') /\ Unheaded(q'.lines)
  BY DEF BookOf
<1>2. InOrder'
  BY <1>1, Zenon DEF InOrder, Sorted
<1>3. CASE HeaderOut'
  <2>1. Lines # <<>> /\ Lines[1].typ = "h"
    BY <1>3 DEF HeaderFirst, HeaderOut
  <2>2. Lines' # <<>> /\ Lines'[1].typ = "h"
    BY <2>1 DEF BookOf
  <2>3. HeaderFirst'
    BY <1>1, <1>3, <2>2, Zenon DEF HeaderFirst, HeaderOut, HeadedOnce, Unheaded
  <2>4. QED
    BY <1>2, <2>3 DEF Recorded, InputsOf
<1>4. CASE ~HeaderOut'
  <2>1. file = <<>> /\ flusher.lines = <<>>
    BY <1>4 DEF HeaderFirst, HeaderOut
  <2>2. file' = <<>> /\ flusher'.lines = <<>>
    BY <1>4, <2>1
  <2>3. HeaderFirst'
    BY <1>1, <1>4, <2>2, Zenon DEF HeaderFirst, HeaderOut, HeadedOnce, Unheaded
  <2>4. QED
    BY <1>2, <2>3 DEF Recorded, InputsOf
<1>5. QED
  BY <1>3, <1>4

(* The same for a step that leaves file and flusher alone.                 *)
LEMMA BookHere ==
    ASSUME TypeOK, TypeOK', HeaderFirst, NEW r, BookOf(r), file' = file,
           flusher'.lines = flusher.lines, q'.lines = r.lines, q'.lastT = r.lastT,
           HeaderOut' <=> HeaderOut
    PROVE  HeaderFirst' /\ InOrder' /\ Recorded' = InputsOf(All(r))
<1>1. Lines' = All(r)
  BY DEF Lines, All
<1>2. QED
  BY <1>1, BookTurned

LEMMA BookDone ==
    ASSUME NEW all, Lines' = all, Sorted(all, q'.lastT), HeadedOnce(all), all # <<>>,
           all[1].typ = "h", HeaderOut', q'.lines = <<>>
    PROVE  HeaderFirst' /\ InOrder' /\ Recorded' = InputsOf(all)
<1>1. InOrder'
  BY Zenon DEF InOrder, Sorted
<1>2. \A i \in DOMAIN q'.lines : q'.lines[i].typ # "h"
  OBVIOUS
<1>3. HeaderFirst'
  BY <1>2, Zenon DEF HeaderFirst, HeaderOut, HeadedOnce
<1>4. QED
  BY <1>1, <1>3 DEF Recorded, InputsOf

LEMMA HeaderTurns ==
    ASSUME TypeOK, PhasesAgree, Next
    PROVE  /\ ~CloseTake => (closer'.at \in {"meta", "done"} <=> closer.at \in {"meta", "done"})
           /\ CloseTake => closer'.at = "meta"
<1>1. closer' = closer \/ Close
  BY Zenon DEF Next, OutputSplit, OutputMatch, OutputAppend, Reader, NotReader, SkipInput, WriteInput,
               WriteInputMasked, DeferToProgram, WriteInputDeferred, DeferAfterClose, DeferredPlain,
               WriteResize, ReaderAppend, EventSnapshot, EventWrite, Flush, FlushTake, FlushWrite,
               FlushEnd, NotFlusher, Tick
<1>2. CloseTail => closer.at = "idle" /\ closer'.at \in {"mark", "tail"}
  BY DEF CloseTail
<1>3. CloseTailAppend => closer.at = "tail" /\ closer'.at = "mark"
  BY DEF CloseTailAppend
<1>4. CloseMark => closer.at = "mark" /\ closer'.at = "wait"
  BY DEF CloseMark
<1>5. CloseTake => closer.at = "wait" /\ closer'.at = "meta"
  BY DEF CloseTake
<1>6. CloseMeta => closer.at = "meta" /\ closer'.at = "done"
  BY DEF CloseMeta
<1>7. QED
  BY <1>1, <1>2, <1>3, <1>4, <1>5, <1>6 DEF Close

(* What waits is newer than every line of input.                           *)
LEMMA PendNewest ==
    ASSUME TypeOK, InputsKnown, pend # <<>>
    PROVE  /\ pend[1] \in PendingInputs /\ Len(pend) = 1 /\ pend[1] \in Range(pend)
           /\ pend[1].n \in Awaited /\ pend[1].n = Len(windows)
           /\ \A k \in Recorded : k.n < pend[1].n
<1>1. pend \in Seq(PendingInputs) /\ Len(pend) <= 1
  BY DEF TypeOK
<1>2. Len(pend) \in Nat /\ Len(pend) # 0
  BY <1>1, EmptySeq
<1>3. Len(pend) = 1
  <2>1. \A n \in Nat : n # 0 /\ n <= 1 => n = 1
    OBVIOUS
  <2>2. QED
    BY <1>1, <1>2, <2>1
<1>4. 1 \in DOMAIN pend /\ pend[1] \in PendingInputs
  BY <1>1, <1>3, ElementOfSeq
<1>5. pend[1] \in Range(pend)
  BY <1>4 DEF Range
<1>6. pend[1].n \in Awaited
  BY <1>5 DEF Awaited
<1>7. QED
  BY <1>3, <1>4, <1>5, <1>6 DEF InputsKnown

LEMMA MatchedFirst ==
    ASSUME TypeOK, NEW block \in Seq(STRING), MatchPending(block) # <<>>
    PROVE  LET matched == MatchPending(block) IN
           /\ pend # <<>> /\ matched[1].n = pend[1].n /\ matched[1].printable = pend[1].printable
           /\ matched[1].reached => \/ pend[1].reached
                                    \/ pend[1].printable \subseteq pend[1].seen \cup Range(block)
<1> DEFINE matched == MatchPending(block)
<1>1. pend \in Seq(PendingInputs) /\ Len(pend) <= 1
  BY DEF TypeOK
<1>2. /\ matched \in Seq(PendingInputs) /\ Len(matched) = Len(pend)
      /\ \A k \in DOMAIN matched :
                /\ k \in DOMAIN pend
                /\ matched[k].n = pend[k].n /\ matched[k].t = pend[k].t /\ matched[k].printable = pend[k].printable
                /\ matched[k].seen \subseteq pend[k].seen \cup Range(block)
                /\ matched[k].reached => \/ pend[k].reached
                                   \/ pend[k].printable \subseteq pend[k].seen \cup Range(block)
  BY <1>1, MatchMoves
<1>3. SUFFICES ASSUME matched # <<>>
               PROVE  /\ pend # <<>> /\ matched[1].n = pend[1].n /\ matched[1].printable = pend[1].printable
                      /\ matched[1].reached => \/ pend[1].reached
                                    \/ pend[1].printable \subseteq pend[1].seen \cup Range(block)
  OBVIOUS
<1> HIDE DEF matched
<1>4. Len(matched) \in Nat /\ Len(matched) # 0
  BY <1>2, <1>3, EmptySeq
<1>5. 1 \in DOMAIN matched
  BY <1>2, <1>4
<1>6. pend # <<>>
  BY <1>2, <1>4
<1>7. QED
  BY <1>2, <1>5, <1>6

LEMMA SettlesBook ==
    ASSUME RecorderConstants, TypeOK, TypeOK', PhasesAgree, HeaderFirst, InOrder, InputsKnown,
           Next, Settles
    PROVE  /\ HeaderFirst' /\ InOrder'
           /\ \E r : SettlesBy(r) /\ Ledger(pend, r, Recorded')
<1>0. PICK r : SettlesBy(r)
  BY SettleStep
<1>1. /\ Fine(r) /\ SettledTo(pend, r) /\ After(r, q')
      /\ q'.closed = (q.closed \/ CloseMark) /\ file' = file /\ flusher' = flusher
  BY <1>0 DEF SettlesBy
<1>2. BookOf(r) /\ Ledger(pend, r, InputsOf(All(r)))
  BY <1>1, PendNewest, LedgerOf
<1>3. QueueMoves(q, r)
  BY <1>1 DEF SettledTo
<1>4. ~CloseTake
  <2>1. closer' = closer \/ CloseMark
    BY Zenon DEF Settles, InputStep, WriteInput, WriteInputMasked, WriteInputDeferred, DeferredPlain,
                 WriteResize, EventSnapshot, NotReader
  <2>2. CloseMark => closer.at = "mark"
    BY DEF CloseMark
  <2>3. CloseTake => closer.at = "wait" /\ closer'.at = "meta"
    BY DEF CloseTake
  <2>4. QED
    BY <2>1, <2>2, <2>3
<1>5. HeaderOut' <=> HeaderOut
  <2>1. q'.header = "flushed" <=> q.header = "flushed"
    BY <1>1, <1>3 DEF After, QueueMoves
  <2>2. QED
    BY <1>4, <2>1, HeaderTurns DEF HeaderOut
<1>6. HeaderFirst' /\ InOrder' /\ Recorded' = InputsOf(All(r))
  BY <1>1, <1>2, <1>5, BookHere DEF After
<1>7. QED
  BY <1>0, <1>2, <1>6

LEMMA MatchBook ==
    ASSUME RecorderConstants, TypeOK, TypeOK', PhasesAgree, HeaderFirst, InOrder, InputsKnown,
           Next, OutputMatch
    PROVE  /\ HeaderFirst' /\ InOrder'
           /\ \/ q' = q /\ pend' = MatchPending(pump.block) /\ Recorded' = Recorded
              \/ pend' = <<>> /\ Ledger(MatchPending(pump.block), q', Recorded')
<1> DEFINE matched == MatchPending(pump.block)
<1>1. /\ Waiting(matched) /\ Len(matched) = Len(pend)
      /\ \/ q' = q /\ pend' = matched
         \/ Fine(q') /\ SettledTo(matched, q') /\ pend' = <<>>
      /\ file' = file /\ flusher' = flusher
  BY MatchStep
<1>2. pump.block \in Seq(STRING)
  BY DEF TypeOK
<1>3. matched # <<>> => \A k \in Recorded : k.n < matched[1].n
  BY <1>2, MatchedFirst, PendNewest
<1>4. closer' = closer
  BY DEF OutputMatch
<1> HIDE DEF matched
<1>5. CASE q' = q /\ pend' = matched
  <2>1. HeaderOut' <=> HeaderOut
    BY <1>4, <1>5 DEF HeaderOut
  <2>2. BookOf(q) /\ All(q) = Lines /\ InputsOf(Lines) = Recorded
    BY BookNow
  <2>3. HeaderFirst' /\ InOrder' /\ Recorded' = Recorded
    BY <1>1, <1>5, <2>1, <2>2, BookHere
  <2>4. QED
    BY <1>5, <2>3 DEF matched
<1>6. CASE Fine(q') /\ SettledTo(matched, q') /\ pend' = <<>>
  <2>1. BookOf(q') /\ Ledger(matched, q', InputsOf(All(q')))
    BY <1>3, <1>6, LedgerOf
  <2>2. HeaderOut' <=> HeaderOut
    BY <1>4, <1>6 DEF HeaderOut, SettledTo, QueueMoves
  <2>3. HeaderFirst' /\ InOrder' /\ Recorded' = InputsOf(All(q'))
    <3> DEFINE r == q'
    <3>1. BookOf(r) /\ q'.lines = r.lines /\ q'.lastT = r.lastT
      BY <2>1
    <3>2. SUFFICES HeaderFirst' /\ InOrder' /\ Recorded' = InputsOf(All(r))
      OBVIOUS
    <3> HIDE DEF r
    <3>3. QED
      BY <1>1, <2>2, <3>1, BookHere
  <2>4. QED
    BY <1>6, <2>1, <2>3 DEF matched
<1>7. QED
  BY <1>1, <1>5, <1>6

LEMMA AppendBook ==
    ASSUME RecorderConstants, TypeOK, TypeOK', PhasesAgree, HeaderFirst, InOrder, InputsKnown,
           Next, OutputAppend \/ ReaderAppend \/ CloseTailAppend
    PROVE  /\ HeaderFirst' /\ InOrder' /\ q'.masked = q.masked
           /\ \/ /\ Recorded' = Recorded
                 /\ ReaderAppend /\ reader.line.typ = "i" => Excused(q')
              \/ /\ ReaderAppend /\ reader.line.typ = "i" /\ ~q.closed
                 /\ \E l \in CastLines :
                      /\ Recorded' = Recorded \cup {l} /\ l.typ = "i"
                      /\ l.n = reader.line.n /\ l.plain = reader.line.plain
<1>1. PICK line \in CastLines :
             /\ AppendedTo(line)
             /\ IF ReaderAppend
                THEN line.typ = reader.line.typ /\ line.n = reader.line.n /\ line.plain = reader.line.plain
                ELSE line.typ = "o"
             /\ file' = file /\ flusher' = flusher /\ pend' = pend
  BY AppendStep
<1>2. HeaderOut' <=> HeaderOut
  <2>1. q'.header = "flushed" <=> q.header = "flushed"
    BY <1>1 DEF AppendedTo, QueueMoves
  <2>2. closer' = closer \/ CloseTailAppend
    BY Zenon DEF OutputAppend, ReaderAppend, NotReader
  <2>3. CloseTailAppend => closer.at = "tail"
    BY DEF CloseTailAppend
  <2>4. CloseTake => closer.at = "wait" /\ closer'.at = "meta"
    BY DEF CloseTake
  <2>5. QED
    BY <2>1, <2>2, <2>3, <2>4, HeaderTurns DEF HeaderOut
<1>3. line.typ # "h" /\ (ReaderAppend => line.typ \in {"i", "r"})
  <2>1. ReaderAppend => reader.line.typ \in {"i", "r"}
    BY DEF ReaderAppend, InputsKnown
  <2>2. QED
    BY <1>1, <2>1
<1>4. line.typ = "i" => ReaderAppend /\ \A k \in Recorded : k.n < line.n
  <2>1. SUFFICES ASSUME line.typ = "i" PROVE ReaderAppend /\ \A k \in Recorded : k.n < line.n
    OBVIOUS
  <2>2. ReaderAppend /\ reader.line.typ = "i" /\ line.n = reader.line.n
    BY <1>1, <2>1
  <2>3. reader.line \in Appending
    BY <2>2 DEF ReaderAppend, Appending
  <2>4. line.n \in Awaited
    BY <2>2, <2>3 DEF Awaited
  <2>5. QED
    BY <2>2, <2>4 DEF InputsKnown
<1>5. CASE Keeps(q, q') /\ (line.typ = "i" => Excused(q'))
  <2>1. BookOf(q) /\ All(q) = Lines /\ InputsOf(Lines) = Recorded
    BY BookNow
  <2>2. HeaderFirst' /\ InOrder' /\ Recorded' = Recorded
    BY <1>1, <1>2, <1>5, <2>1, BookHere DEF Keeps
  <2>3. QED
    BY <1>1, <1>5, <2>2 DEF AppendedTo
<1>6. CASE Adds(q, q', [line EXCEPT !.t = q'.lastT])
  <2> DEFINE l == [line EXCEPT !.t = q'.lastT]
  <2>1. q'.lastT \in Nat
    BY <1>1 DEF AppendedTo, QueueMoves, Queues
  <2>2. l \in CastLines /\ l.typ = line.typ /\ l.n = line.n /\ l.plain = line.plain
    BY <2>1, LineTypes
  <2>3. Adds(q, q', l)
    BY <1>6
  <2> DEFINE r == q'
  <2>4. Adds(q, r, l) /\ q'.lines = r.lines /\ q'.lastT = r.lastT
    BY <2>3
  <2>5. SUFFICES /\ HeaderFirst' /\ InOrder' /\ q'.masked = q.masked
           /\ \/ /\ Recorded' = Recorded
                 /\ ReaderAppend /\ reader.line.typ = "i" => Excused(r)
              \/ /\ ReaderAppend /\ reader.line.typ = "i" /\ ~q.closed
                 /\ \E k \in CastLines :
                      /\ Recorded' = Recorded \cup {k} /\ k.typ = "i"
                      /\ k.n = reader.line.n /\ k.plain = reader.line.plain
    OBVIOUS
  <2>6. q'.masked = q.masked
    BY <1>1 DEF AppendedTo
  <2> HIDE DEF r, l
  <2>7. BookOf(r) /\ InputsOf(All(r)) = Recorded \cup {k \in {l} : k.typ = "i"}
    BY <1>3, <1>4, <2>2, <2>4, BookAdded
  <2>8. HeaderFirst' /\ InOrder' /\ Recorded' = InputsOf(All(r))
    BY <1>1, <1>2, <2>4, <2>7, BookHere
  <2>9. CASE line.typ = "i"
    <3>1. Recorded' = Recorded \cup {l} /\ l.typ = "i"
      BY <2>2, <2>7, <2>8, <2>9
    <3>2. ~q.closed
      BY <2>4 DEF Adds
    <3>3. ReaderAppend /\ reader.line.typ = "i" /\ l.n = reader.line.n /\ l.plain = reader.line.plain
      BY <1>1, <1>4, <2>2, <2>9
    <3>4. QED
      BY <2>2, <2>6, <2>8, <3>1, <3>2, <3>3
  <2>10. CASE line.typ # "i"
    <3>1. Recorded' = Recorded
      BY <2>2, <2>7, <2>8, <2>10
    <3>2. ~(ReaderAppend /\ reader.line.typ = "i")
      BY <1>1, <2>10
    <3>3. QED
      BY <2>6, <2>8, <3>1, <3>2
  <2>11. QED
    BY <2>9, <2>10
<1>7. QED
  BY <1>1, <1>5, <1>6 DEF AppendedTo

LEMMA TakeBook ==
    ASSUME RecorderConstants, TypeOK, TypeOK', PhasesAgree, HeaderFirst, InOrder, InputsKnown,
           Next, FlushTake
    PROVE  /\ HeaderFirst' /\ InOrder' /\ q.masked <= q'.masked
           /\ \/ Recorded' = Recorded /\ (pend' = pend \/ (pend' = <<>> /\ Excused(q')))
              \/ /\ pend # <<>> /\ pend' = <<>> /\ ~q.closed
                 /\ \E l \in CastLines :
                      /\ Recorded' = Recorded \cup {l} /\ l.typ = "i" /\ l.n = pend[1].n
                      /\ l.plain => pend[1].reached
                      /\ ~l.plain => q'.masked >= q.masked + 1
<1>1. PICK r : TakenFrom(r)
  BY TakeStep
<1>2. r \in Queues /\ r.lastT \in Nat /\ r.lines \in Seq(CastLines)
  BY <1>1 DEF Fine, Queues, TakenFrom
<1>3. /\ BookOf(r)
      /\ \/ InputsOf(All(r)) = Recorded /\ (pend' = pend \/ (pend' = <<>> /\ Excused(r)))
         \/ /\ pend # <<>> /\ pend' = <<>> /\ ~q.closed
            /\ \E l \in CastLines :
                      /\ InputsOf(All(r)) = Recorded \cup {l} /\ l.typ = "i" /\ l.n = pend[1].n
                      /\ l.plain => pend[1].reached
                      /\ ~l.plain => r.masked = q.masked + 1
  <2>1. CASE Keeps(q, r) /\ (pend' = pend \/ Excused(r))
    BY <1>1, <2>1, BookKept DEF TakenFrom
  <2>2. CASE pend # <<>> /\ pend' = <<>> /\ \E l \in CastLines : LineOf(l, pend[1], q, r)
    <3>1. PICK l \in CastLines : LineOf(l, pend[1], q, r)
      BY <2>2
    <3>2. \A k \in Recorded : k.n < pend[1].n
      BY <2>2, PendNewest
    <3>3. /\ BookOf(r) /\ InputsOf(All(r)) = Recorded \cup {l}
          /\ ~q.closed /\ l.typ = "i" /\ l.n = pend[1].n
          /\ l.plain => pend[1].reached
          /\ ~l.plain => r.masked = q.masked + 1
      BY <3>1, <3>2, BookSettled
    <3>4. QED
      BY <2>2, <3>3
  <2>3. QED
    BY <1>1, <2>1, <2>2 DEF TakenFrom
<1>4. /\ HeaderFirst' /\ InOrder' /\ Recorded' = InputsOf(All(r))
      /\ q'.closed = r.closed /\ r.dropped <= q'.dropped /\ r.masked <= q'.masked /\ q'.masked \in Nat
  <2>1. CASE q' = r /\ flusher' = flusher /\ r.header = "none"
    <3>1. closer' = closer
      BY Zenon DEF FlushTake, NotFlusher
    <3>2. HeaderOut' <=> HeaderOut
      BY <1>1, <2>1, <3>1 DEF HeaderOut, QueueMoves, TakenFrom
    <3>3. HeaderFirst' /\ InOrder' /\ Recorded' = InputsOf(All(r))
      BY <1>1, <1>3, <2>1, <3>2, BookHere DEF TakenFrom
    <3>4. r.dropped <= r.dropped /\ r.masked <= r.masked /\ r.masked \in Nat
      BY <1>2 DEF Queues
    <3>5. QED
      BY <2>1, <3>3, <3>4
  <2>2. CASE Takes(r, DecideHeader(r))
    <3> DEFINE headed == DecideHeader(r)
    <3> HIDE DEF headed
    <3>0. Takes(r, headed)
      BY <2>2 DEF headed
    <3>1. /\ q'.lines = <<>> /\ q'.header = "flushed" /\ q'.lastT = headed.lastT
          /\ q'.closed = headed.closed /\ q'.dropped = headed.dropped /\ q'.masked = headed.masked
      BY <3>0 DEF Queues, Takes
    <3>2. /\ headed.lines = r.lines /\ q'.lastT = r.lastT
          /\ q'.closed = r.closed /\ r.dropped <= q'.dropped /\ r.masked <= q'.masked
          /\ q'.masked \in Nat
      BY <1>2, <3>0, <3>1 DEF After, Queues, Takes
    <3>3. HeaderOut'
      BY <3>1 DEF HeaderOut
    <3>4. flusher.lines = <<>> /\ flusher'.lines = HeaderLine(headed) \o r.lines
      <4>1. flusher.lines = <<>>
        BY <1>1 DEF PhasesAgree, TakenFrom
      <4>2. flusher'.lines = HeaderLine(headed) \o headed.lines
        <5> DEFINE taken == HeaderLine(headed) \o headed.lines
        <5>1. flusher' = IF taken = <<>> THEN flusher ELSE [at |-> "write", lines |-> taken]
          BY <3>0 DEF Takes
        <5> HIDE DEF taken
        <5>2. flusher'.lines = taken
          BY <4>1, <5>1
        <5>3. QED
          BY <5>2 DEF taken
      <4>3. QED
        BY <3>2, <4>1, <4>2
    <3>5. file \in Seq(CastLines) /\ file' = file
      BY <1>1, LinesTyped DEF TakenFrom
    <3>6. CASE headed.header = "flushed"
      <4>1. HeaderLine(headed) = <<>>
        BY <3>6 DEF HeaderLine
      <4>2. Lines' = file \o r.lines /\ All(r) = file \o r.lines
        <5>1. HeaderLine(headed) \o r.lines = r.lines
          BY <1>2, <4>1, ConcatEmptySeq
        <5>2. Lines' = file' \o flusher'.lines \o <<>>
          BY <3>1 DEF Lines
        <5>3. file \o r.lines \in Seq(CastLines)
          BY <1>2, <3>5, ConcatProperties
        <5>4. (file \o r.lines) \o <<>> = file \o r.lines
          BY <5>3, ConcatEmptySeq
        <5>5. file \o <<>> = file
          BY <3>5, ConcatEmptySeq
        <5>6. QED
          BY <3>4, <3>5, <5>1, <5>2, <5>4, <5>5 DEF All
      <4>3. HeaderOut
        BY <1>1, <3>0, <3>6 DEF HeaderOut, QueueMoves, Takes, TakenFrom
      <4>4. Lines # <<>> /\ Lines[1].typ = "h"
        BY <4>3 DEF HeaderFirst, HeaderOut
      <4>5. /\ Sorted(All(r), r.lastT) /\ HeadedOnce(All(r)) /\ All(r) # <<>> /\ All(r)[1].typ = "h"
        BY <1>3, <4>4 DEF BookOf
      <4> DEFINE all == All(r)
      <4>6. Lines' = all /\ Sorted(all, q'.lastT) /\ HeadedOnce(all) /\ all # <<>> /\ all[1].typ = "h"
        BY <3>2, <4>2, <4>5
      <4> HIDE DEF all
      <4>7. HeaderFirst' /\ InOrder' /\ Recorded' = InputsOf(all)
        BY <3>1, <3>3, <4>6, BookDone
      <4>8. QED
        BY <3>2, <4>7 DEF all
    <3>7. CASE headed.header = "line"
      <4> DEFINE h == SizeLine("h", headed.headerSize, 0)
                 queued == r.lines
                 all == <<h>> \o queued
      <4>1. HeaderLine(headed) = <<h>>
        BY <3>7 DEF HeaderLine
      <4>2. file = <<>> /\ flusher.lines = <<>>
        <5>1. q.header # "flushed"
          BY <1>1, <3>0, <3>7 DEF QueueMoves, Takes, TakenFrom
        <5>2. closer.at \notin {"meta", "done"}
          BY <1>1 DEF PhasesAgree, TakenFrom
        <5>3. QED
          BY <5>1, <5>2 DEF HeaderFirst
      <4>3. h \in CastLines /\ h.typ = "h" /\ h.t = 0
        <5>1. headed \in Queues
          BY <3>0 DEF Takes
        <5>2. h \in CastLines
          BY <5>1, HeaderLineTyped
        <5>3. h.typ = "h" /\ h.t = 0
          BY DEF SizeLine, Line
        <5>4. QED
          BY <5>2, <5>3
      <4>4. All(r) = queued
        <5>1. <<>> \o <<>> = <<>>
          BY LinesTyped, ConcatEmptySeq, <4>2
        <5>2. <<>> \o queued = queued
          BY <1>2, ConcatEmptySeq
        <5>3. QED
          BY <4>2, <5>1, <5>2 DEF All
      <4>5. queued \in Seq(CastLines) /\ Sorted(queued, r.lastT) /\ Unheaded(queued)
        BY <1>2, <1>3, <4>4 DEF BookOf
      <4> HIDE DEF h, queued
      <4>6. /\ all \in Seq(CastLines) /\ Sorted(all, r.lastT) /\ HeadedOnce(all)
            /\ all # <<>> /\ all[1] = h
            /\ InputsOf(all) = InputsOf(queued)
        BY <1>2, <4>3, <4>5, HeaderPrepended
      <4>7. Lines' = all
        <5>1. Lines' = (<<>> \o all) \o <<>>
          BY <3>1, <3>4, <3>5, <4>1, <4>2 DEF Lines, queued
        <5> HIDE DEF all
        <5>2. <<>> \o all = all /\ all \o <<>> = all
          BY <4>6, ConcatEmptySeq
        <5>3. QED
          BY <5>1, <5>2
      <4> HIDE DEF all
      <4>8. HeaderFirst' /\ InOrder' /\ Recorded' = InputsOf(all)
        BY <3>1, <3>2, <3>3, <4>3, <4>6, <4>7, BookDone
      <4>9. QED
        BY <3>2, <4>4, <4>6, <4>8
    <3>8. QED
      BY <3>0, <3>6, <3>7 DEF Takes
  <2>3. QED
    BY <1>1, <2>1, <2>2 DEF TakenFrom
<1>5. Excused(r) => Excused(q')
  <2>1. r.dropped \in Nat
    BY <1>2 DEF Queues
  <2>2. q'.dropped \in Nat
    BY DEF TypeOK, Queues
  <2>3. QED
    BY <1>4, <2>1, <2>2 DEF Excused
<1>6. q.masked \in Nat /\ r.masked \in Nat /\ q.masked <= r.masked
  BY <1>1, <1>2 DEF TypeOK, Queues, QueueMoves, TakenFrom
<1>7. q.masked <= q'.masked
  BY <1>4, <1>6
<1>8. CASE InputsOf(All(r)) = Recorded /\ (pend' = pend \/ (pend' = <<>> /\ Excused(r)))
  BY <1>4, <1>5, <1>7, <1>8
<1>9. CASE /\ pend # <<>> /\ pend' = <<>> /\ ~q.closed
           /\ \E l \in CastLines :
                      /\ InputsOf(All(r)) = Recorded \cup {l} /\ l.typ = "i" /\ l.n = pend[1].n
                      /\ l.plain => pend[1].reached
                      /\ ~l.plain => r.masked = q.masked + 1
  <2>1. PICK l \in CastLines :
                      /\ InputsOf(All(r)) = Recorded \cup {l} /\ l.typ = "i" /\ l.n = pend[1].n
                      /\ l.plain => pend[1].reached
                      /\ ~l.plain => r.masked = q.masked + 1
    BY <1>9
  <2>2. ~l.plain => q'.masked >= q.masked + 1
    BY <1>4, <1>6, <2>1
  <2>3. QED
    BY <1>4, <1>7, <1>9, <2>1, <2>2
<1>10. QED
  BY <1>3, <1>8, <1>9

LEMMA LastBook ==
    ASSUME RecorderConstants, TypeOK, TypeOK', PhasesAgree, HeaderFirst, InOrder, CloseTake
    PROVE  HeaderFirst' /\ InOrder' /\ Recorded' = Recorded /\ pend' = pend
           /\ q'.masked = q.masked /\ q'.dropped = q.dropped
<1>1. q \in Queues
  BY DEF TypeOK
<1>2. /\ q' = [q EXCEPT !.lines = <<>>, !.header = IF @ = "line" THEN "none" ELSE @]
      /\ closer.at = "wait" /\ flusher.at = "gone" /\ closer'.at = "meta"
      /\ file' = file \o HeaderLine(q) \o q.lines /\ pend' = pend /\ flusher' = flusher
  BY DEF CloseTake, NotCloser
<1>3. q'.lines = <<>> /\ q'.lastT = q.lastT /\ q'.masked = q.masked /\ q'.dropped = q.dropped
  BY <1>1, <1>2 DEF Queues
<1>4. flusher.lines = <<>> /\ q.header \in {"line", "flushed"} /\ HeaderOut'
  BY <1>1, <1>2 DEF PhasesAgree, Queues, HeaderOut
<1>5. file \in Seq(CastLines) /\ q.lines \in Seq(CastLines) /\ file' \in Seq(CastLines) /\ q.lastT \in Nat
  BY <1>1, LinesTyped DEF TypeOK
<1>6. Lines' = file'
  <2>1. Lines' = (file' \o <<>>) \o <<>>
    BY <1>2, <1>3, <1>4 DEF Lines
  <2>2. file' \o <<>> = file'
    BY <1>5, ConcatEmptySeq
  <2>3. QED
    BY <2>1, <2>2
<1>7. Lines = file \o q.lines
  <2>1. file \o <<>> = file
    BY <1>5, ConcatEmptySeq
  <2>2. QED
    BY <1>4, <2>1 DEF Lines
<1>8. BookOf(q) /\ All(q) = Lines /\ InputsOf(Lines) = Recorded
  BY BookNow
<1> DEFINE all == file'
<1>9. SUFFICES ASSUME TRUE
               PROVE  /\ Sorted(all, q'.lastT) /\ HeadedOnce(all) /\ all # <<>>
                      /\ all[1].typ = "h" /\ InputsOf(all) = Recorded
  <2>1. ASSUME Sorted(all, q'.lastT), HeadedOnce(all), all # <<>>, all[1].typ = "h",
               InputsOf(all) = Recorded
        PROVE  HeaderFirst' /\ InOrder' /\ Recorded' = Recorded
    <3>1. Lines' = all
      BY <1>6
    <3> HIDE DEF all
    <3>2. QED
      BY <1>3, <1>4, <2>1, <3>1, BookDone
  <2>2. QED
    BY <1>2, <1>3, <2>1
<1>10. CASE q.header = "flushed"
  <2>1. HeaderLine(q) = <<>>
    BY <1>10 DEF HeaderLine
  <2>2. file' = Lines
    <3>1. file \o <<>> = file
      BY <1>5, ConcatEmptySeq
    <3>2. QED
      BY <1>2, <1>7, <2>1, <3>1
  <2>3. Lines # <<>> /\ Lines[1].typ = "h"
    BY <1>10 DEF HeaderFirst
  <2>4. QED
    BY <1>3, <1>8, <2>2, <2>3 DEF BookOf
<1>11. CASE q.header = "line"
  <2> DEFINE h == SizeLine("h", q.headerSize, 0)
             queued == q.lines
             more == <<h>> \o queued
  <2>1. HeaderLine(q) = <<h>>
    BY <1>11 DEF HeaderLine
  <2>2. file = <<>>
    BY <1>2, <1>11 DEF HeaderFirst
  <2>3. h \in CastLines
    BY <1>1, HeaderLineTyped
  <2>4. h.typ = "h" /\ h.t = 0
    BY DEF SizeLine, Line
  <2>5. Lines = queued
    <3>1. <<>> \o queued = queued
      BY <1>5, ConcatEmptySeq
    <3>2. QED
      BY <1>7, <2>2, <3>1
  <2>6. queued \in Seq(CastLines) /\ Sorted(queued, q.lastT) /\ Unheaded(queued)
    BY <1>5, <1>8, <2>5 DEF BookOf
  <2> HIDE DEF h, queued
  <2>7. /\ more \in Seq(CastLines) /\ Sorted(more, q.lastT) /\ HeadedOnce(more)
        /\ more # <<>> /\ more[1] = h
        /\ InputsOf(more) = InputsOf(queued)
    BY <1>5, <2>3, <2>4, <2>6, HeaderPrepended
  <2>8. file' = more
    <3>1. <<h>> \in Seq(CastLines)
      BY <2>1, <1>1, HeaderLineTyped
    <3>2. <<>> \o <<h>> = <<h>>
      BY <3>1, ConcatEmptySeq
    <3>3. QED
      BY <1>2, <2>1, <2>2, <3>2 DEF queued
  <2> HIDE DEF more
  <2>9. QED
    BY <1>3, <1>8, <2>4, <2>5, <2>7, <2>8
<1>12. QED
  BY <1>4, <1>10, <1>11

LEMMA SilentBook ==
    ASSUME RecorderConstants, TypeOK, TypeOK', PhasesAgree, HeaderFirst, InOrder, Next, Silent
    PROVE  HeaderFirst' /\ InOrder' /\ Recorded' = Recorded
<1>1. BookOf(q) /\ All(q) = Lines /\ InputsOf(Lines) = Recorded
  BY BookNow
<1>2. /\ q' = q
      /\ CloseTail \/ FlushWrite \/ (file' = file)
      /\ FlushWrite \/ (flusher'.lines = flusher.lines) \/ FlushEnd
  BY SilentStep
<1>3. CloseTail => file' = file
  BY Zenon DEF CloseTail, diskVars
<1>4. FlushEnd => flusher'.lines = flusher.lines
  BY DEF FlushEnd, PhasesAgree
<1>5. HeaderOut' <=> HeaderOut
  <2>1. ~CloseTake
    <3>1. Silent => closer' = closer \/ CloseTail \/ CloseMeta
      BY Zenon DEF Silent, SkipInput, DeferToProgram, DeferAfterClose, NotReader, OutputSplit, FlushWrite,
                   FlushEnd, NotFlusher, Tick, EventWrite
    <3>2. CloseTail \/ CloseMeta => closer.at \in {"idle", "meta"}
      BY DEF CloseTail, CloseMeta
    <3>3. CloseTake => closer.at = "wait" /\ closer'.at = "meta"
      BY DEF CloseTake
    <3>4. QED
      BY <3>1, <3>2, <3>3
  <2>2. QED
    BY <1>2, <2>1, HeaderTurns DEF HeaderOut
<1>6. CASE ~FlushWrite
  BY <1>1, <1>2, <1>3, <1>4, <1>5, <1>6, BookHere
<1>7. CASE FlushWrite
  <2>1. file' = file \o flusher.lines /\ flusher'.lines = <<>>
    BY <1>7 DEF FlushWrite
  <2>2. Lines' = All(q)
    <3>1. file' \o <<>> = file'
      BY ConcatEmptySeq DEF TypeOK
    <3>2. QED
      BY <1>2, <2>1, <3>1 DEF Lines, All
  <2>3. ~HeaderOut' => file' = file /\ flusher'.lines = flusher.lines
    <3>1. ~HeaderOut' => file = <<>> /\ flusher.lines = <<>>
      BY <1>5 DEF HeaderFirst, HeaderOut
    <3>2. file \o <<>> = file
      BY LinesTyped, ConcatEmptySeq
    <3>3. QED
      BY <2>1, <3>1, <3>2
  <2>4. QED
    BY <1>1, <1>2, <1>5, <2>2, <2>3, BookTurned
<1>8. QED
  BY <1>6, <1>7

(* The lines stay in order behind the header, whichever goroutine moves.   *)
LEMMA BookStep ==
    ASSUME RecorderConstants, TypeOK, PhasesAgree, HeaderFirst, InOrder, InputsKnown, Next
    PROVE  HeaderFirst' /\ InOrder'
<1>1. TypeOK'
  BY TypeStep
<1>2. QED
  BY <1>1, StepsAre, SettlesBook, MatchBook, AppendBook, TakeBook, LastBook, SilentBook

-----------------------------------------------------------------------------
(* What a step does to the lines of input: nothing, or the block that      *)
(* waited becomes a line, or the line the reader was about to append.      *)

DeferStep == \E b \in work.blocks, mode \in Modes : WriteInputDeferred(b, mode)
PendStays == pend' = pend \/ \E block \in Seq(STRING) : pend' = MatchPending(block)
Excuse == q'.dropped > 0 \/ opt.passwordMode = "omit" \/ ~opt.recordInput

FromBlock(l) ==
    /\ pend # <<>> /\ (pend' = <<>> \/ DeferStep) /\ ~q.closed /\ l.n = pend[1].n
    /\ l.plain => \/ pend[1].reached
                  \/ OutputMatch /\ pend[1].printable \subseteq pend[1].seen \cup Range(pump.block)
    /\ ~l.plain => /\ q.masked + 1 <= q'.masked
                   /\ MaskedStep => q.masked + 2 <= q'.masked
FromReader(l) ==
    /\ ReaderAppend /\ reader.line.typ = "i" /\ ~q.closed
    /\ l.n = reader.line.n /\ l.plain = reader.line.plain

RecordedKept ==
    /\ Recorded' = Recorded
    /\ pend = <<>> \/ PendStays \/ Excuse
    /\ ReaderAppend /\ reader.line.typ = "i" => q.closed \/ Excuse
RecordedGrows ==
    \E l \in CastLines :
        Recorded' = Recorded \cup {l} /\ l.typ = "i" /\ (FromBlock(l) \/ FromReader(l))

LEMMA RecordedSettles ==
    ASSUME RecorderConstants, TypeOK, TypeOK', PhasesAgree, HeaderFirst, InOrder, InputsKnown, Next,
           Settles, ~ReaderAppend
    PROVE  RecordedKept \/ RecordedGrows
<1>1. PICK r : SettlesBy(r) /\ Ledger(pend, r, Recorded')
  BY SettlesBook
<1>2. /\ r \in Queues /\ QueueMoves(q, r) /\ After(r, q')
      /\ MaskedStep => q'.masked = r.masked + 1
  BY <1>1 DEF SettlesBy, SettledTo, Fine
<1>3. /\ r.masked \in Nat /\ q.masked \in Nat /\ q'.masked \in Nat
      /\ r.dropped \in Nat /\ q'.dropped \in Nat /\ r.closed = q.closed
      /\ r.dropped <= q'.dropped /\ r.masked <= q'.masked
  BY <1>2 DEF TypeOK, Queues, After, QueueMoves
<1>4. CASE Recorded' = Recorded /\ (pend = <<>> \/ Excused(r))
  <2>1. pend # <<>> => ~q.closed
    BY DEF PhasesAgree
  <2>2. pend = <<>> \/ Excuse
    BY <1>3, <1>4, <2>1 DEF Excused, Excuse
  <2>3. QED
    BY <1>4, <2>2 DEF RecordedKept
<1>5. CASE /\ pend # <<>> /\ ~q.closed
           /\ \E l \in CastLines :
                /\ Recorded' = Recorded \cup {l} /\ l.typ = "i" /\ l.n = pend[1].n
                /\ l.plain => pend[1].reached
                /\ ~l.plain => r.masked = q.masked + 1
  <2>1. PICK l \in CastLines :
                /\ Recorded' = Recorded \cup {l} /\ l.typ = "i" /\ l.n = pend[1].n
                /\ l.plain => pend[1].reached
                /\ ~l.plain => r.masked = q.masked + 1
    BY <1>5
  <2>2. pend' = <<>> \/ DeferStep
    BY Zenon DEF Settles, InputStep, WriteInput, WriteInputMasked, DeferStep, DeferredPlain, WriteResize,
                 EventSnapshot, CloseMark
  <2>3. ~l.plain => /\ q.masked + 1 <= q'.masked
                    /\ MaskedStep => q.masked + 2 <= q'.masked
    BY <1>2, <1>3, <2>1
  <2>4. FromBlock(l)
    BY <1>5, <2>1, <2>2, <2>3 DEF FromBlock
  <2>5. QED
    BY <2>1, <2>4 DEF RecordedGrows
<1>6. QED
  BY <1>1, <1>4, <1>5 DEF Ledger

LEMMA RecordedMatch ==
    ASSUME RecorderConstants, TypeOK, TypeOK', PhasesAgree, HeaderFirst, InOrder, InputsKnown, Next,
           OutputMatch, ~ReaderAppend, ~Settles
    PROVE  RecordedKept \/ RecordedGrows
<1> DEFINE matched == MatchPending(pump.block)
<1>1. \/ q' = q /\ pend' = matched /\ Recorded' = Recorded
      \/ pend' = <<>> /\ Ledger(matched, q', Recorded')
  BY MatchBook
<1>2. pump.block \in Seq(STRING)
  BY DEF TypeOK
<1>3. ~MaskedStep
  BY DEF Settles, MaskedStep, InputStep
<1>4. /\ Len(matched) = Len(pend) /\ matched \in Seq(PendingInputs)
  BY <1>2, MatchMoves DEF TypeOK
<1>5. CASE q' = q /\ pend' = matched /\ Recorded' = Recorded
  <2>1. PendStays
    BY <1>2, <1>5 DEF PendStays
  <2>2. QED
    BY <1>5, <2>1 DEF RecordedKept
<1>6. CASE pend' = <<>> /\ Recorded' = Recorded /\ (matched = <<>> \/ Excused(q'))
  <2>1. matched = <<>> => pend = <<>>
    BY <1>4, EmptySeq DEF TypeOK
  <2>2. pend # <<>> => ~q'.closed
    <3>1. CloseMark => reader' = reader /\ pump' = pump
      BY Zenon DEF CloseMark, NotCloser, pumpVars
    <3>2. pump.at = "match" /\ pump' = [pump EXCEPT !.at = "append", !.since = now]
      BY DEF OutputMatch
    <3>3. pump \in [at : {"read", "match", "append"}, block : Seq(STRING), since : 0 .. now]
      BY DEF TypeOK
    <3>4. pump'.at = "append"
      BY <3>2, <3>3
    <3>5. ~CloseMark
      BY <3>1, <3>2, <3>4
    <3>6. QED
      BY <3>5, QueueStep DEF PhasesAgree
  <2>3. pend = <<>> \/ Excuse
    BY <1>6, <2>1, <2>2 DEF Excused, Excuse
  <2>4. QED
    BY <1>6, <2>3 DEF RecordedKept
<1>7. CASE /\ pend' = <<>> /\ matched # <<>> /\ ~q.closed
           /\ \E l \in CastLines :
                /\ Recorded' = Recorded \cup {l} /\ l.typ = "i" /\ l.n = matched[1].n
                /\ l.plain => matched[1].reached
                /\ ~l.plain => q'.masked = q.masked + 1
  <2>1. PICK l \in CastLines :
                /\ Recorded' = Recorded \cup {l} /\ l.typ = "i" /\ l.n = matched[1].n
                /\ l.plain => matched[1].reached
                /\ ~l.plain => q'.masked = q.masked + 1
    BY <1>7
  <2>2. /\ pend # <<>> /\ matched[1].n = pend[1].n
        /\ matched[1].reached => \/ pend[1].reached
                                 \/ pend[1].printable \subseteq pend[1].seen \cup Range(pump.block)
    BY <1>2, <1>7, MatchedFirst
  <2>3. q.masked \in Nat /\ q'.masked \in Nat
    BY DEF TypeOK, Queues
  <2> HIDE DEF matched
  <2>4. ~l.plain => q.masked + 1 <= q'.masked
    BY <2>1, <2>3
  <2>5. FromBlock(l)
    BY <1>3, <1>7, <2>1, <2>2, <2>4 DEF FromBlock
  <2>6. QED
    BY <2>1, <2>5 DEF RecordedGrows
<1>8. QED
  BY <1>1, <1>5, <1>6, <1>7 DEF Ledger

LEMMA RecordedTake ==
    ASSUME RecorderConstants, TypeOK, TypeOK', PhasesAgree, HeaderFirst, InOrder, InputsKnown, Next,
           FlushTake, ~ReaderAppend, ~Settles
    PROVE  RecordedKept \/ RecordedGrows
<1>1. \/ Recorded' = Recorded /\ (pend' = pend \/ (pend' = <<>> /\ Excused(q')))
      \/ /\ pend # <<>> /\ pend' = <<>> /\ ~q.closed
         /\ \E l \in CastLines :
                      /\ Recorded' = Recorded \cup {l} /\ l.typ = "i" /\ l.n = pend[1].n
                      /\ l.plain => pend[1].reached
                      /\ ~l.plain => q'.masked >= q.masked + 1
  BY TakeBook
<1>2. ~MaskedStep /\ ~CloseMark
  BY DEF Settles, MaskedStep, InputStep
<1>3. q.masked \in Nat /\ q'.masked \in Nat
  BY DEF TypeOK, Queues
<1>4. CASE Recorded' = Recorded /\ (pend' = pend \/ (pend' = <<>> /\ Excused(q')))
  <2>1. pend # <<>> => ~q'.closed
    BY <1>2, QueueStep DEF PhasesAgree
  <2>2. pend = <<>> \/ PendStays \/ Excuse
    BY <1>4, <2>1 DEF Excused, Excuse, PendStays
  <2>3. QED
    BY <1>4, <2>2 DEF RecordedKept
<1>5. CASE /\ pend # <<>> /\ pend' = <<>> /\ ~q.closed
           /\ \E l \in CastLines :
                      /\ Recorded' = Recorded \cup {l} /\ l.typ = "i" /\ l.n = pend[1].n
                      /\ l.plain => pend[1].reached
                      /\ ~l.plain => q'.masked >= q.masked + 1
  <2>1. PICK l \in CastLines :
                      /\ Recorded' = Recorded \cup {l} /\ l.typ = "i" /\ l.n = pend[1].n
                      /\ l.plain => pend[1].reached
                      /\ ~l.plain => q'.masked >= q.masked + 1
    BY <1>5
  <2>2. FromBlock(l)
    BY <1>2, <1>3, <1>5, <2>1 DEF FromBlock
  <2>3. QED
    BY <2>1, <2>2 DEF RecordedGrows
<1>6. QED
  BY <1>1, <1>4, <1>5

LEMMA RecordedStep ==
    ASSUME RecorderConstants, TypeOK, TypeOK', PhasesAgree, HeaderFirst, InOrder, InputsKnown, Next
    PROVE  RecordedKept \/ RecordedGrows
<1>1. CASE ReaderAppend
  <2>1. \/ /\ Recorded' = Recorded
           /\ ReaderAppend /\ reader.line.typ = "i" => Excused(q')
        \/ /\ ReaderAppend /\ reader.line.typ = "i" /\ ~q.closed
           /\ \E l \in CastLines :
                      /\ Recorded' = Recorded \cup {l} /\ l.typ = "i"
                      /\ l.n = reader.line.n /\ l.plain = reader.line.plain
    BY <1>1, AppendBook
  <2>2. pend' = pend /\ ~CloseMark
    <3>1. pend' = pend /\ reader.at = "append" /\ reader'.at = "idle"
      BY <1>1 DEF ReaderAppend, Idle
    <3>2. CloseMark => reader' = reader
      BY Zenon DEF CloseMark, NotCloser
    <3>3. QED
      BY <3>1, <3>2
  <2>3. q'.closed = q.closed
    BY <2>2, QueueStep DEF TypeOK, Queues
  <2>4. CASE /\ Recorded' = Recorded
             /\ ReaderAppend /\ reader.line.typ = "i" => Excused(q')
    BY <2>2, <2>3, <2>4 DEF RecordedKept, PendStays, Excused, Excuse
  <2>5. CASE /\ ReaderAppend /\ reader.line.typ = "i" /\ ~q.closed
             /\ \E l \in CastLines :
                      /\ Recorded' = Recorded \cup {l} /\ l.typ = "i"
                      /\ l.n = reader.line.n /\ l.plain = reader.line.plain
    BY <2>5 DEF RecordedGrows, FromReader
  <2>6. QED
    BY <2>1, <2>4, <2>5
<1>2. CASE ~ReaderAppend /\ (OutputAppend \/ CloseTailAppend)
  <2>1. Recorded' = Recorded
    BY <1>2, AppendBook
  <2>2. pend' = pend
    BY <1>2 DEF OutputAppend, CloseTailAppend
  <2>3. QED
    BY <1>2, <2>1, <2>2 DEF RecordedKept, PendStays
<1>3. CASE ~ReaderAppend /\ CloseTake
  <2>1. Recorded' = Recorded /\ pend' = pend
    BY <1>3, LastBook
  <2>2. QED
    BY <1>3, <2>1 DEF RecordedKept, PendStays
<1>4. CASE ~ReaderAppend /\ Silent
  <2>1. Recorded' = Recorded
    BY <1>4, SilentBook
  <2>2. pend' = pend \/ pend' = MatchPending(tail)
    BY <1>4, SilentStep
  <2>3. tail \in Seq(STRING)
    BY DEF TypeOK
  <2>4. QED
    BY <1>4, <2>1, <2>2, <2>3 DEF RecordedKept, PendStays
<1>5. QED
  BY <1>1, <1>2, <1>3, <1>4, StepsAre, RecordedSettles, RecordedMatch, RecordedTake

-----------------------------------------------------------------------------
(* InputsKnown.                                                            *)

(* What was typed, and what the recorder took, grow; the windows grow.     *)
Elsewhere ==
    /\ typed' = typed /\ reader' = reader
    /\ \/ windows' = windows
       \/ OutputMatch /\ Observed(pump.block)
       \/ CloseTail /\ Observed(tail)
Takings ==
    \E b \in work.blocks, mode \in Modes :
        WriteInput(b, mode) \/ WriteInputMasked(b, mode) \/ WriteInputDeferred(b, mode)
        \/ DeferAfterClose(b, mode)
Passings == \E b \in work.blocks, mode \in Modes : DeferToProgram(b, mode)
Resizes == \E s \in work.sizes : WriteResize(s)

LEMMA ReaderSteps ==
    ASSUME Next
    PROVE  /\ Elsewhere \/ Takings \/ Passings \/ DeferredPlain \/ Resizes \/ ReaderAppend
           /\ opt' = opt
<1>1. opt' = opt
  BY Zenon DEF Next, OutputSplit, OutputMatch, OutputAppend, Reader, NotReader, SkipInput, WriteInput,
               WriteInputMasked, DeferToProgram, WriteInputDeferred, DeferAfterClose, DeferredPlain,
               WriteResize, ReaderAppend, EventSnapshot, EventWrite, Flush, FlushTake, FlushWrite,
               FlushEnd, NotFlusher, Close, CloseTail, CloseTailAppend, CloseMark, CloseTake, CloseMeta,
               NotCloser, Tick
<1>2. CASE Reader
  BY <1>1, <1>2, Zenon DEF Reader, Elsewhere, Takings, Passings, Resizes, SkipInput, readerVars
<1>3. CASE ~Reader
  <2>1. OutputMatch => typed' = typed /\ reader' = reader /\ Observed(pump.block)
    BY Zenon DEF OutputMatch
  <2>2. CloseTail => typed' = typed /\ reader' = reader /\ Observed(tail)
    BY Zenon DEF CloseTail, NotCloser
  <2>3. OutputMatch \/ CloseTail \/ UNCHANGED <<typed, windows, reader>>
    BY <1>3, Zenon DEF Next, OutputSplit, OutputAppend, EventSnapshot, EventWrite, Flush,
           FlushTake, FlushWrite, FlushEnd, NotFlusher, Close, CloseTailAppend, CloseMark,
           CloseTake, CloseMeta, NotCloser, Tick, readerVars
  <2>4. QED
    BY <1>1, <2>1, <2>2, <2>3 DEF Elsewhere
<1>4. QED
  BY <1>1, <1>2, <1>3

LEMMA ElsewhereMoves ==
    ASSUME TypeOK, Elsewhere
    PROVE  /\ Len(windows') = Len(windows)
           /\ \A n \in 1 .. Len(windows) : windows[n] \subseteq windows'[n]
<1>1. windows \in Seq(SUBSET STRING) /\ tail \in Seq(STRING) /\ pump.block \in Seq(STRING)
  BY DEF TypeOK
<1>2. CASE windows' = windows
  BY <1>2
<1>3. CASE Observed(pump.block)
  BY <1>1, <1>3, ObservedMoves
<1>4. CASE Observed(tail)
  BY <1>1, <1>4, ObservedMoves
<1>5. QED
  BY <1>2, <1>3, <1>4 DEF Elsewhere

LEMMA MethodMeans ==
    ASSUME opt \in Options, NEW b, NEW mode \in Modes
    PROVE  /\ Method(b, mode) # "none" => opt.recordInput
           /\ Method(b, mode) = "plain" =>
                \/ opt.passwordMode = "plaintext"
                \/ mode = "echo" /\ ("nl" \notin Range(b) \/ opt.maskWhen # "echo_verify")
                \/ mode = "raw" /\ opt.maskWhen = "echo_off_canonical"
           /\ Method(b, mode) = "deferred" => mode # "canon" /\ opt.maskWhen = "echo_verify"
<1>1. mode \in {"echo", "canon", "raw", "unreadable"}
  BY DEF Modes
<1>2. opt.maskWhen \in {"echo_off", "echo_off_canonical", "echo_verify"}
  BY DEF Options
<1>3. CASE mode = "echo"
  BY <1>3 DEF Method
<1>4. CASE mode = "canon"
  BY <1>4 DEF Method
<1>5. CASE mode = "raw"
  BY <1>2, <1>5 DEF Method
<1>6. CASE mode = "unreadable"
  BY <1>6 DEF Method
<1>7. QED
  BY <1>1, <1>3, <1>4, <1>5, <1>6

LEMMA PlainKept ==
    ASSUME NEW n, opt' = opt, typed'[n] = typed[n],
           typed[n].alt \/ windows[n] \subseteq windows'[n], MayBePlain(n)
    PROVE  MayBePlain(n)'
<1> DEFINE input == typed[n]
<1>1. \/ opt.passwordMode = "plaintext"
      \/ input.mode = "echo" /\ ("nl" \notin Range(input.b) \/ opt.maskWhen # "echo_verify")
      \/ input.mode = "raw" /\ opt.maskWhen = "echo_off_canonical"
      \/ input.mode # "canon" /\ opt.maskWhen = "echo_verify"
         /\ (input.alt \/ Printable(input.b) \subseteq windows[n])
  BY DEF MayBePlain
<1>2. input.alt \/ windows[n] \subseteq windows'[n]
  OBVIOUS
<1> HIDE DEF input
<1>3. \/ opt'.passwordMode = "plaintext"
      \/ input.mode = "echo" /\ ("nl" \notin Range(input.b) \/ opt'.maskWhen # "echo_verify")
      \/ input.mode = "raw" /\ opt'.maskWhen = "echo_off_canonical"
      \/ input.mode # "canon" /\ opt'.maskWhen = "echo_verify"
         /\ (input.alt \/ Printable(input.b) \subseteq windows'[n])
  BY <1>1, <1>2
<1>4. input = typed'[n]
  BY DEF input
<1>5. QED
  BY <1>3, <1>4, Zenon DEF MayBePlain

KnownLine(l) == l.n \in 1 .. Len(windows) /\ (l.plain => MayBePlain(l.n))
KnownBlock(p) ==
    /\ p.n # 0 /\ opt.maskWhen = "echo_verify" /\ typed[p.n].mode # "canon"
    /\ p.printable = Printable(typed[p.n].b) /\ p.seen \subseteq windows[p.n]
    /\ p.reached => p.printable \subseteq windows[p.n]
LengthsAgree == Len(typed) = Len(windows) + (IF reader.at = "plain" THEN 1 ELSE 0)

LEMMA KnownParts ==
    InputsKnown <=> /\ LengthsAgree /\ (typed # <<>> => opt.recordInput)
                    /\ \A l \in Recorded : KnownLine(l)
                    /\ \A l \in Appending : KnownLine(l)
                    /\ \A n \in Awaited : n = Len(windows) /\ \A l \in Recorded : l.n < n
                    /\ reader.at = "append" => pend = <<>> /\ reader.line.typ \in {"i", "r"}
                    /\ reader.at = "plain" => MayBePlain(Len(typed)) /\ typed[Len(typed)].alt
                    /\ \A p \in Range(pend) : KnownBlock(p)
BY Zenon DEF InputsKnown, KnownLine, KnownBlock, LengthsAgree

LEMMA KnownPartsNext ==
    ASSUME LengthsAgree', typed' # <<>> => opt'.recordInput,
           \A l \in Recorded' : KnownLine(l)', \A l \in Appending' : KnownLine(l)',
           \A n \in Awaited' : n = Len(windows') /\ \A l \in Recorded' : l.n < n,
           reader'.at = "append" => pend' = <<>> /\ reader'.line.typ \in {"i", "r"},
           reader'.at = "plain" => MayBePlain(Len(typed))' /\ typed'[Len(typed')].alt,
           \A p \in Range(pend') : KnownBlock(p)'
    PROVE  InputsKnown'
BY Zenon DEF InputsKnown, KnownLine, KnownBlock, LengthsAgree

(* What a step does to what was typed and to the windows.                  *)
LEMMA HistoryStep ==
    ASSUME RecorderConstants, TypeOK, InputsKnown, Next
    PROVE  /\ opt' = opt /\ Len(windows) \in Nat /\ Len(typed) \in Nat
           /\ \A n \in 1 .. Len(windows) :
                n \in 1 .. Len(windows') /\ typed'[n] = typed[n] /\ windows[n] \subseteq windows'[n]
           /\ windows # <<>> /\ OutputMatch => Range(pump.block) \subseteq windows'[Len(windows)]
           /\ windows # <<>> /\ CloseTail => Range(tail) \subseteq windows'[Len(windows)]
           /\ Takings \/ DeferredPlain => windows' = Append(windows, {})
           /\ Passings \/ Resizes \/ ReaderAppend => windows' = windows
           /\ Elsewhere => Len(windows') = Len(windows)
           /\ DeferredPlain \/ Resizes \/ ReaderAppend => typed' = typed
<1>1. /\ typed \in Seq(Inputs) /\ windows \in Seq(SUBSET STRING)
      /\ tail \in Seq(STRING) /\ pump.block \in Seq(STRING)
  BY DEF TypeOK, Inputs
<1>2. /\ Elsewhere \/ Takings \/ Passings \/ DeferredPlain \/ Resizes \/ ReaderAppend
      /\ opt' = opt
  BY ReaderSteps
<1>3. Len(windows) \in Nat /\ Len(typed) \in Nat /\ Len(windows) <= Len(typed)
  <2>1. Len(windows) \in Nat /\ Len(typed) \in Nat
    BY <1>1
  <2>2. Len(typed) = Len(windows) + 1 \/ Len(typed) = Len(windows)
    BY <2>1 DEF InputsKnown
  <2>3. QED
    BY <2>1, <2>2
<1>4. Takings \/ DeferredPlain => windows' = Append(windows, {})
  BY Zenon DEF Takings, WriteInput, WriteInputMasked, WriteInputDeferred, DeferAfterClose, DeferredPlain
<1>5. /\ Passings \/ Resizes \/ ReaderAppend => windows' = windows
      /\ DeferredPlain \/ Resizes \/ ReaderAppend => typed' = typed
  BY Zenon DEF Passings, Resizes, ReaderAppend, DeferToProgram, WriteResize, DeferredPlain
<1>6. Elsewhere =>
         /\ Len(windows') = Len(windows)
         /\ \A n \in 1 .. Len(windows) : windows[n] \subseteq windows'[n]
  BY ElsewhereMoves
<1>7. \A n \in 1 .. Len(windows) : n \in 1 .. Len(windows') /\ windows[n] \subseteq windows'[n]
  <2>1. CASE Elsewhere
    BY <1>3, <1>6, <2>1
  <2>2. CASE windows' = Append(windows, {})
    <3>1. {} \in SUBSET STRING
      OBVIOUS
    <3>2. Len(windows') = Len(windows) + 1 /\ \A n \in 1 .. Len(windows) : windows'[n] = windows[n]
      BY <1>1, <2>2, <3>1, AppendProperties
    <3>3. QED
      BY <1>3, <3>2
  <2>3. CASE windows' = windows
    BY <2>3
  <2>4. QED
    BY <1>2, <1>4, <1>5, <2>1, <2>2, <2>3
<1>8. \A n \in 1 .. Len(windows) : typed'[n] = typed[n]
  <2>1. CASE typed' = typed
    BY <2>1
  <2>2. CASE Takings \/ Passings
    <3>1. PICK b \in work.blocks, mode \in Modes : Arrives(b, mode)
      BY <2>2, Zenon DEF Takings, Passings, WriteInput, WriteInputMasked, WriteInputDeferred,
                         DeferAfterClose, DeferToProgram
    <3>2. b \in Seq(STRING)
      BY SettingsKnown
    <3>3. \A n \in 1 .. Len(typed) : typed'[n] = typed[n]
      BY <3>1, <3>2, ArrivesMoves
    <3>4. QED
      BY <1>3, <3>3
  <2>3. QED
    BY <1>2, <1>5, <2>1, <2>2 DEF Elsewhere
<1>9. /\ windows # <<>> /\ OutputMatch => Range(pump.block) \subseteq windows'[Len(windows)]
      /\ windows # <<>> /\ CloseTail => Range(tail) \subseteq windows'[Len(windows)]
  <2>1. (OutputMatch => Observed(pump.block)) /\ (CloseTail => Observed(tail))
    BY Zenon DEF OutputMatch, CloseTail
  <2>2. windows # <<>> => Len(windows) # 0
    BY <1>1, EmptySeq
  <2>3. QED
    BY <1>1, <2>1, <2>2, ObservedMoves
<1>10. QED
  BY <1>2, <1>3, <1>4, <1>5, <1>6, <1>7, <1>8, <1>9

(* Every line after a step stands for a block the recorder took before it. *)
LEMMA RecordedKnown ==
    ASSUME RecorderConstants, TypeOK, TypeOK', PhasesAgree, HeaderFirst, InOrder, InputsKnown, Next
    PROVE  \A l \in Recorded' : l.n \in 1 .. Len(windows) /\ KnownLine(l)'
<1>1. /\ opt' = opt /\ Len(windows) \in Nat
      /\ \A n \in 1 .. Len(windows) :
                n \in 1 .. Len(windows') /\ typed'[n] = typed[n] /\ windows[n] \subseteq windows'[n]
      /\ windows # <<>> /\ OutputMatch => Range(pump.block) \subseteq windows'[Len(windows)]
  BY HistoryStep
<1>2. ASSUME NEW l, KnownLine(l)
      PROVE  l.n \in 1 .. Len(windows) /\ KnownLine(l)'
  <2>1. l.n \in 1 .. Len(windows) /\ (l.plain => MayBePlain(l.n))
    BY <1>2 DEF KnownLine
  <2> DEFINE n == l.n
  <2>2. n \in 1 .. Len(windows')
    BY <1>1, <2>1
  <2>3. l.plain => MayBePlain(n)'
    BY <1>1, <2>1, PlainKept
  <2>4. QED
    BY <2>1, <2>2, <2>3, Zenon DEF KnownLine
<1>3. ASSUME NEW l, FromReader(l)
      PROVE  l.n \in 1 .. Len(windows) /\ KnownLine(l)'
  <2>1. reader.line \in Appending
    BY <1>3 DEF FromReader, Appending, ReaderAppend
  <2>2. KnownLine(reader.line)
    BY <2>1, KnownParts
  <2>3. KnownLine(l)
    BY <1>3, <2>2, Zenon DEF FromReader, KnownLine
  <2>4. QED
    BY <1>2, <2>3
<1>4. ASSUME NEW l, FromBlock(l)
      PROVE  l.n \in 1 .. Len(windows) /\ KnownLine(l)'
  <2> DEFINE p == pend[1]
             n == l.n
  <2>1. pend # <<>> /\ p.n = n
    BY <1>4 DEF FromBlock
  <2>2. p \in PendingInputs /\ p \in Range(pend) /\ p.n = Len(windows)
    BY <2>1, PendNewest
  <2>3. KnownBlock(p)
    BY <2>2, KnownParts
  <2>4. n \in 1 .. Len(windows)
    BY <1>1, <2>1, <2>2, <2>3 DEF KnownBlock
  <2>5. windows # <<>>
    BY <2>4
  <2>6. l.plain => p.printable \subseteq windows'[n]
    <3>1. SUFFICES ASSUME l.plain PROVE p.printable \subseteq windows'[n]
      OBVIOUS
    <3>2. windows[n] \subseteq windows'[n]
      BY <1>1, <2>4
    <3>3. CASE p.reached
      BY <2>1, <2>3, <3>2, <3>3 DEF KnownBlock
    <3>4. CASE OutputMatch /\ p.printable \subseteq p.seen \cup Range(pump.block)
      <4>1. p.seen \subseteq windows'[n]
        BY <2>1, <2>3, <3>2 DEF KnownBlock
      <4>2. Range(pump.block) \subseteq windows'[n]
        BY <1>1, <2>1, <2>2, <2>5, <3>4
      <4>3. QED
        BY <3>4, <4>1, <4>2
    <3>5. QED
      BY <1>4, <3>1, <3>3, <3>4 DEF FromBlock
  <2>7. typed'[n].mode # "canon" /\ opt'.maskWhen = "echo_verify" /\ p.printable = Printable(typed'[n].b)
    BY <1>1, <2>1, <2>3, <2>4 DEF KnownBlock
  <2>8. l.plain => MayBePlain(n)'
    BY <2>6, <2>7, Zenon DEF MayBePlain
  <2>9. n \in 1 .. Len(windows')
    BY <1>1, <2>4
  <2>10. QED
    BY <2>4, <2>8, <2>9, Zenon DEF KnownLine
<1>5. \A l \in Recorded : KnownLine(l)
  BY KnownParts
<1>6. CASE RecordedKept
  BY <1>2, <1>5, <1>6 DEF RecordedKept
<1>7. CASE RecordedGrows
  <2>1. PICK l \in CastLines :
             Recorded' = Recorded \cup {l} /\ l.typ = "i" /\ (FromBlock(l) \/ FromReader(l))
    BY <1>7 DEF RecordedGrows
  <2>2. l.n \in 1 .. Len(windows) /\ KnownLine(l)'
    BY <1>3, <1>4, <2>1
  <2>3. QED
    BY <1>2, <1>5, <2>1, <2>2
<1>8. QED
  BY <1>6, <1>7, RecordedStep

LEMMA PendStep ==
    ASSUME RecorderConstants, TypeOK, PhasesAgree, Next
    PROVE  \/ pend' \in {<<>>, pend} \/ DeferStep
           \/ OutputMatch /\ pend' = MatchPending(pump.block)
           \/ CloseTail /\ pend' = MatchPending(tail)
<1>1. Settles => pend' = <<>> \/ DeferStep
  BY Zenon DEF Settles, InputStep, WriteInput, WriteInputMasked, DeferStep, DeferredPlain, WriteResize,
               EventSnapshot, CloseMark
<1>2. OutputMatch => pend' \in {<<>>, MatchPending(pump.block)}
  BY MatchStep
<1>3. OutputAppend \/ ReaderAppend \/ CloseTailAppend \/ CloseTake => pend' = pend
  BY Zenon DEF OutputAppend, ReaderAppend, CloseTailAppend, CloseTake
<1>4. FlushTake => pend' \in {<<>>, pend}
  BY TakeStep DEF TakenFrom
<1>5. Silent => pend' = pend \/ (CloseTail /\ pend' = MatchPending(tail))
  BY SilentStep
<1>6. QED
  BY <1>1, <1>2, <1>3, <1>4, <1>5, StepsAre

LEMMA OnlyBlock ==
    ASSUME TypeOK, NEW p \in Range(pend)
    PROVE  pend # <<>> /\ p = pend[1]
<1>1. pend \in Seq(PendingInputs) /\ Len(pend) <= 1
  BY DEF TypeOK
<1>2. PICK i \in DOMAIN pend : p = pend[i]
  BY DEF Range
<1>3. i \in 1 .. Len(pend) /\ Len(pend) \in Nat
  BY <1>1, <1>2
<1>4. i = 1 /\ Len(pend) # 0
  BY <1>1, <1>3
<1>5. QED
  BY <1>1, <1>2, <1>4, EmptySeq

SeenMore(p, block) ==
    /\ windows # <<>> => Range(block) \subseteq windows'[Len(windows)]
    /\ p.seen \subseteq pend[1].seen \cup Range(block)
    /\ p.reached => pend[1].reached \/ p.printable \subseteq pend[1].seen \cup Range(block)

LEMMA PendKnown ==
    ASSUME RecorderConstants, TypeOK, TypeOK', PhasesAgree, InputsKnown, Next, ~DeferStep
    PROVE  \A p \in Range(pend') : pend # <<>> /\ p.n = pend[1].n /\ KnownBlock(p)'
<1> SUFFICES ASSUME NEW p \in Range(pend')
             PROVE  pend # <<>> /\ p.n = pend[1].n /\ KnownBlock(p)'
  OBVIOUS
<1>1. pend' # <<>> /\ p = pend'[1] /\ Len(pend') = 1
  <2>1. pend' \in Seq(PendingInputs) /\ Len(pend') <= 1
    BY DEF TypeOK
  <2>2. PICK i \in DOMAIN pend' : p = pend'[i]
    BY DEF Range
  <2>3. i \in 1 .. Len(pend') /\ Len(pend') \in Nat
    BY <2>1, <2>2
  <2>4. \A m \in Nat : \A j \in 1 .. m : m <= 1 => j = 1 /\ m = 1
    OBVIOUS
  <2>5. i = 1 /\ Len(pend') = 1
    BY <2>1, <2>3, <2>4
  <2>6. QED
    BY <2>2, <2>5
<1>2. /\ opt' = opt /\ Len(windows) \in Nat
      /\ \A n \in 1 .. Len(windows) :
                n \in 1 .. Len(windows') /\ typed'[n] = typed[n] /\ windows[n] \subseteq windows'[n]
      /\ windows # <<>> /\ OutputMatch => Range(pump.block) \subseteq windows'[Len(windows)]
      /\ windows # <<>> /\ CloseTail => Range(tail) \subseteq windows'[Len(windows)]
  BY HistoryStep
<1>3. ASSUME pend # <<>>, p.n = pend[1].n, p.printable = pend[1].printable,
             \/ p.seen \subseteq pend[1].seen /\ (p.reached => pend[1].reached)
             \/ \E block \in Seq(STRING) : SeenMore(p, block)
      PROVE  KnownBlock(p)'
  <2> DEFINE n == p.n
             old == pend[1]
  <2>1. old \in Range(pend) /\ old.n = Len(windows) /\ old \in PendingInputs
    BY <1>3, PendNewest
  <2>2. KnownBlock(old)
    BY <2>1, KnownParts
  <2>3. n \in 1 .. Len(windows) /\ n # 0 /\ n = Len(windows)
    BY <1>2, <1>3, <2>1, <2>2 DEF KnownBlock
  <2>4. windows # <<>>
    BY <2>3
  <2>5. windows[n] \subseteq windows'[n] /\ typed'[n] = typed[n]
    BY <1>2, <2>3
  <2>6. /\ old.seen \subseteq windows'[n] /\ (old.reached => p.printable \subseteq windows'[n])
        /\ opt'.maskWhen = "echo_verify" /\ typed'[n].mode # "canon"
        /\ p.printable = Printable(typed'[n].b)
    BY <1>2, <1>3, <2>2, <2>5 DEF KnownBlock
  <2>7. p.seen \subseteq windows'[n] /\ (p.reached => p.printable \subseteq windows'[n])
    <3> HIDE DEF n, old
    <3>1. CASE p.seen \subseteq old.seen /\ (p.reached => old.reached)
      BY <2>6, <3>1
    <3>2. CASE \E block \in Seq(STRING) : SeenMore(p, block)
      <4>1. PICK block \in Seq(STRING) : SeenMore(p, block)
        BY <3>2
      <4>2. Range(block) \subseteq windows'[n]
        BY <2>3, <2>4, <4>1 DEF SeenMore
      <4>3. QED
        BY <2>6, <4>1, <4>2 DEF SeenMore, old
    <3>3. QED
      BY <1>3, <3>1, <3>2 DEF old
  <2>8. QED
    BY <2>3, <2>6, <2>7, Zenon DEF KnownBlock
<1>4. CASE pend' = pend
  BY <1>1, <1>3, <1>4
<1>5. ASSUME NEW block \in Seq(STRING), windows # <<>> => Range(block) \subseteq windows'[Len(windows)],
             pend' = MatchPending(block)
      PROVE  pend # <<>> /\ p.n = pend[1].n /\ KnownBlock(p)'
  <2>1. pend \in Seq(PendingInputs) /\ Len(pend) <= 1
    BY DEF TypeOK
  <2>2. /\ Len(pend') = Len(pend)
        /\ \A k \in DOMAIN pend' :
                /\ k \in DOMAIN pend
                /\ pend'[k].n = pend[k].n /\ pend'[k].printable = pend[k].printable
                /\ pend'[k].seen \subseteq pend[k].seen \cup Range(block)
                /\ pend'[k].reached => \/ pend[k].reached
                                       \/ pend[k].printable \subseteq pend[k].seen \cup Range(block)
    BY <1>5, <2>1, MatchMoves
  <2>3. 1 \in DOMAIN pend' /\ pend # <<>>
    <3>1. pend' \in Seq(PendingInputs)
      BY DEF TypeOK
    <3>2. QED
      BY <1>1, <2>1, <2>2, <3>1
  <2>4. /\ p.n = pend[1].n /\ p.printable = pend[1].printable
        /\ p.seen \subseteq pend[1].seen \cup Range(block)
        /\ p.reached => \/ pend[1].reached
                        \/ p.printable \subseteq pend[1].seen \cup Range(block)
    BY <1>1, <2>2, <2>3
  <2>5. SeenMore(p, block)
    BY <1>5, <2>4 DEF SeenMore
  <2>6. KnownBlock(p)'
    BY <1>3, <2>3, <2>4, <2>5
  <2>7. QED
    BY <2>3, <2>4, <2>6
<1>6. tail \in Seq(STRING) /\ pump.block \in Seq(STRING)
  BY DEF TypeOK
<1>7. QED
  BY <1>1, <1>2, <1>4, <1>5, <1>6, PendStep

(* A line keeps standing for its block.                                    *)
LEMMA LineKept ==
    ASSUME RecorderConstants, TypeOK, InputsKnown, Next, NEW l, KnownLine(l)
    PROVE  KnownLine(l)'
<1>1. l.n \in 1 .. Len(windows) /\ (l.plain => MayBePlain(l.n))
  BY DEF KnownLine
<1> DEFINE n == l.n
<1>2. n \in 1 .. Len(windows') /\ typed'[n] = typed[n] /\ windows[n] \subseteq windows'[n] /\ opt' = opt
  BY <1>1, HistoryStep
<1>3. l.plain => MayBePlain(n)'
  BY <1>1, <1>2, PlainKept
<1>4. QED
  BY <1>2, <1>3, Zenon DEF KnownLine

LEMMA KnownElsewhere ==
    ASSUME RecorderConstants, TypeOK, TypeOK', PhasesAgree, HeaderFirst, InOrder, InputsKnown, Next,
           Elsewhere
    PROVE  InputsKnown'
<1>1. typed' = typed /\ reader' = reader /\ Len(windows') = Len(windows) /\ opt' = opt
  BY HistoryStep DEF Elsewhere
<1>2. LengthsAgree' /\ (typed' # <<>> => opt'.recordInput)
  BY <1>1, KnownParts DEF LengthsAgree
<1>3. \A l \in Recorded' : KnownLine(l)'
  BY RecordedKnown
<1>4. Appending' = Appending
  BY <1>1 DEF Appending
<1>5. \A l \in Appending' : KnownLine(l)'
  BY <1>4, KnownParts, LineKept
<1>6. ~DeferStep /\ ~ReaderAppend
  <2>1. ~DeferStep
    <3>1. SUFFICES ASSUME NEW b \in work.blocks, NEW mode \in Modes, WriteInputDeferred(b, mode)
                   PROVE FALSE
      BY DEF DeferStep
    <3>2. b \in Seq(STRING) /\ Arrives(b, mode)
      BY <3>1, SettingsKnown DEF WriteInputDeferred
    <3>3. Len(typed') = Len(typed) + 1 /\ Len(typed) \in Nat
      BY <3>2, ArrivesMoves
    <3>4. QED
      BY <1>1, <3>3
  <2>2. ReaderAppend => reader.at = "append" /\ reader'.at = "idle"
    BY DEF ReaderAppend, Idle
  <2>3. QED
    BY <1>1, <2>1, <2>2
<1>7. \A p \in Range(pend') : pend # <<>> /\ p.n = pend[1].n /\ KnownBlock(p)'
  BY <1>6, PendKnown
<1>8. reader'.at = "append" => pend' = <<>> /\ reader'.line.typ \in {"i", "r"}
  <2>1. SUFFICES ASSUME reader.at = "append" PROVE pend' = <<>> /\ reader.line.typ \in {"i", "r"}
    BY <1>1
  <2>2. pend = <<>> /\ reader.line.typ \in {"i", "r"}
    BY <2>1 DEF InputsKnown
  <2>3. pend' = <<>>
    <3>1. pend' \in Seq(PendingInputs) /\ Range(pend') = {}
      BY <1>7, <2>2 DEF TypeOK
    <3>2. pend' # <<>> => 1 \in DOMAIN pend'
      BY <3>1, EmptySeq
    <3>3. QED
      BY <3>1, <3>2 DEF Range
  <2>4. QED
    BY <2>2, <2>3
<1>9. reader'.at = "plain" => MayBePlain(Len(typed))' /\ typed'[Len(typed')].alt
  <2>1. SUFFICES ASSUME reader.at = "plain"
                 PROVE  MayBePlain(Len(typed))' /\ typed'[Len(typed')].alt
    BY <1>1
  <2> DEFINE n == Len(typed)
  <2>2. MayBePlain(n) /\ typed[n].alt
    BY <2>1, KnownParts
  <2>3. typed'[n] = typed[n]
    BY <1>1
  <2>4. MayBePlain(n)'
    BY <1>1, <2>2, <2>3, PlainKept
  <2>5. Len(typed') = n
    BY <1>1
  <2>6. QED
    BY <2>2, <2>3, <2>4, <2>5, Zenon DEF MayBePlain
<1>10. \A n \in Awaited' : n = Len(windows') /\ \A l \in Recorded' : l.n < n
  <2>1. CASE RecordedKept
    <3>1. Awaited' \subseteq Awaited
      <4>1. ASSUME NEW p \in Range(pend') PROVE p.n \in Awaited
        BY <1>7, PendNewest
      <4>2. QED
        BY <1>4, <4>1 DEF Awaited
    <3>2. QED
      BY <1>1, <2>1, <3>1, KnownParts DEF RecordedKept
  <2>2. CASE RecordedGrows
    <3>1. pend # <<>> /\ pend' = <<>>
      BY <1>6, <2>2 DEF RecordedGrows, FromBlock, FromReader
    <3>2. Appending = {}
      BY <3>1 DEF InputsKnown, Appending
    <3>3. Range(pend') = {}
      BY <3>1 DEF Range
    <3>4. Awaited' = {}
      BY <1>4, <3>2, <3>3 DEF Awaited
    <3>5. QED
      BY <3>4
  <2>3. QED
    BY <2>1, <2>2, RecordedStep
<1>11. \A p \in Range(pend') : KnownBlock(p)'
  BY <1>7
<1>12. QED
  BY <1>2, <1>3, <1>5, <1>8, <1>9, <1>10, <1>11, KnownPartsNext

LEMMA NothingAwaited ==
    ASSUME TypeOK', pend' = <<>>, reader'.at \in {"idle", "plain"}
    PROVE  Appending' = {} /\ Awaited' = {} /\ Range(pend') = {}
<1>1. Range(pend') = {}
  BY DEF Range
<1>2. Appending' = {}
  BY DEF Appending
<1>3. QED
  BY <1>1, <1>2 DEF Awaited

(* The recorder took the block n; the reader appends the line l.           *)
LEMMA KnownTaking ==
    ASSUME RecorderConstants, TypeOK, TypeOK', PhasesAgree, HeaderFirst, InOrder, InputsKnown, Next,
           windows' = Append(windows, {}), LengthsAgree', typed' # <<>> => opt'.recordInput,
           reader'.at # "plain",
           \/ /\ pend' = <<>>
              /\ \/ reader'.at = "idle"
                 \/ /\ reader'.at = "append" /\ reader'.line.typ = "i"
                    /\ reader'.line.n = Len(windows')
                    /\ reader'.line.plain => MayBePlain(Len(windows))'
           \/ /\ reader'.at = "idle" /\ Appending' = {}
              /\ \A p \in Range(pend') : p.n = Len(windows') /\ KnownBlock(p)'
    PROVE  InputsKnown'
<1>1. Len(windows) \in Nat /\ Len(windows') = Len(windows) + 1
  <2>1. windows \in Seq(SUBSET STRING) /\ {} \in SUBSET STRING
    BY DEF TypeOK
  <2>2. QED
    BY <2>1, AppendProperties
<1>2. \A l \in Recorded' : l.n \in 1 .. Len(windows) /\ KnownLine(l)'
  BY RecordedKnown
<1> DEFINE m == Len(windows')
<1>3. m \in 1 .. m /\ \A l \in Recorded' : l.n < m
  BY <1>1, <1>2
<1>4. CASE pend' = <<>> /\ reader'.at = "idle"
  <2>1. Appending' = {} /\ Awaited' = {} /\ Range(pend') = {}
    BY <1>4, NothingAwaited
  <2>2. QED
    BY <1>2, <1>4, <2>1, KnownPartsNext
<1>5. CASE /\ pend' = <<>> /\ reader'.at = "append" /\ reader'.line.typ = "i"
           /\ reader'.line.n = Len(windows')
           /\ reader'.line.plain => MayBePlain(Len(windows))'
  <2>1. Appending' = {reader'.line} /\ Range(pend') = {}
    BY <1>5 DEF Appending, Range
  <2>2. Awaited' = {m}
    BY <1>5, <2>1 DEF Awaited
  <2>3. \A l \in Appending' : KnownLine(l)'
    <3>1. SUFFICES ASSUME NEW l, l = reader'.line PROVE KnownLine(l)'
      BY <2>1
    <3>2. l.n = m /\ (l.plain => MayBePlain(Len(windows))')
      BY <1>5, <3>1
    <3>3. l.n \in 1 .. m /\ (l.plain => MayBePlain(l.n)')
      BY <1>3, <3>2 DEF MayBePlain
    <3>4. QED
      BY <3>3, Zenon DEF KnownLine
  <2>4. QED
    BY <1>2, <1>3, <1>5, <2>1, <2>2, <2>3, KnownPartsNext
<1>6. CASE /\ reader'.at = "idle" /\ Appending' = {}
           /\ \A p \in Range(pend') : p.n = Len(windows') /\ KnownBlock(p)'
  <2>1. \A n \in Awaited' : n = m
    BY <1>6 DEF Awaited
  <2>2. QED
    BY <1>2, <1>3, <1>6, <2>1, KnownPartsNext
<1>7. QED
  BY <1>4, <1>5, <1>6

(* A block arrives: it has the next number.                                *)
LEMMA ArrivalMeans ==
    ASSUME RecorderConstants, TypeOK, InputsKnown, NEW b \in work.blocks, NEW mode \in Modes,
           Arrives(b, mode), Method(b, mode) # "none", opt' = opt
    PROVE  LET n == Len(typed') IN
           /\ n = Len(typed) + 1 /\ Len(windows) \in Nat /\ Len(typed) = Len(windows)
           /\ typed'[n].b = b /\ typed'[n].mode = mode /\ typed'[n].alt = (opt.tui /\ screen.open)
           /\ reader.at = "idle" /\ opt'.recordInput
<1>1. b \in Seq(STRING) /\ opt \in Options
  BY SettingsKnown
<1>2. LET input == [b |-> b, mode |-> mode, alt |-> opt.tui /\ screen.open] IN
      /\ reader.at = "idle" /\ typed' = Append(typed, input)
      /\ Len(typed') = Len(typed) + 1 /\ Len(typed) \in Nat
      /\ typed'[Len(typed) + 1] = input
  BY <1>1, ArrivesMoves
<1>3. Len(windows) \in Nat /\ Len(typed) = Len(windows)
  <2>1. Len(windows) \in Nat
    BY DEF TypeOK
  <2>2. Len(typed) = Len(windows) + 0
    BY <1>2 DEF InputsKnown
  <2>3. QED
    BY <2>1, <2>2
<1>4. opt.recordInput
  BY <1>1, MethodMeans
<1>5. QED
  BY <1>2, <1>3, <1>4

LEMMA TakingsKnown ==
    ASSUME RecorderConstants, TypeOK, TypeOK', PhasesAgree, HeaderFirst, InOrder, InputsKnown, Next,
           Takings
    PROVE  InputsKnown'
<1>1. PICK b \in work.blocks, mode \in Modes :
        WriteInput(b, mode) \/ WriteInputMasked(b, mode) \/ WriteInputDeferred(b, mode)
        \/ DeferAfterClose(b, mode)
  BY DEF Takings
<1>2. Arrives(b, mode) /\ windows' = Append(windows, {}) /\ Method(b, mode) # "none"
  BY <1>1, Zenon DEF WriteInput, WriteInputMasked, WriteInputDeferred, DeferAfterClose, Deferrable
<1>3. opt' = opt /\ opt \in Options
  BY HistoryStep, SettingsKnown
<1> DEFINE n == Len(typed')
<1>4. /\ n = Len(typed) + 1 /\ Len(windows) \in Nat /\ Len(typed) = Len(windows)
      /\ typed'[n].b = b /\ typed'[n].mode = mode /\ typed'[n].alt = (opt.tui /\ screen.open)
      /\ reader.at = "idle" /\ opt'.recordInput
  BY <1>2, <1>3, ArrivalMeans
<1>5. Len(windows') = n /\ windows'[n] = {} /\ n # 0
  <2>1. windows \in Seq(SUBSET STRING) /\ {} \in SUBSET STRING
    BY DEF TypeOK
  <2>2. Len(windows') = Len(windows) + 1 /\ windows'[Len(windows) + 1] = {}
    BY <1>2, <2>1, AppendProperties
  <2>3. QED
    BY <1>4, <2>2
<1>6. reader' = reader \/ (reader'.at = "append" /\ pend' = <<>>)
  <2>1. WriteInput(b, mode) => reader'.at = "append" /\ pend' = <<>>
    BY DEF WriteInput, Appends
  <2>2. WriteInputMasked(b, mode) => reader'.at = "append" /\ pend' = <<>>
    BY DEF WriteInputMasked, Appends
  <2>3. WriteInputDeferred(b, mode) \/ DeferAfterClose(b, mode) => reader' = reader
    BY Zenon DEF WriteInputDeferred, DeferAfterClose
  <2>4. QED
    BY <1>1, <2>1, <2>2, <2>3
<1>7. reader'.at # "plain" /\ LengthsAgree'
  BY <1>4, <1>5, <1>6 DEF LengthsAgree
<1>8. CASE WriteInput(b, mode)
  <2>1. /\ pend' = <<>> /\ reader'.at = "append" /\ reader'.line.typ = "i"
        /\ reader'.line.n = n /\ reader'.line.plain
    BY <1>4, <1>8 DEF WriteInput, Appends, InputLine, Line
  <2>2. MayBePlain(Len(windows))'
    <3>1. CASE Method(b, mode) = "plain"
      <4>1. \/ opt'.passwordMode = "plaintext"
            \/ mode = "echo" /\ ("nl" \notin Range(b) \/ opt'.maskWhen # "echo_verify")
            \/ mode = "raw" /\ opt'.maskWhen = "echo_off_canonical"
        BY <1>3, <3>1, MethodMeans
      <4>2. QED
        BY <1>4, <1>5, <4>1 DEF MayBePlain
    <3>2. CASE Method(b, mode) = "deferred" /\ Printable(b) = {}
      <4>1. mode # "canon" /\ opt'.maskWhen = "echo_verify"
        BY <1>3, <3>2, MethodMeans
      <4>2. Printable(b) \subseteq windows'[n]
        BY <3>2
      <4>3. QED
        BY <1>4, <1>5, <4>1, <4>2 DEF MayBePlain
    <3>3. QED
      BY <1>8, <3>1, <3>2 DEF WriteInput
  <2>3. QED
    BY <1>2, <1>4, <1>5, <1>7, <2>1, <2>2, KnownTaking
<1>9. CASE WriteInputMasked(b, mode)
  <2>1. /\ pend' = <<>> /\ reader'.at = "append" /\ reader'.line.typ = "i"
        /\ reader'.line.n = n /\ ~reader'.line.plain
    BY <1>4, <1>9 DEF WriteInputMasked, Appends, InputLine, Line
  <2>2. QED
    BY <1>2, <1>4, <1>5, <1>7, <2>1, KnownTaking
<1>10. CASE WriteInputDeferred(b, mode)
  <2>1. PICK entry : entry = [n |-> Len(typed) + 1, printable |-> Printable(b), size |-> Len(b),
                              t |-> now, seen |-> {}, reached |-> FALSE]
    OBVIOUS
  <2>2. reader'.at = "idle" /\ pend' \in {<<>>, <<entry>>}
    BY <1>4, <1>10, <2>1 DEF WriteInputDeferred
  <2>3. Appending' = {}
    BY <2>2 DEF Appending
  <2>4. mode # "canon" /\ opt'.maskWhen = "echo_verify"
    BY <1>3, <1>10, MethodMeans DEF WriteInputDeferred, Deferrable
  <2>5. /\ entry.n = n /\ entry.printable = Printable(b) /\ entry.seen = {} /\ ~entry.reached
    BY <1>4, <2>1
  <2>6. /\ entry.n # 0 /\ typed'[entry.n].mode # "canon"
        /\ entry.printable = Printable(typed'[entry.n].b) /\ entry.seen \subseteq windows'[entry.n]
    BY <1>4, <1>5, <2>4, <2>5
  <2>7. KnownBlock(entry)'
    BY <2>4, <2>5, <2>6, Zenon DEF KnownBlock
  <2>8. \A p \in Range(pend') : p = entry
    BY <2>2 DEF Range
  <2>9. \A p \in Range(pend') : p.n = Len(windows') /\ KnownBlock(p)'
    BY <1>5, <2>5, <2>7, <2>8
  <2>10. QED
    BY <1>2, <1>4, <1>7, <2>2, <2>3, <2>9, KnownTaking
<1>11. CASE DeferAfterClose(b, mode)
  <2>1. q.closed /\ pend' = pend /\ reader' = reader
    BY <1>11 DEF DeferAfterClose
  <2>2. pend' = <<>> /\ reader'.at = "idle"
    BY <1>4, <2>1 DEF PhasesAgree
  <2>3. QED
    BY <1>2, <1>4, <1>7, <2>2, KnownTaking
<1>12. QED
  BY <1>1, <1>8, <1>9, <1>10, <1>11

LEMMA PassingsKnown ==
    ASSUME RecorderConstants, TypeOK, TypeOK', PhasesAgree, HeaderFirst, InOrder, InputsKnown, Next,
           Passings
    PROVE  InputsKnown'
<1>1. PICK b \in work.blocks, mode \in Modes : DeferToProgram(b, mode)
  BY DEF Passings
<1>2. /\ Arrives(b, mode) /\ Method(b, mode) = "deferred" /\ opt.tui /\ screen.open
      /\ reader' = [at |-> "plain"] /\ pend' = pend /\ windows' = windows /\ q' = q
  BY <1>1 DEF DeferToProgram, Deferrable
<1>3. opt' = opt /\ opt \in Options
  BY HistoryStep, SettingsKnown
<1> DEFINE n == Len(typed')
<1>4. /\ n = Len(typed) + 1 /\ Len(windows) \in Nat /\ Len(typed) = Len(windows)
      /\ typed'[n].b = b /\ typed'[n].mode = mode /\ typed'[n].alt = (opt.tui /\ screen.open)
      /\ reader.at = "idle" /\ opt'.recordInput
  BY <1>2, <1>3, ArrivalMeans
<1>5. reader'.at = "plain" /\ LengthsAgree'
  BY <1>2, <1>4 DEF LengthsAgree
<1>6. MayBePlain(Len(typed))' /\ typed'[Len(typed')].alt
  <2>1. mode # "canon" /\ opt'.maskWhen = "echo_verify"
    BY <1>2, <1>3, MethodMeans
  <2>2. QED
    BY <1>2, <1>4, <2>1 DEF MayBePlain
<1>7. ~DeferStep /\ ~ReaderAppend
  <2>1. DeferStep => windows' = Append(windows, {})
    BY Zenon DEF DeferStep, WriteInputDeferred
  <2>2. windows \in Seq(SUBSET STRING) /\ {} \in SUBSET STRING
    BY DEF TypeOK
  <2>3. DeferStep => Len(windows') = Len(windows) + 1
    BY <2>1, <2>2, AppendProperties
  <2>4. ReaderAppend => reader.at = "append"
    BY DEF ReaderAppend
  <2>5. QED
    BY <1>2, <1>4, <2>3, <2>4
<1>8. \A p \in Range(pend') : pend # <<>> /\ p.n = pend[1].n /\ KnownBlock(p)'
  BY <1>7, PendKnown
<1>9. \A l \in Recorded' : KnownLine(l)'
  BY RecordedKnown
<1>10. Appending' = {}
  BY <1>5 DEF Appending
<1>11. \A k \in Awaited' : k = Len(windows') /\ \A l \in Recorded' : l.n < k
  <2>1. CASE RecordedKept
    <3>1. Awaited' \subseteq Awaited
      BY <1>2, <1>10 DEF Awaited
    <3>2. QED
      BY <1>2, <2>1, <3>1, KnownParts DEF RecordedKept
  <2>2. CASE RecordedGrows
    <3>1. pend' = <<>>
      BY <1>7, <2>2 DEF RecordedGrows, FromBlock, FromReader
    <3>2. QED
      BY <1>5, <3>1, NothingAwaited
  <2>3. QED
    BY <2>1, <2>2, RecordedStep
<1>12. QED
  BY <1>4, <1>5, <1>6, <1>8, <1>9, <1>10, <1>11, KnownPartsNext

LEMMA PlainKnown ==
    ASSUME RecorderConstants, TypeOK, TypeOK', PhasesAgree, HeaderFirst, InOrder, InputsKnown, Next,
           DeferredPlain
    PROVE  InputsKnown'
<1>1. /\ reader.at = "plain" /\ pend' = <<>> /\ windows' = Append(windows, {}) /\ typed' = typed
      /\ reader'.at = "append" /\ reader'.line.typ = "i" /\ reader'.line.n = Len(typed)
  BY DEF DeferredPlain, Appends, InputLine, Line
<1>2. opt' = opt /\ Len(windows) \in Nat
  BY HistoryStep
<1>3. Len(typed) = Len(windows) + 1 /\ MayBePlain(Len(typed)) /\ typed[Len(typed)].alt
  BY <1>1, KnownParts DEF LengthsAgree
<1>4. Len(windows') = Len(windows) + 1
  <2>1. windows \in Seq(SUBSET STRING) /\ {} \in SUBSET STRING
    BY DEF TypeOK
  <2>2. QED
    BY <1>1, <2>1, AppendProperties
<1>5. LengthsAgree' /\ reader'.at # "plain" /\ (typed' # <<>> => opt'.recordInput)
  BY <1>1, <1>2, <1>3, <1>4, KnownParts DEF LengthsAgree
<1> DEFINE n == Len(typed)
<1>6. MayBePlain(n)'
  BY <1>1, <1>2, <1>3, PlainKept
<1>7. MayBePlain(Len(windows))'
  <2>1. Len(windows') = n
    BY <1>3, <1>4
  <2>2. typed' = typed
    BY <1>1
  <2>3. QED
    BY <1>6, <2>1, <2>2 DEF MayBePlain
<1>8. QED
  BY <1>1, <1>3, <1>4, <1>5, <1>7, KnownTaking

LEMMA ResizesKnown ==
    ASSUME RecorderConstants, TypeOK, TypeOK', PhasesAgree, HeaderFirst, InOrder, InputsKnown, Next,
           Resizes \/ ReaderAppend
    PROVE  InputsKnown'
<1>1. windows' = windows /\ typed' = typed /\ opt' = opt
  BY HistoryStep
<1>2. /\ reader.at \in {"idle", "append"} /\ pend' = <<>>
      /\ \/ reader'.at = "append" /\ reader'.line.typ = "r"
         \/ reader'.at = "idle"
  <2>1. CASE Resizes
    BY <2>1 DEF Resizes, WriteResize, Appends, SizeLine, Line
  <2>2. CASE ReaderAppend
    <3>1. reader.at = "append" /\ reader'.at = "idle" /\ pend' = pend
      BY <2>2 DEF ReaderAppend, Idle
    <3>2. QED
      BY <3>1 DEF InputsKnown
  <2>3. QED
    BY <2>1, <2>2
<1>3. LengthsAgree' /\ (typed' # <<>> => opt'.recordInput) /\ reader'.at # "plain"
  BY <1>1, <1>2, KnownParts DEF LengthsAgree
<1>4. Appending' = {} /\ Range(pend') = {}
  BY <1>2 DEF Appending, Range
<1>5. Awaited' = {}
  BY <1>4 DEF Awaited
<1>6. \A l \in Recorded' : KnownLine(l)'
  BY RecordedKnown
<1>7. QED
  BY <1>2, <1>3, <1>4, <1>5, <1>6, KnownPartsNext

LEMMA KnownStep ==
    ASSUME RecorderConstants, TypeOK, PhasesAgree, HeaderFirst, InOrder, InputsKnown, Next
    PROVE  InputsKnown'
<1>1. TypeOK'
  BY TypeStep
<1>2. QED
  BY <1>1, ReaderSteps, KnownElsewhere, TakingsKnown, PassingsKnown, PlainKnown, ResizesKnown

-----------------------------------------------------------------------------
(* InputsCounted.                                                          *)

(* The masked lines there are, and how many r.masked counts of them: not   *)
(* the one the reader is about to append.                                  *)
MaskedLines == {l.n : l \in {k \in Recorded : ~k.plain}}
Counter == IF \E l \in Appending : ~l.plain THEN q.masked - 1 ELSE q.masked

Unfrozen(n) ==
    \/ n \in Awaited \/ \E l \in Recorded : l.n = n
    \/ q.dropped > 0 \/ opt.passwordMode = "omit"
    \/ q.closed /\ n > cut.ins

LEMMA CountedParts ==
    InputsCounted <=>
        /\ \A n \in 1 .. Len(windows) : Unfrozen(n)
        /\ q.closed => cut.ins <= Len(windows) /\ \A l \in Appending : l.n > cut.ins
        /\ Cardinality(MaskedLines) <= Counter
        /\ closer.at = "meta" => /\ Cardinality(MaskedLines) <= closer.snap.masked
                                 /\ closer.snap.dropped = q.dropped
        /\ metaFile.ended => /\ Cardinality(MaskedLines) <= metaFile.masked
                             /\ metaFile.dropped = q.dropped
BY Zenon DEF InputsCounted, Unfrozen, MaskedLines, Counter

LEMMA CountedPartsNext ==
    ASSUME \A n \in 1 .. Len(windows') : Unfrozen(n)',
           q'.closed => cut'.ins <= Len(windows') /\ \A l \in Appending' : l.n > cut'.ins,
           Cardinality(MaskedLines') <= Counter',
           closer'.at = "meta" => /\ Cardinality(MaskedLines') <= closer'.snap.masked
                                  /\ closer'.snap.dropped = q'.dropped,
           metaFile'.ended => /\ Cardinality(MaskedLines') <= metaFile'.masked
                              /\ metaFile'.dropped = q'.dropped
    PROVE  InputsCounted'
BY Zenon DEF InputsCounted, Unfrozen, MaskedLines, Counter

LEMMA MaskedFinite ==
    ASSUME TypeOK, InputsKnown
    PROVE  IsFiniteSet(MaskedLines) /\ Cardinality(MaskedLines) \in Nat
<1>1. Len(windows) \in Nat
  BY DEF TypeOK
<1>2. MaskedLines \subseteq 1 .. Len(windows)
  BY KnownParts DEF MaskedLines, KnownLine
<1>3. IsFiniteSet(1 .. Len(windows))
  BY <1>1, FS_Interval
<1>4. QED
  BY <1>2, <1>3, FS_Subset, FS_CardinalityType

LEMMA NoAppending ==
    ASSUME reader.at # "append" \/ reader.line.typ # "i"
    PROVE  Appending = {} /\ Counter = q.masked
BY DEF Appending, Counter

LEMMA NoAppendingNext ==
    ASSUME reader'.at # "append" \/ reader'.line.typ # "i"
    PROVE  Appending' = {} /\ Counter' = q'.masked
BY DEF Appending, Counter

LEMMA AppendingNext ==
    ASSUME reader'.at = "append", reader'.line.typ = "i"
    PROVE  /\ Appending' = {reader'.line}
           /\ Counter' = IF reader'.line.plain THEN q'.masked ELSE q'.masked - 1
BY DEF Appending, Counter

LEMMA MaskedMoves ==
    ASSUME RecorderConstants, TypeOK, TypeOK', PhasesAgree, MaskedStep
    PROVE  q.masked + 1 <= q'.masked
<1>1. Settles
  BY DEF MaskedStep, Settles, InputStep
<1>2. PICK r : SettlesBy(r)
  BY <1>1, SettleStep
<1>3. r \in Queues /\ q.masked <= r.masked /\ q'.masked = r.masked + 1
  BY <1>2 DEF SettlesBy, SettledTo, QueueMoves
<1>4. q.masked \in Nat /\ r.masked \in Nat
  BY <1>3 DEF TypeOK, Queues
<1>5. QED
  BY <1>3, <1>4

(* The counter moves with the masked lines.                                *)
LEMMA CounterStep ==
    ASSUME RecorderConstants, TypeOK, TypeOK', PhasesAgree, HeaderFirst, InOrder, InputsKnown, Next
    PROVE  /\ Counter \in Int /\ Counter' \in Int /\ Counter <= Counter'
           /\ \A l : (FromBlock(l) \/ FromReader(l)) /\ ~l.plain => Counter + 1 <= Counter'
<1>1. q.masked \in Nat /\ q'.masked \in Nat /\ q.masked <= q'.masked
  BY QueueStep DEF TypeOK, Queues
<1>2. Counter \in {q.masked, q.masked - 1} /\ Counter' \in {q'.masked, q'.masked - 1}
  BY DEF Counter
<1>3. \A l : FromBlock(l) /\ ~l.plain => /\ q.masked + 1 <= q'.masked
                                         /\ MaskedStep => q.masked + 2 <= q'.masked
  BY DEF FromBlock
<1>4. \A l : FromReader(l) => ReaderAppend
  BY DEF FromReader
<1>5. CASE Elsewhere
  <2>1. Appending' = Appending
    BY <1>5 DEF Elsewhere, Appending
  <2>2. ~ReaderAppend
    <3>1. ReaderAppend => reader.at = "append" /\ reader'.at = "idle"
      BY DEF ReaderAppend, Idle
    <3>2. QED
      BY <1>5, <3>1 DEF Elsewhere
  <2>3. Counter' - Counter = q'.masked - q.masked
    <3>1. CASE \E l \in Appending : ~l.plain
      <4>1. Counter = q.masked - 1 /\ Counter' = q'.masked - 1
        BY <2>1, <3>1, Zenon DEF Counter
      <4>2. QED
        BY <1>1, <4>1
    <3>2. CASE ~\E l \in Appending : ~l.plain
      <4>1. Counter = q.masked /\ Counter' = q'.masked
        BY <2>1, <3>2, Zenon DEF Counter
      <4>2. QED
        BY <1>1, <4>1
    <3>3. QED
      BY <3>1, <3>2
  <2>4. QED
    BY <1>1, <1>2, <1>3, <1>4, <2>2, <2>3
<1>6. CASE (Takings /\ ~MaskedStep) \/ Passings \/ DeferredPlain \/ Resizes
  <2>1. reader.at # "append" /\ ~ReaderAppend
    <3>1. reader.at # "append"
      BY <1>6, Zenon DEF Takings, WriteInput, WriteInputMasked, WriteInputDeferred, DeferAfterClose,
                         Arrives, Passings, DeferToProgram, DeferredPlain, Resizes, WriteResize
    <3>2. QED
      BY <3>1 DEF ReaderAppend
  <2>2. Counter = q.masked
    BY <2>1, NoAppending
  <2>3. reader'.at = "append" /\ reader'.line.typ = "i" => reader'.line.plain
    <3>1. ASSUME Takings, ~MaskedStep PROVE reader' = reader \/ reader'.line.plain
      <4>1. PICK b \in work.blocks, mode \in Modes :
               WriteInput(b, mode) \/ WriteInputDeferred(b, mode) \/ DeferAfterClose(b, mode)
        BY <3>1 DEF Takings, MaskedStep
      <4>2. WriteInput(b, mode) => reader'.line.plain
        BY DEF WriteInput, Appends, InputLine, Line
      <4>3. WriteInputDeferred(b, mode) \/ DeferAfterClose(b, mode) => reader' = reader
        BY Zenon DEF WriteInputDeferred, DeferAfterClose
      <4>4. QED
        BY <4>1, <4>2, <4>3
    <3>2. Passings => reader'.at = "plain"
      BY DEF Passings, DeferToProgram
    <3>3. DeferredPlain => reader'.line.plain
      BY DEF DeferredPlain, Appends, InputLine, Line
    <3>4. Resizes => reader'.line.typ = "r"
      BY DEF Resizes, WriteResize, Appends, SizeLine, Line
    <3>5. QED
      BY <1>6, <2>1, <3>1, <3>2, <3>3, <3>4
  <2>4. Counter' = q'.masked
    BY <2>3, NoAppendingNext, AppendingNext
  <2>5. QED
    BY <1>1, <1>3, <1>4, <2>1, <2>2, <2>4
<1>7. CASE MaskedStep
  <2>1. reader.at # "append" /\ ~ReaderAppend
    <3>1. reader.at = "idle"
      BY <1>7, Zenon DEF MaskedStep, WriteInputMasked, Arrives
    <3>2. QED
      BY <3>1 DEF ReaderAppend
  <2>2. Counter = q.masked
    BY <2>1, NoAppending
  <2>3. q.masked + 1 <= q'.masked
    BY <1>7, MaskedMoves
  <2>4. QED
    BY <1>1, <1>2, <1>3, <1>4, <1>7, <2>1, <2>2, <2>3
<1>8. CASE ReaderAppend
  <2>1. q'.masked = q.masked
    BY <1>8, AppendBook
  <2>2. reader.at = "append" /\ reader'.at = "idle"
    BY <1>8 DEF ReaderAppend, Idle
  <2>3. Counter' = q'.masked
    BY <2>2, NoAppendingNext
  <2>4. \A l : ~FromBlock(l)
    BY <2>2 DEF FromBlock, InputsKnown
  <2>5. \A l : FromReader(l) /\ ~l.plain => Counter = q.masked - 1
    BY <2>2 DEF FromReader, Counter, Appending
  <2>6. QED
    BY <1>1, <1>2, <2>1, <2>3, <2>4, <2>5
<1>9. QED
  BY <1>5, <1>6, <1>7, <1>8, ReaderSteps

LEMMA MaskedLinesStep ==
    ASSUME RecorderConstants, TypeOK, TypeOK', PhasesAgree, HeaderFirst, InOrder, InputsKnown, Next
    PROVE  /\ Cardinality(MaskedLines) \in Nat /\ Cardinality(MaskedLines') \in Nat
           /\ Cardinality(MaskedLines') - Cardinality(MaskedLines) <= Counter' - Counter
           /\ q.closed => MaskedLines' = MaskedLines
<1>1. IsFiniteSet(MaskedLines) /\ Cardinality(MaskedLines) \in Nat
  BY MaskedFinite
<1>2. /\ Counter \in Int /\ Counter' \in Int /\ Counter <= Counter'
      /\ \A l : (FromBlock(l) \/ FromReader(l)) /\ ~l.plain => Counter + 1 <= Counter'
  BY CounterStep
<1>3. CASE RecordedKept
  <2>1. MaskedLines' = MaskedLines
    BY <1>3 DEF RecordedKept, MaskedLines
  <2>2. QED
    BY <1>1, <1>2, <2>1
<1>4. CASE RecordedGrows
  <2>1. PICK l \in CastLines :
             Recorded' = Recorded \cup {l} /\ l.typ = "i" /\ (FromBlock(l) \/ FromReader(l))
    BY <1>4 DEF RecordedGrows
  <2>2. ~q.closed
    BY <2>1 DEF FromBlock, FromReader
  <2>3. CASE l.plain
    <3>1. MaskedLines' = MaskedLines
      BY <2>1, <2>3 DEF MaskedLines
    <3>2. QED
      BY <1>1, <1>2, <2>2, <3>1
  <2>4. CASE ~l.plain
    <3>1. MaskedLines' = MaskedLines \cup {l.n}
      BY <2>1, <2>4 DEF MaskedLines
    <3>2. Cardinality(MaskedLines') \in {Cardinality(MaskedLines), Cardinality(MaskedLines) + 1}
      BY <1>1, <3>1, FS_AddElement
    <3>3. Counter + 1 <= Counter'
      BY <1>2, <2>1, <2>4
    <3>4. QED
      BY <1>1, <1>2, <2>2, <3>2, <3>3
  <2>5. QED
    BY <2>3, <2>4
<1>5. QED
  BY <1>3, <1>4, RecordedStep

(* A number that waits for a line gets one, or there is a reason.          *)
LEMMA AwaitedStep ==
    ASSUME RecorderConstants, TypeOK, TypeOK', PhasesAgree, HeaderFirst, InOrder, InputsKnown,
           InputsCounted, Next, NEW n \in Awaited
    PROVE  Unfrozen(n)'
<1>1. n = Len(windows) /\ Len(windows) \in Nat
  BY HistoryStep, KnownParts
<1>2. Excuse => Unfrozen(n)'
  <2>1. opt' = opt
    BY HistoryStep
  <2>2. opt.recordInput
    <3>1. n # 0
      <4>1. CASE \E p \in Range(pend) : n = p.n
        BY <4>1, KnownParts DEF KnownBlock
      <4>2. CASE \E l \in Appending : n = l.n
        BY <1>1, <4>2, KnownParts DEF KnownLine
      <4>3. QED
        BY <4>1, <4>2 DEF Awaited
    <3>2. Len(typed) # 0
      <4>1. Len(typed) = Len(windows) \/ Len(typed) = Len(windows) + 1
        BY <1>1, KnownParts DEF LengthsAgree
      <4>2. QED
        BY <1>1, <3>1, <4>1
    <3>3. typed # <<>>
      BY <3>2
    <3>4. QED
      BY <3>3, KnownParts
  <2>3. QED
    BY <2>1, <2>2 DEF Excuse, Unfrozen
<1>3. CASE \E p \in Range(pend) : n = p.n
  <2>1. pend # <<>> /\ n = pend[1].n
    BY <1>3, OnlyBlock
  <2>2. reader.at # "append"
    BY <2>1 DEF InputsKnown
  <2>3. CASE RecordedKept /\ PendStays
    <3>1. pend \in Seq(PendingInputs) /\ Len(pend) <= 1
      BY DEF TypeOK
    <3>2. pend' # <<>> /\ pend'[1].n = pend[1].n
      <4>1. CASE pend' = pend
        BY <2>1, <4>1
      <4>2. ASSUME NEW block \in Seq(STRING), pend' = MatchPending(block)
            PROVE  pend' # <<>> /\ pend'[1].n = pend[1].n
        <5>1. pend' # <<>>
          <6>1. Len(pend') = Len(pend)
            BY <3>1, <4>2, MatchMoves
          <6>2. Len(pend) # 0
            BY <2>1, <3>1, EmptySeq
          <6>3. QED
            BY <6>1, <6>2
        <5>2. QED
          BY <4>2, <5>1, MatchedFirst
      <4>3. QED
        BY <2>3, <4>1, <4>2 DEF PendStays
    <3>3. pend'[1] \in Range(pend')
      <4>1. pend' \in Seq(PendingInputs)
        BY DEF TypeOK
      <4>2. 1 \in DOMAIN pend'
        BY <3>2, <4>1, EmptySeq
      <4>3. QED
        BY <4>2 DEF Range
    <3>4. n \in Awaited'
      BY <2>1, <3>2, <3>3 DEF Awaited
    <3>5. QED
      BY <3>4 DEF Unfrozen
  <2>4. CASE RecordedKept /\ ~PendStays
    BY <1>2, <2>1, <2>4 DEF RecordedKept
  <2>5. CASE RecordedGrows
    <3>1. PICK l \in CastLines :
             Recorded' = Recorded \cup {l} /\ l.typ = "i" /\ (FromBlock(l) \/ FromReader(l))
      BY <2>5 DEF RecordedGrows
    <3>2. l \in Recorded' /\ l.n = n
      BY <2>1, <2>2, <3>1 DEF FromBlock, FromReader, ReaderAppend
    <3>3. QED
      BY <3>2 DEF Unfrozen
  <2>6. QED
    BY <2>3, <2>4, <2>5, RecordedStep
<1>4. CASE \E l \in Appending : n = l.n
  <2>1. reader.at = "append" /\ reader.line.typ = "i" /\ n = reader.line.n /\ Appending = {reader.line}
    BY <1>4 DEF Appending
  <2>2. pend = <<>>
    BY <2>1 DEF InputsKnown
  <2>3. Elsewhere \/ ReaderAppend
    <3>1. Takings \/ Passings \/ DeferredPlain \/ Resizes => reader.at # "append"
      BY Zenon DEF Takings, WriteInput, WriteInputMasked, WriteInputDeferred, DeferAfterClose,
                   Arrives, Passings, DeferToProgram, DeferredPlain, Resizes, WriteResize
    <3>2. QED
      BY <2>1, <3>1, ReaderSteps
  <2>4. CASE Elsewhere
    <3>1. Appending' = Appending
      BY <2>4 DEF Elsewhere, Appending
    <3>2. n \in Awaited'
      BY <2>1, <3>1 DEF Awaited
    <3>3. QED
      BY <3>2 DEF Unfrozen
  <2>5. CASE ReaderAppend
    <3>1. CASE RecordedKept
      <4>1. q.closed \/ Excuse
        BY <2>1, <2>5, <3>1 DEF RecordedKept
      <4>2. CASE q.closed
        <5>1. q'.closed
          BY <4>2, QueueStep
        <5>2. n > cut.ins
          BY <2>1, <4>2, CountedParts
        <5>3. cut' = cut
          BY <2>5, Zenon DEF ReaderAppend, NotReader
        <5>4. QED
          BY <5>1, <5>2, <5>3 DEF Unfrozen
      <4>3. QED
        BY <1>2, <4>1, <4>2
    <3>2. CASE RecordedGrows
      <4>1. PICK l \in CastLines :
             Recorded' = Recorded \cup {l} /\ l.typ = "i" /\ (FromBlock(l) \/ FromReader(l))
        BY <3>2 DEF RecordedGrows
      <4>2. l \in Recorded' /\ l.n = n
        BY <2>1, <2>2, <4>1 DEF FromBlock, FromReader
      <4>3. QED
        BY <4>2 DEF Unfrozen
    <3>3. QED
      BY <3>1, <3>2, RecordedStep
  <2>6. QED
    BY <2>3, <2>4, <2>5
<1>5. QED
  BY <1>3, <1>4 DEF Awaited

LEMMA CutStep ==
    ASSUME RecorderConstants, TypeOK, PhasesAgree, Next
    PROVE  /\ q.closed => q'.closed /\ cut'.ins = cut.ins /\ ~CloseMark
           /\ q'.closed /\ ~q.closed => CloseMark
           /\ CloseMark => cut'.ins = InputsBegun /\ Elsewhere /\ windows' = windows
<1>1. q'.closed = (q.closed \/ CloseMark)
  BY QueueStep
<1>2. CloseMark => ~q.closed
  BY DEF CloseMark, PhasesAgree
<1>3. cut \in [out : Int, ins : Int]
  BY DEF TypeOK
<1>4. \/ cut' = cut \/ CloseMark
      \/ \E n : cut' = [cut EXCEPT !.out = n]
  <2>1. OutputSplit => cut' \in {cut, [cut EXCEPT !.out = -1]}
    BY DEF OutputSplit
  <2>2. CloseTail => cut' \in {[cut EXCEPT !.out = pos], [cut EXCEPT !.out = -1]}
    BY DEF CloseTail
  <2>3. OutputSplit \/ CloseTail \/ CloseMark \/ cut' = cut
    BY Zenon DEF Next, OutputMatch, OutputAppend, Reader, NotReader, SkipInput, WriteInput,
               WriteInputMasked, DeferToProgram, WriteInputDeferred, DeferAfterClose, DeferredPlain,
               WriteResize, ReaderAppend, EventSnapshot, EventWrite, Flush, FlushTake, FlushWrite,
               FlushEnd, NotFlusher, Close, CloseTailAppend, CloseTake, CloseMeta, Tick
  <2>4. QED
    BY <2>1, <2>2, <2>3
<1>5. cut'.ins = cut.ins \/ CloseMark
  BY <1>3, <1>4
<1>6. CloseMark => cut'.ins = InputsBegun /\ Elsewhere /\ windows' = windows
  <2>1. CloseMark => typed' = typed /\ reader' = reader /\ windows' = windows
    BY Zenon DEF CloseMark, NotCloser
  <2>2. CloseMark => cut' = [cut EXCEPT !.ins = InputsBegun]
    BY DEF CloseMark
  <2>3. QED
    BY <1>3, <2>1, <2>2 DEF Elsewhere
<1>7. q.closed \in BOOLEAN /\ q'.closed = (q.closed \/ CloseMark)
  BY <1>1 DEF TypeOK, Queues
<1>8. QED
  BY <1>2, <1>5, <1>6, <1>7

(* At CloseMark every block that was recorded before Close began is below  *)
(* the number of blocks.                                                   *)
LEMMA CutMeans ==
    ASSUME TypeOK, InputsKnown
    PROVE  /\ InputsBegun \in Int /\ InputsBegun <= Len(windows) /\ Len(windows) \in Nat
           /\ \A l \in Appending : l.n > InputsBegun
<1>1. Len(windows) \in Nat /\ Len(typed) \in Nat
  BY DEF TypeOK
<1>2. \A l \in Appending : l.n = Len(windows)
  <2>1. \A l \in Appending : l.n \in Awaited
    BY DEF Awaited
  <2>2. QED
    BY <2>1, KnownParts
<1>3. CASE reader.at = "plain"
  <2>1. Len(typed) = Len(windows) + 1 /\ Appending = {}
    BY <1>3, KnownParts DEF LengthsAgree, Appending
  <2>2. QED
    BY <1>1, <1>3, <2>1 DEF InputsBegun
<1>4. CASE reader.at = "idle"
  <2>1. Len(typed) = Len(windows) + 0 /\ Appending = {}
    BY <1>4, KnownParts DEF LengthsAgree, Appending
  <2>2. QED
    BY <1>1, <1>4, <2>1 DEF InputsBegun
<1>5. CASE reader.at \notin {"plain", "idle"}
  <2>1. Len(typed) = Len(windows) + 0
    BY <1>5, KnownParts DEF LengthsAgree
  <2>2. QED
    BY <1>1, <1>2, <1>5, <2>1 DEF InputsBegun
<1>6. QED
  BY <1>3, <1>4, <1>5

(* A block is taken: its number is the next one, and waits for its line,   *)
(* is dropped and counted, or came after Close.                            *)
LEMMA TakenMeans ==
    ASSUME RecorderConstants, TypeOK, TypeOK', PhasesAgree, InputsKnown, Next,
           Takings \/ DeferredPlain
    PROVE  LET n == Len(windows) + 1 IN
           /\ Len(windows') = n
           /\ n \in Awaited' \/ q'.dropped > 0 \/ q.closed
           /\ \A l \in Appending' : l.n = n
<1>1. Len(windows) \in Nat /\ windows' = Append(windows, {}) /\ opt' = opt
  BY HistoryStep
<1> DEFINE n == Len(windows) + 1
<1>2. Len(windows') = n
  <2>1. windows \in Seq(SUBSET STRING) /\ {} \in SUBSET STRING
    BY DEF TypeOK
  <2>2. QED
    BY <1>1, <2>1, AppendProperties
<1>3. CASE reader'.at = "append" /\ reader'.line.typ = "i" /\ reader'.line.n = n
  <2>1. Appending' = {reader'.line}
    BY <1>3, AppendingNext
  <2>2. n \in Awaited'
    BY <1>3, <2>1 DEF Awaited
  <2>3. QED
    BY <1>2, <1>3, <2>1, <2>2
<1>4. CASE DeferredPlain
  <2>1. Len(typed) = n
    BY <1>4, KnownParts DEF LengthsAgree, DeferredPlain
  <2>2. reader'.at = "append" /\ reader'.line.typ = "i" /\ reader'.line.n = n
    BY <1>4, <2>1 DEF DeferredPlain, Appends, InputLine, Line
  <2>3. QED
    BY <1>3, <2>2
<1>5. CASE Takings
  <2>1. PICK b \in work.blocks, mode \in Modes :
          WriteInput(b, mode) \/ WriteInputMasked(b, mode) \/ WriteInputDeferred(b, mode)
          \/ DeferAfterClose(b, mode)
    BY <1>5 DEF Takings
  <2>2. Arrives(b, mode) /\ Method(b, mode) # "none"
    BY <2>1, Zenon DEF WriteInput, WriteInputMasked, WriteInputDeferred, DeferAfterClose, Deferrable
  <2>3. Len(typed) + 1 = n /\ reader.at = "idle"
    BY <1>1, <2>2, ArrivalMeans
  <2>4. CASE WriteInput(b, mode)
    <3>1. reader'.at = "append" /\ reader'.line.typ = "i" /\ reader'.line.n = n
      BY <2>3, <2>4 DEF WriteInput, Appends, InputLine, Line
    <3>2. QED
      BY <1>3, <3>1
  <2>5. CASE WriteInputMasked(b, mode)
    <3>1. reader'.at = "append" /\ reader'.line.typ = "i" /\ reader'.line.n = n
      BY <2>3, <2>5 DEF WriteInputMasked, Appends, InputLine, Line
    <3>2. QED
      BY <1>3, <3>1
  <2>6. CASE WriteInputDeferred(b, mode)
    <3>1. reader' = reader /\ Appending' = {}
      BY <2>3, <2>6, NoAppendingNext DEF WriteInputDeferred
    <3>2. CASE Len(b) > PendingInputCap
      <4> DEFINE r == Settle(q, pend, "boundary")
      <4>1. Fine(r)
        BY FineSettled, WaitingKept
      <4>2. q' = [r EXCEPT !.dropped = @ + 1]
        BY <2>6, <3>2 DEF WriteInputDeferred, SettleBoundary
      <4> HIDE DEF r
      <4>3. r \in Queues /\ r.dropped \in Nat
        BY <4>1 DEF Fine, Queues
      <4>4. q'.dropped = r.dropped + 1
        BY <4>2, <4>3 DEF Queues
      <4>5. q'.dropped > 0
        BY <4>3, <4>4
      <4>6. QED
        BY <1>2, <3>1, <4>5
    <3>3. CASE ~(Len(b) > PendingInputCap)
      <4>1. PICK entry : entry = [n |-> Len(typed) + 1, printable |-> Printable(b), size |-> Len(b),
                                  t |-> now, seen |-> {}, reached |-> FALSE]
        OBVIOUS
      <4>2. pend' = <<entry>> /\ entry.n = n
        BY <2>3, <2>6, <3>3, <4>1 DEF WriteInputDeferred
      <4>3. entry \in Range(pend')
        <5>1. 1 \in DOMAIN <<entry>> /\ <<entry>>[1] = entry
          OBVIOUS
        <5>2. QED
          BY <4>2, <5>1 DEF Range
      <4>4. n \in Awaited'
        BY <4>2, <4>3 DEF Awaited
      <4>5. QED
        BY <1>2, <3>1, <4>4
    <3>4. QED
      BY <3>2, <3>3
  <2>7. CASE DeferAfterClose(b, mode)
    <3>1. q.closed /\ reader' = reader
      BY <2>7 DEF DeferAfterClose
    <3>2. Appending' = {}
      BY <2>3, <3>1, NoAppendingNext
    <3>3. QED
      BY <1>2, <3>1, <3>2
  <2>8. QED
    BY <2>1, <2>4, <2>5, <2>6, <2>7
<1>6. QED
  BY <1>4, <1>5

LEMMA NumbersStep ==
    ASSUME RecorderConstants, TypeOK, TypeOK', PhasesAgree, HeaderFirst, InOrder, InputsKnown,
           InputsCounted, Next
    PROVE  /\ \A n \in 1 .. Len(windows') : Unfrozen(n)'
           /\ q'.closed => cut'.ins <= Len(windows') /\ \A l \in Appending' : l.n > cut'.ins
<1>1. /\ q.closed => q'.closed /\ cut'.ins = cut.ins /\ ~CloseMark
      /\ q'.closed /\ ~q.closed => CloseMark
      /\ CloseMark => cut'.ins = InputsBegun /\ Elsewhere /\ windows' = windows
  BY CutStep
<1>2. Len(windows) \in Nat /\ Len(windows') \in Nat /\ cut.ins \in Int /\ cut'.ins \in Int
  <2>1. windows \in Seq(SUBSET STRING) /\ windows' \in Seq(SUBSET STRING)
    BY DEF TypeOK
  <2>2. cut \in [out : Int, ins : Int] /\ cut' \in [out : Int, ins : Int]
    BY DEF TypeOK
  <2>3. QED
    BY <2>1, <2>2
<1>3. q.closed => cut.ins <= Len(windows) /\ \A l \in Appending : l.n > cut.ins
  BY CountedParts
<1>4. /\ Elsewhere \/ Takings \/ Passings \/ DeferredPlain \/ Resizes \/ ReaderAppend
      /\ Passings \/ Resizes \/ ReaderAppend => windows' = windows
      /\ Elsewhere => Len(windows') = Len(windows)
      /\ opt' = opt
  BY ReaderSteps, HistoryStep
<1>5. ASSUME NEW n \in 1 .. Len(windows)
      PROVE  Unfrozen(n)'
  <2>1. CASE n \in Awaited
    BY <2>1, AwaitedStep
  <2>2. CASE \E l \in Recorded : l.n = n
    <3>1. Recorded \subseteq Recorded'
      BY RecordedStep DEF RecordedKept, RecordedGrows
    <3>2. QED
      BY <2>2, <3>1 DEF Unfrozen
  <2>3. CASE q.dropped > 0
    <3>1. q.dropped <= q'.dropped
      BY QueueStep
    <3>2. q.dropped \in Nat /\ q'.dropped \in Nat
      BY DEF TypeOK, Queues
    <3>3. q'.dropped > 0
      BY <2>3, <3>1, <3>2
    <3>4. QED
      BY <3>3 DEF Unfrozen
  <2>4. CASE opt.passwordMode = "omit"
    BY <1>4, <2>4 DEF Unfrozen
  <2>5. CASE q.closed /\ n > cut.ins
    BY <1>1, <2>5 DEF Unfrozen
  <2>6. QED
    BY <2>1, <2>2, <2>3, <2>4, <2>5, CountedParts DEF Unfrozen
<1>6. CASE Takings \/ DeferredPlain
  <2>0. PICK m : m = Len(windows) + 1
    OBVIOUS
  <2>1. /\ Len(windows') = m
        /\ m \in Awaited' \/ q'.dropped > 0 \/ q.closed
        /\ \A l \in Appending' : l.n = m
    BY <1>6, <2>0, TakenMeans
  <2>2. q'.closed => q.closed
    <3>1. CloseMark => windows' = windows
      BY <1>1
    <3>2. QED
      BY <1>1, <1>2, <2>0, <2>1, <3>1
  <2>3. q.closed => q'.closed /\ m > cut'.ins /\ cut'.ins <= m
    BY <1>1, <1>2, <1>3, <2>0
  <2>4. Unfrozen(m)'
    BY <2>1, <2>3 DEF Unfrozen
  <2>5. \A n \in 1 .. Len(windows') : n \in 1 .. Len(windows) \/ n = m
    BY <1>2, <2>0, <2>1
  <2>6. QED
    BY <1>5, <2>1, <2>2, <2>3, <2>4, <2>5
<1>7. CASE Elsewhere \/ Passings \/ Resizes \/ ReaderAppend
  <2>1. Len(windows') = Len(windows)
    BY <1>4, <1>7
  <2>2. Appending' \subseteq Appending
    <3>1. Elsewhere => Appending' = Appending
      BY DEF Elsewhere, Appending
    <3>2. Passings => reader'.at = "plain"
      BY DEF Passings, DeferToProgram
    <3>3. Resizes => reader'.line.typ = "r"
      BY DEF Resizes, WriteResize, Appends, SizeLine, Line
    <3>4. ReaderAppend => reader'.at = "idle"
      BY DEF ReaderAppend, Idle
    <3>5. QED
      BY <1>7, <3>1, <3>2, <3>3, <3>4, NoAppendingNext
  <2>3. CASE q.closed
    BY <1>1, <1>3, <1>5, <2>1, <2>2, <2>3
  <2>4. CASE CloseMark /\ ~q.closed
    <3>1. /\ InputsBegun <= Len(windows) /\ \A l \in Appending : l.n > InputsBegun
      BY CutMeans
    <3>2. QED
      BY <1>1, <1>5, <2>1, <2>2, <2>4, <3>1
  <2>5. CASE ~q'.closed
    BY <1>5, <2>1, <2>5
  <2>6. QED
    BY <1>1, <2>3, <2>4, <2>5
<1>8. QED
  BY <1>4, <1>6, <1>7

LEMMA MetaStep ==
    ASSUME RecorderConstants, TypeOK, PhasesAgree, Next
    PROVE  /\ \/ metaFile' = metaFile \/ ~metaFile'.ended
              \/ closer.at = "meta" /\ metaFile' = closer.snap
           /\ closer'.at = "meta" => \/ closer' = closer
                                     \/ CloseTake /\ closer'.snap = MetaNow
<1>1. \/ metaFile' = metaFile \/ CloseMeta \/ \E e \in Callers : EventWrite(e)
  BY Zenon DEF Next, OutputSplit, OutputMatch, OutputAppend, Reader, NotReader, SkipInput, WriteInput,
               WriteInputMasked, DeferToProgram, WriteInputDeferred, DeferAfterClose, DeferredPlain,
               WriteResize, ReaderAppend, EventSnapshot, Flush, FlushTake, FlushWrite, diskVars,
               FlushEnd, NotFlusher, Close, CloseTail, CloseTailAppend, CloseMark, CloseTake, Tick
<1>2. ASSUME NEW e \in Callers, EventWrite(e) PROVE metaFile' = metaFile \/ ~metaFile'.ended
  BY <1>2 DEF EventWrite, PhasesAgree
<1>3. CloseMeta => metaFile' = metaFile \/ (closer.at = "meta" /\ metaFile' = closer.snap)
  BY DEF CloseMeta
<1>4. closer' = closer \/ Close
  BY Zenon DEF Next, OutputSplit, OutputMatch, OutputAppend, Reader, NotReader, SkipInput, WriteInput,
               WriteInputMasked, DeferToProgram, WriteInputDeferred, DeferAfterClose, DeferredPlain,
               WriteResize, ReaderAppend, EventSnapshot, EventWrite, Flush, FlushTake, FlushWrite,
               FlushEnd, NotFlusher, Tick
<1>5. CloseTail \/ CloseTailAppend \/ CloseMark \/ CloseMeta => closer'.at # "meta"
  BY DEF CloseTail, CloseTailAppend, CloseMark, CloseMeta
<1>6. CloseTake => closer'.snap = MetaNow
  BY DEF CloseTake
<1>7. QED
  BY <1>1, <1>2, <1>3, <1>4, <1>5, <1>6 DEF Close

LEMMA CountedStep ==
    ASSUME RecorderConstants, TypeOK, PhasesAgree, HeaderFirst, InOrder, InputsKnown,
           InputsCounted, Next
    PROVE  InputsCounted'
<1>1. TypeOK'
  BY TypeStep
<1>2. /\ Cardinality(MaskedLines) \in Nat /\ Cardinality(MaskedLines') \in Nat
      /\ Cardinality(MaskedLines') - Cardinality(MaskedLines) <= Counter' - Counter
      /\ q.closed => MaskedLines' = MaskedLines
  BY <1>1, MaskedLinesStep
<1>3. Counter \in Int /\ Counter' \in Int /\ Cardinality(MaskedLines) <= Counter
  BY <1>1, CounterStep, CountedParts
<1>4. Cardinality(MaskedLines') <= Counter'
  BY <1>2, <1>3
<1>5. q.closed => q'.dropped = q.dropped
  BY QueueStep
<1>6. closer.at \in {"wait", "meta", "done"} => q.closed
  BY DEF PhasesAgree
<1>7. /\ \/ metaFile' = metaFile \/ ~metaFile'.ended
         \/ closer.at = "meta" /\ metaFile' = closer.snap
      /\ closer'.at = "meta" => \/ closer' = closer
                                \/ CloseTake /\ closer'.snap = MetaNow
  BY MetaStep
<1>8. closer'.at = "meta" => /\ Cardinality(MaskedLines') <= closer'.snap.masked
                             /\ closer'.snap.dropped = q'.dropped
  <2>1. CASE closer'.at = "meta" /\ closer' = closer
    BY <1>2, <1>5, <1>6, <2>1, CountedParts
  <2>2. CASE CloseTake /\ closer'.snap = MetaNow
    <3>1. closer'.snap.masked = q.masked /\ closer'.snap.dropped = q.dropped
      BY <2>2 DEF MetaNow
    <3>2. q.closed
      BY <1>6, <2>2 DEF CloseTake
    <3>3. Counter <= q.masked
      <4>1. q.masked \in Nat
        BY DEF TypeOK, Queues
      <4>2. Counter \in {q.masked, q.masked - 1}
        BY DEF Counter
      <4>3. QED
        BY <4>1, <4>2
    <3>4. q.masked \in Nat
      BY DEF TypeOK, Queues
    <3>5. QED
      BY <1>2, <1>3, <1>5, <3>1, <3>2, <3>3, <3>4
  <2>3. QED
    BY <1>7, <2>1, <2>2
<1>9. metaFile'.ended => /\ Cardinality(MaskedLines') <= metaFile'.masked
                         /\ metaFile'.dropped = q'.dropped
  <2>1. CASE metaFile' = metaFile /\ metaFile.ended
    <3>1. q.closed
      BY <1>6, <2>1 DEF PhasesAgree, Closed
    <3>2. QED
      BY <1>2, <1>5, <2>1, <3>1, CountedParts
  <2>2. CASE closer.at = "meta" /\ metaFile' = closer.snap
    BY <1>2, <1>5, <1>6, <2>2, CountedParts
  <2>3. QED
    BY <1>7, <2>1, <2>2
<1>10. QED
  BY <1>1, <1>4, <1>8, <1>9, NumbersStep, CountedPartsNext

-----------------------------------------------------------------------------
(* OutputKept and OutputComplete: what is in the recording, line by line.  *)

OutStep == [acc \in Seq(STRING) |->
               [l \in CastLines |-> IF l.typ = "o" THEN acc \o l.data ELSE acc]]

LEMMA OutputFold ==
    ASSUME NEW lines
    PROVE  LET It(f) == [s \in SUBSET (DOMAIN lines) |->
                            IF s = {} THEN <<>>
                            ELSE LET i == Max(s)
                                     acc == f[s \ {i}]
                                     l == lines[i]
                                 IN IF l.typ = "o" THEN acc \o l.data ELSE acc]
           IN OutputOf(lines) = (CHOOSE f : f = It(f))[DOMAIN lines]
BY Zenon DEF OutputOf, FoldLeft, MapThenFoldSet

LEMMA OutputIsFold ==
    \E F : /\ FoldsTo(F, CastLines, Seq(STRING), <<>>, OutStep)
           /\ \A s \in Seq(CastLines) : OutputOf(s) = F[s]
<1> DEFINE none == <<>>
<1>1. none \in Seq(STRING)
  OBVIOUS
<1>2. \A acc \in Seq(STRING), l \in CastLines : l.data \in Seq(STRING) /\ acc \o l.data \in Seq(STRING)
  BY DEF CastLines
<1>3. OutStep \in [Seq(STRING) -> [CastLines -> Seq(STRING)]]
  BY <1>2 DEF OutStep
<1> HIDE DEF none
<1>4. PICK F : FoldsTo(F, CastLines, Seq(STRING), none, OutStep)
  BY <1>1, <1>3, SequenceFold
<1>5. ASSUME NEW s \in Seq(CastLines)
      PROVE  OutputOf(s) = F[s]
  <2> DEFINE It(f) == [u \in SUBSET (DOMAIN s) |->
                         IF u = {} THEN none
                         ELSE LET i == Max(u)
                                  acc == f[u \ {i}]
                                  l == s[i]
                              IN IF l.typ = "o" THEN acc \o l.data ELSE acc]
             f == CHOOSE f : f = It(f)
  <2>1. OutputOf(s) = f[DOMAIN s]
    BY OutputFold DEF none
  <2>2. Len(s) \in Nat /\ DOMAIN s = 1 .. Len(s) /\ \A i \in 1 .. Len(s) : s[i] \in CastLines
    OBVIOUS
  <2>3. PICK h : IsSequenceFold(h, s, Seq(STRING), none, OutStep)
    BY <1>4 DEF FoldsTo
  <2>4. h = It(h)
    <3>1. ASSUME NEW u \in SUBSET (1 .. Len(s)), u # {}
          PROVE  h[u] = LET i == Max(u)
                            acc == h[u \ {i}]
                            l == s[i]
                        IN IF l.typ = "o" THEN acc \o l.data ELSE acc
      <4>1. Max(u) \in 1 .. Len(s) /\ u \ {Max(u)} \in SUBSET (1 .. Len(s))
        BY <2>2, <3>1, MaxOfSet
      <4>2. h[u] = OutStep[h[u \ {Max(u)}]][s[Max(u)]] /\ h[u \ {Max(u)}] \in Seq(STRING)
        BY <2>3, <3>1, <4>1 DEF IsSequenceFold
      <4>3. s[Max(u)] \in CastLines
        BY <2>2, <4>1
      <4>4. QED
        BY <4>2, <4>3 DEF OutStep
    <3>2. h \in [SUBSET (1 .. Len(s)) -> Seq(STRING)] /\ h[{}] = none
      BY <2>3 DEF IsSequenceFold
    <3>3. QED
      BY <2>2, <3>1, <3>2
  <2>5. f = It(f)
    <3> HIDE DEF It
    <3>1. QED
      BY <2>4
  <2> HIDE DEF f
  <2>6. IsPrefixFold(f, s, Seq(STRING), none, OutStep)
    <3>1. \A u \in SUBSET (1 .. Len(s)) : f[u] = It(f)[u]
      <4> HIDE DEF It
      <4>1. QED
        BY <2>5
    <3>2. f[{}] = none
      BY <2>2, <3>1
    <3>3. ASSUME NEW k \in 1 .. Len(s), f[1 .. k - 1] \in Seq(STRING)
          PROVE  f[1 .. k] = OutStep[f[1 .. k - 1]][s[k]]
      <4>1. k \in Nat \ {0} /\ k <= Len(s) /\ 1 .. k \in SUBSET (1 .. Len(s)) /\ 1 .. k # {}
        <5>1. k \in Nat \ {0} /\ k <= Len(s) /\ k \in 1 .. k
          BY <2>2
        <5>2. \A i \in 1 .. k : i \in 1 .. Len(s)
          BY <2>2, <5>1
        <5>3. QED
          BY <5>1, <5>2
      <4>2. Max(1 .. k) = k /\ (1 .. k) \ {k} = 1 .. k - 1
        BY <4>1, MaxOfPrefix
      <4>3. f[1 .. k] = IF s[k].typ = "o" THEN f[1 .. k - 1] \o s[k].data ELSE f[1 .. k - 1]
        BY <2>2, <3>1, <4>1, <4>2
      <4>4. s[k] \in CastLines
        BY <2>2
      <4>5. QED
        BY <3>3, <4>3, <4>4 DEF OutStep
    <3>4. QED
      BY <3>2, <3>3 DEF IsPrefixFold
  <2>7. f[1 .. Len(s)] = F[s]
    BY <1>4, <2>6 DEF FoldsTo
  <2>8. QED
    BY <2>1, <2>2, <2>7
<1>6. QED
  BY <1>4, <1>5 DEF none

LEMMA OutputLineByLine ==
    /\ OutputOf(<<>>) = <<>>
    /\ \A s \in Seq(CastLines) :
          /\ OutputOf(s) \in Seq(STRING)
          /\ \A l \in CastLines :
                OutputOf(Append(s, l)) = IF l.typ = "o" THEN OutputOf(s) \o l.data ELSE OutputOf(s)
<1>1. PICK F : /\ FoldsTo(F, CastLines, Seq(STRING), <<>>, OutStep)
               /\ \A s \in Seq(CastLines) : OutputOf(s) = F[s]
  BY OutputIsFold
<1>2. OutputOf(<<>>) = <<>>
  <2>1. <<>> \in Seq(CastLines)
    OBVIOUS
  <2>2. QED
    BY <1>1, <2>1 DEF FoldsTo
<1>3. ASSUME NEW s \in Seq(CastLines)
      PROVE  OutputOf(s) \in Seq(STRING)
  BY <1>1 DEF FoldsTo
<1>4. ASSUME NEW s \in Seq(CastLines), NEW l \in CastLines
      PROVE  OutputOf(Append(s, l)) = IF l.typ = "o" THEN OutputOf(s) \o l.data ELSE OutputOf(s)
  <2>1. Append(s, l) \in Seq(CastLines)
    BY AppendProperties
  <2>2. F[Append(s, l)] = OutStep[F[s]][l] /\ F[s] \in Seq(STRING)
    BY <1>1 DEF FoldsTo
  <2>3. QED
    BY <1>1, <2>1, <2>2 DEF OutStep
<1>5. QED
  BY <1>2, <1>3, <1>4

(* A header adds nothing to the output.                                    *)
LEMMA HeaderHasNoOutput ==
    ASSUME NEW h \in CastLines, h.typ = "h", NEW s \in Seq(CastLines)
    PROVE  OutputOf(<<h>> \o s) = OutputOf(s)
<1> DEFINE good == {k \in 0 .. Len(s) : OutputOf(<<h>> \o SubSeq(s, 1, k)) = OutputOf(SubSeq(s, 1, k))}
<1>0. Len(s) \in Nat /\ <<h>> \in Seq(CastLines) /\ <<>> \in Seq(CastLines)
  OBVIOUS
<1>1. 0 \in good
  <2>1. OutputOf(Append(<<>>, h)) = OutputOf(<<>>)
    BY <1>0, OutputLineByLine
  <2>2. <<h>> \o <<>> = Append(<<>>, h)
    OBVIOUS
  <2>3. SubSeq(s, 1, 0) = <<>> /\ 0 \in 0 .. Len(s)
    BY <1>0, Beginnings
  <2>4. QED
    BY <2>1, <2>2, <2>3
<1>2. ASSUME NEW k \in 1 .. Len(s), k - 1 \in good
      PROVE  k \in good
  <2>1. PICK a : a = SubSeq(s, 1, k - 1)
    OBVIOUS
  <2>2. /\ a \in Seq(CastLines) /\ SubSeq(s, 1, k) = Append(a, s[k]) /\ s[k] \in CastLines
        /\ OutputOf(<<h>> \o a) = OutputOf(a)
    <3>1. k - 1 \in 0 .. Len(s)
      BY <1>0
    <3>2. QED
      BY <1>2, <2>1, <3>1, Beginnings
  <2>3. <<h>> \o Append(a, s[k]) = Append(<<h>> \o a, s[k])
    BY <1>0, <2>2, ConcatAppend
  <2>4. <<h>> \o a \in Seq(CastLines)
    BY <1>0, <2>2, ConcatProperties
  <2>5. OutputOf(Append(<<h>> \o a, s[k])) = OutputOf(Append(a, s[k]))
    <3>1. PICK b : b = <<h>> \o a
      OBVIOUS
    <3>2. PICK l : l = s[k]
      OBVIOUS
    <3>3. OutputOf(Append(b, l)) = IF l.typ = "o" THEN OutputOf(b) \o l.data ELSE OutputOf(b)
      BY <2>2, <2>4, <3>1, <3>2, OutputLineByLine
    <3>4. OutputOf(Append(a, l)) = IF l.typ = "o" THEN OutputOf(a) \o l.data ELSE OutputOf(a)
      BY <2>2, <3>2, OutputLineByLine
    <3>5. QED
      BY <2>2, <3>1, <3>2, <3>3, <3>4
  <2>6. OutputOf(<<h>> \o SubSeq(s, 1, k)) = OutputOf(SubSeq(s, 1, k))
    BY <2>2, <2>3, <2>5, Zenon
  <2>7. k \in 0 .. Len(s)
    BY <1>0
  <2>8. QED
    BY <2>6, <2>7
<1>3. Len(s) \in good
  <2>1. PICK n : n = Len(s)
    OBVIOUS
  <2>2. n \in Nat /\ good \in SUBSET (0 .. n)
    BY <1>0, <2>1
  <2> HIDE DEF good
  <2>3. \A k \in 0 .. n : k \in good
    BY <1>1, <1>2, <2>1, <2>2, AllNumbers
  <2>4. QED
    BY <2>1, <2>2, <2>3
<1>4. QED
  BY <1>3, Beginnings

(* No line cuts a character: also of the lines with one more, or with a    *)
(* header.                                                                 *)
WholeCharacters(lines) ==
    \A i \in DOMAIN lines : ~CutsCharacter(Len(OutputOf(SubSeq(lines, 1, i))))

LEMMA NothingCutAtStart == ~CutsCharacter(0)
BY DEF CutsCharacter

LEMMA WholeAtEnd ==
    ASSUME NEW s \in Seq(CastLines), WholeCharacters(s)
    PROVE  ~CutsCharacter(Len(OutputOf(s)))
<1>1. CASE s = <<>>
  <2>1. Len(OutputOf(s)) = 0
    BY <1>1, OutputLineByLine, EmptySeq
  <2>2. QED
    BY <2>1, NothingCutAtStart
<1>2. CASE s # <<>>
  <2>1. Len(s) \in DOMAIN s
    BY <1>2, EmptySeq
  <2>2. QED
    BY <2>1, Beginnings DEF WholeCharacters
<1>3. QED
  BY <1>1, <1>2

LEMMA WholeWithOneMore ==
    ASSUME NEW s \in Seq(CastLines), NEW l \in CastLines, WholeCharacters(s),
           ~CutsCharacter(Len(OutputOf(Append(s, l))))
    PROVE  WholeCharacters(Append(s, l))
<1>1. PICK t : t = Append(s, l)
  OBVIOUS
<1>2. t \in Seq(CastLines) /\ Len(s) \in Nat /\ Len(t) = Len(s) + 1 /\ DOMAIN t = 1 .. Len(s) + 1
  BY <1>1
<1>3. ASSUME NEW i \in DOMAIN t
      PROVE  ~CutsCharacter(Len(OutputOf(SubSeq(t, 1, i))))
  <2>1. CASE i = Len(t)
    BY <1>1, <1>2, <2>1, Beginnings
  <2>2. CASE i # Len(t)
    <3>1. i \in DOMAIN s /\ i \in 0 .. Len(s)
      BY <1>2, <2>2
    <3>2. SubSeq(t, 1, i) = SubSeq(s, 1, i)
      BY <1>1, <3>1, BeginningsOfAppend
    <3>3. QED
      BY <3>1, <3>2 DEF WholeCharacters
  <2>3. QED
    BY <2>1, <2>2
<1>4. QED
  BY <1>1, <1>3 DEF WholeCharacters

LEMMA WholeWithHeader ==
    ASSUME NEW h \in CastLines, h.typ = "h", NEW s \in Seq(CastLines), WholeCharacters(s)
    PROVE  WholeCharacters(<<h>> \o s)
<1>1. PICK t : t = <<h>> \o s
  OBVIOUS
<1>2. t \in Seq(CastLines) /\ Len(s) \in Nat /\ Len(t) = 1 + Len(s) /\ DOMAIN t = 1 .. Len(t)
      /\ \A i \in 0 .. Len(s) : SubSeq(t, 1, i + 1) = <<h>> \o SubSeq(s, 1, i)
  <2>1. <<h>> \in Seq(CastLines) /\ Len(<<h>>) = 1 /\ Len(s) \in Nat
    OBVIOUS
  <2>2. QED
    BY <1>1, <2>1, ConcatProperties, BeginningsAfter
<1>3. ASSUME NEW i \in DOMAIN t
      PROVE  ~CutsCharacter(Len(OutputOf(SubSeq(t, 1, i))))
  <2>1. i - 1 \in 0 .. Len(s) /\ (i - 1) + 1 = i
    BY <1>2
  <2>2. SubSeq(t, 1, i) = <<h>> \o SubSeq(s, 1, i - 1) /\ SubSeq(s, 1, i - 1) \in Seq(CastLines)
    BY <1>2, <2>1, Beginnings
  <2>3. OutputOf(SubSeq(t, 1, i)) = OutputOf(SubSeq(s, 1, i - 1))
    BY <2>2, HeaderHasNoOutput
  <2>4. CASE i = 1
    <3>1. SubSeq(s, 1, i - 1) = <<>>
      BY <2>4, Beginnings
    <3>2. Len(OutputOf(SubSeq(t, 1, i))) = 0
      BY <2>3, <3>1, OutputLineByLine, EmptySeq
    <3>3. QED
      BY <3>2, NothingCutAtStart
  <2>5. CASE i # 1
    <3>1. i - 1 \in DOMAIN s
      BY <2>1, <2>5
    <3>2. QED
      BY <2>3, <3>1 DEF WholeCharacters
  <2>6. QED
    BY <2>4, <2>5
<1>4. QED
  BY <1>1, <1>3 DEF WholeCharacters

(* The lines b hold the output of a, and cut no more characters.           *)
SameOutput(a, b) ==
    /\ b \in Seq(CastLines)
    /\ OutputOf(b) = OutputOf(a) /\ (WholeCharacters(a) => WholeCharacters(b))

LEMMA SameWithOneMore ==
    ASSUME NEW s \in Seq(CastLines), NEW l \in CastLines, l.typ # "o"
    PROVE  SameOutput(s, Append(s, l))
<1>1. Append(s, l) \in Seq(CastLines) /\ OutputOf(Append(s, l)) = OutputOf(s)
  BY OutputLineByLine, AppendProperties
<1>2. QED
  BY <1>1, WholeAtEnd, WholeWithOneMore DEF SameOutput

LEMMA SameWithHeader ==
    ASSUME NEW s \in Seq(CastLines), NEW h \in CastLines, h.typ = "h"
    PROVE  SameOutput(s, <<h>> \o s)
<1>1. <<h>> \o s \in Seq(CastLines)
  <2>1. <<h>> \in Seq(CastLines)
    OBVIOUS
  <2>2. QED
    BY <2>1, ConcatProperties
<1>2. QED
  BY <1>1, HeaderHasNoOutput, WholeWithHeader DEF SameOutput

LEMMA AllWithOneMore ==
    ASSUME TypeOK, NEW r, NEW l, Adds(q, r, l)
    PROVE  All(r) = Append(Lines, l)
<1> DEFINE written == file \o flusher.lines
           queued == q.lines
<1>1. written \in Seq(CastLines) /\ queued \in Seq(CastLines) /\ l \in CastLines
  BY LinesTyped DEF Adds
<1>2. All(r) = written \o Append(queued, l) /\ Lines = written \o queued
  BY DEF All, Lines, Adds
<1> HIDE DEF written, queued
<1>3. written \o Append(queued, l) = Append(written \o queued, l)
  BY <1>1, ConcatAppend
<1>4. QED
  BY <1>2, <1>3

(* Nothing but a line of input was added, or nothing at all.               *)
LEMMA SettledOutput ==
    ASSUME TypeOK, NEW r, NEW p, Keeps(q, r) \/ \E l \in CastLines : LineOf(l, p, q, r)
    PROVE  SameOutput(Lines, All(r))
<1>1. CASE Keeps(q, r)
  <2>1. All(r) = Lines
    BY <1>1 DEF Keeps, All, Lines
  <2>2. QED
    BY <2>1, LinesTyped DEF SameOutput
<1>2. CASE \E l \in CastLines : LineOf(l, p, q, r)
  <2>1. PICK l \in CastLines : LineOf(l, p, q, r)
    BY <1>2
  <2>2. Adds(q, r, l) /\ l.typ # "o"
    BY <2>1 DEF LineOf
  <2>3. All(r) = Append(Lines, l)
    BY <2>2, AllWithOneMore
  <2>4. QED
    BY <2>2, <2>3, LinesTyped, SameWithOneMore
<1>3. QED
  BY <1>1, <1>2

(* What the flusher takes comes behind the header, once; so does what      *)
(* Close takes.                                                            *)
LEMMA TakenLines ==
    ASSUME TypeOK, PhasesAgree, HeaderFirst, NEW r, TakenFrom(r)
    PROVE  Lines' = All(r) \/ \E h \in CastLines : h.typ = "h" /\ Lines' = <<h>> \o All(r)
<1>1. file' = file /\ flusher.at = "wait" /\ r \in Queues /\ file \in Seq(CastLines)
      /\ r.lines \in Seq(CastLines)
  BY LinesTyped DEF TakenFrom, Fine, Queues
<1>2. CASE q' = r /\ flusher' = flusher
  BY <1>1, <1>2 DEF Lines, All
<1>3. CASE Takes(r, DecideHeader(r))
  <2> DEFINE headed == DecideHeader(r)
  <2> HIDE DEF headed
  <2>0. Takes(r, headed)
    BY <1>3 DEF headed
  <2>1. q'.lines = <<>> /\ headed.lines = r.lines
    BY <2>0 DEF Queues, Takes, After
  <2>2. flusher.lines = <<>>
    BY <1>1 DEF PhasesAgree
  <2>3. flusher'.lines = HeaderLine(headed) \o r.lines
    <3> DEFINE taken == HeaderLine(headed) \o headed.lines
    <3>1. flusher' = IF taken = <<>> THEN flusher ELSE [at |-> "write", lines |-> taken]
      BY <2>0 DEF Takes
    <3> HIDE DEF taken
    <3>2. flusher'.lines = taken
      BY <2>2, <3>1
    <3>3. QED
      BY <2>1, <3>2 DEF taken
  <2>4. file \o <<>> = file /\ <<>> \o r.lines = r.lines
    BY <1>1, ConcatEmptySeq
  <2>5. All(r) = file \o r.lines /\ Lines' = (file \o (HeaderLine(headed) \o r.lines)) \o <<>>
    BY <1>1, <2>1, <2>2, <2>3, <2>4 DEF All, Lines
  <2>6. CASE headed.header = "flushed"
    <3>1. HeaderLine(headed) = <<>>
      BY <2>6 DEF HeaderLine
    <3>2. file \o r.lines \in Seq(CastLines)
      BY <1>1, ConcatProperties
    <3>3. (file \o r.lines) \o <<>> = file \o r.lines
      BY <3>2, ConcatEmptySeq
    <3>4. QED
      BY <2>4, <2>5, <3>1, <3>3
  <2>7. CASE headed.header = "line"
    <3> DEFINE h == SizeLine("h", headed.headerSize, 0)
    <3>1. HeaderLine(headed) = <<h>>
      BY <2>7 DEF HeaderLine
    <3>2. file = <<>>
      <4>1. q.header # "flushed"
        BY <2>0, <2>7 DEF QueueMoves, Takes, TakenFrom
      <4>2. closer.at \notin {"meta", "done"}
        BY <1>1 DEF PhasesAgree
      <4>3. QED
        BY <4>1, <4>2 DEF HeaderFirst
    <3>3. h \in CastLines /\ h.typ = "h"
      <4>1. headed \in Queues
        BY <2>0 DEF Takes
      <4>2. QED
        BY <4>1, HeaderLineTyped DEF SizeLine, Line
    <3> HIDE DEF h
    <3>4. <<h>> \in Seq(CastLines) /\ <<h>> \o r.lines \in Seq(CastLines)
      <4>1. <<h>> \in Seq(CastLines)
        BY <3>3
      <4>2. QED
        BY <1>1, <4>1, ConcatProperties
    <3>5. PICK more : more = <<h>> \o r.lines
      OBVIOUS
    <3>6. <<>> \o more = more /\ more \o <<>> = more
      BY <3>4, <3>5, ConcatEmptySeq
    <3>7. Lines' = more /\ All(r) = r.lines
      BY <2>4, <2>5, <3>1, <3>2, <3>5, <3>6
    <3>8. QED
      BY <3>3, <3>5, <3>7
  <2>8. QED
    BY <2>0, <2>6, <2>7 DEF Takes
<1>4. QED
  BY <1>2, <1>3 DEF TakenFrom

LEMMA LastLines ==
    ASSUME TypeOK, PhasesAgree, HeaderFirst, CloseTake
    PROVE  Lines' = Lines \/ \E h \in CastLines : h.typ = "h" /\ Lines' = <<h>> \o Lines
<1>1. /\ q \in Queues /\ file \in Seq(CastLines) /\ q.lines \in Seq(CastLines)
      /\ file \o q.lines \in Seq(CastLines)
  BY LinesTyped, ConcatProperties DEF TypeOK
<1>2. /\ q' = [q EXCEPT !.lines = <<>>, !.header = IF @ = "line" THEN "none" ELSE @]
      /\ closer.at = "wait" /\ flusher.at = "gone"
      /\ file' = file \o HeaderLine(q) \o q.lines /\ flusher' = flusher
  BY DEF CloseTake, NotCloser
<1>3. q'.lines = <<>>
  BY <1>1, <1>2 DEF Queues
<1>4. flusher.lines = <<>> /\ q.header \in {"line", "flushed"}
  BY <1>1, <1>2 DEF PhasesAgree, Queues
<1>5. file \o <<>> = file /\ <<>> \o q.lines = q.lines
  BY <1>1, ConcatEmptySeq
<1>6. Lines = file \o q.lines /\ Lines' = (file' \o <<>>) \o <<>>
  BY <1>2, <1>3, <1>4, <1>5 DEF Lines
<1>7. CASE q.header = "flushed"
  <2>1. HeaderLine(q) = <<>>
    BY <1>7 DEF HeaderLine
  <2>2. file' = file \o q.lines
    BY <1>2, <1>5, <2>1
  <2>3. file' \o <<>> = file'
    BY <1>1, <2>2, ConcatEmptySeq
  <2>4. QED
    BY <1>6, <2>2, <2>3
<1>8. CASE q.header = "line"
  <2> DEFINE h == SizeLine("h", q.headerSize, 0)
  <2>1. HeaderLine(q) = <<h>>
    BY <1>8 DEF HeaderLine
  <2>2. file = <<>>
    BY <1>2, <1>8 DEF HeaderFirst
  <2>3. h \in CastLines /\ h.typ = "h"
    BY <1>1, HeaderLineTyped DEF SizeLine, Line
  <2> HIDE DEF h
  <2>4. <<h>> \in Seq(CastLines)
    BY <2>3
  <2>5. <<h>> \o q.lines \in Seq(CastLines) /\ <<>> \o <<h>> = <<h>>
    BY <1>1, <2>4, ConcatProperties, ConcatEmptySeq
  <2>6. file' = <<h>> \o q.lines
    BY <1>2, <2>1, <2>2, <2>5
  <2>7. file' \o <<>> = file'
    BY <2>5, <2>6, ConcatEmptySeq
  <2>8. Lines = q.lines
    BY <1>5, <1>6, <2>2
  <2>9. QED
    BY <1>6, <2>3, <2>6, <2>7, <2>8
<1>9. QED
  BY <1>4, <1>7, <1>8

LEMMA SilentLines ==
    ASSUME TypeOK, PhasesAgree, Silent
    PROVE  Lines' = Lines
<1>1. /\ q' = q
      /\ CloseTail \/ FlushWrite \/ (file' = file)
      /\ FlushWrite \/ (flusher'.lines = flusher.lines) \/ FlushEnd
  BY SilentStep
<1>2. CloseTail => file' = file
  BY Zenon DEF CloseTail, diskVars
<1>3. FlushEnd => flusher'.lines = flusher.lines
  BY DEF FlushEnd, PhasesAgree
<1>4. CASE ~FlushWrite
  BY <1>1, <1>2, <1>3, <1>4 DEF Lines
<1>5. CASE FlushWrite
  <2>1. file' = file \o flusher.lines /\ flusher'.lines = <<>>
    BY <1>5 DEF FlushWrite
  <2>2. file' \o <<>> = file'
    BY <2>1, LinesTyped, ConcatEmptySeq
  <2>3. QED
    BY <1>1, <2>1, <2>2 DEF Lines
<1>6. QED
  BY <1>4, <1>5

(* Only WriteOutput, and Close with the tail, add to the output.           *)
LEMMA OutputRests ==
    ASSUME RecorderConstants, TypeOK, PhasesAgree, HeaderFirst, InputsKnown, Next,
           ~OutputAppend, ~CloseTailAppend
    PROVE  SameOutput(Lines, Lines')
<1>0. Lines \in Seq(CastLines) /\ SameOutput(Lines, Lines)
  BY LinesTyped DEF SameOutput
<1>1. ASSUME NEW s, SameOutput(Lines, s),
             Lines' = s \/ \E h \in CastLines : h.typ = "h" /\ Lines' = <<h>> \o s
      PROVE  SameOutput(Lines, Lines')
  <2>1. CASE Lines' = s
    BY <1>1, <2>1
  <2>2. CASE \E h \in CastLines : h.typ = "h" /\ Lines' = <<h>> \o s
    <3>1. PICK h \in CastLines : h.typ = "h" /\ Lines' = <<h>> \o s
      BY <2>2
    <3>2. PICK t : t = Lines'
      OBVIOUS
    <3>3. s \in Seq(CastLines)
      BY <1>1 DEF SameOutput
    <3>4. SameOutput(s, t)
      BY <3>1, <3>2, <3>3, SameWithHeader
    <3>5. SameOutput(Lines, t)
      BY <1>1, <3>4 DEF SameOutput
    <3>6. QED
      BY <3>2, <3>5
  <2>3. QED
    BY <1>1, <2>1, <2>2
<1>2. CASE Settles
  <2>1. PICK r : SettlesBy(r)
    BY <1>2, SettleStep
  <2>2. SettledTo(pend, r) /\ file' = file /\ flusher' = flusher /\ q'.lines = r.lines
    BY <2>1 DEF SettlesBy, After
  <2>3. SameOutput(Lines, All(r))
    BY <2>2, SettledOutput DEF SettledTo
  <2>4. Lines' = All(r)
    BY <2>2 DEF Lines, All
  <2>5. QED
    BY <1>1, <2>3, <2>4
<1>3. CASE OutputMatch
  <2> DEFINE matched == MatchPending(pump.block)
  <2>1. /\ q' = q \/ SettledTo(matched, q')
        /\ file' = file /\ flusher' = flusher
    BY <1>3, MatchStep
  <2> HIDE DEF matched
  <2>2. PICK r : r = q'
    OBVIOUS
  <2>3. SameOutput(Lines, All(r))
    <3>1. CASE q' = q
      BY <1>0, <2>2, <3>1 DEF Lines, All
    <3>2. CASE SettledTo(matched, r)
      BY <3>2, SettledOutput DEF SettledTo
    <3>3. QED
      BY <2>1, <2>2, <3>1, <3>2
  <2>4. Lines' = All(r)
    BY <2>1, <2>2 DEF Lines, All
  <2>5. QED
    BY <1>1, <2>3, <2>4
<1>4. CASE ReaderAppend
  <2>1. PICK line \in CastLines :
               /\ AppendedTo(line) /\ line.typ = reader.line.typ
               /\ file' = file /\ flusher' = flusher
    BY <1>4, AppendStep
  <2>2. line.typ # "o"
    BY <1>4, <2>1 DEF ReaderAppend, InputsKnown
  <2>3. q'.lastT \in Nat
    BY <2>1 DEF AppendedTo, QueueMoves, Queues
  <2>4. PICK r : r = q'
    OBVIOUS
  <2>5. SameOutput(Lines, All(r))
    <3>1. CASE Keeps(q, r)
      BY <3>1, SettledOutput
    <3>2. CASE Adds(q, r, [line EXCEPT !.t = r.lastT])
      <4> DEFINE l == [line EXCEPT !.t = r.lastT]
      <4>1. l \in CastLines /\ l.typ # "o"
        BY <2>2, <2>3, <2>4, LineTypes
      <4>2. Adds(q, r, l)
        BY <3>2
      <4> HIDE DEF l
      <4>3. All(r) = Append(Lines, l)
        BY <4>2, AllWithOneMore
      <4>4. QED
        BY <1>0, <4>1, <4>3, SameWithOneMore
    <3>3. QED
      BY <2>1, <2>4, <3>1, <3>2 DEF AppendedTo
  <2>6. Lines' = All(r)
    BY <2>1, <2>4 DEF Lines, All
  <2>7. QED
    BY <1>1, <2>5, <2>6
<1>5. CASE FlushTake
  <2>1. PICK r : TakenFrom(r)
    BY <1>5, TakeStep
  <2>2. SameOutput(Lines, All(r))
    BY <2>1, SettledOutput DEF TakenFrom
  <2>3. Lines' = All(r) \/ \E h \in CastLines : h.typ = "h" /\ Lines' = <<h>> \o All(r)
    BY <2>1, TakenLines
  <2>4. QED
    BY <1>1, <2>2, <2>3
<1>6. CASE CloseTake
  BY <1>0, <1>1, <1>6, LastLines
<1>7. CASE Silent
  BY <1>0, <1>1, <1>7, SilentLines
<1>8. QED
  BY <1>2, <1>3, <1>4, <1>5, <1>6, <1>7, StepsAre

(* Nothing that was dropped, and no limit, is forgotten.                   *)
LEMMA LossesStay ==
    ASSUME RecorderConstants, TypeOK, PhasesAgree, Next, q'.dropped = 0, ~q'.stopped
    PROVE  q.dropped = 0 /\ ~q.stopped
<1>1. q.dropped \in Nat /\ q'.dropped \in Nat /\ q \in Queues
  BY QueueTyped DEF TypeOK, Queues
<1>2. q.dropped = 0
  BY <1>1, QueueStep
<1>3. q.stopped => q'.stopped
  <2>1. CASE Settles
    BY <2>1, SettleStep DEF SettlesBy, SettledTo, QueueMoves, After
  <2>2. CASE OutputMatch
    BY <2>2, MatchStep DEF SettledTo, QueueMoves
  <2>3. CASE OutputAppend \/ ReaderAppend \/ CloseTailAppend
    BY <2>3, AppendStep DEF AppendedTo, QueueMoves
  <2>4. CASE FlushTake
    <3>1. PICK r : TakenFrom(r)
      BY <2>4, TakeStep
    <3>2. QueueMoves(q, r) /\ (q' = r \/ Takes(r, DecideHeader(r)))
      BY <3>1 DEF TakenFrom
    <3> DEFINE headed == DecideHeader(r)
    <3> HIDE DEF headed
    <3>3. Takes(r, headed) => q'.stopped = headed.stopped
      BY DEF Takes, Queues
    <3>4. QED
      BY <3>2, <3>3 DEF QueueMoves, Takes, After, headed
  <2>5. CASE CloseTake
    BY <1>1, <2>5 DEF CloseTake, Queues
  <2>6. CASE Silent
    BY <2>6, SilentStep
  <2>7. QED
    BY <2>1, <2>2, <2>3, <2>4, <2>5, <2>6, StepsAre
<1>4. QED
  BY <1>2, <1>3

(* A line of output is in the recording, or its loss is noted.             *)
LEMMA OutputLands ==
    ASSUME RecorderConstants, NEW r \in Queues, Len(r.lines) <= PendingCap, ~r.closed,
           NEW block \in Seq(STRING), NEW t \in Nat,
           NEW s, s = AppendLine(r, OutputLine(block, t)), s.dropped = 0, ~s.stopped
    PROVE  \E l \in CastLines : Adds(r, s, l) /\ l.typ = "o" /\ l.data = Encode(block)
<1> DEFINE line == OutputLine(block, t)
           at == Later(line.t, r.lastT)
           length == Len(r.lines) + 1
           headed == IF length >= HeaderQueueCap THEN DecideHeader(r) ELSE r
           l == [line EXCEPT !.t = at]
           full == [headed EXCEPT !.lines = Append(@, l), !.bytes = @ + 1, !.lastT = at]
<1>1. line \in CastLines /\ line.typ = "o" /\ line.data = Encode(block) /\ r.dropped \in Nat
  <2>1. line.data = Encode(block)
    BY DEF OutputLine, Line
  <2> HIDE DEF line
  <2>2. line \in CastLines /\ line.typ = "o"
    BY LineTypes DEF line
  <2>3. QED
    BY <2>1, <2>2 DEF Queues
<1>2. ~Refused(r, line.typ)
  <2>1. Refused(r, line.typ) => s = r /\ r.stopped
    BY <1>1 DEF AppendLine, Refused
  <2>2. QED
    BY <2>1
<1>3. s # [r EXCEPT !.stopped = TRUE] /\ s # [r EXCEPT !.dropped = @ + 1]
  BY <1>1 DEF Queues
<1>4. s = full
  BY <1>2, <1>3 DEF AppendLine
<1> HIDE DEF line
<1>5. ~Keeps(r, s)
  <2>1. headed \in Queues /\ headed.lines = r.lines /\ r.lines \in Seq(CastLines)
    BY DecideHeaderMoves DEF QueueMoves, Keeps, Queues
  <2>2. l \in CastLines
    <3>1. at \in Nat
      BY <1>1 DEF Later, Queues, CastLines
    <3> HIDE DEF at
    <3>2. QED
      BY <1>1, <3>1 DEF CastLines
  <2> HIDE DEF l, headed, at
  <2>3. s.lines = Append(r.lines, l)
    BY <1>4, <2>1 DEF Queues
  <2>4. Append(r.lines, l) # r.lines
    BY <2>1, <2>2, AppendProperties
  <2>5. QED
    BY <2>3, <2>4 DEF Keeps
<1>6. Adds(r, s, [line EXCEPT !.t = s.lastT]) /\ QueueMoves(r, s)
  BY <1>1, <1>5, AppendLineMoves DEF line
<1>7. s.lastT \in Nat
  BY <1>6 DEF QueueMoves, Queues
<1>8. /\ [line EXCEPT !.t = s.lastT] \in CastLines /\ [line EXCEPT !.t = s.lastT].typ = "o"
      /\ [line EXCEPT !.t = s.lastT].data = Encode(block)
  BY <1>1, <1>7 DEF CastLines
<1>9. QED
  BY <1>6, <1>8

LEMMA OutputAdded ==
    ASSUME RecorderConstants, TypeOK, ~q.closed, q'.dropped = 0, ~q'.stopped,
           NEW block, (OutputAppend /\ block = pump.block) \/ (CloseTailAppend /\ block = closer.block)
    PROVE  /\ block \in Seq(STRING)
           /\ \E l \in CastLines :
                 l.typ = "o" /\ l.data = Encode(block) /\ Lines' = Append(Lines, l)
<1>1. q \in Queues /\ Len(q.lines) <= PendingCap /\ now \in Nat
  BY SettingsKnown DEF TypeOK
<1>2. block \in Seq(STRING) /\ \E t \in Nat : q' = AppendLine(q, OutputLine(block, t))
  <2>1. CASE OutputAppend /\ block = pump.block
    <3>1. pump.block \in Seq(STRING) /\ pump.since \in 0 .. now
      BY DEF TypeOK
    <3>2. PICK t \in pump.since .. now : q' = AppendLine(q, OutputLine(pump.block, t))
      BY <2>1 DEF OutputAppend
    <3>3. t \in Nat
      BY <1>1, <3>1
    <3>4. QED
      BY <2>1, <3>1, <3>2, <3>3
  <2>2. CASE CloseTailAppend /\ block = closer.block
    <3>1. closer.block \in Seq(STRING) /\ closer.since \in 0 .. now
      <4>1. closer.at = "tail"
        BY <2>2 DEF CloseTailAppend
      <4>2. closer \in [at : {"tail"}, block : Seq(STRING), since : 0 .. now]
        BY <4>1 DEF TypeOK
      <4>3. QED
        BY <4>2
    <3>2. PICK t \in closer.since .. now : q' = AppendLine(q, OutputLine(closer.block, t))
      BY <2>2 DEF CloseTailAppend
    <3>3. t \in Nat
      BY <1>1, <3>1
    <3>4. QED
      BY <2>2, <3>1, <3>2, <3>3
  <2>3. QED
    BY <2>1, <2>2
<1>3. PICK t \in Nat : q' = AppendLine(q, OutputLine(block, t))
  BY <1>2
<1>4. PICK s : s = q'
  OBVIOUS
<1>5. PICK l \in CastLines : Adds(q, s, l) /\ l.typ = "o" /\ l.data = Encode(block)
  BY <1>1, <1>2, <1>3, <1>4, OutputLands
<1>6. All(s) = Append(Lines, l)
  BY <1>5, AllWithOneMore
<1>7. Lines' = All(s)
  BY <1>4 DEF OutputAppend, CloseTailAppend, NotCloser, diskVars, Lines, All
<1>8. QED
  BY <1>2, <1>5, <1>6, <1>7

(* What SplitUTF8Tail cuts off is the beginning of a character, if it cuts *)
(* anything off; otherwise no character is unfinished.                     *)
LEMMA SplitMeans ==
    ASSUME NEW b \in Seq(STRING)
    PROVE  LET complete == SplitUTF8Tail(b).complete
               rest == SplitUTF8Tail(b).rest
           IN /\ complete \in Seq(STRING) /\ rest \in Seq(STRING) /\ complete \o rest = b
              /\ \/ /\ complete = b
                    /\ \A i \in 1 .. Len(b) :
                          b[i] \in DOMAIN Lead /\ (\A j \in i + 1 .. Len(b) : b[j] = "c")
                             => Len(b) - i >= Lead[b[i]]
                 \/ Len(complete) < Len(b) /\ b[Len(complete) + 1] # "c"
<1> DEFINE heads == {i \in DOMAIN b : b[i] # "c"}
           i == CHOOSE i \in heads : \A j \in heads : j <= i
           cuts == heads # {} /\ b[i] \in DOMAIN Lead /\ Len(b) - i < Lead[b[i]]
<1>0. Len(b) \in Nat /\ DOMAIN b = 1 .. Len(b) /\ heads \in SUBSET (1 .. Len(b))
  OBVIOUS
<1>1. SplitUTF8Tail(b) = IF cuts
                         THEN [complete |-> SubSeq(b, 1, i - 1), rest |-> SubSeq(b, i, Len(b))]
                         ELSE [complete |-> b, rest |-> <<>>]
  BY Zenon DEF SplitUTF8Tail
<1>2. heads # {} => i \in heads /\ \A j \in heads : j <= i
  <2> HIDE DEF heads
  <2>1. heads # {} => \E k \in heads : \A j \in heads : j <= k
    BY <1>0, LastExists
  <2>2. QED
    BY <2>1
<1> HIDE DEF i
<1>3. CASE cuts
  <2>1. i \in 1 .. Len(b) /\ b[i] # "c"
    BY <1>2, <1>3
  <2>2. PICK x : x = SubSeq(b, 1, i - 1)
    OBVIOUS
  <2>3. PICK y : y = SubSeq(b, i, Len(b))
    OBVIOUS
  <2>4. SplitUTF8Tail(b).complete = x /\ SplitUTF8Tail(b).rest = y
    <3> HIDE DEF cuts, heads
    <3>1. SplitUTF8Tail(b) = [complete |-> x, rest |-> y]
      BY <1>1, <1>3, <2>2, <2>3
    <3>2. QED
      BY <3>1
  <2>5. x \in Seq(STRING) /\ Len(x) = i - 1 /\ \A k \in 1 .. i - 1 : x[k] = b[k]
    <3>1. i - 1 \in 0 .. Len(b)
      BY <1>0, <2>1
    <3>2. QED
      BY <2>2, <3>1, Beginnings
  <2>6. /\ y \in Seq(STRING) /\ Len(y) = Len(b) - i + 1
        /\ \A k \in 1 .. Len(b) - i + 1 : y[k] = b[i + k - 1]
    <3>1. \A k \in i .. Len(b) : b[k] \in STRING
      BY <1>0, <2>1
    <3>2. i \in Int /\ Len(b) \in Int /\ i <= Len(b)
      BY <1>0, <2>1
    <3>3. QED
      BY <2>3, <3>1, <3>2, SubSeqProperties
  <2>7. x \o y = b
    <3>1. /\ x \o y \in Seq(STRING) /\ Len(x \o y) = Len(b)
          /\ \A k \in 1 .. Len(b) : (x \o y)[k] = IF k <= i - 1 THEN x[k] ELSE y[k - (i - 1)]
      <4>1. Len(x) + Len(y) = Len(b)
        BY <1>0, <2>1, <2>5, <2>6
      <4>2. QED
        BY <2>5, <2>6, <4>1, ConcatProperties
    <3>2. ASSUME NEW k \in 1 .. Len(b)
          PROVE  (x \o y)[k] = b[k]
      <4>1. CASE k <= i - 1
        <5>1. k \in 1 .. i - 1
          BY <1>0, <2>1, <4>1
        <5>2. QED
          BY <2>5, <3>1, <4>1, <5>1
      <4>2. CASE ~(k <= i - 1)
        <5>1. k - (i - 1) \in 1 .. Len(b) - i + 1 /\ i + (k - (i - 1)) - 1 = k
          BY <1>0, <2>1, <4>2
        <5>2. QED
          BY <2>6, <3>1, <4>2, <5>1
      <4>3. QED
        BY <4>1, <4>2
    <3>3. QED
      BY <3>1, <3>2, SeqEqual
  <2>8. Len(x) < Len(b) /\ b[Len(x) + 1] # "c"
    BY <1>0, <2>1, <2>5
  <2>9. QED
    BY <2>4, <2>5, <2>6, <2>7, <2>8
<1>4. CASE ~cuts
  <2>1. SplitUTF8Tail(b).complete = b /\ SplitUTF8Tail(b).rest = <<>>
    BY <1>1, <1>4
  <2>2. b \o <<>> = b /\ <<>> \in Seq(STRING)
    BY ConcatEmptySeq
  <2>3. ASSUME NEW k \in 1 .. Len(b), b[k] \in DOMAIN Lead, \A j \in k + 1 .. Len(b) : b[j] = "c"
        PROVE  Len(b) - k >= Lead[b[k]]
    <3>1. b[k] # "c" /\ Lead[b[k]] \in Nat
      BY <2>3 DEF Lead
    <3>2. k \in heads /\ heads # {}
      BY <1>0, <3>1
    <3>3. i \in heads /\ k <= i /\ i \in 1 .. Len(b) /\ b[i] # "c"
      BY <1>2, <3>2
    <3>4. i = k
      <4>1. ~(i \in k + 1 .. Len(b))
        BY <2>3, <3>3
      <4>2. QED
        BY <1>0, <3>3, <4>1
    <3>5. ~(Len(b) - k < Lead[b[k]])
      BY <1>4, <2>3, <3>2, <3>4
    <3>6. QED
      BY <1>0, <3>1, <3>5
  <2>4. QED
    BY <2>1, <2>2, <2>3
<1>5. QED
  BY <1>3, <1>4

(* So the end of what is complete is the end of a character, if the block  *)
(* began at the end of one.                                                *)
LEMMA SplitKeepsCharacters ==
    ASSUME work.shell \in Seq(STRING), NEW p \in Nat, NEW b \in Seq(STRING),
           p + Len(b) <= Len(work.shell), \A i \in 1 .. Len(b) : b[i] = work.shell[p + i],
           ~CutsCharacter(p)
    PROVE  ~CutsCharacter(p + Len(SplitUTF8Tail(b).complete))
<1>1. PICK x : x = SplitUTF8Tail(b).complete
  OBVIOUS
<1>2. PICK n : n = Len(x)
  OBVIOUS
<1>3. /\ n \in 0 .. Len(b) /\ Len(b) \in Nat /\ Len(work.shell) \in Nat
      /\ \/ /\ n = Len(b)
            /\ \A i \in 1 .. Len(b) :
                  b[i] \in DOMAIN Lead /\ (\A j \in i + 1 .. Len(b) : b[j] = "c")
                     => Len(b) - i >= Lead[b[i]]
         \/ n < Len(b) /\ b[n + 1] # "c"
  <2>1. PICK y : y = SplitUTF8Tail(b).rest
    OBVIOUS
  <2>2. x \in Seq(STRING) /\ y \in Seq(STRING) /\ x \o y = b
    BY <1>1, <2>1, SplitMeans
  <2>3. Len(x) \in Nat /\ Len(y) \in Nat /\ Len(b) = Len(x) + Len(y) /\ Len(work.shell) \in Nat
    BY <2>2, ConcatProperties
  <2>4. n \in 0 .. Len(b) /\ Len(b) \in Nat
    BY <1>2, <2>3
  <2>5. \/ /\ n = Len(b)
           /\ \A i \in 1 .. Len(b) :
                 b[i] \in DOMAIN Lead /\ (\A j \in i + 1 .. Len(b) : b[j] = "c")
                    => Len(b) - i >= Lead[b[i]]
        \/ n < Len(b) /\ b[n + 1] # "c"
    BY <1>1, <1>2, SplitMeans, Zenon
  <2>6. QED
    BY <2>3, <2>4, <2>5
<1>4. SUFFICES ASSUME NEW k \in 1 .. p + n, CharacterAt(k), p + n < k + Lead[work.shell[k]]
               PROVE  FALSE
  BY <1>1, <1>2 DEF CutsCharacter
<1>5. PICK L : L = Lead[work.shell[k]]
  OBVIOUS
<1>6. /\ work.shell[k] \in DOMAIN Lead /\ L \in Nat /\ k + L <= Len(work.shell) /\ k \in Nat
      /\ \A j \in k + 1 .. k + L : work.shell[j] = "c"
  BY <1>3, <1>4, <1>5 DEF CharacterAt, CharacterIn, Lead
<1>7. CASE k <= p
  <2>1. k \in 1 .. p
    BY <1>3, <1>7
  <2>2. ~(p < k + L)
    BY <1>4, <1>5, <2>1 DEF CutsCharacter
  <2>3. QED
    BY <1>3, <1>4, <1>5, <1>6, <2>2
<1>8. CASE ~(k <= p)
  <2>1. PICK i : i = k - p
    OBVIOUS
  <2>2. i \in 1 .. n /\ i \in 1 .. Len(b) /\ p + i = k
    BY <1>3, <1>4, <1>8, <2>1
  <2>3. b[i] = work.shell[k]
    BY <2>2
  <2>4. CASE n < Len(b) /\ b[n + 1] # "c"
    <3>1. n + 1 \in 1 .. Len(b) /\ p + (n + 1) \in k + 1 .. k + L
      BY <1>3, <1>4, <1>5, <1>6, <2>4
    <3>2. b[n + 1] = work.shell[p + (n + 1)]
      BY <3>1
    <3>3. QED
      BY <1>6, <2>4, <3>1, <3>2
  <2>5. CASE n = Len(b) /\ \A j \in 1 .. Len(b) :
                  b[j] \in DOMAIN Lead /\ (\A m \in j + 1 .. Len(b) : b[m] = "c")
                     => Len(b) - j >= Lead[b[j]]
    <3>1. ASSUME NEW j \in i + 1 .. Len(b)
          PROVE  b[j] = "c"
      <4>1. j \in 1 .. Len(b) /\ p + j \in k + 1 .. k + L
        BY <1>3, <1>4, <1>5, <1>6, <2>2, <2>5
      <4>2. QED
        BY <1>6, <4>1
    <3>2. Len(b) - i >= L
      BY <1>5, <1>6, <2>2, <2>3, <2>5, <3>1
    <3>3. QED
      BY <1>3, <1>4, <1>5, <1>6, <2>2, <2>5, <3>2
  <2>6. QED
    BY <1>3, <2>4, <2>5
<1>9. QED
  BY <1>3, <1>4, <1>7, <1>8

(* A part of the shell's output.                                           *)
LEMMA PartOfShell ==
    ASSUME work.shell \in Seq(STRING), NEW n \in Nat, NEW m \in Nat, n <= m,
           m <= Len(work.shell), NEW y, y = SubSeq(work.shell, n + 1, m)
    PROVE  y \in Seq(STRING) /\ Len(y) = m - n /\ \A i \in 1 .. m - n : y[i] = work.shell[n + i]
<1>0. Len(work.shell) \in Nat
  OBVIOUS
<1>1. CASE n = m
  <2>1. y = <<>>
    BY <1>0, <1>1
  <2>2. QED
    BY <1>1, <2>1
<1>2. CASE n # m
  <2>1. /\ n + 1 \in Int /\ m \in Int /\ n + 1 <= m
        /\ \A k \in n + 1 .. m : work.shell[k] \in STRING
    BY <1>0, <1>2
  <2>2. /\ y \in Seq(STRING) /\ Len(y) = m - (n + 1) + 1
        /\ \A k \in 1 .. m - (n + 1) + 1 : y[k] = work.shell[(n + 1) + k - 1]
    BY <2>1, SubSeqProperties
  <2>3. m - (n + 1) + 1 = m - n /\ \A k \in 1 .. m - n : (n + 1) + k - 1 = n + k
    OBVIOUS
  <2>4. QED
    BY <2>2, <2>3
<1>3. QED
  BY <1>1, <1>2

(* Encoding piece by piece gives the same if no character is cut between   *)
(* the pieces.                                                             *)
LEMMA EncodeEmpty == Encode(<<>>) = <<>>
<1>1. <<>> \in Seq(STRING)
  OBVIOUS
<1>2. PICK e : e = Encode(<<>>)
  OBVIOUS
<1>3. e \in Seq(STRING) /\ Len(e) = 0
  BY <1>1, <1>2, EncodeTyped, EmptySeq
<1>4. QED
  BY <1>2, <1>3, EmptySeq

(* b is the part of s behind its first p bytes, or a beginning of it.      *)
PartOf(b, s, p) ==
    Len(b) \in Nat /\ p + Len(b) <= Len(s) /\ \A i \in 1 .. Len(b) : b[i] = s[p + i]

LEMMA CharacterOfPart ==
    ASSUME NEW s \in Seq(STRING), NEW b \in Seq(STRING), NEW p \in Nat, PartOf(b, s, p),
           NEW k \in 1 .. Len(b)
    PROVE  /\ CharacterIn(b, k) <=> CharacterIn(s, p + k) /\ p + k + Lead[b[k]] <= p + Len(b)
           /\ b[k] = s[p + k]
<1>1. /\ Len(b) \in Nat /\ Len(s) \in Nat /\ k \in Nat /\ b[k] = s[p + k]
      /\ p + Len(b) <= Len(s)
  BY DEF PartOf
<1>2. CASE b[k] \notin DOMAIN Lead
  BY <1>1, <1>2 DEF CharacterIn
<1>3. CASE b[k] \in DOMAIN Lead
  <2>1. PICK n : n = Lead[b[k]]
    OBVIOUS
  <2>2. n \in Nat
    BY <1>3, <2>1 DEF Lead
  <2>3. CharacterIn(b, k) <=> k + n <= Len(b) /\ \A j \in k + 1 .. k + n : b[j] = "c"
    BY <1>3, <2>1 DEF CharacterIn
  <2>4. CharacterIn(s, p + k) <=>
           p + k + n <= Len(s) /\ \A j \in p + k + 1 .. p + k + n : s[j] = "c"
    BY <1>1, <1>3, <2>1 DEF CharacterIn
  <2>5. ASSUME k + n <= Len(b)
        PROVE  (\A j \in k + 1 .. k + n : b[j] = "c")
                  <=> (\A j \in p + k + 1 .. p + k + n : s[j] = "c")
    <3>1. ASSUME \A j \in k + 1 .. k + n : b[j] = "c", NEW j \in p + k + 1 .. p + k + n
          PROVE  s[j] = "c"
      <4>1. j - p \in k + 1 .. k + n /\ j - p \in 1 .. Len(b) /\ p + (j - p) = j
        BY <1>1, <2>2, <2>5
      <4>2. QED
        BY <3>1, <4>1 DEF PartOf
    <3>2. ASSUME \A j \in p + k + 1 .. p + k + n : s[j] = "c", NEW j \in k + 1 .. k + n
          PROVE  b[j] = "c"
      <4>1. j \in Int /\ k + 1 <= j /\ j <= k + n
        BY <1>1, <2>2
      <4>2. j \in 1 .. Len(b)
        BY <1>1, <2>2, <2>5, <4>1
      <4>3. p + j \in Int /\ p + k + 1 <= p + j /\ p + j <= p + k + n
        BY <1>1, <2>2, <4>1
      <4>4. p + j \in p + k + 1 .. p + k + n
        BY <1>1, <2>2, <4>3
      <4>5. QED
        BY <3>2, <4>2, <4>4 DEF PartOf
    <3>3. QED
      BY <3>1, <3>2
  <2>6. /\ k + n <= Len(b) <=> p + k + n <= p + Len(b)
        /\ k + n <= Len(b) => p + k + n <= Len(s)
    BY <1>1, <2>2
  <2>7. QED
    BY <1>1, <2>1, <2>3, <2>4, <2>5, <2>6
<1>4. QED
  BY <1>2, <1>3

LEMMA CharacterOfBeginning ==
    ASSUME NEW s \in Seq(STRING), NEW b \in Seq(STRING), PartOf(b, s, 0), NEW k \in 1 .. Len(b)
    PROVE  /\ CharacterIn(b, k) <=> CharacterIn(s, k) /\ k + Lead[b[k]] <= Len(b)
           /\ b[k] = s[k]
<1>1. 0 \in Nat /\ 0 + k = k /\ 0 + Len(b) = Len(b)
  BY DEF PartOf
<1>2. /\ CharacterIn(b, k) <=> CharacterIn(s, 0 + k) /\ 0 + k + Lead[b[k]] <= 0 + Len(b)
      /\ b[k] = s[0 + k]
  BY <1>1, CharacterOfPart
<1>3. QED
  BY <1>1, <1>2

(* A character of the shell is on one side of a place that cuts none.      *)
LEMMA CharacterOnOneSide ==
    ASSUME NEW n \in Nat, ~CutsCharacter(n), NEW k \in 1 .. n, CharacterIn(work.shell, k)
    PROVE  k + Lead[work.shell[k]] <= n
<1>1. Lead[work.shell[k]] \in Nat /\ k \in Nat
  BY DEF CharacterIn, Lead
<1>2. ~(n < k + Lead[work.shell[k]])
  BY DEF CharacterAt, CutsCharacter
<1>3. QED
  BY <1>1, <1>2

(* What Encode keeps of the first bytes of the shell, and of a part that   *)
(* begins where a character does.                                          *)
LEMMA KeptInPart ==
    ASSUME work.shell \in Seq(STRING), NEW n \in Nat, ~CutsCharacter(n),
           NEW z \in Seq(STRING), PartOf(z, work.shell, 0),
           NEW y \in Seq(STRING), PartOf(y, work.shell, n), Len(z) = n + Len(y),
           NEW i \in 1 .. Len(y)
    PROVE  KeptAsItIs(y, i) <=> KeptAsItIs(z, n + i)
<1>1. Len(y) \in Nat /\ i \in Nat /\ n + i \in 1 .. Len(z)
  BY DEF PartOf
<1>2. \A k \in 1 .. Len(y) :
         /\ n + k \in 1 .. Len(z) /\ y[k] = z[n + k]
         /\ CharacterIn(y, k) <=> CharacterIn(z, n + k)
  <2>1. SUFFICES ASSUME NEW k \in 1 .. Len(y)
                 PROVE  /\ n + k \in 1 .. Len(z) /\ y[k] = z[n + k]
                        /\ CharacterIn(y, k) <=> CharacterIn(z, n + k)
    OBVIOUS
  <2>2. n + k \in 1 .. Len(z)
    BY <1>1
  <2>3. /\ CharacterIn(y, k) <=>
              CharacterIn(work.shell, n + k) /\ n + k + Lead[y[k]] <= n + Len(y)
        /\ y[k] = work.shell[n + k]
    BY CharacterOfPart
  <2>4. /\ CharacterIn(z, n + k) <=>
              CharacterIn(work.shell, n + k) /\ n + k + Lead[z[n + k]] <= Len(z)
        /\ z[n + k] = work.shell[n + k]
    BY <2>2, CharacterOfBeginning
  <2>5. QED
    BY <2>2, <2>3, <2>4
<1>3. y[i] = z[n + i]
  BY <1>2
<1>4. ASSUME NEW k \in 1 .. i, CharacterIn(y, k), i <= k + Lead[y[k]]
      PROVE  KeptAsItIs(z, n + i)
  <2>1. k \in 1 .. Len(y) /\ n + k \in 1 .. n + i /\ k \in Nat
    BY <1>1
  <2>2. Lead[y[k]] \in Nat
    BY <1>4 DEF CharacterIn, Lead
  <2>3. CharacterIn(z, n + k) /\ y[k] = z[n + k]
    BY <1>2, <1>4, <2>1
  <2>4. n + i <= n + k + Lead[z[n + k]]
    <3>1. PICK l : l = Lead[y[k]]
      OBVIOUS
    <3>2. l \in Nat /\ i <= k + l
      BY <1>4, <2>2, <3>1
    <3>3. n + i <= n + k + l
      BY <1>1, <2>1, <3>2
    <3>4. QED
      BY <2>3, <3>1, <3>3
  <2>5. QED
    BY <2>1, <2>3, <2>4 DEF KeptAsItIs
<1>5. ASSUME NEW k \in 1 .. n + i, CharacterIn(z, k), n + i <= k + Lead[z[k]]
      PROVE  KeptAsItIs(y, i)
  <2>1. k \in 1 .. Len(z) /\ k \in Nat
    BY <1>1
  <2>2. Lead[z[k]] \in Nat
    BY <1>5 DEF CharacterIn, Lead
  <2>3. CharacterIn(work.shell, k) /\ z[k] = work.shell[k]
    BY <1>5, <2>1, CharacterOfBeginning
  <2>4. ~(k <= n)
    <3>1. ASSUME k <= n
          PROVE  FALSE
      <4>1. k \in 1 .. n
        BY <2>1, <3>1
      <4>2. k + Lead[z[k]] <= n
        BY <2>3, <4>1, CharacterOnOneSide
      <4>3. QED
        BY <1>1, <1>5, <2>1, <2>2, <4>2
    <3>2. QED
      BY <3>1
  <2>5. PICK j : j = k - n
    OBVIOUS
  <2>6. j \in 1 .. i /\ j \in 1 .. Len(y) /\ n + j = k /\ j \in Nat
    BY <1>1, <2>1, <2>4, <2>5
  <2>7. CharacterIn(y, j) /\ y[j] = z[k]
    BY <1>2, <1>5, <2>6
  <2>8. i <= j + Lead[y[j]]
    <3>1. PICK l : l = Lead[z[k]]
      OBVIOUS
    <3>2. l \in Nat /\ n + i <= k + l
      BY <1>5, <2>2, <3>1
    <3>3. i <= j + l
      BY <1>1, <2>1, <2>6, <3>2
    <3>4. QED
      BY <2>7, <3>1, <3>3
  <2>9. QED
    BY <2>6, <2>7, <2>8 DEF KeptAsItIs
<1>6. QED
  BY <1>3, <1>4, <1>5 DEF KeptAsItIs

LEMMA KeptInBeginning ==
    ASSUME work.shell \in Seq(STRING),
           NEW x \in Seq(STRING), PartOf(x, work.shell, 0), ~CutsCharacter(Len(x)),
           NEW z \in Seq(STRING), PartOf(z, work.shell, 0), Len(x) <= Len(z),
           NEW i \in 1 .. Len(x)
    PROVE  KeptAsItIs(x, i) <=> KeptAsItIs(z, i)
<1>1. Len(x) \in Nat /\ Len(z) \in Nat /\ i \in Nat
  BY DEF PartOf
<1>2. ASSUME NEW k \in 1 .. i
      PROVE  x[k] = z[k] /\ (CharacterIn(x, k) <=> CharacterIn(z, k))
  <2>1. k \in 1 .. Len(x) /\ k \in 1 .. Len(z) /\ k \in Nat
    BY <1>1
  <2>2. /\ CharacterIn(x, k) <=> CharacterIn(work.shell, k) /\ k + Lead[x[k]] <= Len(x)
        /\ x[k] = work.shell[k]
    BY <2>1, CharacterOfBeginning
  <2>3. /\ CharacterIn(z, k) <=> CharacterIn(work.shell, k) /\ k + Lead[z[k]] <= Len(z)
        /\ z[k] = work.shell[k]
    BY <2>1, CharacterOfBeginning
  <2>4. CharacterIn(work.shell, k) =>
           Lead[work.shell[k]] \in Nat /\ k + Lead[work.shell[k]] <= Len(x)
    <3>1. CharacterIn(work.shell, k) => Lead[work.shell[k]] \in Nat
      BY DEF CharacterIn, Lead
    <3>2. QED
      BY <1>1, <2>1, <3>1, CharacterOnOneSide
  <2>5. QED
    BY <1>1, <2>1, <2>2, <2>3, <2>4
<1>3. i \in 1 .. i
  BY <1>1
<1>4. QED
  BY <1>2, <1>3 DEF KeptAsItIs

LEMMA EncodeSplit ==
    ASSUME work.shell \in Seq(STRING), NEW n \in Nat, NEW m \in Nat, n <= m,
           m <= Len(work.shell), ~CutsCharacter(n)
    PROVE  Encode(SubSeq(work.shell, 1, n)) \o Encode(SubSeq(work.shell, n + 1, m))
              = Encode(SubSeq(work.shell, 1, m))
<1>0. Len(work.shell) \in Nat
  OBVIOUS
<1>1. PICK x : x = SubSeq(work.shell, 1, n)
  OBVIOUS
<1>2. PICK y : y = SubSeq(work.shell, n + 1, m)
  OBVIOUS
<1>3. PICK z : z = SubSeq(work.shell, 1, m)
  OBVIOUS
<1>4. /\ x \in Seq(STRING) /\ Len(x) = n /\ \A i \in 1 .. n : x[i] = work.shell[i]
      /\ z \in Seq(STRING) /\ Len(z) = m /\ \A i \in 1 .. m : z[i] = work.shell[i]
  <2>1. n \in 0 .. Len(work.shell) /\ m \in 0 .. Len(work.shell)
    BY <1>0
  <2>2. QED
    BY <1>1, <1>3, <2>1, Beginnings
<1>5. y \in Seq(STRING) /\ Len(y) = m - n /\ \A i \in 1 .. m - n : y[i] = work.shell[n + i]
  BY <1>0, <1>2, PartOfShell
<1>6. PartOf(x, work.shell, 0) /\ PartOf(y, work.shell, n) /\ PartOf(z, work.shell, 0)
  <2>1. n + (m - n) = m /\ 0 + n <= Len(work.shell) /\ 0 + m <= Len(work.shell) /\ m - n \in Nat
    BY <1>0
  <2>2. \A i \in Nat : 0 + i = i
    OBVIOUS
  <2>3. PartOf(x, work.shell, 0)
    BY <1>4, <2>1, <2>2 DEF PartOf
  <2>4. PartOf(z, work.shell, 0)
    BY <1>4, <2>1, <2>2 DEF PartOf
  <2>5. PartOf(y, work.shell, n)
    BY <1>5, <2>1 DEF PartOf
  <2>6. QED
    BY <2>3, <2>4, <2>5
<1>7. PICK ex : ex = Encode(x)
  OBVIOUS
<1>8. PICK ey : ey = Encode(y)
  OBVIOUS
<1>9. PICK ez : ez = Encode(z)
  OBVIOUS
<1>10. /\ ex \in Seq(STRING) /\ Len(ex) = n
      /\ \A i \in 1 .. n : ex[i] = IF KeptAsItIs(x, i) THEN x[i] ELSE Replacement
  BY <1>4, <1>7, EncodeTyped
<1>11. /\ ey \in Seq(STRING) /\ Len(ey) = m - n
       /\ \A i \in 1 .. m - n : ey[i] = IF KeptAsItIs(y, i) THEN y[i] ELSE Replacement
  BY <1>5, <1>8, EncodeTyped
<1>12. /\ ez \in Seq(STRING) /\ Len(ez) = m
       /\ \A i \in 1 .. m : ez[i] = IF KeptAsItIs(z, i) THEN z[i] ELSE Replacement
  BY <1>4, <1>9, EncodeTyped
<1>13. /\ ex \o ey \in Seq(STRING) /\ Len(ex \o ey) = m
       /\ \A i \in 1 .. m : (ex \o ey)[i] = IF i <= n THEN ex[i] ELSE ey[i - n]
  <2>1. Len(ex) + Len(ey) = m
    BY <1>10, <1>11
  <2>2. /\ ex \o ey \in Seq(STRING) /\ Len(ex \o ey) = Len(ex) + Len(ey)
        /\ \A i \in 1 .. Len(ex) + Len(ey) :
              (ex \o ey)[i] = IF i <= Len(ex) THEN ex[i] ELSE ey[i - Len(ex)]
    <3>1. ex \in Seq(STRING) /\ ey \in Seq(STRING)
      BY <1>10, <1>11
    <3>2. QED
      BY <3>1, ConcatProperties
  <2>3. QED
    BY <1>10, <2>1, <2>2
<1>14. ASSUME NEW i \in 1 .. m
       PROVE  (ex \o ey)[i] = ez[i]
  <2>1. CASE i <= n
    <3>1. i \in 1 .. n
      BY <2>1
    <3>2. KeptAsItIs(x, i) <=> KeptAsItIs(z, i)
      <4>1. i \in 1 .. Len(x) /\ Len(x) <= Len(z) /\ ~CutsCharacter(Len(x))
        BY <1>4, <3>1
      <4>2. QED
        BY <1>4, <1>6, <4>1, KeptInBeginning
    <3>3. QED
      BY <1>4, <1>10, <1>12, <1>13, <2>1, <3>1, <3>2
  <2>2. CASE ~(i <= n)
    <3>1. PICK j : j = i - n
      OBVIOUS
    <3>2. j \in 1 .. m - n /\ n + j = i
      BY <2>2, <3>1
    <3>3. KeptAsItIs(y, j) <=> KeptAsItIs(z, n + j)
      <4>1. j \in 1 .. Len(y) /\ Len(z) = n + Len(y)
        BY <1>4, <1>5, <3>2
      <4>2. QED
        BY <1>4, <1>5, <1>6, <4>1, KeptInPart
    <3>4. (ex \o ey)[i] = ey[j] /\ y[j] = z[i]
      BY <1>4, <1>5, <1>13, <2>2, <3>1, <3>2
    <3>5. QED
      BY <1>11, <1>12, <3>2, <3>3, <3>4
  <2>3. QED
    BY <2>1, <2>2
<1>15. ex \o ey = ez
  BY <1>12, <1>13, <1>14, SeqEqual
<1>16. QED
  BY <1>1, <1>2, <1>3, <1>7, <1>8, <1>9, <1>15

(* What OutputKept and OutputComplete say before Close, while Close holds  *)
(* the tail, and after it.                                                 *)
OutputOpen(lines, block, rest, p) ==
    LET n == Len(OutputOf(lines)) + Len(block) IN
    /\ OutputOf(lines) \o Encode(block) = Encode(SubSeq(work.shell, 1, n))
    /\ n + Len(rest) = p /\ rest = SubSeq(work.shell, n + 1, p)
    /\ WholeCharacters(lines) /\ ~CutsCharacter(n)

HeldBy(c) == IF c.at = "tail" THEN c.block ELSE <<>>
OutputClosing(lines, c, out) ==
    OutputOf(lines) \o Encode(HeldBy(c)) = Encode(SubSeq(work.shell, 1, out))

LEMMA OutputParts ==
    OutputKept /\ OutputComplete <=>
        /\ pump.at = "read" => pump.block = <<>>
        /\ q.dropped = 0 /\ ~q.stopped =>
             /\ closer.at = "idle" => OutputOpen(Lines, pump.block, tail, pos)
             /\ closer.at \in {"tail", "mark"} /\ cut.out # -1 =>
                  pump.at = "read" /\ OutputClosing(Lines, closer, cut.out)
             /\ closer.at \in {"wait", "meta", "done"} /\ cut.out # -1 =>
                  OutputOf(Lines) = Encode(SubSeq(work.shell, 1, cut.out))
BY Zenon DEF OutputKept, OutputComplete, OutputOpen, OutputClosing, HeldBy, WholeCharacters

LEMMA OutputPartsNext ==
    ASSUME work' = work
    PROVE  OutputKept' /\ OutputComplete' <=>
        /\ pump'.at = "read" => pump'.block = <<>>
        /\ q'.dropped = 0 /\ ~q'.stopped =>
             /\ closer'.at = "idle" => OutputOpen(Lines', pump'.block, tail', pos')
             /\ closer'.at \in {"tail", "mark"} /\ cut'.out # -1 =>
                  pump'.at = "read" /\ OutputClosing(Lines', closer', cut'.out)
             /\ closer'.at \in {"wait", "meta", "done"} /\ cut'.out # -1 =>
                  OutputOf(Lines') = Encode(SubSeq(work.shell, 1, cut'.out))
<1>1. OutputKept' /\ OutputComplete' <=>
        /\ pump'.at = "read" => pump'.block = <<>>
        /\ q'.dropped = 0 /\ ~q'.stopped =>
             /\ closer'.at = "idle" => OutputOpen(Lines, pump.block, tail, pos)'
             /\ closer'.at \in {"tail", "mark"} /\ cut'.out # -1 =>
                  pump'.at = "read" /\ OutputClosing(Lines, closer, cut.out)'
             /\ closer'.at \in {"wait", "meta", "done"} /\ cut'.out # -1 =>
                  OutputOf(Lines') = Encode(SubSeq(work'.shell, 1, cut'.out))
  BY Zenon DEF OutputKept, OutputComplete, OutputOpen, OutputClosing, HeldBy, WholeCharacters
<1>2. OutputOpen(Lines, pump.block, tail, pos)' <=> OutputOpen(Lines', pump'.block, tail', pos')
  BY Zenon DEF OutputOpen, WholeCharacters, CutsCharacter, CharacterAt
<1>3. OutputClosing(Lines, closer, cut.out)' <=> OutputClosing(Lines', closer', cut'.out)
  BY Zenon DEF OutputClosing, HeldBy
<1>4. QED
  BY <1>1, <1>2, <1>3

LEMMA SplitOpen ==
    ASSUME work.shell \in Seq(STRING), NEW p \in 0 .. Len(work.shell),
           NEW e \in p .. Len(work.shell), NEW lines \in Seq(CastLines), NEW rest \in Seq(STRING),
           OutputOpen(lines, <<>>, rest, p)
    PROVE  LET s == SplitUTF8Tail(rest \o SubSeq(work.shell, p + 1, e)) IN
           OutputOpen(lines, s.complete, s.rest, e)
<1>1. PICK out : out = OutputOf(lines)
  OBVIOUS
<1>2. PICK shell : shell = work.shell
  OBVIOUS
<1>3. /\ out \in Seq(STRING) /\ shell \in Seq(STRING) /\ Len(out) \in Nat
      /\ Len(shell) \in Nat /\ p \in Nat /\ e \in Nat /\ p <= e /\ e <= Len(shell)
  <2>1. out \in Seq(STRING) /\ shell \in Seq(STRING)
    BY <1>1, <1>2, OutputLineByLine
  <2>2. Len(out) \in Nat /\ Len(shell) \in Nat
    BY <2>1
  <2>3. QED
    BY <1>2, <2>1, <2>2
<1>4. /\ out = Encode(SubSeq(shell, 1, Len(out)))
      /\ Len(out) + Len(rest) = p /\ rest = SubSeq(shell, Len(out) + 1, p)
      /\ WholeCharacters(lines) /\ ~CutsCharacter(Len(out))
  <2>1. out \o Encode(<<>>) = out /\ Len(out) + Len(<<>>) = Len(out)
    BY <1>3, ConcatEmptySeq, EncodeEmpty
  <2>2. QED
    BY <1>1, <1>2, <2>1 DEF OutputOpen
<1>5. PICK new : new = SubSeq(shell, p + 1, e)
  OBVIOUS
<1>6. new \in Seq(STRING)
  <2>1. \A i \in p + 1 .. e : shell[i] \in STRING
    BY <1>3
  <2>2. QED
    BY <1>3, <1>5, <2>1, SubSeqProperties
<1>7. PICK b : b = rest \o new
  OBVIOUS
<1>8. b \in Seq(STRING) /\ Len(b) \in Nat
  BY <1>6, <1>7, ConcatProperties
<1>9. b = SubSeq(shell, Len(out) + 1, e)
  <2>1. Len(out) <= p /\ Len(out) + 1 \in 1 .. Len(shell) + 1 /\ p \in (Len(out) + 1) - 1 .. Len(shell)
        /\ e \in p .. Len(shell)
    <3>1. Len(rest) \in Nat
      OBVIOUS
    <3>2. QED
      BY <1>3, <1>4, <3>1
  <2>2. SubSeq(shell, Len(out) + 1, p) \o SubSeq(shell, p + 1, e) = SubSeq(shell, Len(out) + 1, e)
    BY <1>3, <2>1, ConcatAdjacentSubSeq
  <2>3. QED
    BY <1>4, <1>5, <1>7, <2>2
<1>10. Len(out) + Len(b) = e /\ \A i \in 1 .. Len(b) : b[i] = shell[Len(out) + i]
  <2>1. Len(rest) \in Nat
    OBVIOUS
  <2>2. Len(out) <= e /\ e <= Len(shell)
    BY <1>3, <1>4, <2>1
  <2>3. Len(b) = e - Len(out) /\ \A i \in 1 .. e - Len(out) : b[i] = shell[Len(out) + i]
    BY <1>2, <1>3, <1>9, <2>2, PartOfShell
  <2>4. QED
    BY <1>3, <2>3
<1>11. PICK x : x = SplitUTF8Tail(b).complete
  OBVIOUS
<1>12. PICK y : y = SplitUTF8Tail(b).rest
  OBVIOUS
<1>13. x \in Seq(STRING) /\ y \in Seq(STRING) /\ x \o y = b
  BY <1>8, <1>11, <1>12, SplitMeans
<1>14. PICK n : n = Len(out) + Len(x)
  OBVIOUS
<1>15. /\ n \in Nat /\ Len(x) \in Nat /\ Len(y) \in Nat /\ Len(b) = Len(x) + Len(y)
       /\ n + Len(y) = e /\ Len(out) <= n /\ n <= e
       /\ \A i \in 1 .. Len(x) : b[i] = x[i]
       /\ \A i \in 1 .. Len(y) : b[Len(x) + i] = y[i]
  <2>1. Len(x) \in Nat /\ Len(y) \in Nat /\ Len(b) = Len(x) + Len(y)
        /\ \A i \in 1 .. Len(x) + Len(y) : b[i] = IF i <= Len(x) THEN x[i] ELSE y[i - Len(x)]
    BY <1>13, ConcatProperties
  <2>2. ASSUME NEW i \in 1 .. Len(y)
        PROVE  b[Len(x) + i] = y[i]
    <3>1. Len(x) + i \in 1 .. Len(x) + Len(y) /\ ~(Len(x) + i <= Len(x)) /\ (Len(x) + i) - Len(x) = i
      BY <2>1
    <3>2. QED
      BY <2>1, <3>1
  <2>3. \A i \in 1 .. Len(x) : b[i] = x[i]
    BY <2>1
  <2>4. n + Len(y) = e /\ Len(out) <= n /\ n <= e /\ n \in Nat
    <3>1. Len(out) + (Len(x) + Len(y)) = e
      BY <1>10, <2>1
    <3>2. Len(out) \in Nat /\ e \in Nat /\ Len(x) \in Nat /\ Len(y) \in Nat
      BY <1>3, <2>1
    <3>3. n + Len(y) = e
      BY <1>14, <3>1, <3>2
    <3>4. QED
      BY <1>14, <3>2, <3>3
  <2>5. QED
    BY <2>1, <2>2, <2>3, <2>4
<1>16. out \o Encode(x) = Encode(SubSeq(shell, 1, n))
  <2>1. PICK w : w = SubSeq(shell, Len(out) + 1, n)
    OBVIOUS
  <2>2. w \in Seq(STRING) /\ Len(w) = n - Len(out)
        /\ \A i \in 1 .. n - Len(out) : w[i] = shell[Len(out) + i]
    <3>1. n <= Len(shell)
      BY <1>3, <1>15
    <3>2. QED
      BY <1>2, <1>3, <1>15, <2>1, <3>1, PartOfShell
  <2>3. Len(w) = Len(x) /\ \A i \in 1 .. Len(x) : w[i] = x[i]
    <3>1. n - Len(out) = Len(x) /\ \A i \in 1 .. Len(x) : i \in 1 .. Len(b)
      BY <1>3, <1>14, <1>15
    <3>2. QED
      BY <1>10, <1>15, <2>2, <3>1
  <2>4. w = x
    BY <1>13, <2>2, <2>3, SeqEqual
  <2>5. Encode(SubSeq(shell, 1, Len(out))) \o Encode(SubSeq(shell, Len(out) + 1, n))
           = Encode(SubSeq(shell, 1, n))
    <3>1. n <= Len(shell)
      BY <1>3, <1>15
    <3>2. QED
      BY <1>2, <1>3, <1>4, <1>15, <3>1, EncodeSplit
  <2>6. QED
    BY <1>4, <2>1, <2>4, <2>5
<1>17. y = SubSeq(shell, n + 1, e)
  <2>1. PICK w : w = SubSeq(shell, n + 1, e)
    OBVIOUS
  <2>2. w \in Seq(STRING) /\ Len(w) = e - n /\ \A i \in 1 .. e - n : w[i] = shell[n + i]
    BY <1>2, <1>3, <1>15, <2>1, PartOfShell
  <2>3. Len(w) = Len(y)
    <3>1. e - n = Len(y)
      BY <1>3, <1>15
    <3>2. QED
      BY <2>2, <3>1
  <2>4. ASSUME NEW i \in 1 .. Len(y)
        PROVE  w[i] = y[i]
    <3>1. i \in 1 .. e - n /\ Len(x) + i \in 1 .. Len(b) /\ Len(out) + (Len(x) + i) = n + i
      <4>1. i \in Nat /\ e - n = Len(y)
        BY <1>3, <1>15
      <4>2. QED
        BY <1>3, <1>14, <1>15, <4>1
    <3>2. QED
      BY <1>10, <1>15, <2>2, <3>1
  <2>5. QED
    BY <1>13, <2>1, <2>2, <2>3, <2>4, SeqEqual
<1>18. ~CutsCharacter(n)
  BY <1>2, <1>3, <1>4, <1>8, <1>10, <1>11, <1>14, SplitKeepsCharacters
<1>19. OutputOpen(lines, x, y, e)
  BY <1>1, <1>2, <1>4, <1>14, <1>15, <1>16, <1>17, <1>18 DEF OutputOpen
<1>20. QED
  BY <1>2, <1>5, <1>7, <1>11, <1>12, <1>19

(* Before Close.                                                           *)
LEMMA OpenStep ==
    ASSUME RecorderConstants, TypeOK, PhasesAgree, HeaderFirst, InputsKnown, Next,
           q'.dropped = 0, ~q'.stopped, pump.at = "read" => pump.block = <<>>,
           closer.at = "idle", closer'.at = "idle", OutputOpen(Lines, pump.block, tail, pos)
    PROVE  OutputOpen(Lines', pump'.block, tail', pos')
<1>1. /\ Lines \in Seq(CastLines) /\ pump.block \in Seq(STRING) /\ tail \in Seq(STRING)
      /\ pos \in 0 .. Len(work.shell) /\ work.shell \in Seq(STRING)
      /\ pump \in [at : {"read", "match", "append"}, block : Seq(STRING), since : 0 .. now]
  BY LinesTyped, SettingsKnown DEF TypeOK
<1>2. ASSUME SameOutput(Lines, Lines'), pump'.block = pump.block, tail' = tail, pos' = pos
      PROVE  OutputOpen(Lines', pump'.block, tail', pos')
  BY <1>2 DEF OutputOpen, SameOutput
<1>3. ~CloseTailAppend /\ ~CloseTail /\ ~Close
  BY DEF Close, CloseTail, CloseTailAppend, CloseMark, CloseTake, CloseMeta
<1>4. CASE OutputSplit
  <2>1. PICK end \in {e \in work.cuts : e > pos} :
             LET split == SplitUTF8Tail(tail \o SubSeq(work.shell, pos + 1, end)) IN
             /\ pos' = end /\ tail' = split.rest
             /\ pump' = IF split.complete = <<>> THEN pump
                        ELSE [at |-> "match", block |-> split.complete, since |-> now]
    BY <1>4 DEF OutputSplit
  <2>2. PICK split : split = SplitUTF8Tail(tail \o SubSeq(work.shell, pos + 1, end))
    OBVIOUS
  <2>3. end \in pos .. Len(work.shell)
    BY SettingsKnown
  <2>4. pump.block = <<>>
    BY <1>4 DEF OutputSplit
  <2>5. OutputOpen(Lines, split.complete, split.rest, end)
    BY <1>1, <2>2, <2>3, <2>4, SplitOpen
  <2>6. pump'.block = split.complete /\ tail' = split.rest /\ pos' = end
    BY <2>1, <2>2, <2>4
  <2>7. Lines' = Lines
    BY <1>4 DEF OutputSplit, diskVars, Lines
  <2>8. QED
    BY <2>5, <2>6, <2>7
<1>5. CASE OutputMatch
  <2>1. SameOutput(Lines, Lines')
    <3>1. ~OutputAppend
      BY <1>5 DEF OutputMatch, OutputAppend
    <3>2. QED
      BY <1>3, <3>1, OutputRests
  <2>2. pump'.block = pump.block /\ tail' = tail /\ pos' = pos
    BY <1>1, <1>5 DEF OutputMatch
  <2>3. QED
    BY <1>2, <2>1, <2>2
<1>6. CASE OutputAppend
  <2>1. ~q.closed
    BY DEF PhasesAgree
  <2>2. PICK l \in CastLines :
               l.typ = "o" /\ l.data = Encode(pump.block) /\ Lines' = Append(Lines, l)
    BY <1>6, <2>1, OutputAdded
  <2>3. pump'.block = <<>> /\ tail' = tail /\ pos' = pos
    BY <1>6 DEF OutputAppend
  <2>4. PICK out : out = OutputOf(Lines) \o Encode(pump.block)
    OBVIOUS
  <2>5. out \in Seq(STRING) /\ Len(out) = Len(OutputOf(Lines)) + Len(pump.block)
    <3>1. OutputOf(Lines) \in Seq(STRING) /\ Encode(pump.block) \in Seq(STRING)
          /\ Len(Encode(pump.block)) = Len(pump.block)
      BY <1>1, OutputLineByLine, EncodeTyped
    <3>2. PICK u : u = OutputOf(Lines)
      OBVIOUS
    <3>3. PICK v : v = Encode(pump.block)
      OBVIOUS
    <3>4. u \o v \in Seq(STRING) /\ Len(u \o v) = Len(u) + Len(v)
      BY <3>1, <3>2, <3>3, ConcatProperties
    <3>5. QED
      BY <2>4, <3>1, <3>2, <3>3, <3>4
  <2>6. PICK more : more = Append(Lines, l)
    OBVIOUS
  <2>7. OutputOf(more) = out /\ more \in Seq(CastLines)
    <3>1. OutputOf(Append(Lines, l)) = OutputOf(Lines) \o l.data
      BY <1>1, <2>2, OutputLineByLine
    <3>2. Append(Lines, l) \in Seq(CastLines)
      BY <1>1, <2>2, AppendProperties
    <3>3. QED
      BY <2>2, <2>4, <2>6, <3>1, <3>2
  <2>8. out \o Encode(<<>>) = out /\ Len(out) + Len(<<>>) = Len(out)
    BY <2>5, ConcatEmptySeq, EncodeEmpty
  <2>9. /\ out = Encode(SubSeq(work.shell, 1, Len(out)))
        /\ Len(out) + Len(tail) = pos /\ tail = SubSeq(work.shell, Len(out) + 1, pos)
        /\ WholeCharacters(Lines) /\ ~CutsCharacter(Len(out))
    BY <2>4, <2>5 DEF OutputOpen
  <2>10. WholeCharacters(more)
    BY <1>1, <2>6, <2>7, <2>9, WholeWithOneMore
  <2>11. OutputOpen(more, <<>>, tail, pos)
    BY <2>7, <2>8, <2>9, <2>10 DEF OutputOpen
  <2>12. QED
    BY <2>2, <2>3, <2>6, <2>11
<1>7. CASE ~OutputStep
  <2>1. pump' = pump /\ tail' = tail /\ pos' = pos
    BY <1>3, <1>7, Zenon DEF OutputStep, Next, Reader, SkipInput, WriteInput, WriteInputMasked,
         DeferToProgram, WriteInputDeferred, DeferAfterClose, DeferredPlain, WriteResize,
         ReaderAppend, NotReader, EventSnapshot, EventWrite, Flush, FlushTake, FlushWrite,
         FlushEnd, NotFlusher, Tick, pumpVars, lockVars
  <2>2. SameOutput(Lines, Lines')
    BY <1>3, <1>7, OutputRests DEF OutputStep
  <2>3. QED
    BY <1>2, <2>1, <2>2
<1>8. QED
  BY <1>4, <1>5, <1>6, <1>7 DEF OutputStep

LEMMA CloseLeads ==
    /\ CloseTail => closer'.at \in {"mark", "tail"}
    /\ CloseTailAppend => closer'.at = "mark"
    /\ CloseMark => closer'.at = "wait"
    /\ CloseTake => closer'.at = "meta"
    /\ CloseMeta => closer'.at = "done"
<1>1. CloseTail => closer'.at \in {"mark", "tail"}
  BY DEF CloseTail
<1>2. CloseTailAppend => closer'.at = "mark"
  BY DEF CloseTailAppend
<1>3. CloseMark => closer'.at = "wait"
  BY DEF CloseMark
<1>4. CloseTake => closer'.at = "meta"
  BY DEF CloseTake
<1>5. CloseMeta => closer'.at = "done"
  BY DEF CloseMeta
<1>6. QED
  BY <1>1, <1>2, <1>3, <1>4, <1>5

(* While Close holds the tail, and when it appends it.                     *)
LEMMA ClosingStep ==
    ASSUME RecorderConstants, TypeOK, PhasesAgree, HeaderFirst, InputsKnown, Next,
           q'.dropped = 0, ~q'.stopped, pump.at = "read" => pump.block = <<>>,
           closer.at = "idle" => OutputOpen(Lines, pump.block, tail, pos),
           closer.at \in {"tail", "mark"} /\ cut.out # -1 =>
              pump.at = "read" /\ OutputClosing(Lines, closer, cut.out),
           closer'.at \in {"tail", "mark"}, cut'.out # -1
    PROVE  pump'.at = "read" /\ OutputClosing(Lines', closer', cut'.out)
<1>1. Lines \in Seq(CastLines) /\ tail \in Seq(STRING) /\ pump.block \in Seq(STRING)
      /\ OutputOf(Lines) \in Seq(STRING) /\ cut \in [out : Int, ins : Int] /\ pos \in Nat
  BY LinesTyped, SettingsKnown, OutputLineByLine DEF TypeOK
<1>2. CASE CloseTail
  <2>1. /\ closer.at = "idle" /\ cut' = [cut EXCEPT !.out = IF pump.at = "read" THEN pos ELSE -1]
        /\ closer' = IF tail = <<>> THEN [at |-> "mark"]
                     ELSE [at |-> "tail", block |-> tail, since |-> now]
        /\ pump' = pump
    BY <1>2 DEF CloseTail, NotCloser, pumpVars
  <2>2. cut'.out = IF pump.at = "read" THEN pos ELSE -1
    BY <1>1, <2>1
  <2>3. pump.at = "read" /\ cut'.out = pos /\ pump.block = <<>>
    BY <2>2
  <2>4. OutputOf(Lines) \o Encode(<<>>) = OutputOf(Lines) /\ Len(OutputOf(Lines)) \in Nat
        /\ Len(OutputOf(Lines)) + Len(<<>>) = Len(OutputOf(Lines))
    BY <1>1, ConcatEmptySeq, EncodeEmpty
  <2>5. OutputOf(Lines) \o Encode(tail) = Encode(SubSeq(work.shell, 1, pos))
    <3>1. PICK n : n = Len(OutputOf(Lines))
      OBVIOUS
    <3>2. /\ OutputOf(Lines) = Encode(SubSeq(work.shell, 1, n)) /\ ~CutsCharacter(n)
          /\ n + Len(tail) = pos /\ tail = SubSeq(work.shell, n + 1, pos) /\ n \in Nat
      BY <2>1, <2>3, <2>4, <3>1 DEF OutputOpen
    <3>3. n <= pos /\ pos <= Len(work.shell) /\ work.shell \in Seq(STRING)
      <4>1. Len(tail) \in Nat /\ pos \in 0 .. Len(work.shell) /\ work.shell \in Seq(STRING)
        BY <1>1, SettingsKnown DEF TypeOK
      <4>2. QED
        BY <3>2, <4>1
    <3>4. QED
      BY <1>1, <3>2, <3>3, EncodeSplit
  <2>6. HeldBy(closer') = tail
    BY <2>1 DEF HeldBy
  <2>7. SameOutput(Lines, Lines')
    <3>1. ~OutputAppend /\ ~CloseTailAppend
      BY <2>1, <2>3 DEF OutputAppend, CloseTailAppend
    <3>2. QED
      BY <3>1, OutputRests
  <2>8. QED
    BY <2>1, <2>3, <2>5, <2>6, <2>7 DEF OutputClosing, SameOutput
<1>3. CASE CloseTailAppend
  <2>1. closer.at = "tail" /\ closer' = [at |-> "mark"] /\ cut' = cut /\ pump' = pump
    BY <1>3 DEF CloseTailAppend, NotCloser, pumpVars
  <2>2. pump.at = "read"
        /\ OutputOf(Lines) \o Encode(closer.block) = Encode(SubSeq(work.shell, 1, cut.out))
    BY <2>1 DEF OutputClosing, HeldBy
  <2>3. ~q.closed
    BY <2>1 DEF PhasesAgree
  <2>4. PICK block : block = closer.block
    OBVIOUS
  <2>5. block \in Seq(STRING)
        /\ \E l \in CastLines :
              l.typ = "o" /\ l.data = Encode(block) /\ Lines' = Append(Lines, l)
    BY <1>3, <2>3, <2>4, OutputAdded
  <2>6. PICK l \in CastLines : l.typ = "o" /\ l.data = Encode(block) /\ Lines' = Append(Lines, l)
    BY <2>5
  <2>7. OutputOf(Append(Lines, l)) = OutputOf(Lines) \o Encode(block)
    BY <1>1, <2>6, OutputLineByLine
  <2>8. OutputOf(Lines) \o Encode(block) \in Seq(STRING)
    BY <1>1, <2>5, ConcatProperties, EncodeTyped
  <2>9. (OutputOf(Lines) \o Encode(block)) \o Encode(<<>>) = OutputOf(Lines) \o Encode(block)
    BY <2>8, ConcatEmptySeq, EncodeEmpty
  <2>10. HeldBy(closer') = <<>>
    BY <2>1 DEF HeldBy
  <2>11. QED
    BY <2>1, <2>2, <2>4, <2>6, <2>7, <2>9, <2>10 DEF OutputClosing
<1>4. CASE ~CloseTail /\ ~CloseTailAppend
  <2>1. closer' = closer
    <3>1. ~CloseMark /\ ~CloseTake /\ ~CloseMeta
      BY CloseLeads
    <3>2. QED
      BY <1>4, <3>1, Zenon DEF Next, Close, OutputSplit, OutputMatch, OutputAppend, Reader, SkipInput,
         WriteInput, WriteInputMasked, DeferToProgram, WriteInputDeferred, DeferAfterClose,
         DeferredPlain, WriteResize, ReaderAppend, NotReader, EventSnapshot, EventWrite, Flush,
         FlushTake, FlushWrite, FlushEnd, NotFlusher, Tick
  <2>2. ~OutputSplit
    BY <1>1, <2>1 DEF OutputSplit
  <2>3. cut' = cut
    <3>1. ~CloseMark
      BY DEF CloseMark
    <3>2. QED
      BY <1>4, <2>2, <3>1, Zenon DEF Next, Close, CloseTake, CloseMeta, OutputMatch, OutputAppend,
         Reader, SkipInput, WriteInput, WriteInputMasked, DeferToProgram, WriteInputDeferred,
         DeferAfterClose, DeferredPlain, WriteResize, ReaderAppend, NotReader, EventSnapshot,
         EventWrite, Flush, FlushTake, FlushWrite, FlushEnd, NotFlusher, Tick
  <2>4. pump.at = "read" /\ OutputClosing(Lines, closer, cut.out)
    BY <2>1, <2>3
  <2>5. ~OutputMatch /\ ~OutputAppend
    BY <2>4 DEF OutputMatch, OutputAppend
  <2>6. pump' = pump
    BY <2>2, <2>5, Zenon DEF Next, Reader, SkipInput, WriteInput, WriteInputMasked, DeferToProgram,
         WriteInputDeferred, DeferAfterClose, DeferredPlain, WriteResize, ReaderAppend, NotReader,
         EventSnapshot, EventWrite, Flush, FlushTake, FlushWrite, FlushEnd, NotFlusher, Close,
         CloseTail, CloseTailAppend, CloseMark, CloseTake, CloseMeta, NotCloser, Tick, pumpVars
  <2>7. SameOutput(Lines, Lines')
    BY <1>4, <2>5, OutputRests
  <2>8. QED
    BY <2>1, <2>3, <2>4, <2>6, <2>7 DEF OutputClosing, SameOutput
<1>5. QED
  BY <1>2, <1>3, <1>4

(* After it: nothing more becomes output.                                  *)
LEMMA ClosedStep ==
    ASSUME RecorderConstants, TypeOK, PhasesAgree, HeaderFirst, InputsKnown, Next,
           closer.at \in {"tail", "mark"} /\ cut.out # -1 => OutputClosing(Lines, closer, cut.out),
           closer.at \in {"wait", "meta", "done"} /\ cut.out # -1 =>
              OutputOf(Lines) = Encode(SubSeq(work.shell, 1, cut.out)),
           closer'.at \in {"wait", "meta", "done"}, cut'.out # -1
    PROVE  OutputOf(Lines') = Encode(SubSeq(work.shell, 1, cut'.out))
<1>1. Lines \in Seq(CastLines) /\ OutputOf(Lines) \in Seq(STRING) /\ cut \in [out : Int, ins : Int]
  BY LinesTyped, OutputLineByLine DEF TypeOK
<1>2. ~CloseTail /\ ~CloseTailAppend
  BY DEF CloseTail, CloseTailAppend
<1>3. CASE CloseMark
  <2>1. closer.at = "mark" /\ cut' = [cut EXCEPT !.ins = InputsBegun]
    BY <1>3 DEF CloseMark
  <2>2. cut'.out = cut.out
    BY <1>1, <2>1
  <2>3. OutputOf(Lines) \o Encode(<<>>) = Encode(SubSeq(work.shell, 1, cut.out))
    BY <2>1, <2>2 DEF OutputClosing, HeldBy
  <2>4. OutputOf(Lines) \o Encode(<<>>) = OutputOf(Lines)
    BY <1>1, ConcatEmptySeq, EncodeEmpty
  <2>5. ~OutputAppend
    <3>1. CloseMark => pump' = pump
      BY Zenon DEF CloseMark, NotCloser, pumpVars
    <3>2. OutputAppend => pump.at = "append" /\ pump'.at = "read"
      BY DEF OutputAppend
    <3>3. QED
      BY <1>3, <3>1, <3>2
  <2>6. SameOutput(Lines, Lines')
    BY <1>2, <2>5, OutputRests
  <2>7. QED
    BY <2>2, <2>3, <2>4, <2>6 DEF SameOutput
<1>4. CASE ~CloseMark
  <2>1. closer.at \in {"wait", "meta", "done"}
    <3>1. CASE Close
      BY <1>2, <1>4, <3>1 DEF Close, CloseTake, CloseMeta
    <3>2. CASE ~Close
      <4>1. closer' = closer
        BY <3>2, Zenon DEF Next, OutputSplit, OutputMatch, OutputAppend, Reader, SkipInput,
           WriteInput, WriteInputMasked, DeferToProgram, WriteInputDeferred, DeferAfterClose,
           DeferredPlain, WriteResize, ReaderAppend, NotReader, EventSnapshot, EventWrite, Flush,
           FlushTake, FlushWrite, FlushEnd, NotFlusher, Tick
      <4>2. QED
        BY <4>1
    <3>3. QED
      BY <3>1, <3>2
  <2>2. cut' = cut
    <3>1. OutputSplit => cut' = cut
      BY <2>1 DEF OutputSplit
    <3>2. QED
      BY <1>2, <1>4, <3>1, Zenon DEF Next, Close, CloseTake, CloseMeta, OutputMatch, OutputAppend,
         Reader, SkipInput, WriteInput, WriteInputMasked, DeferToProgram, WriteInputDeferred,
         DeferAfterClose, DeferredPlain, WriteResize, ReaderAppend, NotReader, EventSnapshot,
         EventWrite, Flush, FlushTake, FlushWrite, FlushEnd, NotFlusher, Tick
  <2>3. CASE OutputAppend
    <3>1. q.closed
      BY <2>1 DEF PhasesAgree
    <3>2. q' = q /\ file' = file /\ flusher' = flusher
      BY <2>3, <3>1, AppendStep DEF AppendedTo
    <3>3. Lines' = Lines
      BY <3>2 DEF Lines
    <3>4. QED
      BY <2>1, <2>2, <3>3
  <2>4. CASE ~OutputAppend
    <3>1. SameOutput(Lines, Lines')
      BY <1>2, <2>4, OutputRests
    <3>2. QED
      BY <2>1, <2>2, <3>1 DEF SameOutput
  <2>5. QED
    BY <2>3, <2>4
<1>5. QED
  BY <1>3, <1>4

LEMMA OutputHeld ==
    ASSUME RecorderConstants, TypeOK, TypeOK', PhasesAgree, HeaderFirst, InputsKnown, OutputKept,
           OutputComplete, Next
    PROVE  OutputKept' /\ OutputComplete'
<1>1. work' = work
  BY ClockTyped
<1>2. /\ pump.at = "read" => pump.block = <<>>
      /\ q.dropped = 0 /\ ~q.stopped =>
           /\ closer.at = "idle" => OutputOpen(Lines, pump.block, tail, pos)
           /\ closer.at \in {"tail", "mark"} /\ cut.out # -1 =>
                pump.at = "read" /\ OutputClosing(Lines, closer, cut.out)
           /\ closer.at \in {"wait", "meta", "done"} /\ cut.out # -1 =>
                OutputOf(Lines) = Encode(SubSeq(work.shell, 1, cut.out))
  BY OutputParts
<1>3. pump'.at = "read" => pump'.block = <<>>
  <2>1. CASE OutputSplit
    BY <1>2, <2>1 DEF OutputSplit
  <2>2. CASE OutputMatch
    <3>1. pump' = [pump EXCEPT !.at = "append", !.since = now]
      BY <2>2 DEF OutputMatch
    <3>2. pump \in [at : {"read", "match", "append"}, block : Seq(STRING), since : 0 .. now]
      BY DEF TypeOK
    <3>3. QED
      BY <3>1, <3>2
  <2>3. CASE OutputAppend
    BY <2>3 DEF OutputAppend
  <2>4. CASE ~OutputStep
    <3>1. pump' = pump
      BY <2>4, Zenon DEF OutputStep, Next, Reader, SkipInput, WriteInput, WriteInputMasked,
         DeferToProgram, WriteInputDeferred, DeferAfterClose, DeferredPlain, WriteResize,
         ReaderAppend, NotReader, EventSnapshot, EventWrite, Flush, FlushTake, FlushWrite,
         FlushEnd, NotFlusher, Close, CloseTail, CloseTailAppend, CloseMark, CloseTake,
         CloseMeta, NotCloser, Tick, pumpVars
    <3>2. QED
      BY <1>2, <3>1
  <2>5. QED
    BY <2>1, <2>2, <2>3, <2>4 DEF OutputStep
<1>4. ASSUME q'.dropped = 0, ~q'.stopped
      PROVE  /\ closer'.at = "idle" => OutputOpen(Lines', pump'.block, tail', pos')
             /\ closer'.at \in {"tail", "mark"} /\ cut'.out # -1 =>
                  pump'.at = "read" /\ OutputClosing(Lines', closer', cut'.out)
             /\ closer'.at \in {"wait", "meta", "done"} /\ cut'.out # -1 =>
                  OutputOf(Lines') = Encode(SubSeq(work.shell, 1, cut'.out))
  <2>1. q.dropped = 0 /\ ~q.stopped
    BY <1>4, LossesStay
  <2>2. closer'.at = "idle" => closer.at = "idle"
    <3>1. Close => closer'.at # "idle"
      BY CloseLeads DEF Close
    <3>2. ~Close => closer' = closer
      BY Zenon DEF Next, OutputSplit, OutputMatch, OutputAppend, Reader, SkipInput,
         WriteInput, WriteInputMasked, DeferToProgram, WriteInputDeferred, DeferAfterClose,
         DeferredPlain, WriteResize, ReaderAppend, NotReader, EventSnapshot, EventWrite, Flush,
         FlushTake, FlushWrite, FlushEnd, NotFlusher, Tick
    <3>3. QED
      BY <3>1, <3>2
  <2>3. closer'.at = "idle" => OutputOpen(Lines', pump'.block, tail', pos')
    BY <1>2, <1>4, <2>1, <2>2, OpenStep
  <2>4. closer'.at \in {"tail", "mark"} /\ cut'.out # -1 =>
           pump'.at = "read" /\ OutputClosing(Lines', closer', cut'.out)
    BY <1>2, <1>4, <2>1, ClosingStep
  <2>5. closer'.at \in {"wait", "meta", "done"} /\ cut'.out # -1 =>
           OutputOf(Lines') = Encode(SubSeq(work.shell, 1, cut'.out))
    BY <1>2, <2>1, ClosedStep
  <2>6. QED
    BY <2>3, <2>4, <2>5
<1>5. QED
  BY <1>1, <1>3, <1>4, OutputPartsNext

-----------------------------------------------------------------------------
(* The theorems.                                                           *)

LEMMA InitParts ==
    ASSUME RecorderConstants, Init
    PROVE  IndInv
<1>1. TypeOK
  BY TypeInit
<1>2. /\ q = [closed |-> FALSE, header |-> "none", headerSize |-> 0, size |-> 0,
              lines |-> <<>>, bytes |-> 0, lastT |-> 0, stopped |-> FALSE,
              dropped |-> 0, masked |-> 0]
      /\ pend = <<>> /\ file = <<>> /\ flusher = [at |-> "wait", lines |-> <<>>]
      /\ metaFile = MetaNow /\ typed = <<>> /\ windows = <<>> /\ reader = Idle /\ closer = Idle
      /\ event = [e \in Callers |-> Idle] /\ cut = [out |-> -1, ins |-> 0]
  BY DEF Init
<1>3. Lines = <<>>
  <2>1. Lines = <<>> \o <<>> \o <<>>
    BY <1>2 DEF Lines
  <2>2. QED
    BY <2>1
<1>4. /\ ~q.closed /\ q.header = "none" /\ q.lines = <<>> /\ q.masked = 0 /\ flusher.at = "wait"
      /\ flusher.lines = <<>> /\ closer.at = "idle" /\ reader.at = "idle" /\ ~metaFile.ended
      /\ \A e \in Callers : event[e].at = "idle"
  BY <1>2 DEF Idle, MetaNow
<1>5. PhasesAgree /\ EndStays
  BY <1>2, <1>4 DEF PhasesAgree, EndStays, Closed
<1>6. DOMAIN q.lines = {} /\ DOMAIN Lines = {}
  BY <1>3, <1>4
<1>7. HeaderFirst /\ InOrder
  <2>1. HeaderFirst
    BY <1>2, <1>4, <1>6 DEF HeaderFirst
  <2>2. InOrder
    BY <1>6 DEF InOrder
  <2>3. QED
    BY <2>1, <2>2
<1>8. Recorded = {} /\ Appending = {} /\ Range(pend) = {} /\ Awaited = {}
  <2>1. Recorded = {} /\ Range(pend) = {}
    BY <1>2, <1>3 DEF Recorded, Range
  <2>2. Appending = {}
    BY <1>4 DEF Appending
  <2>3. QED
    BY <2>1, <2>2 DEF Awaited
<1>9. InputsKnown
  <2>1. LengthsAgree
    BY <1>2, <1>4 DEF LengthsAgree
  <2>2. QED
    BY <1>2, <1>4, <1>8, <2>1, KnownParts
<1>10. InputsCounted
  <2>1. MaskedLines = {}
    BY <1>8 DEF MaskedLines
  <2>2. Cardinality(MaskedLines) = 0
    BY <2>1, FS_EmptySet
  <2>3. Counter = 0
    BY <1>4, NoAppending
  <2>4. \A n \in 1 .. Len(windows) : Unfrozen(n)
    BY <1>2
  <2>5. QED
    BY <1>4, <2>2, <2>3, <2>4, CountedParts
<1>11. OutputKept /\ OutputComplete
  <2>1. pump.block = <<>> /\ tail = <<>> /\ pos = 0
    BY DEF Init
  <2>2. OutputOf(<<>>) = <<>> /\ <<>> \o <<>> = <<>> /\ Len(<<>>) = 0 /\ DOMAIN <<>> = {}
    BY OutputLineByLine
  <2>3. SubSeq(work.shell, 1, 0) = <<>>
    BY SubSeqEmpty
  <2>4. OutputOpen(<<>>, <<>>, <<>>, 0)
    <3>1. SubSeq(work.shell, 0 + 1, 0) = <<>>
      BY SubSeqEmpty
    <3>2. <<>> \o Encode(<<>>) = Encode(SubSeq(work.shell, 1, 0 + 0)) /\ 0 + 0 = 0
      <4>1. 0 + 0 = 0
        OBVIOUS
      <4>2. PICK none : none = <<>>
        OBVIOUS
      <4>3. Encode(none) = none /\ none \o none = none
        BY <2>2, <4>2, EncodeEmpty
      <4>4. SubSeq(work.shell, 1, 0 + 0) = none
        BY <2>3, <4>1, <4>2
      <4>5. none \o Encode(none) = Encode(SubSeq(work.shell, 1, 0 + 0))
        BY <4>3, <4>4
      <4>6. QED
        BY <4>1, <4>2, <4>5
    <3>3. QED
      BY <2>2, <3>1, <3>2, NothingCutAtStart DEF OutputOpen, WholeCharacters
  <2>5. QED
    BY <1>3, <1>4, <2>1, <2>4, OutputParts
<1>12. QED
  BY <1>1, <1>5, <1>7, <1>9, <1>10, <1>11 DEF IndInv

LEMMA IndInvStep ==
    ASSUME RecorderConstants, IndInv, [Next]_vars
    PROVE  IndInv'
<1>1. CASE Next
  <2>1. /\ TypeOK /\ PhasesAgree /\ EndStays
        /\ HeaderFirst /\ InOrder /\ InputsKnown /\ InputsCounted
        /\ OutputKept /\ OutputComplete
    BY DEF IndInv
  <2>2. TypeOK' /\ PhasesAgree' /\ EndStays'
    BY <1>1, <2>1, TypeStep, PhasesStep
  <2>3. HeaderFirst' /\ InOrder' /\ InputsKnown'
    BY <1>1, <2>1, BookStep, KnownStep
  <2>4. InputsCounted'
    BY <1>1, <2>1, CountedStep
  <2>5. OutputKept' /\ OutputComplete'
    BY <1>1, <2>1, <2>2, OutputHeld
  <2>6. QED
    BY <2>2, <2>3, <2>4, <2>5 DEF IndInv
<1>2. CASE UNCHANGED vars
  <2>1. /\ UNCHANGED <<opt, work, now, q, pend, tail, screen, file, metaFile, pos, pump>>
        /\ UNCHANGED <<typed, windows, reader, event, flusher, closer, cut>>
    BY <1>2 DEF vars, lockVars, diskVars, pumpVars, readerVars
  <2>2. TypeOK'
    BY <2>1 DEF IndInv, TypeOK
  <2>3. PhasesAgree' /\ EndStays'
    BY <2>1 DEF IndInv, PhasesAgree, EndStays, Closed
  <2>4. HeaderFirst' /\ InOrder'
    <3>1. Lines' = Lines
      BY <2>1 DEF Lines
    <3>2. HeaderFirst'
      BY Zenon, <2>1, <3>1 DEF IndInv, HeaderFirst
    <3>3. InOrder'
      BY Zenon, <2>1, <3>1 DEF IndInv, InOrder
    <3>4. QED
      BY <3>2, <3>3
  <2>5. InputsKnown'
    BY <2>1 DEF IndInv, InputsKnown, Recorded, Appending, Awaited, MayBePlain, Lines
  <2>6. InputsCounted'
    BY <2>1 DEF IndInv, InputsCounted, Recorded, Appending, Awaited, Lines
  <2>7. OutputKept' /\ OutputComplete'
    <3>1. Lines' = Lines
      BY <2>1 DEF Lines
    <3>2. OutputKept'
      BY Zenon, <2>1, <3>1 DEF IndInv, OutputKept, CutsCharacter, CharacterAt
    <3>3. OutputComplete'
      BY Zenon, <2>1, <3>1 DEF IndInv, OutputComplete, CutsCharacter, CharacterAt
    <3>4. QED
      BY <3>2, <3>3
  <2>8. QED
    BY <2>2, <2>3, <2>4, <2>5, <2>6, <2>7 DEF IndInv
<1>3. QED
  BY <1>1, <1>2

(* The queue, the file and the goroutines of a recorder fit together in    *)
(* every state: the header comes first, lines are in the order of their    *)
(* times and numbers, each stands for a block that may be recorded so, no  *)
(* block is forgotten without a trace, and the output is all there, as     *)
(* JSON can hold it, ending where a character does.                        *)
THEOREM IndInvHolds == Spec => []IndInv
<1>1. Init => IndInv
  BY InitParts, RecorderConstants
<1>2. IndInv /\ [Next]_vars => IndInv'
  BY IndInvStep, RecorderConstants
<1>3. QED
  BY <1>1, <1>2, PTL DEF Spec

LEMMA FileIsFirst ==
    ASSUME TypeOK
    PROVE  \A i \in DOMAIN file : i \in DOMAIN Lines /\ Lines[i] = file[i]
<1> DEFINE rest == flusher.lines \o q.lines
<1>1. file \in Seq(CastLines) /\ flusher.lines \in Seq(CastLines) /\ q.lines \in Seq(CastLines)
  BY LinesTyped
<1>2. rest \in Seq(CastLines)
  BY <1>1, ConcatProperties
<1>3. Lines = file \o rest
  <2>1. \A a, b, c \in Seq(CastLines) : (a \o b) \o c = a \o (b \o c)
    BY ConcatAssociative
  <2>2. (file \o flusher.lines) \o q.lines = file \o (flusher.lines \o q.lines)
    BY Zenon, <1>1, <2>1
  <2>3. QED
    BY Zenon, <2>2 DEF Lines
<1> HIDE DEF rest
<1>4. /\ Len(file) \in Nat /\ Len(rest) \in Nat
      /\ Len(Lines) = Len(file) + Len(rest) /\ Lines \in Seq(CastLines)
      /\ \A i \in 1 .. Len(file) : Lines[i] = file[i]
  BY <1>1, <1>2, <1>3, ConcatProperties
<1>5. QED
  BY <1>1, <1>4

LEMMA Replayable ==
    ASSUME IndInv
    PROVE  CastReplays
<1>1. TypeOK /\ HeaderFirst /\ InOrder
  BY DEF IndInv
<1>2. \A i \in DOMAIN Lines : Lines[i].typ = "h" => i = 1
  BY <1>1 DEF HeaderFirst
<1>3. \A i \in DOMAIN file : file[i].typ = "h" <=> i = 1
  <2>1. \A i \in DOMAIN file : i \in DOMAIN Lines /\ Lines[i] = file[i]
    BY <1>1, FileIsFirst
  <2>2. \A i \in DOMAIN file : file[i].typ = "h" => i = 1
    BY <1>2, <2>1
  <2>3. 1 \in DOMAIN file => file[1].typ = "h"
    <3>1. SUFFICES ASSUME 1 \in DOMAIN file PROVE Lines[1].typ = "h"
      BY <2>1
    <3>2. file # <<>>
      BY <3>1
    <3>3. QED
      BY <1>1, <3>2 DEF HeaderFirst
  <2>4. QED
    BY <2>2, <2>3
<1>4. \A i \in 1 .. Len(Lines) - 1 : Lines[i].t <= Lines[i + 1].t
  <2>1. Lines \in Seq(CastLines)
    BY <1>1, LinesTyped
  <2>2. SUFFICES ASSUME NEW i \in 1 .. Len(Lines) - 1 PROVE Lines[i].t <= Lines[i + 1].t
    OBVIOUS
  <2>3. i \in DOMAIN Lines /\ i + 1 \in DOMAIN Lines /\ i < i + 1
    BY <2>1
  <2>4. QED
    BY <1>1, <2>3 DEF InOrder
<1>5. QED
  BY <1>2, <1>3, <1>4 DEF CastReplays

(* cast.log has one header, before any event, and times that never go      *)
(* back, however WriteOutput, WriteInput, WriteResize, flushLoop and Close *)
(* take turns with r.mu.                                                   *)
THEOREM AlwaysReplays == Spec => []CastReplays
BY IndInvHolds, Replayable, PTL

LEMMA InputIsRecorded ==
    ASSUME NEW i \in DOMAIN Lines, Lines[i].typ = "i"
    PROVE  Lines[i] \in Recorded
BY DEF Recorded, Range

(* Input is in the recording as it was typed only if the terminal echoed   *)
(* it, a program had the screen, or every printable byte of it was output  *)
(* before the recorder took the next block.                                *)
THEOREM SecretsStayMasked == Spec => []SecretsMasked
<1>1. IndInv => SecretsMasked
  <2>1. SUFFICES ASSUME IndInv PROVE SecretsMasked
    OBVIOUS
  <2>2. InputsKnown
    BY <2>1 DEF IndInv
  <2>3. \A l \in Recorded : KnownLine(l)
    BY <2>2, KnownParts
  <2>4. QED
    BY <2>3, InputIsRecorded DEF SecretsMasked, KnownLine
<1>2. QED
  BY <1>1, IndInvHolds, PTL

LEMMA Honest ==
    ASSUME IndInv
    PROVE  CountsHonest
<1>1. TypeOK /\ PhasesAgree /\ InOrder /\ InputsKnown /\ InputsCounted
  BY DEF IndInv
<1> DEFINE inputs == {i \in DOMAIN Lines : Lines[i].typ = "i"}
<1>2. Lines \in Seq(CastLines) /\ DOMAIN Lines = 1 .. Len(Lines) /\ Len(Lines) \in Nat
  BY <1>1, LinesTyped
<1>3. \A i \in inputs : i \in 1 .. Len(Lines) /\ Lines[i] \in Recorded /\ Lines[i].n \in Nat
  <2>1. SUFFICES ASSUME NEW i \in inputs
                 PROVE  i \in 1 .. Len(Lines) /\ Lines[i] \in Recorded /\ Lines[i].n \in Nat
    OBVIOUS
  <2>2. i \in 1 .. Len(Lines) /\ Lines[i] \in Recorded
    BY <1>2, InputIsRecorded
  <2>3. Lines[i] \in CastLines
    BY <1>2, <2>2
  <2>4. QED
    BY <2>2, <2>3, LineTypes DEF CastLines
<1>4. \A i, j \in inputs : Lines[i].n = Lines[j].n => i = j
  <2>1. SUFFICES ASSUME NEW i \in inputs, NEW j \in inputs, Lines[i].n = Lines[j].n, i # j
                 PROVE  FALSE
    OBVIOUS
  <2>2. i < j \/ j < i
    BY <1>3, <2>1
  <2>3. \A a, b \in inputs : a < b => Lines[a].n < Lines[b].n
    BY <1>1 DEF InOrder
  <2>4. Lines[i].n < Lines[j].n \/ Lines[j].n < Lines[i].n
    BY <2>2, <2>3
  <2>5. QED
    BY <1>3, <2>1, <2>4
<1>5. ASSUME Closed, metaFile.ended
      PROVE  Cardinality({i \in inputs : ~Lines[i].plain}) <= metaFile.masked
  <2> DEFINE hidden == {i \in inputs : ~Lines[i].plain}
             number == [i \in hidden |-> Lines[i].n]
  <2>1. IsFiniteSet(MaskedLines) /\ Cardinality(MaskedLines) \in Nat
    BY <1>1, MaskedFinite
  <2>2. \A i \in hidden : Lines[i].n \in MaskedLines
    BY <1>3 DEF MaskedLines
  <2>3. number \in [hidden -> MaskedLines]
    BY <2>2
  <2>4. \A i, j \in hidden : number[i] = number[j] => i = j
    BY <1>4
  <2> HIDE DEF number, hidden
  <2>5. DOMAIN number = hidden
    BY <2>3
  <2>6. number \in Injection(hidden, MaskedLines)
    BY <2>3, <2>4, <2>5 DEF Injection, IsInjective
  <2>7. IsFiniteSet(hidden) /\ Cardinality(hidden) <= Cardinality(MaskedLines)
    BY <2>1, <2>6, FS_Injection
  <2>8. Cardinality(hidden) \in Nat
    BY <2>7, FS_CardinalityType
  <2>9. Cardinality(MaskedLines) <= metaFile.masked /\ metaFile.masked \in Nat
    BY <1>1, <1>5, CountedParts DEF TypeOK, Metas
  <2>10. Cardinality(hidden) <= metaFile.masked
    BY <2>1, <2>7, <2>8, <2>9
  <2>11. QED
    BY <2>10 DEF hidden
<1>6. ASSUME Closed, metaFile.ended, metaFile.dropped = 0, opt.passwordMode # "omit",
             NEW n \in 1 .. cut.ins
      PROVE  \E i \in inputs : Lines[i].n = n
  <2>1. q.closed /\ pend = <<>>
    BY <1>1, <1>6 DEF PhasesAgree, Closed
  <2>2. cut.ins <= Len(windows) /\ \A l \in Appending : l.n > cut.ins
    BY <1>1, <2>1, CountedParts
  <2>3. cut.ins \in Int /\ Len(windows) \in Nat /\ n \in Int /\ 1 <= n /\ n <= cut.ins
    <3>1. cut \in [out : Int, ins : Int] /\ windows \in Seq(SUBSET STRING)
      BY <1>1 DEF TypeOK
    <3>2. QED
      BY <1>6, <3>1
  <2>4. Unfrozen(n)
    BY <1>1, <2>2, <2>3, CountedParts
  <2>5. n \notin Awaited
    <3>1. Range(pend) = {}
      BY <2>1 DEF Range
    <3>2. \A l \in Appending : l.n \in Nat /\ l.n # n
      <4>1. \A l \in Appending : l.n \in 1 .. Len(windows)
        BY <1>1, KnownParts DEF KnownLine
      <4>2. QED
        BY <2>2, <2>3, <4>1
    <3>3. QED
      BY <3>1, <3>2 DEF Awaited
  <2>6. ~(q.dropped > 0)
    BY <1>1, <1>6, CountedParts
  <2>7. ~(n > cut.ins)
    BY <2>3
  <2>8. PICK l \in Recorded : l.n = n
    BY <1>6, <2>4, <2>5, <2>6, <2>7 DEF Unfrozen
  <2>9. QED
    BY <2>8 DEF Recorded, Range
<1>7. QED
  BY <1>4, <1>5, <1>6 DEF CountsHonest

(* The counters meta.json ends with are those of the lines: no block has   *)
(* two lines, a masked line is counted, and a block that was to be         *)
(* recorded before Close has a line unless something was dropped.          *)
THEOREM CountsAlwaysHonest == Spec => []CountsHonest
BY IndInvHolds, Honest, PTL

(* After Close, meta.json has an end, unless Close could not write it or a *)
(* caller of Event had taken its snapshot before and wrote it afterwards.  *)
THEOREM EndIsWritten == Spec => []EndStays
<1>1. IndInv => EndStays
  BY DEF IndInv
<1>2. QED
  BY <1>1, IndInvHolds, PTL

(* As long as nothing was dropped and no limit was reached, the recording  *)
(* holds the shell's output in order, up to the moment Close began, as     *)
(* encoding all of it at once would give it: whatever blocks the pump read *)
(* and whoever appended lines in between, no character of it is cut, and   *)
(* only bytes that belong to none become U+FFFD.                           *)
THEOREM OutputAlwaysComplete == Spec => []OutputComplete
<1>1. IndInv => OutputComplete
  BY DEF IndInv
<1>2. QED
  BY <1>1, IndInvHolds, PTL

(* A finished recording is a cast as AdjacentSlices wants it.              *)
LEMMA FinishedCast ==
    ASSUME IndInv, Closed
    PROVE  /\ work.ticks \in Nat
           /\ \E header \in CastLines, rest \in Seq(CastLines) :
                 /\ file = <<header>> \o rest /\ header.typ = "h" /\ CastSorted(rest)
                 /\ \A i \in 1 .. Len(rest) : rest[i].t < work.ticks + 1
<1>1. TypeOK /\ PhasesAgree /\ HeaderFirst /\ InOrder
  BY DEF IndInv
<1>2. file \in Seq(CastLines)
  BY <1>1 DEF TypeOK
<1>3. Lines = file
  <2>1. flusher.lines = <<>> /\ q.lines = <<>>
    BY <1>1 DEF PhasesAgree, Closed
  <2>2. file \o <<>> = file /\ Lines = file \o <<>> \o <<>>
    BY Zenon, <1>2, <2>1, ConcatEmptySeq DEF Lines
  <2>3. QED
    BY <2>2
<1>4. file # <<>> /\ file[1].typ = "h" /\ \A i \in DOMAIN file : file[i].typ = "h" => i = 1
  BY Zenon, <1>1, <1>3 DEF HeaderFirst, Closed
<1>5. /\ \A i \in DOMAIN file : file[i].t <= q.lastT
      /\ \A i, j \in DOMAIN file : i < j => file[i].t <= file[j].t
  BY Zenon, <1>1, <1>3 DEF InOrder
<1>6. /\ now \in Nat /\ q.lastT \in Nat /\ q.lastT <= now /\ now <= work.ticks /\ work.ticks \in Nat
  <2>1. PICK s \in Scenarios : work = s.work
    BY <1>1 DEF TypeOK
  <2>2. work.ticks \in Nat
    BY <2>1, RecorderConstants
  <2>3. now \in 0 .. work.ticks /\ q.lastT <= now /\ q \in Queues
    BY <1>1 DEF TypeOK
  <2>4. QED
    BY <2>2, <2>3 DEF Queues
<1>7. PICK header : header = file[1]
  OBVIOUS
<1>8. PICK rest : rest = Tail(file)
  OBVIOUS
<1>9. Len(file) \in Nat /\ Len(file) # 0 /\ DOMAIN file = 1 .. Len(file)
  BY <1>2, <1>4, EmptySeq
<1>10. header \in CastLines
  <2>1. 1 \in 1 .. Len(file)
    BY <1>9
  <2>2. QED
    BY <1>2, <1>7, <2>1
<1>11. /\ rest \in Seq(CastLines) /\ Len(rest) = Len(file) - 1
       /\ \A i \in 1 .. Len(rest) : rest[i] = file[i + 1]
  BY <1>2, <1>4, <1>8, HeadTailProperties
<1>12. file = <<header>> \o rest
  <2>1. PICK c : c = <<header>> \o rest
    OBVIOUS
  <2>2. <<header>> \in Seq(CastLines) /\ Len(<<header>>) = 1 /\ <<header>>[1] = header
    BY <1>10
  <2>3. /\ c \in Seq(CastLines) /\ Len(c) = 1 + Len(rest) /\ c[1] = header
        /\ \A j \in 2 .. Len(rest) + 1 : c[j] = rest[j - 1]
    BY <1>11, <2>1, <2>2, ConcatProperties
  <2>4. ASSUME NEW i \in 1 .. Len(file)
        PROVE  c[i] = file[i]
    <3>1. CASE i = 1
      BY <1>7, <2>3, <3>1
    <3>2. CASE i # 1
      <4>1. i \in 2 .. Len(rest) + 1 /\ i - 1 \in 1 .. Len(rest) /\ (i - 1) + 1 = i
        BY <1>9, <1>11, <3>2
      <4>2. QED
        BY <1>11, <2>3, <4>1
    <3>3. QED
      BY <3>1, <3>2
  <2>5. Len(c) = Len(file)
    BY <1>9, <1>11, <2>3
  <2>6. QED
    BY <1>2, <2>1, <2>3, <2>4, <2>5, SeqEqual
<1>13. \A i \in 1 .. Len(rest) : i + 1 \in DOMAIN file /\ i + 1 # 1
  BY <1>9, <1>11
<1>14. CastSorted(rest)
  <2>1. \A i \in 1 .. Len(rest) : rest[i].typ # "h"
    BY <1>4, <1>11, <1>13
  <2>2. ASSUME NEW i \in 1 .. Len(rest), NEW j \in 1 .. Len(rest), i < j
        PROVE  rest[i].t <= rest[j].t
    <3>1. i + 1 < j + 1
      BY <2>2
    <3>2. QED
      BY <1>5, <1>11, <1>13, <3>1
  <2>3. QED
    BY <2>1, <2>2 DEF CastSorted
<1>15. \A i \in 1 .. Len(rest) : rest[i].t < work.ticks + 1
  <2>1. ASSUME NEW i \in 1 .. Len(rest)
        PROVE  rest[i].t < work.ticks + 1
    <3>1. rest[i] \in CastLines /\ rest[i].t <= q.lastT
      BY <1>5, <1>11, <1>13
    <3>2. rest[i].t \in Nat
      BY <3>1 DEF CastLines
    <3>3. QED
      BY <1>6, <3>1, <3>2
  <2>2. QED
    BY <2>1
<1>16. header.typ = "h"
  BY <1>4, <1>7
<1>17. QED
  BY <1>6, <1>10, <1>11, <1>12, <1>14, <1>15, <1>16

(* What a viewer sees of a finished recording through adjacent windows is  *)
(* what the full replay shows: every event once, at its time, on the size  *)
(* the terminal had.                                                       *)
THEOREM SlicesAlwaysTile == Spec => []SlicesTile
<1>1. IndInv => SlicesTile
  <2> SUFFICES ASSUME IndInv, Closed, NEW a \in 0 .. work.ticks, NEW b \in 0 .. work.ticks, a < b
               PROVE  Shown(Slice(file, a, b), a, 0) \o Shown(Slice(file, b, work.ticks + 1), b, 0)
                        = Shown(file, 0, a)
    BY Zenon DEF SlicesTile
  <2>1. PICK header \in CastLines, rest \in Seq(CastLines) :
           /\ file = <<header>> \o rest /\ header.typ = "h" /\ CastSorted(rest)
           /\ \A i \in 1 .. Len(rest) : rest[i].t < work.ticks + 1
    BY FinishedCast
  <2>2. PICK end : end = work.ticks + 1
    OBVIOUS
  <2>3. end \in Nat /\ a \in Nat /\ b \in Nat /\ b < end
    BY <2>2, FinishedCast
  <2>4. \A i \in 1 .. Len(rest) : rest[i].t < end
    BY <2>1, <2>2
  <2>5. PICK cast : cast = <<header>> \o rest
    OBVIOUS
  <2>6. Shown(Slice(cast, a, b), a, 0) \o Shown(Slice(cast, b, end), b, 0) = Shown(cast, 0, a)
    BY <2>1, <2>3, <2>4, <2>5, AdjacentSlices
  <2>7. QED
    BY Zenon, <2>1, <2>2, <2>5, <2>6
<1>2. QED
  BY <1>1, IndInvHolds, PTL
-----------------------------------------------------------------------------
(* KeepsLog: the events behind the header, in the recording and in the     *)
(* file.                                                                   *)

LEMMA EventsAre ==
    ASSUME NEW s \in Seq(CastLines)
    PROVE  /\ EventsOf(s) \in Seq(CastLines)
           /\ IF s # <<>> /\ s[1].typ = "h"
              THEN /\ Len(EventsOf(s)) = Len(s) - 1 /\ Len(s) >= 1
                   /\ \A i \in 1 .. Len(s) - 1 : EventsOf(s)[i] = s[i + 1]
              ELSE EventsOf(s) = s
<1>1. CASE s # <<>> /\ s[1].typ = "h"
  <2>1. EventsOf(s) = Tail(s)
    BY <1>1 DEF EventsOf
  <2>2. /\ Tail(s) \in Seq(CastLines) /\ Len(Tail(s)) = Len(s) - 1
        /\ \A i \in 1 .. Len(Tail(s)) : Tail(s)[i] = s[i + 1]
    BY <1>1, HeadTailProperties
  <2>3. Len(s) \in Nat /\ Len(s) >= 1
    BY <1>1, EmptySeq
  <2>4. QED
    BY <1>1, <2>1, <2>2, <2>3
<1>2. CASE ~(s # <<>> /\ s[1].typ = "h")
  BY <1>2 DEF EventsOf
<1>3. QED
  BY <1>1, <1>2

(* The events of a beginning are a beginning of the events.                *)
LEMMA EventsBegin ==
    ASSUME NEW a \in Seq(CastLines), NEW c \in Seq(CastLines), Len(a) <= Len(c),
           \A i \in 1 .. Len(a) : c[i] = a[i]
    PROVE  /\ Len(EventsOf(a)) \in Nat /\ Len(EventsOf(c)) \in Nat
           /\ Len(EventsOf(a)) <= Len(EventsOf(c))
           /\ EventsOf(a) = SubSeq(EventsOf(c), 1, Len(EventsOf(a)))
<1>1. PICK b : b = EventsOf(a)
  OBVIOUS
<1>2. PICK d : d = EventsOf(c)
  OBVIOUS
<1>3. b \in Seq(CastLines) /\ d \in Seq(CastLines) /\ Len(b) \in Nat /\ Len(d) \in Nat
  BY <1>1, <1>2, EventsAre
<1>4. Len(b) <= Len(d) /\ \A i \in 1 .. Len(b) : b[i] = d[i]
  <2>1. Len(a) \in Nat /\ Len(c) \in Nat
    OBVIOUS
  <2>2. CASE a = <<>>
    <3>1. b = a
      BY <1>1, <2>2 DEF EventsOf
    <3>2. Len(b) = 0
      BY <2>2, <3>1
    <3>3. QED
      BY <1>3, <3>2
  <2>3. CASE a # <<>> /\ a[1].typ = "h"
    <3>1. /\ Len(b) = Len(a) - 1 /\ Len(a) >= 1
          /\ \A i \in 1 .. Len(a) - 1 : b[i] = a[i + 1]
      BY <1>1, <2>3, EventsAre
    <3>2. c[1] = a[1] /\ c # <<>>
      BY <2>1, <3>1
    <3>3. /\ Len(d) = Len(c) - 1
          /\ \A i \in 1 .. Len(c) - 1 : d[i] = c[i + 1]
      BY <1>2, <2>3, <3>2, EventsAre
    <3>4. ASSUME NEW i \in 1 .. Len(b)
          PROVE  b[i] = d[i]
      <4>1. i \in 1 .. Len(a) - 1 /\ i \in 1 .. Len(c) - 1 /\ i + 1 \in 1 .. Len(a)
        BY <2>1, <3>1
      <4>2. QED
        BY <3>1, <3>3, <4>1
    <3>5. QED
      BY <2>1, <3>1, <3>3, <3>4
  <2>4. CASE a # <<>> /\ a[1].typ # "h"
    <3>1. Len(a) # 0
      BY <2>4, EmptySeq
    <3>2. c[1] = a[1]
      BY <2>1, <3>1
    <3>3. b = a /\ d = c
      BY <1>1, <1>2, <2>4, <3>2, EventsAre
    <3>4. QED
      BY <3>3
  <2>5. QED
    BY <2>2, <2>3, <2>4
<1>5. b = SubSeq(d, 1, Len(b))
  <2>1. PICK u : u = SubSeq(d, 1, Len(b))
    OBVIOUS
  <2>2. u \in Seq(CastLines) /\ Len(u) = Len(b) /\ \A i \in 1 .. Len(b) : u[i] = d[i]
    <3>1. \A i \in 1 .. Len(b) : i \in 1 .. Len(d)
      BY <1>3, <1>4
    <3>2. QED
      BY <1>3, <1>4, <2>1, <3>1
  <2>3. \A i \in 1 .. Len(b) : u[i] = b[i]
    BY <1>4, <2>2
  <2>4. QED
    BY <1>3, <2>1, <2>2, <2>3, SeqEqual
<1>6. QED
  BY <1>1, <1>2, <1>3, <1>4, <1>5

LEMMA EventsOfMore ==
    ASSUME NEW s \in Seq(CastLines), NEW l \in CastLines, l.typ # "h"
    PROVE  EventsOf(Append(s, l)) = Append(EventsOf(s), l)
<1>1. PICK t : t = Append(s, l)
  OBVIOUS
<1>2. /\ t \in Seq(CastLines) /\ Len(t) = Len(s) + 1 /\ Len(s) \in Nat
      /\ t[Len(s) + 1] = l /\ \A i \in 1 .. Len(s) : t[i] = s[i]
  BY <1>1, AppendProperties
<1>3. CASE s # <<>> /\ s[1].typ = "h"
  <2>1. PICK e : e = EventsOf(s)
    OBVIOUS
  <2>2. PICK f : f = EventsOf(t)
    OBVIOUS
  <2>3. /\ e \in Seq(CastLines) /\ Len(e) = Len(s) - 1 /\ Len(s) >= 1
        /\ \A i \in 1 .. Len(s) - 1 : e[i] = s[i + 1]
    BY <1>3, <2>1, EventsAre
  <2>4. t # <<>> /\ t[1].typ = "h"
    BY <1>2, <1>3, <2>3
  <2>5. /\ f \in Seq(CastLines) /\ Len(f) = Len(t) - 1
        /\ \A i \in 1 .. Len(t) - 1 : f[i] = t[i + 1]
    BY <1>2, <2>2, <2>4, EventsAre
  <2>6. PICK g : g = Append(e, l)
    OBVIOUS
  <2>7. /\ g \in Seq(CastLines) /\ Len(g) = Len(e) + 1
        /\ g[Len(e) + 1] = l /\ \A i \in 1 .. Len(e) : g[i] = e[i]
    BY <2>3, <2>6, AppendProperties
  <2>8. ASSUME NEW i \in 1 .. Len(g)
        PROVE  f[i] = g[i]
    <3>1. i \in 1 .. Len(t) - 1 /\ f[i] = t[i + 1]
      BY <1>2, <2>3, <2>5, <2>7
    <3>2. CASE i = Len(e) + 1
      BY <1>2, <2>3, <2>7, <3>1, <3>2
    <3>3. CASE i # Len(e) + 1
      <4>1. i \in 1 .. Len(e) /\ i \in 1 .. Len(s) - 1 /\ i + 1 \in 1 .. Len(s)
        BY <2>3, <2>7, <3>3
      <4>2. QED
        BY <1>2, <2>3, <2>7, <3>1, <4>1
    <3>4. QED
      BY <3>2, <3>3
  <2>9. Len(f) = Len(g)
    BY <1>2, <2>3, <2>5, <2>7
  <2>10. f = g
    BY <2>5, <2>7, <2>8, <2>9, SeqEqual
  <2>11. QED
    BY <1>1, <2>1, <2>2, <2>6, <2>10
<1>4. CASE s # <<>> /\ s[1].typ # "h"
  <2>1. Len(s) # 0
    BY <1>4, EmptySeq
  <2>2. t[1] = s[1]
    BY <1>2, <2>1
  <2>3. QED
    BY <1>1, <1>2, <1>4, <2>2, EventsAre
<1>5. CASE s = <<>>
  <2>1. Len(s) = 0 /\ t[1] = l
    BY <1>2, <1>5
  <2>2. EventsOf(s) = s /\ EventsOf(t) = t
    BY <1>2, <1>5, <2>1, EventsAre
  <2>3. QED
    BY <1>1, <2>2
<1>6. QED
  BY <1>3, <1>4, <1>5

LEMMA EventsBehind ==
    ASSUME NEW s \in Seq(CastLines), NEW h \in CastLines, h.typ = "h",
           \A i \in DOMAIN (<<h>> \o s) : (<<h>> \o s)[i].typ = "h" => i = 1
    PROVE  EventsOf(<<h>> \o s) = EventsOf(s)
<1>1. PICK t : t = <<h>> \o s
  OBVIOUS
<1>2. <<h>> \in Seq(CastLines) /\ Len(<<h>>) = 1 /\ <<h>>[1] = h /\ Len(s) \in Nat
  OBVIOUS
<1>3. /\ t \in Seq(CastLines) /\ Len(t) = Len(s) + 1 /\ t[1] = h
      /\ \A i \in 2 .. Len(s) + 1 : t[i] = s[i - 1]
  BY <1>1, <1>2, ConcatProperties
<1>4. t # <<>> /\ t[1].typ = "h" /\ \A i \in 1 .. Len(t) : t[i].typ = "h" => i = 1
  <2>1. \A i \in DOMAIN t : t[i].typ = "h" => i = 1
    BY Zenon, <1>1
  <2>2. DOMAIN t = 1 .. Len(t) /\ Len(t) # 0
    BY <1>2, <1>3
  <2>3. QED
    BY <1>3, <2>1, <2>2
<1>5. /\ EventsOf(t) \in Seq(CastLines) /\ Len(EventsOf(t)) = Len(s)
      /\ \A i \in 1 .. Len(s) : EventsOf(t)[i] = t[i + 1]
  <2>1. PICK e : e = EventsOf(t)
    OBVIOUS
  <2>2. /\ e \in Seq(CastLines) /\ Len(e) = Len(t) - 1
        /\ \A i \in 1 .. Len(t) - 1 : e[i] = t[i + 1]
    BY <1>3, <1>4, <2>1, EventsAre
  <2>3. Len(t) - 1 = Len(s)
    BY <1>2, <1>3
  <2>4. QED
    BY <2>1, <2>2, <2>3
<1>6. \A i \in 1 .. Len(s) : i + 1 \in 2 .. Len(s) + 1 /\ (i + 1) - 1 = i /\ t[i + 1] = s[i]
  BY <1>2, <1>3
<1>7. EventsOf(t) = s
  BY <1>5, <1>6, SeqEqual
<1>8. EventsOf(s) = s
  <2>1. s # <<>> => s[1].typ # "h"
    <3>1. s # <<>> => 1 \in 1 .. Len(s) /\ 2 \in 1 .. Len(t)
      BY <1>2, <1>3, EmptySeq
    <3>2. s # <<>> => t[2] = s[1] /\ t[2].typ # "h"
      BY <1>4, <1>6, <3>1
    <3>3. QED
      BY <3>2
  <2>2. QED
    BY <2>1, EventsAre
<1>9. QED
  BY <1>1, <1>7, <1>8


(* The recording grows by one line that comes last, or not at all.         *)
GrownTo(s) ==
    \/ s = Lines
    \/ \E l \in CastLines : ~q.closed /\ l.typ # "h" /\ q.lastT <= l.t /\ s = Append(Lines, l)

LEMMA AddedGrows ==
    ASSUME TypeOK, NEW r, NEW l, Adds(q, r, l), l.typ # "h"
    PROVE  GrownTo(All(r))
<1>1. All(r) = Append(Lines, l)
  BY AllWithOneMore
<1>2. QED
  BY <1>1 DEF GrownTo, Adds

LEMMA SettledGrows ==
    ASSUME TypeOK, NEW r, NEW p, Keeps(q, r) \/ \E l \in CastLines : LineOf(l, p, q, r)
    PROVE  GrownTo(All(r))
<1>1. CASE Keeps(q, r)
  BY <1>1 DEF Keeps, All, Lines, GrownTo
<1>2. CASE \E l \in CastLines : LineOf(l, p, q, r)
  <2>1. PICK l \in CastLines : LineOf(l, p, q, r)
    BY <1>2
  <2>2. Adds(q, r, l) /\ l.typ # "h"
    BY <2>1 DEF LineOf
  <2>3. QED
    BY <2>2, AddedGrows
<1>3. QED
  BY <1>1, <1>2

LEMMA LinesGrow ==
    ASSUME RecorderConstants, TypeOK, PhasesAgree, HeaderFirst, InputsKnown, Next
    PROVE  \E s : /\ GrownTo(s)
                  /\ Lines' = s \/ \E h \in CastLines : h.typ = "h" /\ Lines' = <<h>> \o s
<1>0. GrownTo(Lines)
  BY DEF GrownTo
<1>1. CASE Settles
  <2>1. PICK r : SettlesBy(r)
    BY <1>1, SettleStep
  <2>2. SettledTo(pend, r) /\ file' = file /\ flusher' = flusher /\ q'.lines = r.lines
    BY <2>1 DEF SettlesBy, After
  <2>3. GrownTo(All(r))
    BY <2>2, SettledGrows DEF SettledTo
  <2>4. Lines' = All(r)
    BY <2>2 DEF Lines, All
  <2>5. QED
    BY <2>3, <2>4
<1>2. CASE OutputMatch
  <2> DEFINE matched == MatchPending(pump.block)
  <2>1. /\ q' = q \/ SettledTo(matched, q')
        /\ file' = file /\ flusher' = flusher
    BY <1>2, MatchStep
  <2> HIDE DEF matched
  <2>2. PICK r : r = q'
    OBVIOUS
  <2>3. GrownTo(All(r))
    <3>1. CASE q' = q
      BY <1>0, <2>2, <3>1 DEF Lines, All
    <3>2. CASE SettledTo(matched, r)
      BY <3>2, SettledGrows DEF SettledTo
    <3>3. QED
      BY <2>1, <2>2, <3>1, <3>2
  <2>4. Lines' = All(r)
    BY <2>1, <2>2 DEF Lines, All
  <2>5. QED
    BY <2>3, <2>4
<1>3. CASE OutputAppend \/ ReaderAppend \/ CloseTailAppend
  <2>1. PICK line \in CastLines :
               /\ AppendedTo(line)
               /\ IF ReaderAppend THEN line.typ = reader.line.typ ELSE line.typ = "o"
               /\ file' = file /\ flusher' = flusher
    BY <1>3, AppendStep
  <2>2. line.typ # "h"
    BY <2>1 DEF ReaderAppend, InputsKnown
  <2>3. q'.lastT \in Nat
    BY <2>1 DEF AppendedTo, QueueMoves, Queues
  <2>4. PICK r : r = q'
    OBVIOUS
  <2>5. GrownTo(All(r))
    <3>1. CASE Keeps(q, r)
      BY <3>1, SettledGrows
    <3>2. CASE Adds(q, r, [line EXCEPT !.t = r.lastT])
      <4> DEFINE l == [line EXCEPT !.t = r.lastT]
      <4>1. l \in CastLines /\ l.typ # "h"
        BY <2>2, <2>3, <2>4, LineTypes
      <4>2. Adds(q, r, l)
        BY <3>2
      <4> HIDE DEF l
      <4>3. QED
        BY <4>1, <4>2, AddedGrows
    <3>3. QED
      BY <2>1, <2>4, <3>1, <3>2 DEF AppendedTo
  <2>6. Lines' = All(r)
    BY <2>1, <2>4 DEF Lines, All
  <2>7. QED
    BY <2>5, <2>6
<1>4. CASE FlushTake
  <2>1. PICK r : TakenFrom(r)
    BY <1>4, TakeStep
  <2>2. GrownTo(All(r))
    BY <2>1, SettledGrows DEF TakenFrom
  <2>3. Lines' = All(r) \/ \E h \in CastLines : h.typ = "h" /\ Lines' = <<h>> \o All(r)
    BY <2>1, TakenLines
  <2>4. QED
    BY <2>2, <2>3
<1>5. CASE CloseTake
  BY <1>0, <1>5, LastLines
<1>6. CASE Silent
  BY <1>0, <1>6, SilentLines
<1>7. QED
  BY <1>1, <1>2, <1>3, <1>4, <1>5, <1>6, StepsAre

(* The events stay, or one that is not older than any comes last.          *)
EventAdded(a, b) ==
    \E l \in CastLines : b = Append(a, l) /\ \A i \in DOMAIN a : a[i].t <= l.t

LEMMA EventsGrow ==
    ASSUME RecorderConstants, IndInv, HeaderFirst', Next
    PROVE  \/ EventsOf(Lines') = EventsOf(Lines)
           \/ ~q.closed /\ EventAdded(EventsOf(Lines), EventsOf(Lines'))
<1>0. TypeOK /\ PhasesAgree /\ HeaderFirst /\ InOrder /\ InputsKnown
  BY DEF IndInv
<1>1. PICK a : a = Lines
  OBVIOUS
<1>2. PICK b : b = Lines'
  OBVIOUS
<1>3. a \in Seq(CastLines) /\ \A i \in DOMAIN a : a[i].t <= q.lastT
  BY <1>0, <1>1, LinesTyped DEF InOrder
<1>4. \A i \in DOMAIN b : b[i].typ = "h" => i = 1
  BY <1>2 DEF HeaderFirst
<1>5. PICK s : GrownTo(s) /\ (b = s \/ \E h \in CastLines : h.typ = "h" /\ b = <<h>> \o s)
  BY <1>0, <1>2, LinesGrow
<1>6. s \in Seq(CastLines)
  BY <1>1, <1>3, <1>5, AppendProperties DEF GrownTo
<1>7. EventsOf(b) = EventsOf(s)
  <2>1. CASE b = s
    BY <2>1
  <2>2. CASE \E h \in CastLines : h.typ = "h" /\ b = <<h>> \o s
    <3>1. PICK h \in CastLines : h.typ = "h" /\ b = <<h>> \o s
      BY <2>2
    <3>2. \A i \in DOMAIN (<<h>> \o s) : (<<h>> \o s)[i].typ = "h" => i = 1
      BY Zenon, <1>4, <3>1
    <3>3. EventsOf(<<h>> \o s) = EventsOf(s)
      BY <1>6, <3>1, <3>2, EventsBehind
    <3>4. QED
      BY Zenon, <3>1, <3>3
  <2>3. QED
    BY <1>5, <2>1, <2>2
<1>8. CASE s = a
  BY <1>1, <1>2, <1>7, <1>8
<1>9. CASE \E l \in CastLines : ~q.closed /\ l.typ # "h" /\ q.lastT <= l.t /\ s = Append(a, l)
  <2>1. PICK l \in CastLines : ~q.closed /\ l.typ # "h" /\ q.lastT <= l.t /\ s = Append(a, l)
    BY <1>9
  <2>2. PICK e : e = EventsOf(a)
    OBVIOUS
  <2>3. EventsOf(s) = Append(e, l)
    BY <1>3, <2>1, <2>2, EventsOfMore
  <2>4. ASSUME NEW i \in DOMAIN e
        PROVE  e[i].t <= l.t
    <3>1. PICK j \in DOMAIN a : e[i] = a[j]
      <4>1. Len(a) \in Nat /\ DOMAIN a = 1 .. Len(a)
        BY <1>3
      <4>2. CASE a # <<>> /\ a[1].typ = "h"
        <5>1. /\ e \in Seq(CastLines) /\ Len(e) = Len(a) - 1
              /\ \A k \in 1 .. Len(a) - 1 : e[k] = a[k + 1]
          BY <1>3, <2>2, <4>2, EventsAre
        <5>2. i \in 1 .. Len(a) - 1 /\ i + 1 \in 1 .. Len(a)
          BY <4>1, <5>1
        <5>3. QED
          BY <4>1, <5>1, <5>2
      <4>3. CASE ~(a # <<>> /\ a[1].typ = "h")
        <5>1. e = a
          BY <1>3, <2>2, <4>3, EventsAre
        <5>2. QED
          BY <5>1
      <4>4. QED
        BY <4>2, <4>3
    <3>2. a[j].t \in Nat /\ l.t \in Nat /\ q.lastT \in Nat /\ a[j].t <= q.lastT
      <4>1. a[j] \in CastLines
        BY <1>3
      <4>2. QED
        BY <1>0, <1>3, <4>1, LinesTyped DEF CastLines
    <3>3. QED
      BY <2>1, <3>1, <3>2
  <2>5. EventAdded(e, EventsOf(s))
    BY <2>3, <2>4 DEF EventAdded
  <2>6. QED
    BY <1>1, <1>2, <1>7, <2>1, <2>2, <2>5
<1>10. QED
  BY <1>1, <1>5, <1>8, <1>9 DEF GrownTo

LEMMA FileMoves ==
    ASSUME Next
    PROVE  (file' = file) \/ FlushWrite \/ CloseTake
BY Zenon DEF Next, OutputSplit, OutputMatch, OutputAppend, Reader, SkipInput, WriteInput,
       WriteInputMasked, DeferToProgram, WriteInputDeferred, DeferAfterClose, DeferredPlain,
       WriteResize, ReaderAppend, NotReader, EventSnapshot, EventWrite, Flush, FlushTake, FlushEnd,
       NotFlusher, Close, CloseTail, CloseTailAppend, CloseMark, CloseMeta, NotCloser, Tick, diskVars

(* The events of the file are the first ones of the recording.             *)
LEMMA WrittenFirst ==
    ASSUME TypeOK
    PROVE  /\ Len(EventsOf(file)) \in Nat /\ Len(EventsOf(Lines)) \in Nat
           /\ Len(EventsOf(file)) <= Len(EventsOf(Lines))
           /\ EventsOf(file) = SubSeq(EventsOf(Lines), 1, Len(EventsOf(file)))
<1>1. /\ file \in Seq(CastLines) /\ Lines \in Seq(CastLines)
      /\ DOMAIN file = 1 .. Len(file) /\ DOMAIN Lines = 1 .. Len(Lines)
      /\ Len(file) \in Nat /\ Len(Lines) \in Nat
  BY LinesTyped
<1>2. \A i \in 1 .. Len(file) : i \in 1 .. Len(Lines) /\ Lines[i] = file[i]
  BY Zenon, <1>1, FileIsFirst
<1>3. Len(file) <= Len(Lines)
  <2>1. CASE Len(file) = 0
    BY <1>1, <2>1
  <2>2. CASE Len(file) # 0
    <3>1. Len(file) \in 1 .. Len(file)
      BY <1>1, <2>2
    <3>2. QED
      BY <1>1, <1>2, <3>1
  <2>3. QED
    BY <2>1, <2>2
<1>4. QED
  BY <1>1, <1>2, <1>3, EventsBegin

(* What a step does to the events, seen as the abstract recording.         *)
LEMMA OneMoreEvent ==
    ASSUME EventsOf(Lines) \in Seq(CastLines), EventAdded(EventsOf(Lines), EventsOf(Lines'))
    PROVE  Log!OneMore
<1>1. PICK a : a = EventsOf(Lines)
  OBVIOUS
<1>2. PICK b : b = EventsOf(Lines')
  OBVIOUS
<1>3. PICK l \in CastLines : b = Append(a, l) /\ \A i \in DOMAIN a : a[i].t <= l.t
  BY <1>1, <1>2 DEF EventAdded
<1>4. /\ b \in Seq(CastLines) /\ Len(b) = Len(a) + 1 /\ b[Len(a) + 1] = l
      /\ Len(a) \in Nat
  BY <1>1, <1>3, AppendProperties
<1>5. Len(a) + 1 \in DOMAIN b
  BY <1>4
<1>6. l \in {b[i] : i \in DOMAIN b}
  BY <1>4, <1>5
<1>7. \E new \in {b[i] : i \in DOMAIN b} : b = Append(a, new) /\ \A i \in DOMAIN a : a[i].t <= new.t
  BY <1>3, <1>6
<1>8. QED
  BY Zenon, <1>1, <1>2, <1>7 DEF Log!OneMore

LEMMA StartsEmpty ==
    ASSUME Init
    PROVE  Log!Init
<1>1. /\ file = <<>> /\ flusher.lines = <<>> /\ q.lines = <<>> /\ q.closed = FALSE
      /\ metaFile.ended = FALSE
  BY DEF Init, MetaNow
<1>2. Lines = <<>>
  BY <1>1, ConcatEmptySeq DEF Lines
<1>3. EventsOf(Lines) = <<>> /\ EventsOf(file) = <<>>
  BY <1>1, <1>2 DEF EventsOf
<1>4. Phase = "open"
  BY <1>1 DEF Phase
<1>5. QED
  BY <1>1, <1>3, <1>4 DEF Log!Init

LEMMA LogStep ==
    ASSUME RecorderConstants, IndInv, HeaderFirst', Next
    PROVE  Log!Next \/ UNCHANGED Log!logVars
<1>0. TypeOK /\ PhasesAgree /\ HeaderFirst
  BY DEF IndInv
<1>1. \/ EventsOf(Lines') = EventsOf(Lines)
      \/ ~q.closed /\ EventAdded(EventsOf(Lines), EventsOf(Lines'))
  BY EventsGrow
<1>2. \/ EventsOf(Lines') = EventsOf(Lines)
      \/ ~q.closed /\ Log!OneMore
  BY <1>0, <1>1, OneMoreEvent, LinesTyped, EventsAre
<1>3. q'.closed = (q.closed \/ CloseMark) /\ q.closed \in BOOLEAN
  BY <1>0, QueueStep DEF TypeOK, Queues
<1>4. /\ q.closed <=> closer.at \in {"wait", "meta", "done"}
      /\ closer.at \in {"meta", "done"} => flusher.at = "gone"
      /\ closer.at = "meta" => closer.snap.ended
      /\ metaFile.ended => Closed
      /\ \A e \in Callers : event[e].at = "write" => ~event[e].snap.ended
  BY <1>0 DEF PhasesAgree
<1>5. \/ closer' = closer /\ ~CloseMark /\ ~CloseTake /\ ~CloseMeta
      \/ ~CloseMark /\ closer.at \in {"idle", "tail"} /\ closer'.at \in {"tail", "mark"}
      \/ CloseMark /\ closer.at = "mark" /\ closer'.at = "wait"
      \/ ~CloseMark /\ CloseTake /\ closer.at = "wait" /\ closer'.at = "meta"
      \/ ~CloseMark /\ CloseMeta /\ closer.at = "meta" /\ closer'.at = "done"
  BY CloserMoves
<1>6. CloseMeta \/ (metaFile' = metaFile) \/ \E e \in Callers : EventWrite(e)
  BY MetaMoves
<1>7. metaFile.ended \in BOOLEAN /\ metaFile'.ended \in BOOLEAN
  <2>1. metaFile \in Metas /\ metaFile' \in Metas
    BY <1>0, FilesTyped DEF TypeOK
  <2>2. QED
    BY <2>1 DEF Metas
<1>8. ~CloseMark /\ ~CloseTake => Phase' = Phase
  BY <1>3, <1>4, <1>5 DEF Phase
<1>9. CASE CloseMark
  <2>1. file' = file /\ metaFile' = metaFile
    BY <1>9 DEF CloseMark, diskVars
  <2>2. ~q.closed /\ Phase = "open" /\ Phase' = "closing"
    BY <1>3, <1>4, <1>5, <1>9 DEF Phase
  <2>3. Log!BeginClose
    BY <1>2, <2>1, <2>2 DEF Log!BeginClose
  <2>4. QED
    BY <2>3 DEF Log!Next
<1>10. CASE CloseTake
  <2>1. metaFile' = metaFile
    BY <1>10 DEF CloseTake
  <2>2. ~CloseMark /\ q.closed /\ Phase = "closing" /\ Phase' = "sealed"
    <3>1. closer.at = "wait" /\ closer'.at = "meta"
      BY <1>10 DEF CloseTake
    <3>2. ~CloseMark
      BY <3>1 DEF CloseMark
    <3>3. q.closed /\ q'.closed
      BY <1>3, <1>4, <3>1
    <3>4. QED
      BY <3>1, <3>2, <3>3 DEF Phase
  <2>3. EventsOf(Lines') = EventsOf(Lines)
    BY <1>2, <2>2
  <2>4. Lines' = file'
    <3>1. q'.lines = <<>> /\ flusher'.lines = <<>>
      BY <1>0, <1>10 DEF CloseTake, NotCloser, TypeOK, Queues, PhasesAgree
    <3>2. file' \in Seq(CastLines)
      BY <1>0, FilesTyped DEF TypeOK
    <3>3. file' \o <<>> = file'
      BY <3>2, ConcatEmptySeq
    <3>4. QED
      BY <3>1, <3>3 DEF Lines
  <2>5. EventsOf(file') = EventsOf(Lines)
    BY <2>3, <2>4
  <2>6. Log!Seal
    BY <2>1, <2>2, <2>3, <2>5 DEF Log!Seal
  <2>7. QED
    BY <2>6 DEF Log!Next
<1>11. CASE CloseMeta \/ \E e \in Callers : EventWrite(e)
  <2>1. file' = file /\ Silent /\ Lines' = Lines
    <3>1. Silent
      BY <1>11 DEF Silent
    <3>2. file' = file
      BY <1>11 DEF CloseMeta, EventWrite
    <3>3. QED
      BY <1>0, <3>1, <3>2, SilentLines
  <2>2. ~CloseMark /\ ~CloseTake
    <3>1. CASE CloseMeta
      BY <3>1 DEF CloseMeta, CloseMark, CloseTake
    <3>2. CASE \E e \in Callers : EventWrite(e)
      <4>1. closer' = closer
        BY <3>2 DEF EventWrite
      <4>2. CloseMark => closer.at = "mark" /\ closer'.at = "wait"
        BY DEF CloseMark
      <4>3. CloseTake => closer.at = "wait" /\ closer'.at = "meta"
        BY DEF CloseTake
      <4>4. QED
        BY <4>1, <4>2, <4>3
    <3>3. QED
      BY <1>11, <3>1, <3>2
  <2>3. Phase' = Phase
    BY <1>8, <2>2
  <2>4. metaFile'.ended # metaFile.ended => Phase = "sealed"
    <3>1. CASE CloseMeta
      BY <1>4, <3>1 DEF CloseMeta, Phase
    <3>2. CASE \E e \in Callers : EventWrite(e)
      <4>1. metaFile' = metaFile \/ ~metaFile'.ended
        BY <1>4, <3>2 DEF EventWrite
      <4>2. metaFile.ended => Phase = "sealed"
        BY <1>4 DEF Closed, Phase
      <4>3. QED
        BY <1>7, <4>1, <4>2
    <3>3. QED
      BY <1>11, <3>1, <3>2
  <2>5. CASE metaFile'.ended = metaFile.ended
    BY <2>1, <2>3, <2>5 DEF Log!logVars
  <2>6. CASE metaFile'.ended # metaFile.ended
    <3>1. metaFile'.ended = ~metaFile.ended
      BY <1>7, <2>6
    <3>2. Log!Conclude
      BY <2>1, <2>3, <2>4, <2>6, <3>1 DEF Log!Conclude
    <3>3. QED
      BY <3>2 DEF Log!Next
  <2>7. QED
    BY <2>5, <2>6
<1>12. CASE FlushWrite
  <2>1. metaFile' = metaFile /\ flusher.at = "write" /\ q' = q /\ closer' = closer
    BY <1>12 DEF FlushWrite, NotFlusher
  <2>2. Phase' = Phase /\ Phase # "sealed"
    BY <1>4, <2>1 DEF Phase
  <2>3. Lines' = Lines
    BY <1>0, <1>12, SilentLines DEF Silent
  <2>4. PICK a : a = EventsOf(Lines)
    OBVIOUS
  <2>5. PICK w : w = EventsOf(file)
    OBVIOUS
  <2>6. PICK v : v = EventsOf(file')
    OBVIOUS
  <2>7. Len(w) \in Nat /\ Len(a) \in Nat /\ w = SubSeq(a, 1, Len(w))
    BY <1>0, <2>4, <2>5, WrittenFirst
  <2>8. /\ Len(v) \in Nat /\ Len(v) <= Len(a) /\ v = SubSeq(a, 1, Len(v))
        /\ Len(w) <= Len(v)
    <3>1. PICK f : f = file'
      OBVIOUS
    <3>2. /\ file \in Seq(CastLines) /\ flusher.lines \in Seq(CastLines)
          /\ q.lines \in Seq(CastLines) /\ f = file \o flusher.lines /\ Lines = f \o q.lines
      BY <1>0, <1>12, <3>1, LinesTyped DEF FlushWrite, Lines
    <3>3. /\ f \in Seq(CastLines) /\ Len(file) <= Len(f)
          /\ \A i \in 1 .. Len(file) : f[i] = file[i]
      BY <3>2, ConcatProperties
    <3>4. /\ Lines \in Seq(CastLines) /\ Len(f) <= Len(Lines)
          /\ \A i \in 1 .. Len(f) : Lines[i] = f[i]
      <4>1. PICK rest : rest = q.lines
        OBVIOUS
      <4>2. PICK all : all = Lines
        OBVIOUS
      <4>3. rest \in Seq(CastLines) /\ all = f \o rest
        BY <3>2, <4>1, <4>2
      <4>4. Len(f) \in Nat /\ Len(rest) \in Nat
        BY <3>3, <4>3
      <4>5. /\ all \in Seq(CastLines) /\ Len(all) = Len(f) + Len(rest)
            /\ \A i \in 1 .. Len(f) : all[i] = f[i]
        BY <3>3, <4>3, ConcatProperties
      <4>6. QED
        BY <4>2, <4>4, <4>5
    <3>5. Len(v) \in Nat /\ Len(v) <= Len(a) /\ v = SubSeq(a, 1, Len(v))
      BY <2>4, <2>6, <3>1, <3>3, <3>4, EventsBegin
    <3>6. Len(w) <= Len(v)
      BY <2>5, <2>6, <3>1, <3>2, <3>3, EventsBegin
    <3>7. QED
      BY <3>5, <3>6
  <2>9. CASE Len(v) = Len(w)
    <3>1. v = w
      BY <2>7, <2>8, <2>9
    <3>2. QED
      BY <2>1, <2>2, <2>3, <2>5, <2>6, <3>1 DEF Log!logVars
  <2>10. CASE Len(v) # Len(w)
    <3>1. Len(v) \in Len(w) + 1 .. Len(a)
      <4>1. \A i, j, k \in Nat : i <= j /\ j <= k /\ i # j => j \in i + 1 .. k
        OBVIOUS
      <4>2. QED
        BY <2>7, <2>8, <2>10, <4>1, Zenon
    <3>2. \E n \in Len(w) + 1 .. Len(a) : v = SubSeq(a, 1, n)
      BY <2>8, <3>1
    <3>3. Log!Write
      BY <2>1, <2>2, <2>3, <2>4, <2>5, <2>6, <3>2 DEF Log!Write
    <3>4. QED
      BY <3>3 DEF Log!Next
  <2>11. QED
    BY <2>9, <2>10
<1>13. CASE ~CloseMark /\ ~CloseTake /\ ~CloseMeta /\ ~FlushWrite /\ ~(\E e \in Callers : EventWrite(e))
  <2>1. file' = file /\ metaFile' = metaFile /\ Phase' = Phase
    BY <1>6, <1>8, <1>13, FileMoves
  <2>2. CASE EventsOf(Lines') = EventsOf(Lines)
    BY <2>1, <2>2 DEF Log!logVars
  <2>3. CASE ~q.closed /\ Log!OneMore
    <3>1. Phase = "open"
      BY <2>3 DEF Phase
    <3>2. Log!Accept
      BY <2>1, <2>3, <3>1 DEF Log!Accept
    <3>3. QED
      BY <3>2 DEF Log!Next
  <2>4. QED
    BY <1>2, <2>2, <2>3
<1>14. QED
  BY <1>9, <1>10, <1>11, <1>12, <1>13

(* Whatever goroutines and locks do, the recorder keeps the promise of     *)
(* CastLog: every event that was queued reaches cast.log once and in that  *)
(* order, each write leaves a beginning of the recording there, nothing is *)
(* accepted after CloseMark or written after CloseTake, and only then may  *)
(* meta.json have an end.                                                  *)
THEOREM LogIsKept == Spec => KeepsLog
<1>1. Init => Log!Init
  BY StartsEmpty
<1>2. IndInv /\ IndInv' /\ [Next]_vars => [Log!Next]_(Log!logVars)
  <2> SUFFICES ASSUME IndInv, IndInv', [Next]_vars
               PROVE  Log!Next \/ UNCHANGED Log!logVars
    OBVIOUS
  <2>1. CASE Next
    <3>1. HeaderFirst'
      BY DEF IndInv
    <3>2. QED
      BY <2>1, <3>1, LogStep, RecorderConstants
  <2>2. CASE UNCHANGED vars
    <3>1. file' = file /\ flusher' = flusher /\ q' = q /\ closer' = closer /\ metaFile' = metaFile
      BY <2>2 DEF vars, lockVars, diskVars
    <3>2. Lines' = Lines /\ Phase' = Phase
      BY <3>1 DEF Lines, Phase
    <3>3. QED
      BY <3>1, <3>2 DEF Log!logVars
  <2>3. QED
    BY <2>1, <2>2
<1>3. QED
  BY <1>1, <1>2, IndInvHolds, PTL DEF Spec, KeepsLog, Log!Spec
=============================================================================
