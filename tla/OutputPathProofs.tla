-------------------------- MODULE OutputPathProofs --------------------------
(***************************************************************************)
(* What OutputPath.tla claims of Spec, for any number of connections and   *)
(* chunks and any size of the backlog.  The inductive invariant is IndInv; *)
(* first what the sequence operators do to the set and the order of the    *)
(* chunks, then one lemma per part of the invariant, one step per action   *)
(* (those that move no chunk are one case), then the theorems.             *)
(***************************************************************************)
EXTENDS OutputPath, SequenceTheorems, TLAPS

-----------------------------------------------------------------------------
(* Sequences of chunks.                                                    *)

LEMMA RangeIs ==
    ASSUME NEW S, NEW s \in Seq(S)
    PROVE  /\ Range(s) = {s[i] : i \in 1..Len(s)}
           /\ Range(s) \subseteq S
BY DEF Range

LEMMA ConcatRange ==
    ASSUME NEW S, NEW s \in Seq(S), NEW t \in Seq(S)
    PROVE  Range(s \o t) = Range(s) \cup Range(t)
<1> DEFINE st == s \o t
<1>1. /\ st \in Seq(S) /\ Len(st) = Len(s) + Len(t)
      /\ \A i \in 1..Len(st) : st[i] = IF i <= Len(s) THEN s[i] ELSE t[i - Len(s)]
      /\ Len(s) \in Nat /\ Len(t) \in Nat
  BY ConcatProperties
<1> HIDE DEF st
<1>2. \A i \in 1..Len(s) : i \in 1..Len(st) /\ st[i] = s[i]
  BY <1>1
<1>3. \A i \in 1..Len(t) : Len(s) + i \in 1..Len(st) /\ st[Len(s) + i] = t[i]
  BY <1>1
<1>4. \A i \in 1..Len(st) : \/ i \in 1..Len(s) /\ st[i] = s[i]
                            \/ i - Len(s) \in 1..Len(t) /\ st[i] = t[i - Len(s)]
  BY <1>1
<1>5. QED
  <2>1. Range(st) = {st[i] : i \in 1..Len(st)}
    BY <1>1, RangeIs
  <2>2. Range(s) = {s[i] : i \in 1..Len(s)} /\ Range(t) = {t[i] : i \in 1..Len(t)}
    BY RangeIs
  <2>3. QED
    BY <1>2, <1>3, <1>4, <2>1, <2>2 DEF st

LEMMA ConcatInjective ==
    ASSUME NEW S, NEW s \in Seq(S), NEW t \in Seq(S),
           IsInjective(s), IsInjective(t), Range(s) \cap Range(t) = {}
    PROVE  IsInjective(s \o t)
<1> DEFINE st == s \o t
<1>1. /\ st \in Seq(S) /\ Len(st) = Len(s) + Len(t)
      /\ \A i \in 1..Len(st) : st[i] = IF i <= Len(s) THEN s[i] ELSE t[i - Len(s)]
      /\ Len(s) \in Nat /\ Len(t) \in Nat
  BY ConcatProperties
<1>2. /\ \A i, j \in 1..Len(s) : s[i] = s[j] => i = j
      /\ \A i, j \in 1..Len(t) : t[i] = t[j] => i = j
  BY DEF IsInjective
<1>3. \A i \in 1..Len(s), j \in 1..Len(t) : s[i] # t[j]
  BY RangeIs
<1>4. DOMAIN st = 1..Len(st)
  BY <1>1
<1> HIDE DEF st
<1>5. ASSUME NEW i \in 1..Len(st), NEW j \in 1..Len(st), st[i] = st[j]
      PROVE  i = j
  <2>1. CASE i <= Len(s) /\ j <= Len(s)
    BY <1>1, <1>2, <1>5, <2>1
  <2>2. CASE i > Len(s) /\ j > Len(s)
    <3>1. i - Len(s) \in 1..Len(t) /\ j - Len(s) \in 1..Len(t)
      BY <1>1, <2>2
    <3>2. t[i - Len(s)] = t[j - Len(s)]
      BY <1>1, <1>5, <2>2
    <3>3. i - Len(s) = j - Len(s)
      BY <1>2, <3>1, <3>2
    <3>4. QED
      BY <1>1, <3>3
  <2>3. CASE i <= Len(s) /\ j > Len(s)
    <3>1. i \in 1..Len(s) /\ j - Len(s) \in 1..Len(t)
      BY <1>1, <2>3
    <3>2. QED
      BY SMTT(30), <1>1, <1>3, <1>5, <2>3, <3>1
  <2>4. CASE i > Len(s) /\ j <= Len(s)
    <3>1. j \in 1..Len(s) /\ i - Len(s) \in 1..Len(t)
      BY <1>1, <2>4
    <3>2. QED
      BY <1>1, <1>3, <1>5, <2>4, <3>1
  <2>5. QED
    BY <1>1, <2>1, <2>2, <2>3, <2>4
<1>6. QED
  BY <1>4, <1>5 DEF IsInjective, st

LEMMA SingleChunk ==
    ASSUME NEW S, NEW e \in S
    PROVE  /\ <<e>> \in Seq(S) /\ Len(<<e>>) = 1 /\ <<e>>[1] = e
           /\ Range(<<e>>) = {e} /\ IsInjective(<<e>>)
BY DEF Range, IsInjective

LEMMA AppendRange ==
    ASSUME NEW S, NEW s \in Seq(S), NEW e \in S
    PROVE  Range(Append(s, e)) = Range(s) \cup {e}
<1> DEFINE t == <<e>>
<1>1. Append(s, e) = s \o t
  BY AppendIsConcat
<1>2. t \in Seq(S) /\ Range(t) = {e}
  BY SingleChunk
<1> HIDE DEF t
<1>3. QED
  BY <1>1, <1>2, ConcatRange

(* Appending something newer than all there is.                            *)
LEMMA AppendIncreasing ==
    ASSUME NEW s \in Seq(Nat), NEW e \in Nat, Increasing(s),
           \A k \in Range(s) : k < e
    PROVE  Increasing(Append(s, e))
<1>1. \A i \in 1..Len(s) : s[i] < e
  BY RangeIs
<1>2. QED
  BY <1>1, AppendProperties DEF Increasing

(* What is left of a backlog that grew too long is its newest part; what   *)
(* is cut off when one chunk was appended is the oldest chunk.             *)
LEMMA TrimmedKeepsOrder ==
    ASSUME NEW s \in Seq(Chunks), Increasing(s)
    PROVE  /\ Trimmed(s) \in Seq(Chunks) /\ Len(Trimmed(s)) <= MaxPending
           /\ Range(Trimmed(s)) \subseteq Range(s)
           /\ Increasing(Trimmed(s))
           /\ Len(s) <= MaxPending => Trimmed(s) = s
           /\ Len(s) = MaxPending + 1 => Range(s) \ {Head(s)} \subseteq Range(Trimmed(s))
<1> USE OutputConstants
<1> DEFINE n == Len(s)
           m == n - MaxPending + 1
           t == SubSeq(s, m, n)
<1>1. n \in Nat /\ \A i \in 1..n : s[i] \in Chunks
  OBVIOUS
<1>2. CASE n <= MaxPending
  BY <1>1, <1>2 DEF Trimmed
<1>3. CASE n > MaxPending
  <2>1. Trimmed(s) = t
    BY <1>3 DEF Trimmed
  <2>2. m \in Int /\ \A i \in m..n : i \in 1..n /\ s[i] \in Chunks
    BY <1>1, <1>3
  <2>3. /\ t \in Seq(Chunks) /\ Len(t) = MaxPending
        /\ \A i \in 1..MaxPending : t[i] = s[m + i - 1]
    <3> HIDE DEF m
    <3>1. /\ t \in Seq(Chunks) /\ Len(t) = IF m <= n THEN n - m + 1 ELSE 0
          /\ \A i \in 1..(n - m + 1) : t[i] = s[m + i - 1]
      BY <1>1, <2>2, SubSeqProperties
    <3>2. n - m + 1 = MaxPending /\ m <= n
      BY <1>1, <1>3 DEF m
    <3>3. QED
      BY <3>1, <3>2
  <2> HIDE DEF t
  <2>4. \A i \in 1..MaxPending : m + i - 1 \in 1..n
    BY <1>1, <1>3
  <2>5. Increasing(t)
    <3> SUFFICES ASSUME NEW i \in 1..MaxPending, NEW j \in 1..MaxPending, i < j
                 PROVE  t[i] < t[j]
      BY <2>3 DEF Increasing
    <3>1. m + i - 1 \in 1..n /\ m + j - 1 \in 1..n /\ m + i - 1 < m + j - 1
      BY <1>1, <2>4
    <3>2. QED
      BY <2>3, <3>1 DEF Increasing
  <2>6. /\ Range(s) = {s[i] : i \in 1..n}
        /\ Range(t) = {t[i] : i \in 1..MaxPending}
        /\ Range(t) \subseteq Range(s)
    <3>1. Range(s) = {s[i] : i \in 1..n}
      BY RangeIs
    <3>2. Range(t) = {t[i] : i \in 1..MaxPending}
      BY <2>3, RangeIs
    <3>3. QED
      BY <2>3, <2>4, <3>1, <3>2
  <2>7. ASSUME n = MaxPending + 1
        PROVE  Range(s) \ {Head(s)} \subseteq Range(t)
    <3>1. Head(s) = s[1] /\ m = 2
      BY <1>3, <2>7
    <3>2. ASSUME NEW i \in 1..n, i # 1
          PROVE  s[i] \in Range(t)
      <4>1. i - 1 \in 1..MaxPending /\ m + (i - 1) - 1 = i
        BY <2>7, <3>1, <3>2
      <4>2. t[i - 1] = s[i]
        BY <2>3, <4>1
      <4>3. QED
        BY <2>6, <4>1, <4>2
    <3>3. QED
      BY <2>6, <3>1, <3>2
  <2>8. ~(n <= MaxPending) /\ Len(t) <= MaxPending
    BY <1>1, <1>3, <2>3
  <2>9. QED
    BY <2>1, <2>3, <2>5, <2>6, <2>7, <2>8
<1>4. QED
  BY <1>1, <1>2, <1>3

-----------------------------------------------------------------------------
(* The type.                                                               *)

LEMMA DeliverEffect ==
    ASSUME TypeOK, NEW c \in Conns, NEW chunks \in Seq(Chunks), Deliver(c, chunks)
    PROVE  /\ received' \in [Conns -> Seq(Chunks)]
           /\ \A d \in Conns \ {c} : received'[d] = received[d]
           /\ \/ sock[c] = "open" /\ received'[c] = received[c] \o chunks
              \/ sock[c] = "closed" /\ received'[c] = received[c]
<1>1. received[c] \o chunks \in Seq(Chunks)
  BY ConcatProperties DEF TypeOK
<1>2. QED
  BY <1>1 DEF TypeOK, Deliver

(* The backlog after sendOutput has put a chunk into it.                   *)
LEMMA PendingGrows ==
    ASSUME TypeOK, PlacesConsistent, RecordedFirst, OldestWaits, RouteToPending
    PROVE  /\ pending' \in Seq(Chunks) /\ Len(pending') <= MaxPending
           /\ Increasing(pending')
           /\ Range(pending') \subseteq Range(pending) \cup {chunk}
           /\ \A k \in (Range(pending) \cup {chunk}) \ Range(pending') :
                 Len(pending) = MaxPending /\ k = Head(pending)
<1> DEFINE p == Append(pending, chunk)
<1>1. /\ chunk \in Chunks /\ pending \in Seq(Chunks) /\ pending \in Seq(Nat)
      /\ chunk \in Nat
  <2>1. Chunks \subseteq Nat
    BY OutputConstants DEF Chunks
  <2>2. pending \in Seq(Chunks) /\ chunk \in 0..MaxChunks
    BY DEF TypeOK
  <2>3. chunk > 0
    BY DEF RouteToPending, PlacesConsistent, Holding
  <2>4. chunk \in Chunks
    BY <2>2, <2>3, OutputConstants DEF Chunks
  <2>5. pending \in Seq(Nat)
    BY <2>1, <2>2, SeqMonotonic
  <2>6. QED
    BY <2>1, <2>2, <2>4, <2>5
<1>2. \A k \in Range(pending) : k < chunk
  BY DEF RouteToPending, RecordedFirst, Stored, Holding
<1>3. /\ p \in Seq(Chunks) /\ Len(p) = Len(pending) + 1
      /\ pending # <<>> => Head(p) = Head(pending)
  BY <1>1, AppendProperties, HeadTailAppend
<1>4. Range(p) = Range(pending) \cup {chunk}
  BY <1>1, AppendRange
<1>5. Increasing(p)
  BY <1>1, <1>2, AppendIncreasing DEF OldestWaits
<1>6. pending' = Trimmed(p)
  BY DEF RouteToPending
<1> HIDE DEF p
<1>7. Len(pending) \in Nat /\ Len(pending) <= MaxPending
  BY <1>1 DEF TypeOK
<1>8. CASE Len(pending) < MaxPending
  <2>1. Len(p) <= MaxPending
    BY <1>3, <1>7, <1>8, OutputConstants
  <2>2. QED
    BY <1>3, <1>4, <1>5, <1>6, <2>1, TrimmedKeepsOrder
<1>9. CASE Len(pending) = MaxPending
  <2>1. Len(p) = MaxPending + 1 /\ Head(p) = Head(pending)
    BY <1>1, <1>3, <1>9, OutputConstants
  <2>2. QED
    BY <1>3, <1>4, <1>5, <1>6, <1>9, <2>1, TrimmedKeepsOrder
<1>10. QED
  BY <1>7, <1>8, <1>9, OutputConstants

LEMMA TypeInductive ==
    ASSUME TypeOK, PlacesConsistent, RecordedFirst, OldestWaits, [Next]_vars
    PROVE  TypeOK'
<1> USE OutputConstants DEF TypeOK, sessionVars, recVars, pumpVars, attachVars, clientVars,
        endVars, Goto
<1>1. CASE UNCHANGED vars
  BY <1>1 DEF vars
<1>2. CASE PumpRead
  BY <1>2 DEF PumpRead
<1>3. CASE Record
  <2>1. chunk \in Chunks
    BY <1>3 DEF Record, PlacesConsistent, Holding, Chunks
  <2>2. Append(recorded, chunk) \in Seq(Chunks)
    BY <2>1, AppendProperties
  <2>3. QED
    BY <1>3, <2>2 DEF Record
<1>4. CASE RouteNowhere \/ RouteToConn
  BY <1>4 DEF RouteNowhere, RouteToConn
<1>5. CASE RouteToPending
  <2>1. pending' \in Seq(Chunks) /\ Len(pending') <= MaxPending
    BY <1>5, PendingGrows
  <2>2. QED
    BY <1>5, <2>1 DEF RouteToPending
<1>6. CASE Send
  <2>1. to \in Conns /\ <<chunk>> \in Seq(Chunks)
    BY <1>6 DEF Send, PlacesConsistent, Holding, Chunks
  <2>2. Deliver(to, <<chunk>>)
    BY <1>6 DEF Send
  <2>3. received' \in [Conns -> Seq(Chunks)]
    BY <2>1, <2>2, DeliverEffect
  <2>4. QED
    BY <1>6, <2>3 DEF Send
<1>7. CASE PumpEnds
  BY <1>7 DEF PumpEnds, Take
<1>8. ASSUME NEW c \in Conns, Swap(c)
      PROVE  TypeOK'
  BY <1>8, EmptySeq DEF Swap
<1>9. ASSUME NEW c \in Conns, Refuse(c)
      PROVE  TypeOK'
  BY <1>9 DEF Refuse, HangUp
<1>10. ASSUME NEW c \in Conns, Kick(c)
       PROVE  TypeOK'
  BY <1>10 DEF Kick, HangUp
<1>11. ASSUME NEW c \in Conns, Flush(c)
       PROVE  TypeOK'
  <2>1. Deliver(c, backlog[c])
    BY <1>11 DEF Flush
  <2>2. received' \in [Conns -> Seq(Chunks)]
    BY <2>1, DeliverEffect
  <2>3. QED
    BY <1>11, <2>2, EmptySeq DEF Flush
<1>12. ASSUME NEW c \in Conns, Announce(c) \/ DetachClear(c)
       PROVE  TypeOK'
  BY <1>12 DEF Announce, DetachClear
<1>13. ASSUME NEW c \in Conns, Client(c)
       PROVE  TypeOK'
  BY <1>13 DEF Client, ClientStalls, ClientResumes, ClientGone
<1>14. CASE ShellExits \/ CloseByOther \/ CloseSteps
  BY <1>14 DEF ShellExits, CloseByOther, CloseSteps, Take, Notify, HangUp, CloseShell,
               CloseRecorder
<1>15. QED
  BY <1>1, <1>2, <1>3, <1>4, <1>5, <1>6, <1>7, <1>8, <1>9, <1>10, <1>11, <1>12, <1>13, <1>14
  DEF Next, Pump, Attaching

-----------------------------------------------------------------------------
(* The steps that move a chunk that is waiting or written; all the others. *)

Moving == RouteToPending \/ Send \/ \E c \in Conns : Swap(c) \/ Flush(c)

LEMMA RestMovesNothing ==
    ASSUME [Next]_vars, ~Moving
    PROVE  UNCHANGED <<pending, backlog, received>>
BY DEF Moving, Next, vars, sessionVars, recVars, pumpVars, attachVars, clientVars, endVars,
       Pump, PumpRead, Record, RouteNowhere, RouteToConn, PumpEnds, Take, Attaching, Refuse,
       Kick, Announce, DetachClear, Client, ClientStalls, ClientResumes, ClientGone,
       ShellExits, CloseByOther, CloseSteps, Notify, CloseShell, CloseRecorder

(* sendOutput writes what is newer than all that is stored.                *)
LEMMA SendEffect ==
    ASSUME TypeOK, PlacesConsistent, RecordedFirst, Send
    PROVE  /\ to \in Conns /\ chunk \in Chunks /\ at[to] # "idle"
           /\ \A k \in Stored : k < chunk
           /\ chunk = Len(recorded) /\ chunk' = chunk /\ recorded' = recorded
           /\ pending' = pending /\ backlog' = backlog /\ at' = at
           /\ \A d \in Conns \ {to} : received'[d] = received[d]
           /\ \/ sock[to] = "open" /\ received'[to] = Append(received[to], chunk)
              \/ sock[to] = "closed" /\ received'[to] = received[to]
<1>1. /\ pumpAt = "send" /\ Deliver(to, <<chunk>>)
      /\ chunk' = chunk /\ recorded' = recorded
      /\ pending' = pending /\ backlog' = backlog /\ at' = at
  BY DEF Send, sessionVars, recVars, attachVars
<1>2. to \in Conns /\ chunk \in Chunks /\ at[to] # "idle"
  BY <1>1, OutputConstants DEF PlacesConsistent, Holding, TypeOK, Chunks
<1>3. (\A k \in Stored : k < chunk) /\ chunk = Len(recorded)
  BY <1>1 DEF RecordedFirst, Holding
<1>4. /\ \A d \in Conns \ {to} : received'[d] = received[d]
      /\ \/ sock[to] = "open" /\ received'[to] = received[to] \o <<chunk>>
         \/ sock[to] = "closed" /\ received'[to] = received[to]
  BY <1>1, <1>2, SingleChunk, DeliverEffect
<1>5. received[to] \o <<chunk>> = Append(received[to], chunk)
  BY <1>2, AppendIsConcat DEF TypeOK
<1>6. QED
  BY <1>1, <1>2, <1>3, <1>4, <1>5

(* The swap hands the whole of pending to a connection that has nothing.   *)
LEMMA SwapEffect ==
    ASSUME TypeOK, PlacesConsistent, NEW c \in Conns, Swap(c)
    PROVE  /\ pending' = <<>> /\ received' = received /\ received[c] = <<>>
           /\ backlog[c] = <<>> /\ backlog'[c] = pending /\ at'[c] = "kick"
           /\ \A d \in Conns \ {c} : backlog'[d] = backlog[d] /\ at'[d] = at[d]
           /\ UNCHANGED <<closed, recVars, pumpVars>>
BY DEF Swap, PlacesConsistent, TypeOK, Goto, clientVars, recVars, pumpVars

(* The flush, whether the connection still lives or not.                   *)
LEMMA FlushEffect ==
    ASSUME TypeOK, NEW c \in Conns, Flush(c)
    PROVE  /\ at[c] = "flush" /\ at'[c] = "announce"
           /\ pending' = pending /\ backlog'[c] = <<>>
           /\ \A d \in Conns \ {c} : /\ backlog'[d] = backlog[d] /\ at'[d] = at[d]
                                    /\ received'[d] = received[d]
           /\ \/ sock[c] = "open" /\ received'[c] = received[c] \o backlog[c]
              \/ sock[c] = "closed" /\ received'[c] = received[c]
           /\ UNCHANGED <<closed, conn, recVars, pumpVars>>
<1>1. /\ at[c] = "flush" /\ Deliver(c, backlog[c])
      /\ backlog' = [backlog EXCEPT ![c] = <<>>] /\ at' = [at EXCEPT ![c] = "announce"]
      /\ UNCHANGED <<closed, conn, pending, recVars, pumpVars>>
  BY DEF Flush, Goto, sessionVars
<1>2. backlog[c] \in Seq(Chunks)
  BY DEF TypeOK
<1>3. /\ \A d \in Conns \ {c} : received'[d] = received[d]
      /\ \/ sock[c] = "open" /\ received'[c] = received[c] \o backlog[c]
         \/ sock[c] = "closed" /\ received'[c] = received[c]
  BY <1>1, <1>2, DeliverEffect
<1>4. QED
  BY <1>1, <1>3 DEF TypeOK

LEMMA EmptyRange == Range(<<>>) = {} /\ IsInjective(<<>>) /\ Increasing(<<>>)
BY DEF Range, IsInjective, Increasing

-----------------------------------------------------------------------------
(* Who is where.                                                           *)

LEMMA PlacesInductive ==
    ASSUME TypeOK, PlacesConsistent, RecordedFirst, [Next]_vars
    PROVE  PlacesConsistent'
<1> USE OutputConstants DEF TypeOK, PlacesConsistent, Holding, sessionVars, recVars, pumpVars,
        attachVars, clientVars, endVars, Goto
<1>1. CASE UNCHANGED vars
  BY <1>1 DEF vars
<1>2. CASE PumpRead
  BY <1>2 DEF PumpRead
<1>3. CASE Record
  BY <1>3 DEF Record
<1>4. CASE RouteNowhere \/ RouteToConn
  BY <1>4 DEF RouteNowhere, RouteToConn
<1>5. CASE RouteToPending
  BY <1>5 DEF RouteToPending
<1>6. CASE Send
  <2>1. /\ to \in Conns /\ at[to] # "idle" /\ at' = at /\ backlog' = backlog
        /\ \A d \in Conns \ {to} : received'[d] = received[d]
    BY <1>6, SendEffect
  <2>2. to' = None /\ pumpAt' = "read" /\ UNCHANGED <<sessionVars, recVars, chunk, endVars>>
    BY <1>6 DEF Send
  <2>3. QED
    BY <2>1, <2>2
<1>7. CASE PumpEnds
  BY <1>7 DEF PumpEnds, Take
<1>8. ASSUME NEW c \in Conns, Swap(c)
      PROVE  PlacesConsistent'
  BY <1>8 DEF Swap
<1>9. ASSUME NEW c \in Conns, Refuse(c)
      PROVE  PlacesConsistent'
  BY <1>9 DEF Refuse, HangUp
<1>10. ASSUME NEW c \in Conns, Kick(c)
       PROVE  PlacesConsistent'
  BY <1>10 DEF Kick, HangUp
<1>11. ASSUME NEW c \in Conns, Flush(c)
       PROVE  PlacesConsistent'
  <2>1. /\ at[c] = "flush" /\ at'[c] = "announce" /\ backlog'[c] = <<>>
        /\ \A d \in Conns \ {c} : /\ backlog'[d] = backlog[d] /\ at'[d] = at[d]
                                 /\ received'[d] = received[d]
        /\ UNCHANGED <<closed, conn, recVars, pumpVars>>
    BY <1>11, FlushEffect
  <2>2. UNCHANGED endVars
    BY <1>11 DEF Flush
  <2>3. QED
    BY <2>1, <2>2
<1>12. ASSUME NEW c \in Conns, Announce(c) \/ DetachClear(c)
       PROVE  PlacesConsistent'
  <2>1. CASE Announce(c)
    BY <2>1 DEF Announce
  <2>2. CASE DetachClear(c)
    BY <2>2 DEF DetachClear
  <2>3. QED
    BY <1>12, <2>1, <2>2
<1>13. ASSUME NEW c \in Conns, Client(c)
       PROVE  PlacesConsistent'
  BY <1>13 DEF Client, ClientStalls, ClientResumes, ClientGone
<1>14. CASE ShellExits \/ CloseByOther \/ CloseSteps
  BY <1>14 DEF ShellExits, CloseByOther, CloseSteps, Take, Notify, HangUp, CloseShell,
               CloseRecorder
<1>15. QED
  BY <1>1, <1>2, <1>3, <1>4, <1>5, <1>6, <1>7, <1>8, <1>9, <1>10, <1>11, <1>12, <1>13, <1>14
  DEF Next, Pump, Attaching

-----------------------------------------------------------------------------
(* The recorder is ahead.                                                  *)

(* Only sendOutput adds to what is stored, and only the chunk in its hands.*)
LEMMA StoredChanges ==
    ASSUME TypeOK, PlacesConsistent, RecordedFirst, OldestWaits, [Next]_vars
    PROVE  /\ Stored' \subseteq Stored \cup {chunk}
           /\ RouteToPending \/ Send \/ Stored' \subseteq Stored
<1>1. CASE ~Moving
  BY <1>1, RestMovesNothing DEF Stored, Seen
<1>2. CASE RouteToPending
  <2>1. Range(pending') \subseteq Range(pending) \cup {chunk}
    BY <1>2, PendingGrows
  <2>2. backlog' = backlog /\ received' = received
    BY <1>2 DEF RouteToPending, attachVars, clientVars
  <2>3. QED
    BY <1>2, <2>1, <2>2 DEF Stored, Seen
<1>3. CASE Send
  <2>1. /\ pending' = pending /\ backlog' = backlog /\ to \in Conns
        /\ \A d \in Conns \ {to} : received'[d] = received[d]
    BY <1>3, SendEffect
  <2>2. Range(received'[to]) \subseteq Range(received[to]) \cup {chunk}
    <3>1. chunk \in Chunks /\ received[to] \in Seq(Chunks)
      BY <1>3, SendEffect DEF TypeOK
    <3>2. Range(Append(received[to], chunk)) = Range(received[to]) \cup {chunk}
      BY <3>1, AppendRange
    <3>3. QED
      BY <1>3, <3>2, SendEffect
  <2>3. \A d \in Conns : Range(received'[d]) \subseteq Range(received[d]) \cup {chunk}
    BY <2>1, <2>2
  <2>4. QED
    BY <1>3, <2>1, <2>3 DEF Stored, Seen
<1>4. ASSUME NEW c \in Conns, Swap(c)
      PROVE  Stored' \subseteq Stored
  <2>1. /\ pending' = <<>> /\ received' = received /\ backlog'[c] = pending
        /\ \A d \in Conns \ {c} : backlog'[d] = backlog[d]
    BY <1>4, SwapEffect
  <2>2. QED
    BY <2>1, EmptyRange DEF Stored, Seen
<1>5. ASSUME NEW c \in Conns, Flush(c)
      PROVE  Stored' \subseteq Stored
  <2>1. /\ pending' = pending /\ backlog'[c] = <<>>
        /\ \A d \in Conns \ {c} : backlog'[d] = backlog[d] /\ received'[d] = received[d]
    BY <1>5, FlushEffect
  <2>2. Range(received'[c]) \subseteq Range(received[c]) \cup Range(backlog[c])
    <3>1. received[c] \in Seq(Chunks) /\ backlog[c] \in Seq(Chunks)
      BY DEF TypeOK
    <3>2. Range(received[c] \o backlog[c]) = Range(received[c]) \cup Range(backlog[c])
      BY <3>1, ConcatRange
    <3>3. QED
      BY <1>5, <3>2, FlushEffect
  <2>3. \A d \in Conns : /\ Range(received'[d]) \subseteq Range(received[d]) \cup Range(backlog[d])
                         /\ Range(backlog'[d]) \subseteq Range(backlog[d])
    BY <2>1, <2>2, EmptyRange
  <2>4. QED
    BY <2>1, <2>3 DEF Stored, Seen
<1>6. QED
  BY <1>1, <1>2, <1>3, <1>4, <1>5 DEF Moving

LEMMA RecordedFirstInductive ==
    ASSUME TypeOK, PlacesConsistent, RecordedFirst, OldestWaits, [Next]_vars
    PROVE  RecordedFirst'
<1> DEFINE Counted ==
        /\ \A i \in 1..Len(recorded) : recorded[i] = i
        /\ Len(recorded) <= chunk
        /\ recorder = "open" => Len(recorded) = IF pumpAt = "record" THEN chunk - 1 ELSE chunk
        /\ pumpAt = "send" \/ (pumpAt = "route" /\ ~closed) => Len(recorded) = chunk
<1>1. chunk \in Nat /\ Len(recorded) \in Nat /\ (closed <=> ending # "no")
      /\ (recorder = "closed" <=> ending = "gone") /\ recorder \in {"open", "closed"}
  BY OutputConstants DEF TypeOK, PlacesConsistent
<1>2. Counted /\ \A k \in Stored : k <= Len(recorded) /\ (Holding => k < chunk)
  BY DEF RecordedFirst
<1>3. \A k \in Stored : k \in Nat
  <2>1. Chunks \subseteq Nat
    BY OutputConstants DEF Chunks
  <2>2. /\ Range(pending) \subseteq Chunks
        /\ \A c \in Conns : Range(backlog[c]) \subseteq Chunks /\ Range(received[c]) \subseteq Chunks
    BY RangeIs DEF TypeOK
  <2>3. QED
    BY <2>1, <2>2 DEF Stored, Seen
<1>4. CASE PumpRead
  <2>1. Stored' = Stored
    BY <1>4 DEF PumpRead, sessionVars, attachVars, clientVars, Stored, Seen
  <2>2. Counted'
    BY <1>1, <1>2, <1>4 DEF PumpRead, recVars, sessionVars
  <2>3. chunk' = chunk + 1 /\ recorded' = recorded
    BY <1>4 DEF PumpRead, recVars
  <2>4. \A k \in Stored : k <= Len(recorded) /\ k < chunk + 1
    BY <1>1, <1>2, <1>3
  <2>5. QED
    BY <2>1, <2>2, <2>3, <2>4 DEF RecordedFirst
<1>5. CASE Record
  <2>1. Stored' = Stored
    BY <1>5 DEF Record, sessionVars, attachVars, clientVars, Stored, Seen
  <2>2. CASE recorder = "open"
    <3>1. /\ recorded' = Append(recorded, chunk) /\ Len(recorded) = chunk - 1
          /\ chunk' = chunk /\ pumpAt' = "route" /\ recorder' = recorder
      BY <1>2, <1>5, <2>2 DEF Record
    <3>2. /\ Len(recorded') = Len(recorded) + 1
          /\ \A i \in 1..Len(recorded) : recorded'[i] = recorded[i]
          /\ recorded'[Len(recorded) + 1] = chunk
      BY <3>1, AppendProperties DEF TypeOK
    <3>3. Counted'
      BY <1>1, <1>2, <3>1, <3>2
    <3>4. \A k \in Stored : k <= Len(recorded) + 1 /\ k < chunk
      BY <1>1, <1>2, <1>3, <1>5 DEF Record, Holding
    <3>5. QED
      BY <2>1, <3>1, <3>2, <3>3, <3>4 DEF RecordedFirst
  <2>3. CASE recorder = "closed"
    <3>1. /\ recorded' = recorded /\ chunk' = chunk /\ pumpAt' = "route"
          /\ recorder' = recorder /\ closed' = closed /\ closed
      BY <1>1, <1>5, <2>3 DEF Record, sessionVars
    <3>2. QED
      BY <1>1, <1>2, <1>5, <2>1, <2>3, <3>1 DEF RecordedFirst, Record, Holding
  <2>4. QED
    BY <1>1, <2>2, <2>3
<1>6. CASE RouteToPending \/ Send
  <2>1. /\ Len(recorded) = chunk /\ pumpAt' = "read"
        /\ chunk' = chunk /\ UNCHANGED recVars
    BY <1>2, <1>6 DEF RouteToPending, Send
  <2>2. Counted'
    BY <1>1, <1>2, <1>6, <2>1 DEF recVars, RouteToPending, Send
  <2>3. Stored' \subseteq Stored \cup {chunk}
    BY StoredChanges
  <2>4. \A k \in Stored \cup {chunk} : k <= Len(recorded)
    BY <1>1, <1>2, <2>1
  <2>5. QED
    BY <2>1, <2>2, <2>3, <2>4 DEF RecordedFirst, recVars, Holding
<1>7. CASE ~(PumpRead \/ Record \/ RouteToPending \/ Send)
  <2>1. Stored' \subseteq Stored
    BY <1>7, StoredChanges
  <2>2. /\ chunk' = chunk /\ recorded' = recorded
        /\ recorder' = "open" => recorder = "open"
        /\ closed => closed'
        /\ \/ pumpAt' = pumpAt
           \/ pumpAt = "route" /\ pumpAt' = "read"
           \/ pumpAt = "route" /\ pumpAt' = "send" /\ ~closed
           \/ pumpAt = "read" /\ pumpAt' = "done"
    BY <1>1, <1>7 DEF Next, vars, sessionVars, recVars, pumpVars, Pump, RouteNowhere, RouteToConn,
       PumpEnds, Take, Swap, Attaching, Refuse, Kick, Flush, Announce, DetachClear, Client,
       ClientStalls, ClientResumes, ClientGone, ShellExits, CloseByOther, CloseSteps, Notify,
       CloseShell, CloseRecorder
  <2>3. Counted'
    BY <1>1, <1>2, <2>2
  <2>4. Holding' => Holding
    BY <2>2 DEF Holding
  <2>5. QED
    BY <1>2, <2>1, <2>2, <2>3, <2>4 DEF RecordedFirst
<1>8. QED
  BY <1>4, <1>5, <1>6, <1>7

-----------------------------------------------------------------------------
(* Every chunk in one place.                                               *)

LEMMA InOnePlaceInductive ==
    ASSUME TypeOK, PlacesConsistent, RecordedFirst, OldestWaits, InOnePlace, [Next]_vars
    PROVE  InOnePlace'
<1> DEFINE B(c) == Range(backlog[c])
           W == Range(pending)
<1>1. CASE ~Moving
  BY <1>1, RestMovesNothing DEF InOnePlace, Seen
<1>2. CASE RouteToPending
  <2>1. W' \subseteq W \cup {chunk}
    BY <1>2, PendingGrows
  <2>2. backlog' = backlog /\ received' = received
    BY <1>2 DEF RouteToPending, attachVars, clientVars
  <2>3. \A c \in Conns : chunk \notin B(c) \cup Seen(c)
    <3>1. \A k \in Stored : k < chunk
      BY <1>2 DEF RouteToPending, RecordedFirst, Holding
    <3>2. chunk \in Int
      BY OutputConstants DEF TypeOK
    <3>3. chunk \notin Stored
      BY <3>1, <3>2
    <3>4. QED
      BY <3>3 DEF Stored
  <2>4. QED
    BY <2>1, <2>2, <2>3 DEF InOnePlace, Seen
<1>3. CASE Send
  <2>1. /\ pending' = pending /\ backlog' = backlog /\ to \in Conns /\ chunk \in Chunks
        /\ \A d \in Conns \ {to} : received'[d] = received[d]
        /\ received'[to] = Append(received[to], chunk) \/ received'[to] = received[to]
        /\ \A k \in Stored : k < chunk
    BY <1>3, SendEffect
  <2>2. chunk \notin Stored
    <3>1. chunk \in Int
      BY OutputConstants DEF TypeOK
    <3>2. QED
      BY <2>1, <3>1
  <2>3. CASE received'[to] = received[to]
    <3>1. \A d \in Conns : received'[d] = received[d]
      BY <2>1, <2>3
    <3>2. QED
      BY <2>1, <3>1 DEF InOnePlace, Seen
  <2>4. CASE received'[to] = Append(received[to], chunk)
    <3>1. PICK ac \in Conns : ac = to
      BY <2>1
    <3>2. /\ received[ac] \in Seq(Chunks) /\ received'[ac] = Append(received[ac], chunk)
          /\ \A d \in Conns \ {ac} : received'[d] = received[d]
      BY <2>1, <2>4, <3>1 DEF TypeOK
    <3>3. Seen(ac)' = Seen(ac) \cup {chunk}
      BY <2>1, <3>2, AppendRange DEF Seen
    <3>4. IsInjective(received'[ac])
      <4>1. IsInjective(received[ac]) /\ Range(received[ac]) \cap {chunk} = {}
        BY <2>2 DEF InOnePlace, Stored, Seen
      <4>2. /\ <<chunk>> \in Seq(Chunks) /\ Range(<<chunk>>) = {chunk}
            /\ IsInjective(<<chunk>>)
        BY <2>1, SingleChunk
      <4>3. received'[ac] = received[ac] \o <<chunk>>
        BY <2>1, <3>2, AppendIsConcat
      <4>4. QED
        BY <3>2, <4>1, <4>2, <4>3, ConcatInjective
    <3>5. \A d \in Conns \ {ac} : Seen(d)' = Seen(d)
      BY <3>2 DEF Seen
    <3>6. /\ W' = W /\ chunk \notin W
          /\ \A d \in Conns : B(d)' = B(d) /\ chunk \notin B(d) /\ chunk \notin Seen(d)
      BY <2>1, <2>2 DEF Stored
    <3>7. \A d \in Conns : IsInjective(received'[d])
      BY <3>2, <3>4 DEF InOnePlace
    <3> HIDE DEF B, W
    <3>8. ASSUME NEW c \in Conns
          PROVE  W' \cap (B(c)' \cup Seen(c)') = {}
      <4>1. W \cap (B(c) \cup Seen(c)) = {}
        BY DEF InOnePlace, B, W
      <4>2. QED
        BY <3>3, <3>5, <3>6, <4>1
    <3>9. ASSUME NEW c \in Conns, NEW d \in Conns
          PROVE  /\ B(c)' \cap Seen(d)' = {}
                 /\ c # d => B(c)' \cap B(d)' = {} /\ Seen(c)' \cap Seen(d)' = {}
      <4>1. /\ B(c) \cap Seen(d) = {}
            /\ c # d => B(c) \cap B(d) = {} /\ Seen(c) \cap Seen(d) = {}
        BY DEF InOnePlace, B
      <4>2. CASE c # ac /\ d # ac
        BY <3>5, <3>6, <4>1, <4>2
      <4>3. CASE c = ac
        BY <3>3, <3>5, <3>6, <4>1, <4>3
      <4>4. CASE d = ac
        BY <3>3, <3>5, <3>6, <4>1, <4>4
      <4>5. QED
        BY <4>2, <4>3, <4>4
    <3>10. QED
      BY <3>7, <3>8, <3>9 DEF InOnePlace, B, W
  <2>5. QED
    BY <2>1, <2>3, <2>4
<1>4. ASSUME NEW c \in Conns, Swap(c)
      PROVE  InOnePlace'
  <2>1. /\ pending' = <<>> /\ received' = received /\ received[c] = <<>>
        /\ backlog[c] = <<>> /\ backlog'[c] = pending
        /\ \A d \in Conns \ {c} : backlog'[d] = backlog[d]
    BY <1>4, SwapEffect
  <2>2. W' = {} /\ B(c)' = W /\ Seen(c) = {}
    BY <2>1, EmptyRange DEF Seen
  <2>3. \A d \in Conns : Seen(d)' = Seen(d) /\ (d # c => B(d)' = B(d))
    BY <2>1 DEF Seen
  <2>4. \A d \in Conns : IsInjective(received'[d])
    BY <2>1 DEF InOnePlace
  <2> HIDE DEF B, W
  <2>5. ASSUME NEW d \in Conns, NEW e \in Conns
        PROVE  /\ B(d)' \cap Seen(e)' = {}
               /\ d # e => B(d)' \cap B(e)' = {} /\ Seen(d)' \cap Seen(e)' = {}
    <3>1. /\ B(d) \cap Seen(e) = {} /\ W \cap (B(d) \cup Seen(d)) = {}
          /\ W \cap (B(e) \cup Seen(e)) = {}
          /\ d # e => B(d) \cap B(e) = {} /\ Seen(d) \cap Seen(e) = {}
      BY DEF InOnePlace, B, W
    <3>2. CASE d # c /\ e # c
      BY <2>3, <3>1, <3>2
    <3>3. CASE d = c
      BY <2>2, <2>3, <3>1, <3>3
    <3>4. CASE e = c
      BY <2>2, <2>3, <3>1, <3>4
    <3>5. QED
      BY <3>2, <3>3, <3>4
  <2>6. QED
    BY <2>2, <2>4, <2>5 DEF InOnePlace, B, W
<1>5. ASSUME NEW c \in Conns, Flush(c)
      PROVE  InOnePlace'
  <2>1. /\ pending' = pending /\ backlog'[c] = <<>>
        /\ \A d \in Conns \ {c} : backlog'[d] = backlog[d] /\ received'[d] = received[d]
        /\ received'[c] = received[c] \o backlog[c] \/ received'[c] = received[c]
    BY <1>5, FlushEffect
  <2>2. /\ received[c] \in Seq(Chunks) /\ backlog[c] \in Seq(Chunks)
        /\ IsInjective(received[c]) /\ Range(received[c]) \cap B(c) = {}
    BY DEF TypeOK, InOnePlace, Seen
  <2>3. W' = W /\ B(c)' = {} /\ Seen(c)' \subseteq Seen(c) \cup B(c)
    <3>1. Range(received[c] \o backlog[c]) = Seen(c) \cup B(c)
      BY <2>2, ConcatRange DEF Seen
    <3>2. QED
      BY <2>1, <3>1, EmptyRange DEF Seen
  <2>4. \A d \in Conns : d # c => Seen(d)' = Seen(d) /\ B(d)' = B(d)
    BY <2>1 DEF Seen
  <2>5. IsInjective(received'[c])
    <3>1. IsInjective(backlog[c])
      <4>1. Increasing(backlog[c])
        BY DEF OldestWaits
      <4>2. \A i \in 1..Len(backlog[c]) : backlog[c][i] \in Int
        BY <2>2, OutputConstants DEF Chunks
      <4>3. Len(backlog[c]) \in Nat /\ DOMAIN backlog[c] = 1..Len(backlog[c])
        BY <2>2
      <4>4. QED
        BY <4>1, <4>2, <4>3 DEF Increasing, IsInjective
    <3>2. QED
      BY <2>1, <2>2, <3>1, ConcatInjective
  <2>6. \A d \in Conns : IsInjective(received'[d])
    BY <2>1, <2>5 DEF InOnePlace
  <2> HIDE DEF B, W
  <2>7. ASSUME NEW d \in Conns
        PROVE  W' \cap (B(d)' \cup Seen(d)') = {}
    <3>1. W \cap (B(d) \cup Seen(d)) = {} /\ W \cap (B(c) \cup Seen(c)) = {}
      BY DEF InOnePlace, B, W
    <3>2. QED
      BY <2>3, <2>4, <3>1
  <2>8. ASSUME NEW d \in Conns, NEW e \in Conns
        PROVE  /\ B(d)' \cap Seen(e)' = {}
               /\ d # e => B(d)' \cap B(e)' = {} /\ Seen(d)' \cap Seen(e)' = {}
    <3>1. /\ B(d) \cap Seen(e) = {} /\ B(e) \cap Seen(d) = {}
          /\ d # e => B(d) \cap B(e) = {} /\ Seen(d) \cap Seen(e) = {}
      BY DEF InOnePlace, B
    <3>2. CASE d # c /\ e # c
      BY <2>4, <3>1, <3>2
    <3>3. CASE d = c
      BY <2>3, <2>4, <3>1, <3>3
    <3>4. CASE e = c
      BY <2>3, <2>4, <3>1, <3>4
    <3>5. QED
      BY <3>2, <3>3, <3>4
  <2>9. QED
    BY <2>6, <2>7, <2>8 DEF InOnePlace, B, W
<1>6. QED
  BY <1>1, <1>2, <1>3, <1>4, <1>5 DEF Moving

-----------------------------------------------------------------------------
(* The order.                                                              *)

LEMMA OldestWaitsInductive ==
    ASSUME TypeOK, PlacesConsistent, RecordedFirst, OldestWaits, InOnePlace, [Next]_vars
    PROVE  OldestWaits'
<1> DEFINE Ahead(c) == \A older \in Range(backlog[c]), newer \in Seen(c) : older < newer
<1>1. CASE ~Moving
  <2>1. UNCHANGED <<pending, backlog, received>>
    BY <1>1, RestMovesNothing
  <2>2. \A c \in Conns : at'[c] \in {"kick", "flush"} => at[c] \in {"kick", "flush"}
    BY <1>1 DEF TypeOK, Moving, Next, vars, sessionVars, recVars, pumpVars, attachVars,
       clientVars, endVars, Goto, Pump, PumpRead, Record, RouteNowhere, RouteToConn, PumpEnds,
       Take, Attaching, Refuse, Kick, Announce, DetachClear, Client, ClientStalls,
       ClientResumes, ClientGone, ShellExits, CloseByOther, CloseSteps, Notify, CloseShell,
       CloseRecorder
  <2>3. QED
    BY <2>1, <2>2 DEF OldestWaits, Seen
<1>2. CASE RouteToPending
  <2>1. Increasing(pending')
    BY <1>2, PendingGrows
  <2>2. UNCHANGED <<at, backlog, received>>
    BY <1>2 DEF RouteToPending, attachVars, clientVars
  <2>3. QED
    BY <2>1, <2>2 DEF OldestWaits, Seen
<1>3. CASE Send
  <2>1. PICK ac \in Conns : ac = to
    BY <1>3, SendEffect
  <2>2. /\ UNCHANGED <<pending, backlog, at>> /\ chunk \in Chunks
        /\ \A d \in Conns \ {ac} : received'[d] = received[d]
        /\ received'[ac] = Append(received[ac], chunk) \/ received'[ac] = received[ac]
        /\ \A k \in Stored : k < chunk
        /\ received[ac] \in Seq(Chunks)
    BY <1>3, <2>1, SendEffect DEF TypeOK
  <2>3. Seen(ac)' \subseteq Seen(ac) \cup {chunk}
    <3>1. Range(Append(received[ac], chunk)) = Seen(ac) \cup {chunk}
      BY <2>2, AppendRange DEF Seen
    <3>2. QED
      BY <2>2, <3>1 DEF Seen
  <2>4. Ahead(ac)'
    <3>1. \A older \in Range(backlog[ac]) : older < chunk
      BY <2>2 DEF Stored
    <3>2. Ahead(ac)
      BY DEF OldestWaits
    <3>3. QED
      BY <2>2, <2>3, <3>1, <3>2
  <2>5. Increasing(received[ac]) => Increasing(received'[ac])
    <3>1. Chunks \subseteq Nat
      BY OutputConstants DEF Chunks
    <3>2. received[ac] \in Seq(Nat) /\ chunk \in Nat
      BY <2>2, <3>1, SeqMonotonic
    <3>3. \A k \in Range(received[ac]) : k < chunk
      BY <2>2 DEF Stored, Seen
    <3>4. QED
      BY <2>2, <3>2, <3>3, AppendIncreasing
  <2>6. \A d \in Conns : Ahead(d)'
    BY <2>2, <2>4 DEF OldestWaits, Seen
  <2>7. \A d \in Conns : Increasing(received[d]) => Increasing(received'[d])
    BY <2>2, <2>5
  <2>8. QED
    BY <2>2, <2>6, <2>7 DEF OldestWaits
<1>4. ASSUME NEW c \in Conns, Swap(c)
      PROVE  OldestWaits'
  <2>1. /\ pending' = <<>> /\ received' = received /\ received[c] = <<>>
        /\ backlog'[c] = pending /\ at'[c] = "kick"
        /\ \A d \in Conns \ {c} : backlog'[d] = backlog[d] /\ at'[d] = at[d]
    BY <1>4, SwapEffect
  <2>2. Increasing(pending') /\ Increasing(backlog'[c]) /\ Increasing(received'[c])
    BY <2>1, EmptyRange DEF OldestWaits
  <2>3. Ahead(c)'
    BY <2>1, EmptyRange DEF Seen
  <2>4. ASSUME NEW d \in Conns
        PROVE  /\ Increasing(backlog'[d]) /\ Ahead(d)'
               /\ at'[d] \in {"kick", "flush"} => Increasing(received'[d])
    <3>1. CASE d = c
      BY <2>2, <2>3, <3>1 DEF Seen
    <3>2. CASE d # c
      BY <2>1, <3>2 DEF OldestWaits, Seen
    <3>3. QED
      BY <3>1, <3>2
  <2>5. QED
    BY <2>2, <2>4 DEF OldestWaits, Ahead
<1>5. ASSUME NEW c \in Conns, Flush(c)
      PROVE  OldestWaits'
  <2>1. /\ pending' = pending /\ backlog'[c] = <<>> /\ at'[c] = "announce"
        /\ \A d \in Conns \ {c} : /\ backlog'[d] = backlog[d] /\ at'[d] = at[d]
                                 /\ received'[d] = received[d]
    BY <1>5, FlushEffect
  <2>2. Increasing(backlog'[c]) /\ Ahead(c)'
    BY <2>1, EmptyRange
  <2>3. Increasing(pending')
    BY <2>1 DEF OldestWaits
  <2>4. ASSUME NEW d \in Conns
        PROVE  /\ Increasing(backlog'[d]) /\ Ahead(d)'
               /\ at'[d] \in {"kick", "flush"} => Increasing(received'[d])
    <3>1. CASE d = c
      BY <2>1, <2>2, <3>1 DEF Seen
    <3>2. CASE d # c
      BY <2>1, <3>2 DEF OldestWaits, Seen
    <3>3. QED
      BY <3>1, <3>2
  <2>5. QED
    BY <2>3, <2>4 DEF OldestWaits, Ahead
<1>6. QED
  BY <1>1, <1>2, <1>3, <1>4, <1>5 DEF Moving

(* Output in which at most one descent is found, to what is older than all *)
(* that came before it, and what came before it was in order.              *)
OnePiece(got) ==
    \A i \in 1..(Len(got) - 1) : got[i] > got[i + 1] =>
        \A j \in 1..i : got[j] > got[i + 1] /\ (j < i => got[j] < got[j + 1])

LEMMA OnePieceAppend ==
    ASSUME NEW s \in Seq(Nat), NEW e \in Nat, OnePiece(s), \A k \in Range(s) : k < e
    PROVE  OnePiece(Append(s, e))
<1> DEFINE t == Append(s, e)
<1>1. /\ Len(t) = Len(s) + 1 /\ t[Len(s) + 1] = e /\ Len(s) \in Nat
      /\ \A i \in 1..Len(s) : t[i] = s[i] /\ s[i] \in Nat
  BY AppendProperties
<1>2. \A i \in 1..Len(s) : s[i] < e
  BY RangeIs
<1> HIDE DEF t
<1>3. ASSUME NEW i \in 1..(Len(t) - 1), t[i] > t[i + 1], NEW j \in 1..i
      PROVE  t[j] > t[i + 1] /\ (j < i => t[j] < t[j + 1])
  <2>1. i \in 1..(Len(s) - 1)
    <3>1. CASE i = Len(s)
      BY <1>1, <1>2, <1>3, <3>1
    <3>2. QED
      BY <1>1, <3>1
  <2>2. s[i] > s[i + 1] /\ t[i + 1] = s[i + 1] /\ t[j] = s[j] /\ (j < i => t[j + 1] = s[j + 1])
    <3>1. /\ i \in 1..Len(s) /\ i + 1 \in 1..Len(s) /\ j \in 1..Len(s)
          /\ j < i => j + 1 \in 1..Len(s)
      BY <1>1, <2>1
    <3>2. QED
      BY <1>1, <1>3, <3>1
  <2>3. s[j] > s[i + 1] /\ (j < i => s[j] < s[j + 1])
    BY <2>1, <2>2 DEF OnePiece
  <2>4. QED
    BY <2>2, <2>3
<1>4. QED
  BY <1>3 DEF OnePiece, t

(* The backlog behind newer output.                                        *)
LEMMA OnePieceConcat ==
    ASSUME NEW s \in Seq(Nat), NEW t \in Seq(Nat), Increasing(s), Increasing(t),
           \A older \in Range(t), newer \in Range(s) : older < newer
    PROVE  OnePiece(s \o t)
<1> DEFINE st == s \o t
<1>1. /\ Len(st) = Len(s) + Len(t) /\ Len(s) \in Nat /\ Len(t) \in Nat
      /\ \A i \in 1..Len(st) : st[i] = IF i <= Len(s) THEN s[i] ELSE t[i - Len(s)]
      /\ \A i \in 1..Len(s) : s[i] \in Nat
      /\ \A i \in 1..Len(t) : t[i] \in Nat
  BY ConcatProperties
<1>2. \A i \in 1..Len(s), j \in 1..Len(t) : t[j] < s[i]
  <2>1. Range(s) = {s[i] : i \in 1..Len(s)} /\ Range(t) = {t[i] : i \in 1..Len(t)}
    BY RangeIs
  <2>2. QED
    BY <2>1
<1> HIDE DEF st
<1>3. ASSUME NEW i \in 1..(Len(st) - 1), st[i] > st[i + 1], NEW j \in 1..i
      PROVE  st[j] > st[i + 1] /\ (j < i => st[j] < st[j + 1])
  <2>1. CASE i < Len(s)
    <3>1. st[i] = s[i] /\ st[i + 1] = s[i + 1] /\ i \in 1..Len(s) /\ i + 1 \in 1..Len(s)
      BY <1>1, <2>1
    <3>2. s[i] < s[i + 1] /\ s[i] \in Nat /\ s[i + 1] \in Nat
      BY <1>1, <3>1 DEF Increasing
    <3>3. QED
      BY <1>3, <3>1, <3>2
  <2>2. CASE i > Len(s)
    <3>1. /\ i - Len(s) \in 1..Len(t) /\ i + 1 - Len(s) \in 1..Len(t)
          /\ i - Len(s) < i + 1 - Len(s)
      BY <1>1, <2>2
    <3>2. st[i] = t[i - Len(s)] /\ st[i + 1] = t[i + 1 - Len(s)]
      BY <1>1, <2>2
    <3>3. /\ t[i - Len(s)] < t[i + 1 - Len(s)] /\ t[i - Len(s)] \in Nat
          /\ t[i + 1 - Len(s)] \in Nat
      BY <1>1, <3>1 DEF Increasing
    <3>4. QED
      BY <1>3, <3>2, <3>3
  <2>3. CASE i = Len(s)
    <3>1. st[j] = s[j] /\ j \in 1..Len(s) /\ st[i + 1] = t[1] /\ 1 \in 1..Len(t)
      BY <1>1, <2>3
    <3>2. t[1] < s[j] /\ t[1] \in Nat /\ s[j] \in Nat
      BY <1>1, <1>2, <3>1
    <3>3. ASSUME j < i
          PROVE  st[j] < st[j + 1]
      <4>1. j + 1 \in 1..Len(s) /\ st[j + 1] = s[j + 1]
        BY <1>1, <2>3, <3>3
      <4>2. s[j] < s[j + 1]
        BY <3>1, <4>1 DEF Increasing
      <4>3. QED
        BY <3>1, <4>1, <4>2
    <3>4. QED
      BY <3>1, <3>2, <3>3
  <2>4. QED
    BY <1>1, <2>1, <2>2, <2>3
<1>4. QED
  BY <1>3 DEF OnePiece, st

LEMMA PieceInductive ==
    ASSUME TypeOK, PlacesConsistent, RecordedFirst, OldestWaits, BacklogInOnePiece,
           [Next]_vars
    PROVE  BacklogInOnePiece'
<1>1. \A c \in Conns : OnePiece(received[c])
  BY DEF BacklogInOnePiece, OnePiece
<1>2. \A c \in Conns : received[c] \in Seq(Nat) /\ backlog[c] \in Seq(Nat)
  <2>1. Chunks \subseteq Nat
    BY OutputConstants DEF Chunks
  <2>2. QED
    BY <2>1, SeqMonotonic DEF TypeOK
<1>3. SUFFICES \A c \in Conns : OnePiece(received'[c])
  BY DEF BacklogInOnePiece, OnePiece
<1>4. CASE ~Moving
  BY <1>1, <1>4, RestMovesNothing
<1>5. CASE RouteToPending
  BY <1>1, <1>5 DEF RouteToPending, clientVars
<1>6. CASE Send
  <2>1. /\ to \in Conns /\ chunk \in Nat /\ \A k \in Range(received[to]) : k < chunk
        /\ \A d \in Conns \ {to} : received'[d] = received[d]
        /\ received'[to] = Append(received[to], chunk) \/ received'[to] = received[to]
    BY <1>6, SendEffect, OutputConstants DEF Chunks, Stored, Seen
  <2>2. OnePiece(received'[to])
    BY <1>1, <1>2, <2>1, OnePieceAppend
  <2>3. QED
    BY <1>1, <2>1, <2>2
<1>7. ASSUME NEW c \in Conns, Swap(c)
      PROVE  \A d \in Conns : OnePiece(received'[d])
  BY <1>1, <1>7, SwapEffect
<1>8. ASSUME NEW c \in Conns, Flush(c)
      PROVE  \A d \in Conns : OnePiece(received'[d])
  <2>1. /\ at[c] = "flush"
        /\ \A d \in Conns \ {c} : received'[d] = received[d]
        /\ received'[c] = received[c] \o backlog[c] \/ received'[c] = received[c]
    BY <1>8, FlushEffect
  <2>2. /\ Increasing(received[c]) /\ Increasing(backlog[c])
        /\ \A older \in Range(backlog[c]), newer \in Range(received[c]) : older < newer
    BY <2>1 DEF OldestWaits, Seen
  <2>3. OnePiece(received[c] \o backlog[c])
    BY <1>2, <2>2, OnePieceConcat
  <2>4. QED
    BY <1>1, <2>1, <2>3
<1>9. QED
  BY <1>4, <1>5, <1>6, <1>7, <1>8 DEF Moving

-----------------------------------------------------------------------------
(* The theorems.                                                           *)

(* Every reachable state of Spec has the inductive invariant: chunks have  *)
(* one place each, the recorder is ahead, and what waits to be flushed is  *)
(* older than what its client was shown.                                   *)
THEOREM IndInvHolds == Spec => []IndInv
<1>1. Init => IndInv
  <2> SUFFICES ASSUME Init PROVE IndInv
    OBVIOUS
  <2>1. /\ pending = <<>> /\ recorded = <<>>
        /\ \A c \in Conns : received[c] = <<>> /\ backlog[c] = <<>> /\ at[c] = "idle"
    BY DEF Init
  <2>2. TypeOK
    <3>1. <<>> \in Seq(Chunks) /\ Len(<<>>) = 0
      BY EmptySeq
    <3>2. /\ pending \in Seq(Chunks) /\ Len(pending) <= MaxPending /\ recorded \in Seq(Chunks)
          /\ backlog \in [Conns -> Seq(Chunks)] /\ received \in [Conns -> Seq(Chunks)]
      BY <3>1, OutputConstants DEF Init
    <3>3. /\ at \in [Conns -> {"idle", "kick", "flush", "announce", "reading", "done"}]
          /\ old \in [Conns -> Conns \cup {None}]
          /\ sock \in [Conns -> {"open", "closed"}] /\ stalled \in [Conns -> BOOLEAN]
      BY DEF Init
    <3>4. chunk \in 0..MaxChunks
      BY OutputConstants DEF Init
    <3>5. QED
      BY <3>2, <3>3, <3>4 DEF Init, TypeOK
  <2>3. PlacesConsistent
    BY <2>1, OutputConstants DEF Init, PlacesConsistent, Holding
  <2>4. RecordedFirst
    <3>1. Stored = {}
      BY <2>1, EmptyRange DEF Stored, Seen
    <3>2. QED
      BY <2>1, <3>1, EmptySeq DEF Init, RecordedFirst, Holding
  <2>5. InOnePlace
    BY <2>1, EmptyRange DEF InOnePlace, Seen
  <2>6. OldestWaits
    BY <2>1, EmptyRange DEF OldestWaits, Seen
  <2>7. BacklogInOnePiece
    BY <2>1, EmptySeq DEF BacklogInOnePiece
  <2>8. QED
    BY <2>2, <2>3, <2>4, <2>5, <2>6, <2>7 DEF IndInv
<1>2. IndInv /\ [Next]_vars => IndInv'
  BY TypeInductive, PlacesInductive, RecordedFirstInductive, InOnePlaceInductive,
     OldestWaitsInductive, PieceInductive DEF IndInv
<1>3. QED
  BY <1>1, <1>2, PTL DEF Spec

(* sendOutput and Attach between them give no chunk to a client twice nor  *)
(* to two clients, however many come, go, stall or are kicked.             *)
THEOREM NothingSeenTwice == Spec => []NoDuplicates
<1>1. IndInv => NoDuplicates
  BY DEF IndInv, InOnePlace, NoDuplicates
<1>2. QED
  BY <1>1, IndInvHolds, PTL

(* Attach's single write: the backlog comes as one piece, late at most     *)
(* once, and what is before it is in order.                                *)
THEOREM BacklogComesWhole == Spec => []BacklogInOnePiece
<1>1. IndInv => BacklogInOnePiece
  BY DEF IndInv
<1>2. QED
  BY <1>1, IndInvHolds, PTL

(* The recording is the output from its first chunk on without a gap, and  *)
(* no client was shown what is not in it.                                  *)
THEOREM RecordingAhead == Spec => []RecordingCoversClients
<1>1. IndInv => RecordingCoversClients
  <2> SUFFICES ASSUME IndInv PROVE RecordingCoversClients
    OBVIOUS
  <2>1. /\ \A i \in 1..Len(recorded) : recorded[i] = i
        /\ \A k \in Stored : k <= Len(recorded)
        /\ recorded \in Seq(Chunks)
    BY DEF IndInv, TypeOK, RecordedFirst
  <2>2. ASSUME NEW c \in Conns, NEW k \in Seen(c)
        PROVE  k \in Range(recorded)
    <3>1. k \in Chunks /\ k <= Len(recorded)
      BY <2>1, RangeIs DEF IndInv, TypeOK, Seen, Stored
    <3>2. k \in 1..Len(recorded)
      BY <2>1, <3>1, OutputConstants DEF Chunks
    <3>3. recorded[k] = k
      BY <2>1, <3>2
    <3>4. QED
      BY <2>1, <3>2, <3>3, RangeIs
  <2>3. QED
    BY <2>1, <2>2 DEF RecordingCoversClients
<1>2. QED
  BY <1>1, IndInvHolds, PTL

LEMMA LossStep ==
    ASSUME IndInv, [Next]_vars
    PROVE  LossExplained
<1> USE DEF IndInv
<1>1. CASE ~Moving
  <2>1. UNCHANGED <<pending, backlog>>
    BY <1>1, RestMovesNothing
  <2>2. InHand \subseteq InHand' \/ (closed /\ InHand = {chunk})
    BY <1>1 DEF InHand, Moving, Next, vars, sessionVars, recVars, pumpVars, Pump, PumpRead, Record,
       RouteNowhere, RouteToConn, PumpEnds, Take, Attaching, Refuse, Kick, Announce,
       DetachClear, Client, ClientStalls, ClientResumes, ClientGone, ShellExits,
       CloseByOther, CloseSteps, Notify, CloseShell, CloseRecorder
  <2>3. InBacklogs' = InBacklogs
    BY <2>1 DEF InBacklogs
  <2>4. \A k \in InFlight \ InFlight' : closed /\ k = chunk
    BY <2>1, <2>2, <2>3 DEF InFlight
  <2>5. QED
    BY <2>4 DEF LossExplained
<1>2. CASE RouteToPending
  <2>1. /\ UNCHANGED <<backlog, chunk>> /\ InHand = {chunk} /\ InHand' = {}
    BY <1>2 DEF RouteToPending, attachVars, InHand
  <2>2. \A k \in (Range(pending) \cup {chunk}) \ Range(pending') :
           Len(pending) = MaxPending /\ k = Head(pending)
    BY <1>2, PendingGrows
  <2>3. InBacklogs' = InBacklogs
    BY <2>1 DEF InBacklogs
  <2>4. \A k \in InFlight \ InFlight' : k \in (Range(pending) \cup {chunk}) \ Range(pending')
    BY <2>1, <2>3 DEF InFlight
  <2>5. QED
    BY <2>2, <2>4 DEF LossExplained
<1>3. CASE Send
  <2>1. PICK ac \in Conns : ac = to
    BY <1>3, SendEffect
  <2>2. /\ UNCHANGED <<pending, backlog>> /\ chunk \in Chunks /\ received[ac] \in Seq(Chunks)
        /\ \/ sock[ac] = "open" /\ received'[ac] = Append(received[ac], chunk)
           \/ sock[ac] = "closed"
    BY <1>3, <2>1, SendEffect DEF TypeOK
  <2>3. InHand = {chunk} /\ InHand' = {}
    BY <1>3 DEF Send, InHand
  <2>4. chunk \in Seen(ac)' \/ (sock[ac] = "closed" /\ to = ac)
    <3>1. Range(Append(received[ac], chunk)) = Range(received[ac]) \cup {chunk}
      BY <2>2, AppendRange
    <3>2. QED
      BY <2>1, <2>2, <3>1 DEF Seen
  <2>5. InBacklogs' = InBacklogs
    BY <2>2 DEF InBacklogs
  <2>6. \A k \in InFlight \ InFlight' : k = chunk
    BY <2>2, <2>3, <2>5 DEF InFlight
  <2>7. QED
    BY <2>4, <2>6 DEF LossExplained
<1>4. ASSUME NEW c \in Conns, Swap(c)
      PROVE  LossExplained
  <2>1. /\ backlog[c] = <<>> /\ backlog'[c] = pending /\ UNCHANGED pumpVars
        /\ \A d \in Conns \ {c} : backlog'[d] = backlog[d]
    BY <1>4, SwapEffect
  <2>2. InHand' = InHand
    BY <2>1 DEF pumpVars, InHand
  <2>3. Range(pending) \subseteq Range(backlog'[c]) /\ Range(backlog[c]) = {}
    BY <2>1, EmptyRange
  <2>4. \A d \in Conns : Range(backlog[d]) \subseteq Range(backlog'[d])
    BY <2>1, <2>3
  <2>5. InFlight \subseteq InFlight'
    BY <2>2, <2>3, <2>4 DEF InFlight, InBacklogs
  <2>6. QED
    BY <2>5 DEF LossExplained
<1>5. ASSUME NEW c \in Conns, Flush(c)
      PROVE  LossExplained
  <2>1. /\ pending' = pending /\ UNCHANGED pumpVars
        /\ \A d \in Conns \ {c} : backlog'[d] = backlog[d]
        /\ \/ sock[c] = "open" /\ received'[c] = received[c] \o backlog[c]
           \/ sock[c] = "closed"
    BY <1>5, FlushEffect
  <2>2. InHand' = InHand
    BY <2>1 DEF pumpVars, InHand
  <2>3. Range(backlog[c]) \subseteq Seen(c)' \/ sock[c] = "closed"
    <3>1. received[c] \in Seq(Chunks) /\ backlog[c] \in Seq(Chunks)
      BY DEF TypeOK
    <3>2. Range(received[c] \o backlog[c]) = Range(received[c]) \cup Range(backlog[c])
      BY <3>1, ConcatRange
    <3>3. QED
      BY <2>1, <3>2 DEF Seen
  <2>4. \A k \in InFlight \ InFlight' : k \in Range(backlog[c])
    BY <2>1, <2>2 DEF InFlight, InBacklogs
  <2>5. QED
    BY <2>3, <2>4 DEF LossExplained
<1>6. QED
  BY <1>1, <1>2, <1>3, <1>4, <1>5 DEF Moving

(* No step loses a chunk that is on its way for any reason but a dead      *)
(* connection, a closed session or a full backlog, where it is the oldest. *)
THEOREM LossesHaveReasons == Spec => NoSilentLoss
<1>1. IndInv /\ [Next]_vars => [LossExplained]_vars
  BY LossStep
<1>2. QED
  BY <1>1, IndInvHolds, PTL DEF Spec, NoSilentLoss

=============================================================================
