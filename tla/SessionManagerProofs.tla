------------------------ MODULE SessionManagerProofs ------------------------
(***************************************************************************)
(* What SessionIndex.tla claims of IndexSpec and SessionManager.tla of     *)
(* Spec, for every set of sessions, connections and accounts, and that the *)
(* manager implements SessionLifecycle.  The inductive invariant of the    *)
(* manager is IndInv; its parts are preserved lemma by lemma, one step per *)
(* action, and the theorems that follow from it come after.                *)
(***************************************************************************)
EXTENDS SessionManager, FiniteSetTheorems, TLAPS

-----------------------------------------------------------------------------
(* The index.                                                              *)

(* Every step of the index keeps its type (all the methods of memoryIndex).*)
THEOREM IndexTypeCorrect == IndexSpec => []IndexTypeOK
<1>1. IndexInit => IndexTypeOK
  BY IndexConstants DEF IndexInit, IndexTypeOK
<1>2. IndexTypeOK /\ [IndexNext]_indexVars => IndexTypeOK'
  <2> SUFFICES ASSUME IndexTypeOK, [IndexNext]_indexVars
               PROVE  IndexTypeOK'
    OBVIOUS
  <2> USE IndexConstants
  <2>1. ASSUME NEW s \in Sessions, AnyAdd(s), UNCHANGED now
        PROVE  IndexTypeOK'
    BY <2>1 DEF AnyAdd, Add, IndexTypeOK, SessionInfo
  <2>2. ASSUME NEW s \in Sessions, AnyExtend(s), UNCHANGED now
        PROVE  IndexTypeOK'
    BY <2>2 DEF AnyExtend, Extend, Indexed, IndexTypeOK, SessionInfo
  <2>3. ASSUME NEW s \in Sessions, KeepAlive(s), UNCHANGED now
        PROVE  IndexTypeOK'
    BY <2>3 DEF KeepAlive, Update, Indexed, IndexTypeOK, SessionInfo
  <2>4. ASSUME NEW s \in Sessions, NEW b \in BOOLEAN, SetAttached(s, b), UNCHANGED now
        PROVE  IndexTypeOK'
    BY <2>4 DEF SetAttached, Indexed, IndexTypeOK, SessionInfo
  <2>5. ASSUME NEW s \in Sessions, Remove(s), UNCHANGED now
        PROVE  IndexTypeOK'
    BY <2>5 DEF Remove, IndexTypeOK
  <2>6. CASE Tick /\ UNCHANGED sessions
    BY <2>6 DEF Tick, IndexTypeOK
  <2>7. CASE UNCHANGED indexVars
    BY <2>7 DEF indexVars, IndexTypeOK
  <2>8. QED
    BY <2>1, <2>2, <2>3, <2>4, <2>5, <2>6, <2>7 DEF IndexNext
<1>3. QED
  BY <1>1, <1>2, PTL DEF IndexSpec

-----------------------------------------------------------------------------
(* The sessions of an account, and its long ones, are finitely many.       *)
LEMMA OwnedFinite ==
    ASSUME NEW u
    PROVE  /\ IsFiniteSet(OwnedBy(u)) /\ IsFiniteSet(LongOwnedBy(u))
           /\ TotalCount(u) \in Nat /\ LongCount(u) \in Nat
<1>1. OwnedBy(u) \in SUBSET Sessions /\ LongOwnedBy(u) \in SUBSET Sessions
  BY DEF OwnedBy, LongOwnedBy
<1>2. IsFiniteSet(OwnedBy(u)) /\ IsFiniteSet(LongOwnedBy(u))
  BY <1>1, FS_Subset, IndexConstants
<1>3. QED
  BY <1>2, FS_CardinalityType DEF TotalCount, LongCount

(* An account whose sessions are among those it had counts no more.        *)
LEMMA FewerCountNoMore ==
    ASSUME NEW u, OwnedBy(u)' \subseteq OwnedBy(u), LongOwnedBy(u)' \subseteq LongOwnedBy(u)
    PROVE  TotalCount(u)' <= TotalCount(u) /\ LongCount(u)' <= LongCount(u)
<1>1. IsFiniteSet(OwnedBy(u)) /\ IsFiniteSet(LongOwnedBy(u))
  BY OwnedFinite
<1>2. Cardinality(OwnedBy(u)') <= Cardinality(OwnedBy(u))
  BY <1>1, FS_Subset
<1>3. Cardinality(LongOwnedBy(u)') <= Cardinality(LongOwnedBy(u))
  BY <1>1, FS_Subset
<1>4. QED
  BY <1>2, <1>3 DEF TotalCount, LongCount

(* One session more, and at most one is counted more.                      *)
LEMMA OneMoreCountsOne ==
    ASSUME NEW u, NEW s, OwnedBy(u)' \subseteq OwnedBy(u) \cup {s},
           LongOwnedBy(u)' \subseteq LongOwnedBy(u) \cup {s}
    PROVE  TotalCount(u)' <= TotalCount(u) + 1 /\ LongCount(u)' <= LongCount(u) + 1
<1>1. /\ IsFiniteSet(OwnedBy(u)) /\ IsFiniteSet(LongOwnedBy(u))
      /\ TotalCount(u) \in Nat /\ LongCount(u) \in Nat
  BY OwnedFinite
<1>2. /\ IsFiniteSet(OwnedBy(u) \cup {s})
      /\ Cardinality(OwnedBy(u) \cup {s}) <= TotalCount(u) + 1
  <2>1. /\ IsFiniteSet(OwnedBy(u) \cup {s})
        /\ Cardinality(OwnedBy(u) \cup {s}) =
              IF s \in OwnedBy(u) THEN Cardinality(OwnedBy(u))
              ELSE Cardinality(OwnedBy(u)) + 1
    BY <1>1, FS_AddElement
  <2>2. QED
    BY <1>1, <2>1 DEF TotalCount
<1>3. /\ IsFiniteSet(LongOwnedBy(u) \cup {s})
      /\ Cardinality(LongOwnedBy(u) \cup {s}) <= LongCount(u) + 1
  <2>1. /\ IsFiniteSet(LongOwnedBy(u) \cup {s})
        /\ Cardinality(LongOwnedBy(u) \cup {s}) =
              IF s \in LongOwnedBy(u) THEN Cardinality(LongOwnedBy(u))
              ELSE Cardinality(LongOwnedBy(u)) + 1
    BY <1>1, FS_AddElement
  <2>2. QED
    BY <1>1, <2>1 DEF LongCount
<1>4. /\ Cardinality(OwnedBy(u)') <= Cardinality(OwnedBy(u) \cup {s})
      /\ Cardinality(OwnedBy(u)') \in Nat /\ Cardinality(OwnedBy(u) \cup {s}) \in Nat
  BY <1>2, FS_Subset, FS_CardinalityType
<1>5. /\ Cardinality(LongOwnedBy(u)') <= Cardinality(LongOwnedBy(u) \cup {s})
      /\ Cardinality(LongOwnedBy(u)') \in Nat /\ Cardinality(LongOwnedBy(u) \cup {s}) \in Nat
  BY <1>3, FS_Subset, FS_CardinalityType
<1>6. QED
  BY <1>1, <1>2, <1>3, <1>4, <1>5 DEF TotalCount, LongCount

-----------------------------------------------------------------------------
(* The quota of every account holds for every interleaving of the methods: *)
(* only Add makes a count grow, by one, and Add checks it in the same hold *)
(* of indexMu.                                                             *)
THEOREM QuotaHolds == IndexSpec => []QuotaRespected
<1>1. IndexInit => QuotaRespected
  <2> SUFFICES ASSUME IndexInit, NEW u \in Users
               PROVE  TotalCount(u) = 0 /\ LongCount(u) = 0
    BY IndexConstants DEF QuotaRespected
  <2>1. OwnedBy(u) = {} /\ LongOwnedBy(u) = {}
    BY DEF IndexInit, OwnedBy, LongOwnedBy, Indexed
  <2>2. QED
    BY <2>1, FS_EmptySet DEF TotalCount, LongCount
<1>2. IndexTypeOK /\ QuotaRespected /\ [IndexNext]_indexVars => QuotaRespected'
  <2> SUFFICES ASSUME IndexTypeOK, QuotaRespected, [IndexNext]_indexVars, NEW u \in Users
               PROVE  /\ MaxTotal > 0 => TotalCount(u)' <= MaxTotal
                      /\ MaxLong > 0 => LongCount(u)' <= MaxLong
    BY DEF QuotaRespected
  <2>0. /\ TotalCount(u) \in Nat /\ LongCount(u) \in Nat
        /\ TotalCount(u)' \in Nat /\ LongCount(u)' \in Nat
        /\ MaxTotal \in Nat /\ MaxLong \in Nat
    <3>1. TotalCount(u)' \in Nat /\ LongCount(u)' \in Nat
      <4>1. OwnedBy(u)' \in SUBSET Sessions /\ LongOwnedBy(u)' \in SUBSET Sessions
        BY DEF OwnedBy, LongOwnedBy
      <4>2. IsFiniteSet(OwnedBy(u)') /\ IsFiniteSet(LongOwnedBy(u)')
        BY <4>1, FS_Subset, IndexConstants
      <4>3. QED
        BY <4>2, FS_CardinalityType DEF TotalCount, LongCount
    <3>2. QED
      BY <3>1, OwnedFinite, IndexConstants
  <2>1. ASSUME NEW s \in Sessions, AnyAdd(s)
        PROVE  /\ MaxTotal > 0 => TotalCount(u)' <= MaxTotal
               /\ MaxLong > 0 => LongCount(u)' <= MaxLong
    <3>1. PICK v \in Users, long \in BOOLEAN, t \in 0..MaxDeadline :
              /\ HasRoom([user |-> v, longLived |-> long, expireAt |-> t, attached |-> FALSE])
              /\ sessions' = [sessions EXCEPT ![s] =
                    [user |-> v, longLived |-> long, expireAt |-> t, attached |-> FALSE]]
      BY <2>1 DEF AnyAdd, Add
    <3>2. CASE v # u
      <4>1. OwnedBy(u)' \subseteq OwnedBy(u) /\ LongOwnedBy(u)' \subseteq LongOwnedBy(u)
        BY <3>1, <3>2, IndexConstants DEF OwnedBy, LongOwnedBy, Indexed, IndexTypeOK, SessionInfo
      <4>2. QED
        BY <4>1, <2>0, FewerCountNoMore DEF QuotaRespected
    <3>3. CASE v = u /\ long
      <4>1. /\ OwnedBy(u)' \subseteq OwnedBy(u) \cup {s}
            /\ LongOwnedBy(u)' \subseteq LongOwnedBy(u) \cup {s}
        BY <3>1, <3>3, IndexConstants DEF OwnedBy, LongOwnedBy, Indexed, IndexTypeOK, SessionInfo
      <4>2. /\ MaxTotal > 0 => TotalCount(u) < MaxTotal
            /\ MaxLong > 0 => LongCount(u) < MaxLong
        BY <3>1, <3>3 DEF HasRoom
      <4>3. QED
        BY <4>1, <4>2, <2>0, OneMoreCountsOne
    <3>4. CASE v = u /\ ~long
      <4>1. /\ OwnedBy(u)' \subseteq OwnedBy(u) \cup {s}
            /\ LongOwnedBy(u)' \subseteq LongOwnedBy(u)
        BY <3>1, <3>4, IndexConstants DEF OwnedBy, LongOwnedBy, Indexed, IndexTypeOK, SessionInfo
      <4>2. MaxTotal > 0 => TotalCount(u) < MaxTotal
        BY <3>1, <3>4 DEF HasRoom
      <4>3. TotalCount(u)' <= TotalCount(u) + 1
        BY <4>1, OneMoreCountsOne
      <4>4. LongCount(u)' <= LongCount(u)
        <5>1. IsFiniteSet(LongOwnedBy(u))
          BY OwnedFinite
        <5>2. Cardinality(LongOwnedBy(u)') <= Cardinality(LongOwnedBy(u))
          BY <4>1, <5>1, FS_Subset
        <5>3. QED
          BY <5>2 DEF LongCount
      <4>5. QED
        BY <4>2, <4>3, <4>4, <2>0 DEF QuotaRespected
    <3>5. QED
      BY <3>2, <3>3, <3>4
  <2>2. ASSUME NEW s \in Sessions,
               \/ AnyExtend(s) \/ KeepAlive(s) \/ Remove(s)
               \/ \E b \in BOOLEAN : SetAttached(s, b)
        PROVE  OwnedBy(u)' \subseteq OwnedBy(u) /\ LongOwnedBy(u)' \subseteq LongOwnedBy(u)
    <3> USE IndexConstants DEF OwnedBy, LongOwnedBy, Indexed, IndexTypeOK, SessionInfo
    <3>1. CASE AnyExtend(s)
      BY <3>1 DEF AnyExtend, Extend
    <3>2. CASE KeepAlive(s)
      BY <3>2 DEF KeepAlive, Update
    <3>3. CASE Remove(s)
      BY <3>3 DEF Remove
    <3>4. CASE \E b \in BOOLEAN : SetAttached(s, b)
      BY <3>4 DEF SetAttached
    <3>5. QED
      BY <2>2, <3>1, <3>2, <3>3, <3>4
  <2>3. CASE UNCHANGED sessions
    BY <2>3 DEF QuotaRespected, TotalCount, LongCount, OwnedBy, LongOwnedBy, Indexed
  <2>4. QED
    BY <2>0, <2>1, <2>2, <2>3, FewerCountNoMore DEF IndexNext, indexVars, QuotaRespected
<1>3. QED
  BY <1>1, <1>2, IndexTypeCorrect, PTL DEF IndexSpec

-----------------------------------------------------------------------------
(* A long session that is due stays due while it is indexed: Extend        *)
(* refuses it, Update is for short sessions, and time does not go back.    *)
THEOREM LongExpiryFinalHolds == IndexSpec => LongExpiryFinal
<1>1. IndexTypeOK /\ [IndexNext]_indexVars => [LongExpiryIsFinal]_indexVars
  <2> SUFFICES ASSUME IndexTypeOK, IndexNext, NEW x \in Sessions,
                      Indexed(x), sessions[x].longLived, Expired(sessions[x], now),
                      Indexed(x)'
               PROVE  Expired(sessions[x], now)'
    BY DEF LongExpiryIsFinal
  <2> USE IndexConstants DEF Expired, Indexed, IndexTypeOK, SessionInfo
  <2>1. ASSUME NEW s \in Sessions, AnyAdd(s), UNCHANGED now
        PROVE  Expired(sessions[x], now)'
    BY <2>1 DEF AnyAdd, Add
  <2>2. ASSUME NEW s \in Sessions, AnyExtend(s), UNCHANGED now
        PROVE  Expired(sessions[x], now)'
    BY <2>2 DEF AnyExtend, Extend
  <2>3. ASSUME NEW s \in Sessions, KeepAlive(s), UNCHANGED now
        PROVE  Expired(sessions[x], now)'
    BY <2>3 DEF KeepAlive, Update
  <2>4. ASSUME NEW s \in Sessions, NEW b \in BOOLEAN, SetAttached(s, b), UNCHANGED now
        PROVE  Expired(sessions[x], now)'
    BY <2>4 DEF SetAttached
  <2>5. ASSUME NEW s \in Sessions, Remove(s), UNCHANGED now
        PROVE  Expired(sessions[x], now)'
    BY <2>5 DEF Remove
  <2>6. CASE Tick /\ UNCHANGED sessions
    BY <2>6 DEF Tick
  <2>7. QED
    BY <2>1, <2>2, <2>3, <2>4, <2>5, <2>6 DEF IndexNext
<1>2. QED
  BY <1>1, IndexTypeCorrect, PTL DEF IndexSpec, LongExpiryFinal

-----------------------------------------------------------------------------
(* The manager and its goroutines.                                         *)

(* The only step that changes the index in a handler's attach, and the two *)
(* of its detach, leave owner, kind and presence of every entry alone.     *)
SameEntries ==
    /\ sessions' \in [Sessions -> SessionInfo \cup {Absent}]
    /\ \A x \in Sessions :
          /\ sessions'[x] = Absent <=> sessions[x] = Absent
          /\ sessions[x] # Absent => sessions'[x].longLived = sessions[x].longLived

SameDeadlines(S) ==
    \A x \in S : sessions[x] # Absent => sessions'[x].expireAt = sessions[x].expireAt

LEMMA SetAttachedEffect ==
    ASSUME IndexTypeOK, NEW s \in Sessions, NEW b \in BOOLEAN, SetAttached(s, b)
    PROVE  SameEntries /\ SameDeadlines(Sessions)
<1> USE DEF SameEntries, SameDeadlines
<1>1. CASE ~Indexed(s)
  BY <1>1 DEF SetAttached, IndexTypeOK
<1>2. CASE Indexed(s)
  <2> DEFINE e == [sessions[s] EXCEPT !.attached = b]
  <2>1. sessions' = [sessions EXCEPT ![s] = e]
    BY <1>2 DEF SetAttached
  <2>2. sessions[s] \in SessionInfo
    BY <1>2 DEF Indexed, IndexTypeOK
  <2>3. /\ e \in SessionInfo /\ e.longLived = sessions[s].longLived
        /\ e.expireAt = sessions[s].expireAt
    BY <2>2 DEF SessionInfo
  <2> HIDE DEF e
  <2>4. QED
    BY <1>2, <2>1, <2>2, <2>3, IndexConstants DEF IndexTypeOK, Indexed
<1>3. QED
  BY <1>1, <1>2

LEMMA UpdateEffect ==
    ASSUME IndexTypeOK, NEW s \in Sessions, NEW t \in Nat, Update(s, t)
    PROVE  SameEntries /\ SameDeadlines(Sessions \ {s})
<1> USE DEF SameEntries, SameDeadlines
<1>1. CASE ~Indexed(s)
  BY <1>1 DEF Update, IndexTypeOK
<1>2. CASE Indexed(s)
  <2> DEFINE e == [sessions[s] EXCEPT !.expireAt = t]
  <2>1. sessions' = [sessions EXCEPT ![s] = e]
    BY <1>2 DEF Update
  <2>2. sessions[s] \in SessionInfo
    BY <1>2 DEF Indexed, IndexTypeOK
  <2>3. e \in SessionInfo /\ e.longLived = sessions[s].longLived
    BY <2>2 DEF SessionInfo
  <2> HIDE DEF e
  <2>4. QED
    BY <1>2, <2>1, <2>2, <2>3, IndexConstants DEF IndexTypeOK, Indexed
<1>3. QED
  BY <1>1, <1>2

(* A handler that serves has a session.                                    *)
LEMMA ServingHasTarget ==
    ASSUME TypeOK, HandlersConsistent, NEW c \in Conns, pc[c] \notin {"idle", "done"}
    PROVE  target[c] \in Sessions
BY DEF TypeOK, HandlersConsistent

LEMMA AttachIndexEffect ==
    ASSUME TypeOK, HandlersConsistent, NEW c \in Conns, AttachIndex(c)
    PROVE  SameEntries /\ SameDeadlines(Sessions)
<1>1. target[c] \in Sessions
  BY ServingHasTarget DEF AttachIndex
<1>2. SetAttached(target[c], TRUE) /\ IndexTypeOK
  BY DEF AttachIndex, TypeOK
<1>3. QED
  BY <1>1, <1>2, SetAttachedEffect

LEMMA DetachIndexEffect ==
    ASSUME TypeOK, HandlersConsistent, NEW c \in Conns, DetachIndex(c)
    PROVE  SameEntries /\ SameDeadlines(Sessions)
<1>1. target[c] \in Sessions
  BY ServingHasTarget DEF DetachIndex
<1>2. SetAttached(target[c], FALSE) /\ IndexTypeOK
  BY DEF DetachIndex, TypeOK
<1>3. QED
  BY <1>1, <1>2, SetAttachedEffect

LEMMA DetachRenewEffect ==
    ASSUME TypeOK, HandlersConsistent, NEW c \in Conns, DetachRenew(c)
    PROVE  SameEntries /\ SameDeadlines(Sessions \ {target[c]})
<1>1. target[c] \in Sessions
  BY ServingHasTarget DEF DetachRenew
<1>2. Update(target[c], now + ShortTTL) /\ IndexTypeOK
  BY DEF DetachRenew, TypeOK
<1>3. now + ShortTTL \in Nat
  BY <1>2, IndexConstants DEF IndexTypeOK
<1>4. QED
  BY <1>1, <1>2, <1>3, UpdateEffect

(* What Create hands to Add.                                               *)
LEMMA NewbornType ==
    ASSUME IndexTypeOK, NEW u \in Users, NEW long \in BOOLEAN, NEW h \in 1..MaxHours
    PROVE  /\ Newborn(u, long, h) \in SessionInfo \ {Absent}
           /\ ~Newborn(u, long, h).attached
           /\ Newborn(u, long, h).expireAt <= MaxDeadline
           /\ Newborn(u, long, h).longLived = long
<1> DEFINE ttl == IF long THEN h ELSE ShortTTL
<1>1. ttl \in Nat /\ now + ttl \in Nat /\ now + ttl <= MaxDeadline
  BY IndexConstants DEF IndexTypeOK
<1> HIDE DEF ttl
<1>2. Newborn(u, long, h) = [user |-> u, longLived |-> long, attached |-> FALSE,
                             expireAt |-> now + ttl]
  BY DEF Newborn, ttl
<1>3. Newborn(u, long, h) \in SessionInfo
  BY <1>1, <1>2 DEF SessionInfo
<1>4. Newborn(u, long, h) # Absent
  BY <1>3, IndexConstants
<1>5. QED
  BY <1>1, <1>2, <1>3, <1>4

(* Take touches the flags of close() only.                                 *)
LEMMA TakeEffect ==
    ASSUME TypeOK, NEW s \in Sessions, Take(s)
    PROVE  /\ closed' \in [Sessions -> BOOLEAN]
           /\ conn' \in [Sessions -> Conns \cup {None}]
           /\ victim' \in [Sessions -> Conns \cup {None}]
           /\ ending' \in [Sessions -> CloseSteps]
BY DEF Take, TypeOK, CloseSteps

-----------------------------------------------------------------------------
(* Every action keeps every variable in its type.                          *)
LEMMA TypeStep ==
    ASSUME IndInv, [Next]_mgrVars
    PROVE  TypeOK'
<1>a. \A c \in Conns : AttachIndex(c) => SameEntries /\ SameDeadlines(Sessions)
  BY AttachIndexEffect DEF IndInv
<1>d. \A c \in Conns : DetachIndex(c) => SameEntries /\ SameDeadlines(Sessions)
  BY DetachIndexEffect DEF IndInv
<1>r. \A c \in Conns : DetachRenew(c) => SameEntries /\ SameDeadlines(Sessions \ {target[c]})
  BY DetachRenewEffect DEF IndInv
<1> USE IndexConstants, ConnConstants DEF mgrVars, indexVars, lsVars, closeVars, wsVars, reapVars, TypeOK, IndexTypeOK, SessionInfo, Indexed, Creating, Serving, Attached, Closing, Usable, IndInv, HandlersConsistent, HandlerPCs, CloseSteps
<1>1. ASSUME NEW c \in Conns, Create(c)
       PROVE  TypeOK'
  <2>1. PICK s \in Sessions, u \in Users, long \in BOOLEAN, h \in 1..MaxHours :
            \/ \E r \in {"open", "none"} : BeginCreate(c, s, Newborn(u, long, h), r)
            \/ RefuseUnrecorded(c, s, Newborn(u, long, h))
    BY <1>1 DEF Create
  <2> DEFINE new == Newborn(u, long, h)
  <2>2. /\ new \in SessionInfo \ {Absent} /\ ~new.attached
        /\ new.expireAt <= MaxDeadline
    BY NewbornType
  <2> HIDE DEF new
  <2>3. ASSUME NEW r \in {"open", "none"}, BeginCreate(c, s, new, r)
        PROVE  TypeOK'
    BY <2>2, <2>3 DEF BeginCreate, KindOf, Goto
  <2>4. CASE RefuseUnrecorded(c, s, new)
    BY <2>2, <2>4 DEF RefuseUnrecorded, KindOf, Return, Goto, HangUp
  <2>5. QED
    BY <2>1, <2>3, <2>4 DEF new
<1>2. ASSUME NEW c \in Conns, NEW s \in Sessions, IssueAttachTicket(c, s)
       PROVE  TypeOK'
  BY <1>2 DEF IssueAttachTicket, CanAttach, Goto
<1>3. ASSUME NEW c \in Conns, AddToIndex(c)
       PROVE  TypeOK'
  BY <1>3 DEF AddToIndex, Add, Goto
<1>4. ASSUME NEW c \in Conns, RejectOverQuota(c)
       PROVE  TypeOK'
  BY <1>4 DEF RejectOverQuota, Return, Goto, HangUp
<1>5. ASSUME NEW c \in Conns, Register(c)
       PROVE  TypeOK'
  BY <1>5 DEF Register, Goto
<1>6. ASSUME NEW c \in Conns, RecheckAttach(c)
       PROVE  TypeOK'
  BY <1>6 DEF RecheckAttach, CanAttach, Goto
<1>7. ASSUME NEW c \in Conns, RefuseAttach(c)
       PROVE  TypeOK'
  BY <1>7 DEF RefuseAttach, Return, Goto, HangUp
<1>8. ASSUME NEW c \in Conns, AttachSwap(c)
       PROVE  TypeOK'
  BY <1>8 DEF AttachSwap, Goto
<1>9. ASSUME NEW c \in Conns, AttachClosed(c)
       PROVE  TypeOK'
  BY <1>9 DEF AttachClosed, Return, Goto, HangUp
<1>10. ASSUME NEW c \in Conns, AttachIndex(c)
       PROVE  TypeOK'
  <2>1. SameEntries /\ SameDeadlines(Sessions)
    BY <1>10, <1>a
  <2>2. QED
    BY <1>10, <2>1 DEF AttachIndex, Goto, SameEntries, SameDeadlines
<1>11. ASSUME NEW c \in Conns, AttachKick(c)
       PROVE  TypeOK'
  BY <1>11 DEF AttachKick, Goto
<1>12. ASSUME NEW c \in Conns, ClientGone(c)
       PROVE  TypeOK'
  BY <1>12 DEF ClientGone, HangUp
<1>13. ASSUME NEW c \in Conns, DetachClear(c)
       PROVE  TypeOK'
  BY <1>13 DEF DetachClear, Return, Goto
<1>14. ASSUME NEW c \in Conns, DetachIndex(c)
       PROVE  TypeOK'
  <2>1. SameEntries /\ SameDeadlines(Sessions)
    BY <1>14, <1>d
  <2>2. QED
    BY <1>14, <2>1 DEF DetachIndex, Return, Goto, SameEntries, SameDeadlines
<1>15. ASSUME NEW c \in Conns, DetachRenew(c)
       PROVE  TypeOK'
  <2>1. SameEntries /\ SameDeadlines(Sessions \ {target[c]})
    BY <1>15, <1>r
  <2>2. QED
    BY <1>15, <2>1 DEF DetachRenew, Return, Goto, SameEntries, SameDeadlines
<1>16. ASSUME NEW s \in Sessions, HttpClose(s)
       PROVE  TypeOK'
  BY <1>16 DEF HttpClose, Take
<1>17. ASSUME NEW s \in Sessions, ShellExits(s)
       PROVE  TypeOK'
  BY <1>17 DEF ShellExits
<1>18. ASSUME NEW s \in Sessions, PumpCloses(s)
       PROVE  TypeOK'
  <2>1. CASE Take(s)
    BY <1>18, <2>1, TakeEffect DEF PumpCloses
  <2>2. CASE UNCHANGED <<closed, conn, closeVars>>
    BY <1>18, <2>2 DEF PumpCloses
  <2>3. QED
    BY <1>18, <2>1, <2>2 DEF PumpCloses
<1>19. ASSUME NEW s \in Sessions, Unindex(s)
       PROVE  TypeOK'
  BY <1>19 DEF Unindex, Remove
<1>20. ASSUME NEW s \in Sessions, Notify(s)
       PROVE  TypeOK'
  BY <1>20 DEF Notify
<1>21. ASSUME NEW s \in Sessions, CloseShell(s)
       PROVE  TypeOK'
  BY <1>21 DEF CloseShell
<1>22. ASSUME NEW s \in Sessions, CloseRecorder(s)
       PROVE  TypeOK'
  BY <1>22 DEF CloseRecorder
<1>23. ASSUME NEW s \in Sessions, Forget(s)
       PROVE  TypeOK'
  BY <1>23 DEF Forget
<1>24. ASSUME NEW s \in Sessions, NEW h \in 1..MaxHours, HttpExtend(s, h)
       PROVE  TypeOK'
  BY <1>24 DEF HttpExtend, Extend
<1>25. CASE ReapSnapshot
  BY <1>25 DEF ReapSnapshot, ExpiredNow
<1>26. ASSUME NEW s \in Sessions, ReapNext(s)
       PROVE  TypeOK'
  <2>1. CASE Take(s)
    BY <1>26, <2>1, TakeEffect DEF ReapNext
  <2>2. CASE UNCHANGED <<closed, conn, closeVars>>
    BY <1>26, <2>2 DEF ReapNext
  <2>3. QED
    BY <1>26, <2>1, <2>2 DEF ReapNext
<1>27. CASE Clock
  BY <1>27 DEF Clock, Tick
<1>28. CASE UNCHANGED mgrVars
  BY <1>28
<1>29. QED
  BY <1>1, <1>2, <1>3, <1>4, <1>5, <1>6, <1>7, <1>8, <1>9, <1>10, <1>11, <1>12, <1>13, <1>14, <1>15, <1>16, <1>17, <1>18, <1>19, <1>20, <1>21, <1>22, <1>23, <1>24, <1>25, <1>26, <1>27, <1>28
     DEF Next, HandlerStep, CloseStep, Reap, ReadFails, ReadLoopGivesUp

(* Handlers stay consistent: what a creating handler works on is nobody    *)
(* else's, and a serving handler's session only leaves the index by close. *)
LEMMA HandlersStep ==
    ASSUME IndInv, [Next]_mgrVars
    PROVE  HandlersConsistent'
<1>a. \A c \in Conns : AttachIndex(c) => SameEntries /\ SameDeadlines(Sessions)
  BY AttachIndexEffect DEF IndInv
<1>d. \A c \in Conns : DetachIndex(c) => SameEntries /\ SameDeadlines(Sessions)
  BY DetachIndexEffect DEF IndInv
<1>r. \A c \in Conns : DetachRenew(c) => SameEntries /\ SameDeadlines(Sessions \ {target[c]})
  BY DetachRenewEffect DEF IndInv
<1> USE IndexConstants, ConnConstants DEF mgrVars, indexVars, lsVars, closeVars, wsVars, reapVars, TypeOK, IndexTypeOK, SessionInfo, Indexed, Creating, Serving, Attached, Closing, Usable, IndInv, HandlersConsistent, OneCreator, ClosingConsistent
<1>1. ASSUME NEW c \in Conns, Create(c)
       PROVE  HandlersConsistent'
  <2>1. PICK s \in Sessions, u \in Users, long \in BOOLEAN, h \in 1..MaxHours :
            \/ \E r \in {"open", "none"} : BeginCreate(c, s, Newborn(u, long, h), r)
            \/ RefuseUnrecorded(c, s, Newborn(u, long, h))
    BY <1>1 DEF Create
  <2> DEFINE new == Newborn(u, long, h)
  <2>2. /\ new \in SessionInfo \ {Absent} /\ ~new.attached
        /\ new.expireAt <= MaxDeadline
    BY NewbornType
  <2> HIDE DEF new
  <2>3. ASSUME NEW r \in {"open", "none"}, BeginCreate(c, s, new, r)
        PROVE  HandlersConsistent'
    BY <2>2, <2>3 DEF BeginCreate, KindOf, Goto
  <2>4. CASE RefuseUnrecorded(c, s, new)
    BY <2>2, <2>4 DEF RefuseUnrecorded, KindOf, Return, Goto, HangUp
  <2>5. QED
    BY <2>1, <2>3, <2>4 DEF new
<1>2. ASSUME NEW c \in Conns, NEW s \in Sessions, IssueAttachTicket(c, s)
       PROVE  HandlersConsistent'
  BY <1>2 DEF IssueAttachTicket, CanAttach, Goto
<1>3. ASSUME NEW c \in Conns, AddToIndex(c)
       PROVE  HandlersConsistent'
  BY <1>3 DEF AddToIndex, Add, Goto
<1>4. ASSUME NEW c \in Conns, RejectOverQuota(c)
       PROVE  HandlersConsistent'
  BY <1>4 DEF RejectOverQuota, Return, Goto, HangUp
<1>5. ASSUME NEW c \in Conns, Register(c)
       PROVE  HandlersConsistent'
  BY <1>5 DEF Register, Goto
<1>6. ASSUME NEW c \in Conns, RecheckAttach(c)
       PROVE  HandlersConsistent'
  BY <1>6 DEF RecheckAttach, CanAttach, Goto
<1>7. ASSUME NEW c \in Conns, RefuseAttach(c)
       PROVE  HandlersConsistent'
  BY <1>7 DEF RefuseAttach, Return, Goto, HangUp
<1>8. ASSUME NEW c \in Conns, AttachSwap(c)
       PROVE  HandlersConsistent'
  BY <1>8 DEF AttachSwap, Goto
<1>9. ASSUME NEW c \in Conns, AttachClosed(c)
       PROVE  HandlersConsistent'
  BY <1>9 DEF AttachClosed, Return, Goto, HangUp
<1>10. ASSUME NEW c \in Conns, AttachIndex(c)
       PROVE  HandlersConsistent'
  <2>1. SameEntries /\ SameDeadlines(Sessions)
    BY <1>10, <1>a
  <2>2. QED
    BY <1>10, <2>1 DEF AttachIndex, Goto, SameEntries, SameDeadlines
<1>11. ASSUME NEW c \in Conns, AttachKick(c)
       PROVE  HandlersConsistent'
  BY <1>11 DEF AttachKick, Goto
<1>12. ASSUME NEW c \in Conns, ClientGone(c)
       PROVE  HandlersConsistent'
  BY <1>12 DEF ClientGone, HangUp
<1>13. ASSUME NEW c \in Conns, DetachClear(c)
       PROVE  HandlersConsistent'
  BY <1>13 DEF DetachClear, Return, Goto
<1>14. ASSUME NEW c \in Conns, DetachIndex(c)
       PROVE  HandlersConsistent'
  <2>1. SameEntries /\ SameDeadlines(Sessions)
    BY <1>14, <1>d
  <2>2. QED
    BY <1>14, <2>1 DEF DetachIndex, Return, Goto, SameEntries, SameDeadlines
<1>15. ASSUME NEW c \in Conns, DetachRenew(c)
       PROVE  HandlersConsistent'
  <2>1. SameEntries /\ SameDeadlines(Sessions \ {target[c]})
    BY <1>15, <1>r
  <2>2. QED
    BY <1>15, <2>1 DEF DetachRenew, Return, Goto, SameEntries, SameDeadlines
<1>16. ASSUME NEW s \in Sessions, HttpClose(s)
       PROVE  HandlersConsistent'
  BY <1>16 DEF HttpClose, Take
<1>17. ASSUME NEW s \in Sessions, ShellExits(s)
       PROVE  HandlersConsistent'
  BY <1>17 DEF ShellExits
<1>18. ASSUME NEW s \in Sessions, PumpCloses(s)
       PROVE  HandlersConsistent'
  BY <1>18 DEF PumpCloses, Take
<1>19. ASSUME NEW s \in Sessions, Unindex(s)
       PROVE  HandlersConsistent'
  BY <1>19 DEF Unindex, Remove
<1>20. ASSUME NEW s \in Sessions, Notify(s)
       PROVE  HandlersConsistent'
  BY <1>20 DEF Notify
<1>21. ASSUME NEW s \in Sessions, CloseShell(s)
       PROVE  HandlersConsistent'
  BY <1>21 DEF CloseShell
<1>22. ASSUME NEW s \in Sessions, CloseRecorder(s)
       PROVE  HandlersConsistent'
  BY <1>22 DEF CloseRecorder
<1>23. ASSUME NEW s \in Sessions, Forget(s)
       PROVE  HandlersConsistent'
  BY <1>23 DEF Forget
<1>24. ASSUME NEW s \in Sessions, NEW h \in 1..MaxHours, HttpExtend(s, h)
       PROVE  HandlersConsistent'
  BY <1>24 DEF HttpExtend, Extend
<1>25. CASE ReapSnapshot
  BY <1>25 DEF ReapSnapshot, ExpiredNow
<1>26. ASSUME NEW s \in Sessions, ReapNext(s)
       PROVE  HandlersConsistent'
  BY <1>26 DEF ReapNext, Take
<1>27. CASE Clock
  BY <1>27 DEF Clock, Tick
<1>28. CASE UNCHANGED mgrVars
  BY <1>28
<1>29. QED
  BY <1>1, <1>2, <1>3, <1>4, <1>5, <1>6, <1>7, <1>8, <1>9, <1>10, <1>11, <1>12, <1>13, <1>14, <1>15, <1>16, <1>17, <1>18, <1>19, <1>20, <1>21, <1>22, <1>23, <1>24, <1>25, <1>26, <1>27, <1>28
     DEF Next, HandlerStep, CloseStep, Reap, ReadFails, ReadLoopGivesUp

(* A session id is created by one handler only.                            *)
LEMMA CreatorStep ==
    ASSUME IndInv, [Next]_mgrVars
    PROVE  OneCreator'
<1>a. \A c \in Conns : AttachIndex(c) => SameEntries /\ SameDeadlines(Sessions)
  BY AttachIndexEffect DEF IndInv
<1>d. \A c \in Conns : DetachIndex(c) => SameEntries /\ SameDeadlines(Sessions)
  BY DetachIndexEffect DEF IndInv
<1>r. \A c \in Conns : DetachRenew(c) => SameEntries /\ SameDeadlines(Sessions \ {target[c]})
  BY DetachRenewEffect DEF IndInv
<1> USE IndexConstants, ConnConstants DEF mgrVars, indexVars, lsVars, closeVars, wsVars, reapVars, TypeOK, IndexTypeOK, SessionInfo, Indexed, Creating, Serving, Attached, Closing, Usable, IndInv, HandlersConsistent, OneCreator
<1>1. ASSUME NEW c \in Conns, Create(c)
       PROVE  OneCreator'
  BY <1>1 DEF Create, BeginCreate, RefuseUnrecorded, Newborn, KindOf, Return, Goto, HangUp
<1>2. ASSUME NEW c \in Conns, NEW s \in Sessions, IssueAttachTicket(c, s)
       PROVE  OneCreator'
  BY <1>2 DEF IssueAttachTicket, CanAttach, Goto
<1>3. ASSUME NEW c \in Conns, AddToIndex(c)
       PROVE  OneCreator'
  BY <1>3 DEF AddToIndex, Add, Goto
<1>4. ASSUME NEW c \in Conns, RejectOverQuota(c)
       PROVE  OneCreator'
  BY <1>4 DEF RejectOverQuota, Return, Goto, HangUp
<1>5. ASSUME NEW c \in Conns, Register(c)
       PROVE  OneCreator'
  BY <1>5 DEF Register, Goto
<1>6. ASSUME NEW c \in Conns, RecheckAttach(c)
       PROVE  OneCreator'
  BY <1>6 DEF RecheckAttach, CanAttach, Goto
<1>7. ASSUME NEW c \in Conns, RefuseAttach(c)
       PROVE  OneCreator'
  BY <1>7 DEF RefuseAttach, Return, Goto, HangUp
<1>8. ASSUME NEW c \in Conns, AttachSwap(c)
       PROVE  OneCreator'
  BY <1>8 DEF AttachSwap, Goto
<1>9. ASSUME NEW c \in Conns, AttachClosed(c)
       PROVE  OneCreator'
  BY <1>9 DEF AttachClosed, Return, Goto, HangUp
<1>10. ASSUME NEW c \in Conns, AttachIndex(c)
       PROVE  OneCreator'
  <2>1. SameEntries /\ SameDeadlines(Sessions)
    BY <1>10, <1>a
  <2>2. QED
    BY <1>10, <2>1 DEF AttachIndex, Goto, SameEntries, SameDeadlines
<1>11. ASSUME NEW c \in Conns, AttachKick(c)
       PROVE  OneCreator'
  BY <1>11 DEF AttachKick, Goto
<1>12. ASSUME NEW c \in Conns, ClientGone(c)
       PROVE  OneCreator'
  BY <1>12 DEF ClientGone, HangUp
<1>13. ASSUME NEW c \in Conns, DetachClear(c)
       PROVE  OneCreator'
  BY <1>13 DEF DetachClear, Return, Goto
<1>14. ASSUME NEW c \in Conns, DetachIndex(c)
       PROVE  OneCreator'
  <2>1. SameEntries /\ SameDeadlines(Sessions)
    BY <1>14, <1>d
  <2>2. QED
    BY <1>14, <2>1 DEF DetachIndex, Return, Goto, SameEntries, SameDeadlines
<1>15. ASSUME NEW c \in Conns, DetachRenew(c)
       PROVE  OneCreator'
  <2>1. SameEntries /\ SameDeadlines(Sessions \ {target[c]})
    BY <1>15, <1>r
  <2>2. QED
    BY <1>15, <2>1 DEF DetachRenew, Return, Goto, SameEntries, SameDeadlines
<1>16. ASSUME NEW s \in Sessions, HttpClose(s)
       PROVE  OneCreator'
  BY <1>16 DEF HttpClose, Take
<1>17. ASSUME NEW s \in Sessions, ShellExits(s)
       PROVE  OneCreator'
  BY <1>17 DEF ShellExits
<1>18. ASSUME NEW s \in Sessions, PumpCloses(s)
       PROVE  OneCreator'
  BY <1>18 DEF PumpCloses, Take
<1>19. ASSUME NEW s \in Sessions, Unindex(s)
       PROVE  OneCreator'
  BY <1>19 DEF Unindex, Remove
<1>20. ASSUME NEW s \in Sessions, Notify(s)
       PROVE  OneCreator'
  BY <1>20 DEF Notify
<1>21. ASSUME NEW s \in Sessions, CloseShell(s)
       PROVE  OneCreator'
  BY <1>21 DEF CloseShell
<1>22. ASSUME NEW s \in Sessions, CloseRecorder(s)
       PROVE  OneCreator'
  BY <1>22 DEF CloseRecorder
<1>23. ASSUME NEW s \in Sessions, Forget(s)
       PROVE  OneCreator'
  BY <1>23 DEF Forget
<1>24. ASSUME NEW s \in Sessions, NEW h \in 1..MaxHours, HttpExtend(s, h)
       PROVE  OneCreator'
  BY <1>24 DEF HttpExtend, Extend
<1>25. CASE ReapSnapshot
  BY <1>25 DEF ReapSnapshot, ExpiredNow
<1>26. ASSUME NEW s \in Sessions, ReapNext(s)
       PROVE  OneCreator'
  BY <1>26 DEF ReapNext, Take
<1>27. CASE Clock
  BY <1>27 DEF Clock, Tick
<1>28. CASE UNCHANGED mgrVars
  BY <1>28
<1>29. QED
  BY <1>1, <1>2, <1>3, <1>4, <1>5, <1>6, <1>7, <1>8, <1>9, <1>10, <1>11, <1>12, <1>13, <1>14, <1>15, <1>16, <1>17, <1>18, <1>19, <1>20, <1>21, <1>22, <1>23, <1>24, <1>25, <1>26, <1>27, <1>28
     DEF Next, HandlerStep, CloseStep, Reap, ReadFails, ReadLoopGivesUp

(* The flags, the index entry and the resources of a session always agree  *)
(* with the last step close() has done.                                    *)
LEMMA ClosingStep ==
    ASSUME IndInv, [Next]_mgrVars
    PROVE  ClosingConsistent'
<1>a. \A c \in Conns : AttachIndex(c) => SameEntries /\ SameDeadlines(Sessions)
  BY AttachIndexEffect DEF IndInv
<1>d. \A c \in Conns : DetachIndex(c) => SameEntries /\ SameDeadlines(Sessions)
  BY DetachIndexEffect DEF IndInv
<1>r. \A c \in Conns : DetachRenew(c) => SameEntries /\ SameDeadlines(Sessions \ {target[c]})
  BY DetachRenewEffect DEF IndInv
<1> USE IndexConstants, ConnConstants DEF mgrVars, indexVars, lsVars, closeVars, wsVars, reapVars, TypeOK, IndexTypeOK, SessionInfo, Indexed, Creating, Serving, Attached, Closing, Usable, IndInv, HandlersConsistent, ClosingConsistent
<1>1. ASSUME NEW c \in Conns, Create(c)
       PROVE  ClosingConsistent'
  BY <1>1 DEF Create, BeginCreate, RefuseUnrecorded, Newborn, KindOf, Return, Goto, HangUp
<1>2. ASSUME NEW c \in Conns, NEW s \in Sessions, IssueAttachTicket(c, s)
       PROVE  ClosingConsistent'
  BY <1>2 DEF IssueAttachTicket, CanAttach, Goto
<1>3. ASSUME NEW c \in Conns, AddToIndex(c)
       PROVE  ClosingConsistent'
  BY <1>3 DEF AddToIndex, Add, Goto
<1>4. ASSUME NEW c \in Conns, RejectOverQuota(c)
       PROVE  ClosingConsistent'
  BY <1>4 DEF RejectOverQuota, Return, Goto, HangUp
<1>5. ASSUME NEW c \in Conns, Register(c)
       PROVE  ClosingConsistent'
  BY <1>5 DEF Register, Goto
<1>6. ASSUME NEW c \in Conns, RecheckAttach(c)
       PROVE  ClosingConsistent'
  BY <1>6 DEF RecheckAttach, CanAttach, Goto
<1>7. ASSUME NEW c \in Conns, RefuseAttach(c)
       PROVE  ClosingConsistent'
  BY <1>7 DEF RefuseAttach, Return, Goto, HangUp
<1>8. ASSUME NEW c \in Conns, AttachSwap(c)
       PROVE  ClosingConsistent'
  BY <1>8 DEF AttachSwap, Goto
<1>9. ASSUME NEW c \in Conns, AttachClosed(c)
       PROVE  ClosingConsistent'
  BY <1>9 DEF AttachClosed, Return, Goto, HangUp
<1>10. ASSUME NEW c \in Conns, AttachIndex(c)
       PROVE  ClosingConsistent'
  <2>1. SameEntries /\ SameDeadlines(Sessions)
    BY <1>10, <1>a
  <2>2. QED
    BY <1>10, <2>1 DEF AttachIndex, Goto, SameEntries, SameDeadlines
<1>11. ASSUME NEW c \in Conns, AttachKick(c)
       PROVE  ClosingConsistent'
  BY <1>11 DEF AttachKick, Goto
<1>12. ASSUME NEW c \in Conns, ClientGone(c)
       PROVE  ClosingConsistent'
  BY <1>12 DEF ClientGone, HangUp
<1>13. ASSUME NEW c \in Conns, DetachClear(c)
       PROVE  ClosingConsistent'
  BY <1>13 DEF DetachClear, Return, Goto
<1>14. ASSUME NEW c \in Conns, DetachIndex(c)
       PROVE  ClosingConsistent'
  <2>1. SameEntries /\ SameDeadlines(Sessions)
    BY <1>14, <1>d
  <2>2. QED
    BY <1>14, <2>1 DEF DetachIndex, Return, Goto, SameEntries, SameDeadlines
<1>15. ASSUME NEW c \in Conns, DetachRenew(c)
       PROVE  ClosingConsistent'
  <2>1. SameEntries /\ SameDeadlines(Sessions \ {target[c]})
    BY <1>15, <1>r
  <2>2. QED
    BY <1>15, <2>1 DEF DetachRenew, Return, Goto, SameEntries, SameDeadlines
<1>16. ASSUME NEW s \in Sessions, HttpClose(s)
       PROVE  ClosingConsistent'
  BY <1>16 DEF HttpClose, Take
<1>17. ASSUME NEW s \in Sessions, ShellExits(s)
       PROVE  ClosingConsistent'
  BY <1>17 DEF ShellExits
<1>18. ASSUME NEW s \in Sessions, PumpCloses(s)
       PROVE  ClosingConsistent'
  BY <1>18 DEF PumpCloses, Take
<1>19. ASSUME NEW s \in Sessions, Unindex(s)
       PROVE  ClosingConsistent'
  BY <1>19 DEF Unindex, Remove
<1>20. ASSUME NEW s \in Sessions, Notify(s)
       PROVE  ClosingConsistent'
  BY <1>20 DEF Notify
<1>21. ASSUME NEW s \in Sessions, CloseShell(s)
       PROVE  ClosingConsistent'
  BY <1>21 DEF CloseShell
<1>22. ASSUME NEW s \in Sessions, CloseRecorder(s)
       PROVE  ClosingConsistent'
  BY <1>22 DEF CloseRecorder
<1>23. ASSUME NEW s \in Sessions, Forget(s)
       PROVE  ClosingConsistent'
  BY <1>23 DEF Forget
<1>24. ASSUME NEW s \in Sessions, NEW h \in 1..MaxHours, HttpExtend(s, h)
       PROVE  ClosingConsistent'
  BY <1>24 DEF HttpExtend, Extend
<1>25. CASE ReapSnapshot
  BY <1>25 DEF ReapSnapshot, ExpiredNow
<1>26. ASSUME NEW s \in Sessions, ReapNext(s)
       PROVE  ClosingConsistent'
  BY <1>26 DEF ReapNext, Take
<1>27. CASE Clock
  BY <1>27 DEF Clock, Tick
<1>28. CASE UNCHANGED mgrVars
  BY <1>28
<1>29. QED
  BY <1>1, <1>2, <1>3, <1>4, <1>5, <1>6, <1>7, <1>8, <1>9, <1>10, <1>11, <1>12, <1>13, <1>14, <1>15, <1>16, <1>17, <1>18, <1>19, <1>20, <1>21, <1>22, <1>23, <1>24, <1>25, <1>26, <1>27, <1>28
     DEF Next, HandlerStep, CloseStep, Reap, ReadFails, ReadLoopGivesUp

(* ls.conn is None or a connection whose handler is attached.              *)
LEMMA ConnStep ==
    ASSUME IndInv, [Next]_mgrVars
    PROVE  ConnConsistent'
<1>a. \A c \in Conns : AttachIndex(c) => SameEntries /\ SameDeadlines(Sessions)
  BY AttachIndexEffect DEF IndInv
<1>d. \A c \in Conns : DetachIndex(c) => SameEntries /\ SameDeadlines(Sessions)
  BY DetachIndexEffect DEF IndInv
<1>r. \A c \in Conns : DetachRenew(c) => SameEntries /\ SameDeadlines(Sessions \ {target[c]})
  BY DetachRenewEffect DEF IndInv
<1> USE IndexConstants, ConnConstants DEF mgrVars, indexVars, lsVars, closeVars, wsVars, reapVars, TypeOK, IndexTypeOK, SessionInfo, Indexed, Creating, Serving, Attached, Closing, Usable, IndInv, HandlersConsistent, ConnConsistent
<1>1. ASSUME NEW c \in Conns, Create(c)
       PROVE  ConnConsistent'
  BY <1>1 DEF Create, BeginCreate, RefuseUnrecorded, Newborn, KindOf, Return, Goto, HangUp
<1>2. ASSUME NEW c \in Conns, NEW s \in Sessions, IssueAttachTicket(c, s)
       PROVE  ConnConsistent'
  BY <1>2 DEF IssueAttachTicket, CanAttach, Goto
<1>3. ASSUME NEW c \in Conns, AddToIndex(c)
       PROVE  ConnConsistent'
  BY <1>3 DEF AddToIndex, Add, Goto
<1>4. ASSUME NEW c \in Conns, RejectOverQuota(c)
       PROVE  ConnConsistent'
  BY <1>4 DEF RejectOverQuota, Return, Goto, HangUp
<1>5. ASSUME NEW c \in Conns, Register(c)
       PROVE  ConnConsistent'
  BY <1>5 DEF Register, Goto
<1>6. ASSUME NEW c \in Conns, RecheckAttach(c)
       PROVE  ConnConsistent'
  BY <1>6 DEF RecheckAttach, CanAttach, Goto
<1>7. ASSUME NEW c \in Conns, RefuseAttach(c)
       PROVE  ConnConsistent'
  BY <1>7 DEF RefuseAttach, Return, Goto, HangUp
<1>8. ASSUME NEW c \in Conns, AttachSwap(c)
       PROVE  ConnConsistent'
  BY <1>8 DEF AttachSwap, Goto
<1>9. ASSUME NEW c \in Conns, AttachClosed(c)
       PROVE  ConnConsistent'
  BY <1>9 DEF AttachClosed, Return, Goto, HangUp
<1>10. ASSUME NEW c \in Conns, AttachIndex(c)
       PROVE  ConnConsistent'
  <2>1. SameEntries /\ SameDeadlines(Sessions)
    BY <1>10, <1>a
  <2>2. QED
    BY <1>10, <2>1 DEF AttachIndex, Goto, SameEntries, SameDeadlines
<1>11. ASSUME NEW c \in Conns, AttachKick(c)
       PROVE  ConnConsistent'
  BY <1>11 DEF AttachKick, Goto
<1>12. ASSUME NEW c \in Conns, ClientGone(c)
       PROVE  ConnConsistent'
  BY <1>12 DEF ClientGone, HangUp
<1>13. ASSUME NEW c \in Conns, DetachClear(c)
       PROVE  ConnConsistent'
  BY <1>13 DEF DetachClear, Return, Goto
<1>14. ASSUME NEW c \in Conns, DetachIndex(c)
       PROVE  ConnConsistent'
  <2>1. SameEntries /\ SameDeadlines(Sessions)
    BY <1>14, <1>d
  <2>2. QED
    BY <1>14, <2>1 DEF DetachIndex, Return, Goto, SameEntries, SameDeadlines
<1>15. ASSUME NEW c \in Conns, DetachRenew(c)
       PROVE  ConnConsistent'
  <2>1. SameEntries /\ SameDeadlines(Sessions \ {target[c]})
    BY <1>15, <1>r
  <2>2. QED
    BY <1>15, <2>1 DEF DetachRenew, Return, Goto, SameEntries, SameDeadlines
<1>16. ASSUME NEW s \in Sessions, HttpClose(s)
       PROVE  ConnConsistent'
  BY <1>16 DEF HttpClose, Take
<1>17. ASSUME NEW s \in Sessions, ShellExits(s)
       PROVE  ConnConsistent'
  BY <1>17 DEF ShellExits
<1>18. ASSUME NEW s \in Sessions, PumpCloses(s)
       PROVE  ConnConsistent'
  BY <1>18 DEF PumpCloses, Take
<1>19. ASSUME NEW s \in Sessions, Unindex(s)
       PROVE  ConnConsistent'
  BY <1>19 DEF Unindex, Remove
<1>20. ASSUME NEW s \in Sessions, Notify(s)
       PROVE  ConnConsistent'
  BY <1>20 DEF Notify
<1>21. ASSUME NEW s \in Sessions, CloseShell(s)
       PROVE  ConnConsistent'
  BY <1>21 DEF CloseShell
<1>22. ASSUME NEW s \in Sessions, CloseRecorder(s)
       PROVE  ConnConsistent'
  BY <1>22 DEF CloseRecorder
<1>23. ASSUME NEW s \in Sessions, Forget(s)
       PROVE  ConnConsistent'
  BY <1>23 DEF Forget
<1>24. ASSUME NEW s \in Sessions, NEW h \in 1..MaxHours, HttpExtend(s, h)
       PROVE  ConnConsistent'
  BY <1>24 DEF HttpExtend, Extend
<1>25. CASE ReapSnapshot
  BY <1>25 DEF ReapSnapshot, ExpiredNow
<1>26. ASSUME NEW s \in Sessions, ReapNext(s)
       PROVE  ConnConsistent'
  BY <1>26 DEF ReapNext, Take
<1>27. CASE Clock
  BY <1>27 DEF Clock, Tick
<1>28. CASE UNCHANGED mgrVars
  BY <1>28
<1>29. QED
  BY <1>1, <1>2, <1>3, <1>4, <1>5, <1>6, <1>7, <1>8, <1>9, <1>10, <1>11, <1>12, <1>13, <1>14, <1>15, <1>16, <1>17, <1>18, <1>19, <1>20, <1>21, <1>22, <1>23, <1>24, <1>25, <1>26, <1>27, <1>28
     DEF Next, HandlerStep, CloseStep, Reap, ReadFails, ReadLoopGivesUp

(* Indexed sessions stay closable and usable ones indexed.                 *)
LEMMA SlotsStep ==
    ASSUME IndInv, [Next]_mgrVars
    PROVE  SlotsAreClosable'
<1>a. \A c \in Conns : AttachIndex(c) => SameEntries /\ SameDeadlines(Sessions)
  BY AttachIndexEffect DEF IndInv
<1>d. \A c \in Conns : DetachIndex(c) => SameEntries /\ SameDeadlines(Sessions)
  BY DetachIndexEffect DEF IndInv
<1>r. \A c \in Conns : DetachRenew(c) => SameEntries /\ SameDeadlines(Sessions \ {target[c]})
  BY DetachRenewEffect DEF IndInv
<1> USE IndexConstants, ConnConstants DEF mgrVars, indexVars, lsVars, closeVars, wsVars, reapVars, TypeOK, IndexTypeOK, SessionInfo, Indexed, Creating, Serving, Attached, Closing, Usable, IndInv, HandlersConsistent, ClosingConsistent, SlotsAreClosable, BeingCreated
<1>1. ASSUME NEW c \in Conns, Create(c)
       PROVE  SlotsAreClosable'
  BY <1>1 DEF Create, BeginCreate, RefuseUnrecorded, Newborn, KindOf, Return, Goto, HangUp
<1>2. ASSUME NEW c \in Conns, NEW s \in Sessions, IssueAttachTicket(c, s)
       PROVE  SlotsAreClosable'
  BY <1>2 DEF IssueAttachTicket, CanAttach, Goto
<1>3. ASSUME NEW c \in Conns, AddToIndex(c)
       PROVE  SlotsAreClosable'
  BY <1>3 DEF AddToIndex, Add, Goto
<1>4. ASSUME NEW c \in Conns, RejectOverQuota(c)
       PROVE  SlotsAreClosable'
  BY <1>4 DEF RejectOverQuota, Return, Goto, HangUp
<1>5. ASSUME NEW c \in Conns, Register(c)
       PROVE  SlotsAreClosable'
  BY <1>5 DEF Register, Goto
<1>6. ASSUME NEW c \in Conns, RecheckAttach(c)
       PROVE  SlotsAreClosable'
  BY <1>6 DEF RecheckAttach, CanAttach, Goto
<1>7. ASSUME NEW c \in Conns, RefuseAttach(c)
       PROVE  SlotsAreClosable'
  BY <1>7 DEF RefuseAttach, Return, Goto, HangUp
<1>8. ASSUME NEW c \in Conns, AttachSwap(c)
       PROVE  SlotsAreClosable'
  BY <1>8 DEF AttachSwap, Goto
<1>9. ASSUME NEW c \in Conns, AttachClosed(c)
       PROVE  SlotsAreClosable'
  BY <1>9 DEF AttachClosed, Return, Goto, HangUp
<1>10. ASSUME NEW c \in Conns, AttachIndex(c)
       PROVE  SlotsAreClosable'
  <2>1. SameEntries /\ SameDeadlines(Sessions)
    BY <1>10, <1>a
  <2>2. QED
    BY <1>10, <2>1 DEF AttachIndex, Goto, SameEntries, SameDeadlines
<1>11. ASSUME NEW c \in Conns, AttachKick(c)
       PROVE  SlotsAreClosable'
  BY <1>11 DEF AttachKick, Goto
<1>12. ASSUME NEW c \in Conns, ClientGone(c)
       PROVE  SlotsAreClosable'
  BY <1>12 DEF ClientGone, HangUp
<1>13. ASSUME NEW c \in Conns, DetachClear(c)
       PROVE  SlotsAreClosable'
  BY <1>13 DEF DetachClear, Return, Goto
<1>14. ASSUME NEW c \in Conns, DetachIndex(c)
       PROVE  SlotsAreClosable'
  <2>1. SameEntries /\ SameDeadlines(Sessions)
    BY <1>14, <1>d
  <2>2. QED
    BY <1>14, <2>1 DEF DetachIndex, Return, Goto, SameEntries, SameDeadlines
<1>15. ASSUME NEW c \in Conns, DetachRenew(c)
       PROVE  SlotsAreClosable'
  <2>1. SameEntries /\ SameDeadlines(Sessions \ {target[c]})
    BY <1>15, <1>r
  <2>2. QED
    BY <1>15, <2>1 DEF DetachRenew, Return, Goto, SameEntries, SameDeadlines
<1>16. ASSUME NEW s \in Sessions, HttpClose(s)
       PROVE  SlotsAreClosable'
  BY <1>16 DEF HttpClose, Take
<1>17. ASSUME NEW s \in Sessions, ShellExits(s)
       PROVE  SlotsAreClosable'
  BY <1>17 DEF ShellExits
<1>18. ASSUME NEW s \in Sessions, PumpCloses(s)
       PROVE  SlotsAreClosable'
  BY <1>18 DEF PumpCloses, Take
<1>19. ASSUME NEW s \in Sessions, Unindex(s)
       PROVE  SlotsAreClosable'
  BY <1>19 DEF Unindex, Remove
<1>20. ASSUME NEW s \in Sessions, Notify(s)
       PROVE  SlotsAreClosable'
  BY <1>20 DEF Notify
<1>21. ASSUME NEW s \in Sessions, CloseShell(s)
       PROVE  SlotsAreClosable'
  BY <1>21 DEF CloseShell
<1>22. ASSUME NEW s \in Sessions, CloseRecorder(s)
       PROVE  SlotsAreClosable'
  BY <1>22 DEF CloseRecorder
<1>23. ASSUME NEW s \in Sessions, Forget(s)
       PROVE  SlotsAreClosable'
  BY <1>23 DEF Forget
<1>24. ASSUME NEW s \in Sessions, NEW h \in 1..MaxHours, HttpExtend(s, h)
       PROVE  SlotsAreClosable'
  BY <1>24 DEF HttpExtend, Extend
<1>25. CASE ReapSnapshot
  BY <1>25 DEF ReapSnapshot, ExpiredNow
<1>26. ASSUME NEW s \in Sessions, ReapNext(s)
       PROVE  SlotsAreClosable'
  BY <1>26 DEF ReapNext, Take
<1>27. CASE Clock
  BY <1>27 DEF Clock, Tick
<1>28. CASE UNCHANGED mgrVars
  BY <1>28
<1>29. QED
  BY <1>1, <1>2, <1>3, <1>4, <1>5, <1>6, <1>7, <1>8, <1>9, <1>10, <1>11, <1>12, <1>13, <1>14, <1>15, <1>16, <1>17, <1>18, <1>19, <1>20, <1>21, <1>22, <1>23, <1>24, <1>25, <1>26, <1>27, <1>28
     DEF Next, HandlerStep, CloseStep, Reap, ReadFails, ReadLoopGivesUp

(* Shells and recorders stay within the life of their session.             *)
LEMMA RunningStep ==
    ASSUME IndInv, [Next]_mgrVars
    PROVE  NothingLeftRunning'
<1>a. \A c \in Conns : AttachIndex(c) => SameEntries /\ SameDeadlines(Sessions)
  BY AttachIndexEffect DEF IndInv
<1>d. \A c \in Conns : DetachIndex(c) => SameEntries /\ SameDeadlines(Sessions)
  BY DetachIndexEffect DEF IndInv
<1>r. \A c \in Conns : DetachRenew(c) => SameEntries /\ SameDeadlines(Sessions \ {target[c]})
  BY DetachRenewEffect DEF IndInv
<1> USE IndexConstants, ConnConstants DEF mgrVars, indexVars, lsVars, closeVars, wsVars, reapVars, TypeOK, IndexTypeOK, SessionInfo, Indexed, Creating, Serving, Attached, Closing, Usable, IndInv, HandlersConsistent, ClosingConsistent, NothingLeftRunning, BeingCreated
<1>1. ASSUME NEW c \in Conns, Create(c)
       PROVE  NothingLeftRunning'
  BY <1>1 DEF Create, BeginCreate, RefuseUnrecorded, Newborn, KindOf, Return, Goto, HangUp
<1>2. ASSUME NEW c \in Conns, NEW s \in Sessions, IssueAttachTicket(c, s)
       PROVE  NothingLeftRunning'
  BY <1>2 DEF IssueAttachTicket, CanAttach, Goto
<1>3. ASSUME NEW c \in Conns, AddToIndex(c)
       PROVE  NothingLeftRunning'
  BY <1>3 DEF AddToIndex, Add, Goto
<1>4. ASSUME NEW c \in Conns, RejectOverQuota(c)
       PROVE  NothingLeftRunning'
  BY <1>4 DEF RejectOverQuota, Return, Goto, HangUp
<1>5. ASSUME NEW c \in Conns, Register(c)
       PROVE  NothingLeftRunning'
  BY <1>5 DEF Register, Goto
<1>6. ASSUME NEW c \in Conns, RecheckAttach(c)
       PROVE  NothingLeftRunning'
  BY <1>6 DEF RecheckAttach, CanAttach, Goto
<1>7. ASSUME NEW c \in Conns, RefuseAttach(c)
       PROVE  NothingLeftRunning'
  BY <1>7 DEF RefuseAttach, Return, Goto, HangUp
<1>8. ASSUME NEW c \in Conns, AttachSwap(c)
       PROVE  NothingLeftRunning'
  BY <1>8 DEF AttachSwap, Goto
<1>9. ASSUME NEW c \in Conns, AttachClosed(c)
       PROVE  NothingLeftRunning'
  BY <1>9 DEF AttachClosed, Return, Goto, HangUp
<1>10. ASSUME NEW c \in Conns, AttachIndex(c)
       PROVE  NothingLeftRunning'
  <2>1. SameEntries /\ SameDeadlines(Sessions)
    BY <1>10, <1>a
  <2>2. QED
    BY <1>10, <2>1 DEF AttachIndex, Goto, SameEntries, SameDeadlines
<1>11. ASSUME NEW c \in Conns, AttachKick(c)
       PROVE  NothingLeftRunning'
  BY <1>11 DEF AttachKick, Goto
<1>12. ASSUME NEW c \in Conns, ClientGone(c)
       PROVE  NothingLeftRunning'
  BY <1>12 DEF ClientGone, HangUp
<1>13. ASSUME NEW c \in Conns, DetachClear(c)
       PROVE  NothingLeftRunning'
  BY <1>13 DEF DetachClear, Return, Goto
<1>14. ASSUME NEW c \in Conns, DetachIndex(c)
       PROVE  NothingLeftRunning'
  <2>1. SameEntries /\ SameDeadlines(Sessions)
    BY <1>14, <1>d
  <2>2. QED
    BY <1>14, <2>1 DEF DetachIndex, Return, Goto, SameEntries, SameDeadlines
<1>15. ASSUME NEW c \in Conns, DetachRenew(c)
       PROVE  NothingLeftRunning'
  <2>1. SameEntries /\ SameDeadlines(Sessions \ {target[c]})
    BY <1>15, <1>r
  <2>2. QED
    BY <1>15, <2>1 DEF DetachRenew, Return, Goto, SameEntries, SameDeadlines
<1>16. ASSUME NEW s \in Sessions, HttpClose(s)
       PROVE  NothingLeftRunning'
  BY <1>16 DEF HttpClose, Take
<1>17. ASSUME NEW s \in Sessions, ShellExits(s)
       PROVE  NothingLeftRunning'
  BY <1>17 DEF ShellExits
<1>18. ASSUME NEW s \in Sessions, PumpCloses(s)
       PROVE  NothingLeftRunning'
  BY <1>18 DEF PumpCloses, Take
<1>19. ASSUME NEW s \in Sessions, Unindex(s)
       PROVE  NothingLeftRunning'
  BY <1>19 DEF Unindex, Remove
<1>20. ASSUME NEW s \in Sessions, Notify(s)
       PROVE  NothingLeftRunning'
  BY <1>20 DEF Notify
<1>21. ASSUME NEW s \in Sessions, CloseShell(s)
       PROVE  NothingLeftRunning'
  BY <1>21 DEF CloseShell
<1>22. ASSUME NEW s \in Sessions, CloseRecorder(s)
       PROVE  NothingLeftRunning'
  BY <1>22 DEF CloseRecorder
<1>23. ASSUME NEW s \in Sessions, Forget(s)
       PROVE  NothingLeftRunning'
  BY <1>23 DEF Forget
<1>24. ASSUME NEW s \in Sessions, NEW h \in 1..MaxHours, HttpExtend(s, h)
       PROVE  NothingLeftRunning'
  BY <1>24 DEF HttpExtend, Extend
<1>25. CASE ReapSnapshot
  BY <1>25 DEF ReapSnapshot, ExpiredNow
<1>26. ASSUME NEW s \in Sessions, ReapNext(s)
       PROVE  NothingLeftRunning'
  BY <1>26 DEF ReapNext, Take
<1>27. CASE Clock
  BY <1>27 DEF Clock, Tick
<1>28. CASE UNCHANGED mgrVars
  BY <1>28
<1>29. QED
  BY <1>1, <1>2, <1>3, <1>4, <1>5, <1>6, <1>7, <1>8, <1>9, <1>10, <1>11, <1>12, <1>13, <1>14, <1>15, <1>16, <1>17, <1>18, <1>19, <1>20, <1>21, <1>22, <1>23, <1>24, <1>25, <1>26, <1>27, <1>28
     DEF Next, HandlerStep, CloseStep, Reap, ReadFails, ReadLoopGivesUp

(* A connection loses its session only to somebody who will hang up on it. *)
LEMMA ForgottenStep ==
    ASSUME IndInv, [Next]_mgrVars
    PROVE  NobodyForgotten'
<1>a. \A c \in Conns : AttachIndex(c) => SameEntries /\ SameDeadlines(Sessions)
  BY AttachIndexEffect DEF IndInv
<1>d. \A c \in Conns : DetachIndex(c) => SameEntries /\ SameDeadlines(Sessions)
  BY DetachIndexEffect DEF IndInv
<1>r. \A c \in Conns : DetachRenew(c) => SameEntries /\ SameDeadlines(Sessions \ {target[c]})
  BY DetachRenewEffect DEF IndInv
<1> USE IndexConstants, ConnConstants DEF mgrVars, indexVars, lsVars, closeVars, wsVars, reapVars, TypeOK, IndexTypeOK, SessionInfo, Indexed, Creating, Serving, Attached, Closing, Usable, IndInv, HandlersConsistent, ConnConsistent, NobodyForgotten, ClosingConsistent
<1>1. ASSUME NEW c \in Conns, Create(c)
       PROVE  NobodyForgotten'
  BY <1>1 DEF Create, BeginCreate, RefuseUnrecorded, Newborn, KindOf, Return, Goto, HangUp
<1>2. ASSUME NEW c \in Conns, NEW s \in Sessions, IssueAttachTicket(c, s)
       PROVE  NobodyForgotten'
  BY <1>2 DEF IssueAttachTicket, CanAttach, Goto
<1>3. ASSUME NEW c \in Conns, AddToIndex(c)
       PROVE  NobodyForgotten'
  BY <1>3 DEF AddToIndex, Add, Goto
<1>4. ASSUME NEW c \in Conns, RejectOverQuota(c)
       PROVE  NobodyForgotten'
  BY <1>4 DEF RejectOverQuota, Return, Goto, HangUp
<1>5. ASSUME NEW c \in Conns, Register(c)
       PROVE  NobodyForgotten'
  BY <1>5 DEF Register, Goto
<1>6. ASSUME NEW c \in Conns, RecheckAttach(c)
       PROVE  NobodyForgotten'
  BY <1>6 DEF RecheckAttach, CanAttach, Goto
<1>7. ASSUME NEW c \in Conns, RefuseAttach(c)
       PROVE  NobodyForgotten'
  BY <1>7 DEF RefuseAttach, Return, Goto, HangUp
<1>8. ASSUME NEW c \in Conns, AttachSwap(c)
       PROVE  NobodyForgotten'
  BY <1>8 DEF AttachSwap, Goto
<1>9. ASSUME NEW c \in Conns, AttachClosed(c)
       PROVE  NobodyForgotten'
  BY <1>9 DEF AttachClosed, Return, Goto, HangUp
<1>10. ASSUME NEW c \in Conns, AttachIndex(c)
       PROVE  NobodyForgotten'
  <2>1. SameEntries /\ SameDeadlines(Sessions)
    BY <1>10, <1>a
  <2>2. QED
    BY <1>10, <2>1 DEF AttachIndex, Goto, SameEntries, SameDeadlines
<1>11. ASSUME NEW c \in Conns, AttachKick(c)
       PROVE  NobodyForgotten'
  BY <1>11 DEF AttachKick, Goto
<1>12. ASSUME NEW c \in Conns, ClientGone(c)
       PROVE  NobodyForgotten'
  BY <1>12 DEF ClientGone, HangUp
<1>13. ASSUME NEW c \in Conns, DetachClear(c)
       PROVE  NobodyForgotten'
  BY <1>13 DEF DetachClear, Return, Goto
<1>14. ASSUME NEW c \in Conns, DetachIndex(c)
       PROVE  NobodyForgotten'
  <2>1. SameEntries /\ SameDeadlines(Sessions)
    BY <1>14, <1>d
  <2>2. QED
    BY <1>14, <2>1 DEF DetachIndex, Return, Goto, SameEntries, SameDeadlines
<1>15. ASSUME NEW c \in Conns, DetachRenew(c)
       PROVE  NobodyForgotten'
  <2>1. SameEntries /\ SameDeadlines(Sessions \ {target[c]})
    BY <1>15, <1>r
  <2>2. QED
    BY <1>15, <2>1 DEF DetachRenew, Return, Goto, SameEntries, SameDeadlines
<1>16. ASSUME NEW s \in Sessions, HttpClose(s)
       PROVE  NobodyForgotten'
  BY <1>16 DEF HttpClose, Take
<1>17. ASSUME NEW s \in Sessions, ShellExits(s)
       PROVE  NobodyForgotten'
  BY <1>17 DEF ShellExits
<1>18. ASSUME NEW s \in Sessions, PumpCloses(s)
       PROVE  NobodyForgotten'
  BY <1>18 DEF PumpCloses, Take
<1>19. ASSUME NEW s \in Sessions, Unindex(s)
       PROVE  NobodyForgotten'
  BY <1>19 DEF Unindex, Remove
<1>20. ASSUME NEW s \in Sessions, Notify(s)
       PROVE  NobodyForgotten'
  BY <1>20 DEF Notify
<1>21. ASSUME NEW s \in Sessions, CloseShell(s)
       PROVE  NobodyForgotten'
  BY <1>21 DEF CloseShell
<1>22. ASSUME NEW s \in Sessions, CloseRecorder(s)
       PROVE  NobodyForgotten'
  BY <1>22 DEF CloseRecorder
<1>23. ASSUME NEW s \in Sessions, Forget(s)
       PROVE  NobodyForgotten'
  BY <1>23 DEF Forget
<1>24. ASSUME NEW s \in Sessions, NEW h \in 1..MaxHours, HttpExtend(s, h)
       PROVE  NobodyForgotten'
  BY <1>24 DEF HttpExtend, Extend
<1>25. CASE ReapSnapshot
  BY <1>25 DEF ReapSnapshot, ExpiredNow
<1>26. ASSUME NEW s \in Sessions, ReapNext(s)
       PROVE  NobodyForgotten'
  BY <1>26 DEF ReapNext, Take
<1>27. CASE Clock
  BY <1>27 DEF Clock, Tick
<1>28. CASE UNCHANGED mgrVars
  BY <1>28
<1>29. QED
  BY <1>1, <1>2, <1>3, <1>4, <1>5, <1>6, <1>7, <1>8, <1>9, <1>10, <1>11, <1>12, <1>13, <1>14, <1>15, <1>16, <1>17, <1>18, <1>19, <1>20, <1>21, <1>22, <1>23, <1>24, <1>25, <1>26, <1>27, <1>28
     DEF Next, HandlerStep, CloseStep, Reap, ReadFails, ReadLoopGivesUp

(* The reaper's snapshot stays sound: expiry of a long session is final.   *)
LEMMA SnapshotStep ==
    ASSUME IndInv, [Next]_mgrVars
    PROVE  SnapshotSound'
<1>a. \A c \in Conns : AttachIndex(c) => SameEntries /\ SameDeadlines(Sessions)
  BY AttachIndexEffect DEF IndInv
<1>d. \A c \in Conns : DetachIndex(c) => SameEntries /\ SameDeadlines(Sessions)
  BY DetachIndexEffect DEF IndInv
<1>r. \A c \in Conns : DetachRenew(c) => SameEntries /\ SameDeadlines(Sessions \ {target[c]})
  BY DetachRenewEffect DEF IndInv
<1> USE IndexConstants, ConnConstants DEF mgrVars, indexVars, lsVars, closeVars, wsVars, reapVars, TypeOK, IndexTypeOK, SessionInfo, Indexed, Creating, Serving, Attached, Closing, Usable, IndInv, HandlersConsistent, SnapshotSound, ClosingConsistent, Expired
<1>1. ASSUME NEW c \in Conns, Create(c)
       PROVE  SnapshotSound'
  BY <1>1 DEF Create, BeginCreate, RefuseUnrecorded, Newborn, KindOf, Return, Goto, HangUp
<1>2. ASSUME NEW c \in Conns, NEW s \in Sessions, IssueAttachTicket(c, s)
       PROVE  SnapshotSound'
  BY <1>2 DEF IssueAttachTicket, CanAttach, Goto
<1>3. ASSUME NEW c \in Conns, AddToIndex(c)
       PROVE  SnapshotSound'
  BY <1>3 DEF AddToIndex, Add, Goto
<1>4. ASSUME NEW c \in Conns, RejectOverQuota(c)
       PROVE  SnapshotSound'
  BY <1>4 DEF RejectOverQuota, Return, Goto, HangUp
<1>5. ASSUME NEW c \in Conns, Register(c)
       PROVE  SnapshotSound'
  BY <1>5 DEF Register, Goto
<1>6. ASSUME NEW c \in Conns, RecheckAttach(c)
       PROVE  SnapshotSound'
  BY <1>6 DEF RecheckAttach, CanAttach, Goto
<1>7. ASSUME NEW c \in Conns, RefuseAttach(c)
       PROVE  SnapshotSound'
  BY <1>7 DEF RefuseAttach, Return, Goto, HangUp
<1>8. ASSUME NEW c \in Conns, AttachSwap(c)
       PROVE  SnapshotSound'
  BY <1>8 DEF AttachSwap, Goto
<1>9. ASSUME NEW c \in Conns, AttachClosed(c)
       PROVE  SnapshotSound'
  BY <1>9 DEF AttachClosed, Return, Goto, HangUp
<1>10. ASSUME NEW c \in Conns, AttachIndex(c)
       PROVE  SnapshotSound'
  <2>1. SameEntries /\ SameDeadlines(Sessions)
    BY <1>10, <1>a
  <2>2. QED
    BY <1>10, <2>1 DEF AttachIndex, Goto, SameEntries, SameDeadlines
<1>11. ASSUME NEW c \in Conns, AttachKick(c)
       PROVE  SnapshotSound'
  BY <1>11 DEF AttachKick, Goto
<1>12. ASSUME NEW c \in Conns, ClientGone(c)
       PROVE  SnapshotSound'
  BY <1>12 DEF ClientGone, HangUp
<1>13. ASSUME NEW c \in Conns, DetachClear(c)
       PROVE  SnapshotSound'
  BY <1>13 DEF DetachClear, Return, Goto
<1>14. ASSUME NEW c \in Conns, DetachIndex(c)
       PROVE  SnapshotSound'
  <2>1. SameEntries /\ SameDeadlines(Sessions)
    BY <1>14, <1>d
  <2>2. QED
    BY <1>14, <2>1 DEF DetachIndex, Return, Goto, SameEntries, SameDeadlines
<1>15. ASSUME NEW c \in Conns, DetachRenew(c)
       PROVE  SnapshotSound'
  <2>1. SameEntries /\ SameDeadlines(Sessions \ {target[c]})
    BY <1>15, <1>r
  <2>2. QED
    BY <1>15, <2>1 DEF DetachRenew, Return, Goto, SameEntries, SameDeadlines
<1>16. ASSUME NEW s \in Sessions, HttpClose(s)
       PROVE  SnapshotSound'
  BY <1>16 DEF HttpClose, Take
<1>17. ASSUME NEW s \in Sessions, ShellExits(s)
       PROVE  SnapshotSound'
  BY <1>17 DEF ShellExits
<1>18. ASSUME NEW s \in Sessions, PumpCloses(s)
       PROVE  SnapshotSound'
  BY <1>18 DEF PumpCloses, Take
<1>19. ASSUME NEW s \in Sessions, Unindex(s)
       PROVE  SnapshotSound'
  BY <1>19 DEF Unindex, Remove
<1>20. ASSUME NEW s \in Sessions, Notify(s)
       PROVE  SnapshotSound'
  BY <1>20 DEF Notify
<1>21. ASSUME NEW s \in Sessions, CloseShell(s)
       PROVE  SnapshotSound'
  BY <1>21 DEF CloseShell
<1>22. ASSUME NEW s \in Sessions, CloseRecorder(s)
       PROVE  SnapshotSound'
  BY <1>22 DEF CloseRecorder
<1>23. ASSUME NEW s \in Sessions, Forget(s)
       PROVE  SnapshotSound'
  BY <1>23 DEF Forget
<1>24. ASSUME NEW s \in Sessions, NEW h \in 1..MaxHours, HttpExtend(s, h)
       PROVE  SnapshotSound'
  BY <1>24 DEF HttpExtend, Extend
<1>25. CASE ReapSnapshot
  BY <1>25 DEF ReapSnapshot, ExpiredNow
<1>26. ASSUME NEW s \in Sessions, ReapNext(s)
       PROVE  SnapshotSound'
  BY <1>26 DEF ReapNext, Take
<1>27. CASE Clock
  BY <1>27 DEF Clock, Tick
<1>28. CASE UNCHANGED mgrVars
  BY <1>28
<1>29. QED
  BY <1>1, <1>2, <1>3, <1>4, <1>5, <1>6, <1>7, <1>8, <1>9, <1>10, <1>11, <1>12, <1>13, <1>14, <1>15, <1>16, <1>17, <1>18, <1>19, <1>20, <1>21, <1>22, <1>23, <1>24, <1>25, <1>26, <1>27, <1>28
     DEF Next, HandlerStep, CloseStep, Reap, ReadFails, ReadLoopGivesUp

-----------------------------------------------------------------------------
(* IndInv holds initially and is kept by every step.                       *)
THEOREM IndInvHolds == Spec => []IndInv
<1>1. Init => IndInv
  <2> SUFFICES ASSUME Init PROVE IndInv
    OBVIOUS
  <2> USE IndexConstants, ConnConstants DEF Init, IndexInit, Indexed
  <2>1. TypeOK
    BY DEF TypeOK, IndexTypeOK, HandlerPCs, CloseSteps
  <2>2. HandlersConsistent /\ OneCreator
    BY DEF HandlersConsistent, OneCreator, Creating, Serving
  <2>3. ClosingConsistent /\ ConnConsistent
    BY DEF ClosingConsistent, ConnConsistent, Closing
  <2>4. SlotsAreClosable /\ NothingLeftRunning
    BY DEF SlotsAreClosable, NothingLeftRunning, Usable
  <2>5. NobodyForgotten /\ SnapshotSound
    BY DEF NobodyForgotten, SnapshotSound, Attached
  <2>6. QED
    BY <2>1, <2>2, <2>3, <2>4, <2>5 DEF IndInv
<1>2. IndInv /\ [Next]_mgrVars => IndInv'
  BY TypeStep, HandlersStep, CreatorStep, ClosingStep, ConnStep, SlotsStep,
     RunningStep, ForgottenStep, SnapshotStep DEF IndInv
<1>3. QED
  BY <1>1, <1>2, PTL DEF Spec

(* The variables of the manager always have their type.                    *)
THEOREM TypeCorrect == Spec => []TypeOK
<1>1. IndInv => TypeOK
  BY DEF IndInv
<1>2. QED
  BY <1>1, IndInvHolds, PTL

(* Whatever holds a quota slot can be closed, and what is usable is listed.*)
THEOREM SlotsAlwaysClosable == Spec => []SlotsAreClosable
<1>1. IndInv => SlotsAreClosable
  BY DEF IndInv
<1>2. QED
  BY <1>1, IndInvHolds, PTL

(* No shell and no recorder is ever left without a session to close it.    *)
THEOREM NothingEverLeftRunning == Spec => []NothingLeftRunning
<1>1. IndInv => NothingLeftRunning
  BY DEF IndInv
<1>2. QED
  BY <1>1, IndInvHolds, PTL

(* A connection that is read from is the attached one or is being hung up  *)
(* on, however Attach, Detach and close interleave.                        *)
THEOREM NoConnEverForgotten == Spec => []NoForgottenConn
<1>1. IndInv => NoForgottenConn
  BY DEF IndInv, NobodyForgotten, NoForgottenConn, Attached
<1>2. QED
  BY <1>1, IndInvHolds, PTL

(* The reaper never ends a long session before its deadline.               *)
THEOREM LongReapedWhenDueHolds == Spec => LongReapedWhenDue
<1>1. IndInv /\ [Next]_mgrVars =>
        [\A s \in Sessions : ReaperEnds(s) /\ kind[s] = "long"
                                => now >= sessions[s].expireAt]_mgrVars
  <2> SUFFICES ASSUME IndInv, NEW s \in Sessions, ReaperEnds(s), kind[s] = "long"
               PROVE  now >= sessions[s].expireAt
    OBVIOUS
  <2>1. s \in due /\ Usable(s)
    BY DEF ReaperEnds, ReapNext
  <2>2. Indexed(s) /\ sessions[s].longLived
    BY <2>1 DEF IndInv, SlotsAreClosable, ClosingConsistent
  <2>3. QED
    BY <2>1, <2>2 DEF IndInv, SnapshotSound
<1>2. QED
  BY <1>1, IndInvHolds, PTL DEF Spec, LongReapedWhenDue

-----------------------------------------------------------------------------
(* Each step of the manager is a step of the index or leaves it alone.     *)
LEMMA IndexStep ==
    ASSUME IndInv, [Next]_mgrVars
    PROVE  [IndexNext]_indexVars
<1> USE DEF IndexNext, indexVars
<1>1. ASSUME NEW c \in Conns, AddToIndex(c)
      PROVE  [IndexNext]_indexVars
  <2>1. target[c] \in Sessions
    BY <1>1, ServingHasTarget DEF AddToIndex, IndInv
  <2>2. /\ info[c] \in SessionInfo /\ ~Indexed(target[c])
        /\ info[c].attached = FALSE /\ info[c].expireAt \in 0..MaxDeadline
    BY <1>1, IndexConstants
       DEF AddToIndex, IndInv, TypeOK, HandlersConsistent, SessionInfo
  <2>3. info[c] = [user |-> info[c].user, longLived |-> info[c].longLived,
                   expireAt |-> info[c].expireAt, attached |-> FALSE]
    BY <2>2 DEF SessionInfo
  <2>4. info[c].user \in Users /\ info[c].longLived \in BOOLEAN
    BY <2>2 DEF SessionInfo
  <2>5. Add(target[c], info[c]) /\ UNCHANGED now
    BY <1>1 DEF AddToIndex
  <2>6. AnyAdd(target[c])
    BY <2>2, <2>3, <2>4, <2>5 DEF AnyAdd
  <2>7. QED
    BY <2>1, <2>5, <2>6
<1>2. ASSUME NEW c \in Conns, AttachIndex(c)
      PROVE  [IndexNext]_indexVars
  <2>1. target[c] \in Sessions
    BY <1>2, ServingHasTarget DEF AttachIndex, IndInv
  <2>2. SetAttached(target[c], TRUE) /\ UNCHANGED now
    BY <1>2 DEF AttachIndex
  <2>3. QED
    BY <2>1, <2>2
<1>3. ASSUME NEW c \in Conns, DetachIndex(c)
      PROVE  [IndexNext]_indexVars
  <2>1. target[c] \in Sessions
    BY <1>3, ServingHasTarget DEF DetachIndex, IndInv
  <2>2. SetAttached(target[c], FALSE) /\ UNCHANGED now
    BY <1>3 DEF DetachIndex
  <2>3. QED
    BY <2>1, <2>2
<1>4. ASSUME NEW c \in Conns, DetachRenew(c)
      PROVE  [IndexNext]_indexVars
  <2>1. target[c] \in Sessions
    BY <1>4, ServingHasTarget DEF DetachRenew, IndInv
  <2>2. Update(target[c], now + ShortTTL) /\ UNCHANGED now
    BY <1>4 DEF DetachRenew
  <2>3. Indexed(target[c]) => ~sessions[target[c]].longLived
    BY <1>4, <2>1 DEF DetachRenew, IndInv, HandlersConsistent, ClosingConsistent
  <2>4. KeepAlive(target[c])
    BY <2>2, <2>3 DEF KeepAlive
  <2>5. QED
    BY <2>1, <2>2, <2>4
<1>5. ASSUME NEW s \in Sessions, Unindex(s)
      PROVE  [IndexNext]_indexVars
  BY <1>5 DEF Unindex
<1>6. ASSUME NEW s \in Sessions, NEW h \in 1..MaxHours, HttpExtend(s, h)
      PROVE  [IndexNext]_indexVars
  <2>1. Extend(s, sessions[s].user, h) /\ UNCHANGED now
    BY <1>6 DEF HttpExtend
  <2>2. sessions[s].user \in Users /\ sessions[s].expireAt + h <= MaxDeadline
    BY <1>6 DEF HttpExtend, Indexed, IndInv, TypeOK, IndexTypeOK, SessionInfo
  <2>3. AnyExtend(s)
    BY <2>1, <2>2 DEF AnyExtend
  <2>4. QED
    BY <2>1, <2>3
<1>7. CASE Clock
  BY <1>7 DEF Clock
<1>8. CASE UNCHANGED indexVars
  BY <1>8
<1>9. [Next]_mgrVars =>
        \/ \E c \in Conns : \/ AddToIndex(c) \/ AttachIndex(c)
                            \/ DetachIndex(c) \/ DetachRenew(c)
        \/ \E s \in Sessions : \/ Unindex(s)
                               \/ \E h \in 1..MaxHours : HttpExtend(s, h)
        \/ Clock
        \/ UNCHANGED indexVars
  BY DEF Next, mgrVars, HandlerStep, CloseStep, Reap, Create, BeginCreate,
         RefuseUnrecorded, IssueAttachTicket, RejectOverQuota, Register,
         RecheckAttach, RefuseAttach, AttachSwap, AttachClosed, AttachKick,
         ClientGone, ReadFails, ReadLoopGivesUp, DetachClear, HttpClose,
         ShellExits, PumpCloses, Notify, CloseShell, CloseRecorder, Forget,
         ReapSnapshot, ReapNext
<1>10. QED
  BY <1>1, <1>2, <1>3, <1>4, <1>5, <1>6, <1>7, <1>8, <1>9

(* The manager keeps to the calling conventions of the index.              *)
THEOREM UsesIndexAsSpecifiedHolds == Spec => UsesIndexAsSpecified
<1>1. Init => IndexInit
  BY DEF Init
<1>2. QED
  BY <1>1, IndexStep, IndInvHolds, PTL DEF Spec, UsesIndexAsSpecified, IndexSpec

(* So no interleaving of handlers, closers, pumps and the reaper takes an  *)
(* account over its quota.                                                 *)
THEOREM ManagerKeepsQuota == Spec => []QuotaRespected
BY UsesIndexAsSpecifiedHolds, QuotaHolds, PTL DEF UsesIndexAsSpecified

-----------------------------------------------------------------------------
(* The refinement of SessionLifecycle.  A step is mapped by what it does   *)
(* to three things: the closed flags, which ids are indexed, and the       *)
(* connections of the sessions.                                            *)

(* Neither the closed flags, nor the index's ids, nor the connections.     *)
SameView ==
    /\ UNCHANGED <<closed, conn>>
    /\ \A s \in Sessions : Indexed(s)' <=> Indexed(s)

LEMMA SameViewStutters ==
    ASSUME SameView
    PROVE  UNCHANGED Lifecycle!lifecycleVars
<1>1. \A s \in Sessions : Phase(s)' = Phase(s)
  BY DEF SameView, Phase
<1>2. UNCHANGED conn
  BY DEF SameView
<1>3. QED
  BY <1>1, <1>2 DEF Lifecycle!lifecycleVars

(* A step that changes the phase of one session changes the mapped         *)
(* function at that session.                                               *)
LEMMA OnePhase ==
    ASSUME NEW s \in Sessions, NEW p, Phase(s)' = p,
           \A x \in Sessions \ {s} : Phase(x)' = Phase(x)
    PROVE  [x \in Sessions |-> Phase(x)]'
              = [[x \in Sessions |-> Phase(x)] EXCEPT ![s] = p]
<1>1. [x \in Sessions |-> Phase(x)]' = [x \in Sessions |-> Phase(x)']
  OBVIOUS
<1>2. QED
  BY <1>1

(* close() takes a session: BeginClose.                                    *)
LEMMA TakeMaps ==
    ASSUME IndInv, NEW s \in Sessions, Take(s), UNCHANGED sessions
    PROVE  Lifecycle!BeginClose(s)
<1>1. ~closed[s] /\ Indexed(s)
  BY DEF Take, Usable, IndInv, SlotsAreClosable
<1>2. /\ closed' = [closed EXCEPT ![s] = TRUE] /\ conn' = [conn EXCEPT ![s] = None]
      /\ closed \in [Sessions -> BOOLEAN]
  BY DEF Take, IndInv, TypeOK
<1>3. Phase(s) = "open" /\ Phase(s)' = "closing"
  BY <1>1, <1>2 DEF Phase, Indexed
<1>4. \A x \in Sessions \ {s} : Phase(x)' = Phase(x)
  BY <1>2 DEF Phase, Indexed
<1>5. QED
  BY <1>2, <1>3, <1>4, OnePhase DEF Lifecycle!BeginClose

(* Add of the handler that creates: Open.                                  *)
LEMMA AddMaps ==
    ASSUME IndInv, NEW c \in Conns, NEW s \in Sessions, s = target[c], AddToIndex(c)
    PROVE  Lifecycle!Open(s)
<1>1. ~closed[s] /\ ~Indexed(s) /\ info[c] # Absent
  BY DEF AddToIndex, IndInv, HandlersConsistent, Creating
<1>2. /\ sessions' = [sessions EXCEPT ![s] = info[c]]
      /\ sessions \in [Sessions -> SessionInfo \cup {Absent}]
      /\ UNCHANGED <<closed, conn>>
  BY DEF AddToIndex, Add, IndInv, TypeOK, IndexTypeOK, lsVars
<1>3. Phase(s) = "new" /\ Phase(s)' = "open"
  BY <1>1, <1>2 DEF Phase, Indexed
<1>4. \A x \in Sessions \ {s} : Phase(x)' = Phase(x)
  BY <1>2 DEF Phase, Indexed
<1>5. QED
  BY <1>2, <1>3, <1>4, OnePhase DEF Lifecycle!Open

(* Step 3 of close(): FreeSlot, or nothing if the id is gone already.      *)
LEMMA UnindexMaps ==
    ASSUME IndInv, NEW s \in Sessions, Unindex(s)
    PROVE  Lifecycle!FreeSlot(s) \/ UNCHANGED Lifecycle!lifecycleVars
<1>1. closed[s]
  BY DEF Unindex, IndInv, ClosingConsistent
<1>2. /\ sessions' = [sessions EXCEPT ![s] = Absent]
      /\ sessions \in [Sessions -> SessionInfo \cup {Absent}]
      /\ UNCHANGED <<closed, conn>>
  BY DEF Unindex, Remove, IndInv, TypeOK, IndexTypeOK, lsVars
<1>3. Phase(s)' = "gone" /\ \A x \in Sessions \ {s} : Phase(x)' = Phase(x)
  BY <1>1, <1>2 DEF Phase, Indexed
<1>4. CASE Indexed(s)
  <2>1. Phase(s) = "closing"
    BY <1>1, <1>4 DEF Phase
  <2>2. Lifecycle!FreeSlot(s)
    BY <1>2, <1>3, <2>1, OnePhase DEF Lifecycle!FreeSlot
  <2>3. QED
    BY <2>2
<1>5. CASE ~Indexed(s)
  <2>1. SameView
    BY <1>2, <1>5 DEF SameView, Indexed
  <2>2. QED
    BY <2>1, SameViewStutters
<1>6. QED
  BY <1>4, <1>5

(* The swap of Attach: Serve.  A connection is never swapped in twice.     *)
LEMMA SwapMaps ==
    ASSUME IndInv, NEW c \in Conns, AttachSwap(c)
    PROVE  Lifecycle!Serve(target[c], c)
<1> DEFINE s == target[c]
<1>1. s \in Sessions
  BY ServingHasTarget DEF AttachSwap, IndInv
<1>2. ~closed[s] /\ Indexed(s)
  BY DEF AttachSwap, IndInv, HandlersConsistent, Serving
<1>3. /\ conn' = [conn EXCEPT ![s] = c] /\ UNCHANGED <<closed, sessions>>
      /\ pc[c] = "swap"
  BY DEF AttachSwap, indexVars
<1>4. c # conn[s]
  BY <1>1, <1>3, ConnConstants DEF IndInv, ConnConsistent, Attached
<1> HIDE DEF s
<1>5. Phase(s) = "open" /\ \A x \in Sessions : Phase(x)' = Phase(x)
  BY <1>1, <1>2, <1>3 DEF Phase, Indexed
<1>6. [x \in Sessions |-> Phase(x)]' = [x \in Sessions |-> Phase(x)]
  BY <1>5
<1>7. Lifecycle!Serve(s, c)
  BY <1>1, <1>3, <1>4, <1>5, <1>6 DEF Lifecycle!Serve
<1>8. QED
  BY <1>7 DEF s

(* Detach: Leave, if the connection was still the attached one.            *)
LEMMA DetachMaps ==
    ASSUME IndInv, NEW c \in Conns, DetachClear(c)
    PROVE  Lifecycle!Leave(target[c]) \/ UNCHANGED Lifecycle!lifecycleVars
<1> DEFINE s == target[c]
<1>1. s \in Sessions
  BY ServingHasTarget DEF DetachClear, IndInv
<1>2. /\ conn' = [conn EXCEPT ![s] = IF @ = c THEN None ELSE @]
      /\ UNCHANGED <<closed, sessions>> /\ pc[c] = "reading"
      /\ conn \in [Sessions -> Conns \cup {None}]
  BY DEF DetachClear, indexVars, IndInv, TypeOK
<1>3. conn[s] = c => ~closed[s] /\ Indexed(s)
  BY <1>1, <1>2, ConnConstants
     DEF IndInv, ConnConsistent, HandlersConsistent, Serving
<1> HIDE DEF s
<1>4. \A x \in Sessions : Phase(x)' = Phase(x)
  BY <1>2 DEF Phase, Indexed
<1>5. [x \in Sessions |-> Phase(x)]' = [x \in Sessions |-> Phase(x)]
  BY <1>4
<1>6. CASE conn[s] = c
  <2>1. Phase(s) = "open" /\ conn[s] # None
    BY <1>3, <1>6, ConnConstants DEF Phase
  <2>2. conn' = [conn EXCEPT ![s] = None]
    BY <1>2, <1>6
  <2>3. Lifecycle!Leave(s)
    BY <1>1, <1>5, <2>1, <2>2 DEF Lifecycle!Leave
  <2>4. QED
    BY <2>3 DEF s
<1>7. CASE conn[s] # c
  <2>1. SameView
    BY <1>1, <1>2, <1>7 DEF SameView, Indexed
  <2>2. QED
    BY <2>1, SameViewStutters
<1>8. QED
  BY <1>6, <1>7

(* An extension keeps the entry.                                           *)
LEMMA ExtendKeepsView ==
    ASSUME IndInv, NEW s \in Sessions, NEW h \in 1..MaxHours, HttpExtend(s, h)
    PROVE  SameView
<1> DEFINE e == [sessions[s] EXCEPT !.expireAt = @ + h]
<1>1. /\ sessions' = [sessions EXCEPT ![s] = e] /\ Indexed(s)
      /\ UNCHANGED <<closed, conn>>
  BY DEF HttpExtend, Extend, lsVars
<1>2. sessions \in [Sessions -> SessionInfo \cup {Absent}] /\ sessions[s] \in SessionInfo
  BY <1>1 DEF IndInv, TypeOK, IndexTypeOK, Indexed
<1>3. e \in SessionInfo
  BY <1>2 DEF SessionInfo
<1>4. e # Absent
  BY <1>3, IndexConstants
<1> HIDE DEF e
<1>5. QED
  BY <1>1, <1>2, <1>4 DEF SameView, Indexed

-----------------------------------------------------------------------------
(* Each step of the manager is a step in the life of a session or none.    *)
LEMMA LifecycleStep ==
    ASSUME IndInv, [Next]_mgrVars
    PROVE  [Lifecycle!Next]_(Lifecycle!lifecycleVars)
<1>1. ASSUME NEW c \in Conns, AddToIndex(c)
      PROVE  Lifecycle!Next
  <2>1. target[c] \in Sessions
    BY <1>1, ServingHasTarget DEF AddToIndex, IndInv
  <2>2. PICK s \in Sessions : s = target[c]
    BY <2>1
  <2>3. Lifecycle!Open(s)
    BY <1>1, <2>2, AddMaps
  <2>4. QED
    BY <2>3 DEF Lifecycle!Next
<1>2. ASSUME NEW c \in Conns, AttachSwap(c)
      PROVE  Lifecycle!Next
  <2>1. target[c] \in Sessions
    BY <1>2, ServingHasTarget DEF AttachSwap, IndInv
  <2>2. QED
    BY <1>2, <2>1, SwapMaps DEF Lifecycle!Next
<1>3. ASSUME NEW c \in Conns, DetachClear(c)
      PROVE  Lifecycle!Next \/ UNCHANGED Lifecycle!lifecycleVars
  <2>1. target[c] \in Sessions
    BY <1>3, ServingHasTarget DEF DetachClear, IndInv
  <2>2. QED
    BY <1>3, <2>1, DetachMaps DEF Lifecycle!Next
<1>4. ASSUME NEW s \in Sessions, Take(s), UNCHANGED sessions
      PROVE  Lifecycle!Next
  BY <1>4, TakeMaps DEF Lifecycle!Next
<1>5. ASSUME NEW s \in Sessions, Unindex(s)
      PROVE  Lifecycle!Next \/ UNCHANGED Lifecycle!lifecycleVars
  BY <1>5, UnindexMaps DEF Lifecycle!Next
<1>6. ASSUME NEW c \in Conns, AttachIndex(c) \/ DetachIndex(c) \/ DetachRenew(c)
      PROVE  SameView
  <2>1. SameEntries
    BY <1>6, AttachIndexEffect, DetachIndexEffect, DetachRenewEffect DEF IndInv
  <2>2. UNCHANGED <<closed, conn>>
    BY <1>6 DEF AttachIndex, DetachIndex, DetachRenew, lsVars
  <2>3. QED
    BY <2>1, <2>2 DEF SameView, SameEntries, Indexed
<1>7. ASSUME NEW s \in Sessions, NEW h \in 1..MaxHours, HttpExtend(s, h)
      PROVE  SameView
  BY <1>7, ExtendKeepsView
<1>8. ASSUME UNCHANGED <<closed, conn, sessions>>
      PROVE  SameView
  BY <1>8 DEF SameView, Indexed
<1>9. \/ \E c \in Conns : \/ AddToIndex(c) \/ AttachSwap(c) \/ DetachClear(c)
                          \/ AttachIndex(c) \/ DetachIndex(c) \/ DetachRenew(c)
      \/ \E s \in Sessions : \/ Take(s) /\ UNCHANGED sessions
                             \/ Unindex(s)
                             \/ \E h \in 1..MaxHours : HttpExtend(s, h)
      \/ UNCHANGED <<closed, conn, sessions>>
  BY DEF Next, mgrVars, indexVars, lsVars, closeVars, HandlerStep, CloseStep,
         Reap, Create, BeginCreate,
         RefuseUnrecorded, IssueAttachTicket, RejectOverQuota, Register,
         RecheckAttach, RefuseAttach, AttachClosed, AttachKick,
         ClientGone, ReadFails, ReadLoopGivesUp, HttpClose,
         ShellExits, PumpCloses, Notify, CloseShell, CloseRecorder, Forget,
         ReapSnapshot, ReapNext, Clock
<1>10. QED
  BY <1>1, <1>2, <1>3, <1>4, <1>5, <1>6, <1>7, <1>8, <1>9, SameViewStutters

(* A session opens once, serves one connection at a time, and is not       *)
(* served, counted or listed again once it closes.                         *)
THEOREM ImplementsLifecycleHolds == Spec => ImplementsLifecycle
<1>1. Init => Lifecycle!Init
  BY DEF Init, IndexInit, Lifecycle!Init, Phase, Indexed
<1>2. QED
  BY <1>1, LifecycleStep, IndInvHolds, PTL DEF Spec, ImplementsLifecycle, Lifecycle!Spec
=============================================================================
