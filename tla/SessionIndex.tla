---------------------------- MODULE SessionIndex ----------------------------
(***************************************************************************)
(* memoryIndex of handler/index.go: the one authority on which sessions    *)
(* exist, who owns them and when they expire.  Every method takes indexMu, *)
(* so every operator below is one atomic step on `sessions'.               *)
(*                                                                         *)
(* The module is used twice.  IndexSpec is the index driven by any caller  *)
(* that keeps to the calling conventions of handler/: it is what the       *)
(* quota and the expiry rule are proved of.  SessionManager EXTENDS this   *)
(* module, calls the same operators from its goroutines, and is shown to   *)
(* implement IndexSpec.                                                    *)
(***************************************************************************)
EXTENDS Integers, FiniteSets

CONSTANTS
    Sessions,       \* session ids (newSessionID never hands one out twice)
    Users,          \* account names
    Absent,         \* what Get reports for an id that is not in the map
    MaxLong,        \* max_long_sessions; 0 is "no limit", as in Add
    MaxTotal,       \* max_total_sessions; 0 is "no limit"
    ShortTTL,       \* defaultShortTTL, in clock ticks
    MaxHours,       \* max_session_ttl_hours, in clock ticks
    MaxTime,        \* bound of the exploration: the clock stops here
    MaxDeadline     \* bound of the exploration: no expireAt beyond this

(* What Add stores of SessionInfo; Mode and CreatedAt only reach replies.  *)
SessionInfo == [user : Users, longLived : BOOLEAN, expireAt : Nat, attached : BOOLEAN]

ASSUME IndexConstants ==
    /\ IsFiniteSet(Sessions)
    /\ Absent \notin SessionInfo
    /\ MaxLong \in Nat /\ MaxTotal \in Nat
    /\ ShortTTL \in Nat \ {0} /\ MaxHours \in Nat \ {0}
    /\ MaxTime \in Nat /\ MaxDeadline \in Nat
    /\ MaxTime + MaxHours <= MaxDeadline /\ MaxTime + ShortTTL <= MaxDeadline

VARIABLES
    sessions,       \* memoryIndex.sessions
    now             \* what the injected clock returns

indexVars == <<sessions, now>>

Indexed(s) == sessions[s] # Absent

(* Mutant of Expired: a long session, too, only runs out while detached.   *)
ExpiredOnlyDetached(info, t) == t >= info.expireAt /\ ~info.attached

(* SessionInfo.expired: a long session runs out attached or not, a short   *)
(* one only while the index believes nobody is attached.                   *)
Expired(info, t) == /\ t >= info.expireAt
                    /\ info.longLived \/ ~info.attached

OwnedBy(u) == {s \in Sessions : Indexed(s) /\ sessions[s].user = u}
LongOwnedBy(u) == {s \in OwnedBy(u) : sessions[s].longLived}

TotalCount(u) == Cardinality(OwnedBy(u))
LongCount(u) == Cardinality(LongOwnedBy(u))

(* Mutant of HasRoom: <= for <, the off-by-one that admits one too many.   *)
HasRoomOffByOne(info) ==
    /\ MaxTotal > 0 => TotalCount(info.user) <= MaxTotal
    /\ info.longLived /\ MaxLong > 0 => LongCount(info.user) <= MaxLong

(* The two quota checks of Add, in its order: total first, then long.      *)
HasRoom(info) ==
    /\ MaxTotal > 0 => TotalCount(info.user) < MaxTotal
    /\ info.longLived /\ MaxLong > 0 => LongCount(info.user) < MaxLong

-----------------------------------------------------------------------------
(* The methods.  Each says what happens to `sessions' and nothing else.    *)

Add(s, info) ==
    /\ HasRoom(info)
    /\ sessions' = [sessions EXCEPT ![s] = info]

(* Mutant of Update: without the "ok" test Go reads a zero SessionInfo and  *)
(* writes it back under an id that is gone.                                *)
UpdateUnchecked(s, t) ==
    sessions' = IF Indexed(s) THEN [sessions EXCEPT ![s].expireAt = t]
                ELSE [sessions EXCEPT ![s] = [user |-> "", longLived |-> FALSE,
                                              expireAt |-> t, attached |-> FALSE]]

(* Update, setAttached: silently nothing when the id is gone.              *)
Update(s, t) ==
    sessions' = IF Indexed(s) THEN [sessions EXCEPT ![s].expireAt = t] ELSE sessions

SetAttached(s, b) ==
    sessions' = IF Indexed(s) THEN [sessions EXCEPT ![s].attached = b] ELSE sessions

Remove(s) == sessions' = [sessions EXCEPT ![s] = Absent]

(* Mutant of Extend: the expired check is missing.                         *)
ExtendExpiredToo(s, u, h) ==
    /\ Indexed(s) /\ sessions[s].user = u
    /\ sessions[s].longLived
    /\ sessions' = [sessions EXCEPT ![s].expireAt = @ + h]

(* Extend checks and writes under one hold of indexMu; the refused calls   *)
(* change nothing.                                                         *)
Extend(s, u, h) ==
    /\ Indexed(s) /\ sessions[s].user = u
    /\ sessions[s].longLived
    /\ ~Expired(sessions[s], now)
    /\ sessions' = [sessions EXCEPT ![s].expireAt = @ + h]

(* The ids ReapOnce copies before it lets go of indexMu.                   *)
ExpiredNow == {s \in Sessions : Indexed(s) /\ Expired(sessions[s], now)}

Tick == now < MaxTime /\ now' = now + 1

-----------------------------------------------------------------------------
(* The index under any caller of handler/.  Update is only called by       *)
(* Detach, for short sessions, with now+ShortTTL.                          *)

IndexInit ==
    /\ sessions = [s \in Sessions |-> Absent]
    /\ now = 0

AnyAdd(s) ==
    \E u \in Users, long \in BOOLEAN, t \in 0..MaxDeadline :
        /\ ~Indexed(s)
        /\ Add(s, [user |-> u, longLived |-> long, expireAt |-> t, attached |-> FALSE])

AnyExtend(s) ==
    \E u \in Users, h \in 1..MaxHours :
        /\ sessions[s] # Absent => sessions[s].expireAt + h <= MaxDeadline
        /\ Extend(s, u, h)

KeepAlive(s) ==
    /\ Indexed(s) => ~sessions[s].longLived
    /\ Update(s, now + ShortTTL)

IndexNext ==
    \/ \E s \in Sessions :
          /\ \/ AnyAdd(s)
             \/ AnyExtend(s)
             \/ KeepAlive(s)
             \/ \E b \in BOOLEAN : SetAttached(s, b)
             \/ Remove(s)
          /\ UNCHANGED now
    \/ Tick /\ UNCHANGED sessions

IndexSpec == IndexInit /\ [][IndexNext]_indexVars

-----------------------------------------------------------------------------
(* Every entry is a SessionInfo, and the clock stays in its bound          *)
(* (memoryIndex.sessions, index.go).                                       *)
IndexTypeOK ==
    /\ sessions \in [Sessions -> SessionInfo \cup {Absent}]
    /\ now \in 0..MaxTime

(* No account ever holds more sessions, or more long sessions, than the    *)
(* limits Add enforces, whatever the interleaving of creations, closes and *)
(* extensions (the ticket handler's earlier check is not relied on).       *)
QuotaRespected ==
    \A u \in Users :
        /\ MaxTotal > 0 => TotalCount(u) <= MaxTotal
        /\ MaxLong > 0 => LongCount(u) <= MaxLong

(* Once a long session is due it stays due for as long as it is indexed:   *)
(* no Extend, Update or setAttached revives it.  This is what lets ReapOnce*)
(* act on a snapshot after letting go of indexMu.                          *)
LongExpiryIsFinal ==
    \A s \in Sessions :
        (Indexed(s) /\ sessions[s].longLived /\ Expired(sessions[s], now))
            => (Indexed(s)' => Expired(sessions[s], now)')

LongExpiryFinal == [][LongExpiryIsFinal]_indexVars
=============================================================================
