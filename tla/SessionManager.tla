--------------------------- MODULE SessionManager ---------------------------
(***************************************************************************)
(* SessionManager of handler/manager.go with the goroutines that use it:   *)
(*   - one WebSocket handler per connection (NewWs in handler/ws.go), which *)
(*     creates or attaches, reads until the connection ends, and detaches; *)
(*   - one pump per session, which ends the session when the shell exits;  *)
(*   - the reaper of the index, a single goroutine;                        *)
(*   - HTTP requests that close or extend a session.                       *)
(* No lock is held across two of the steps below: indexMu, mgrMu and sMu   *)
(* are each taken and released inside one action, so an action is one      *)
(* critical section (or one call made outside all locks) and everything    *)
(* else may run between two of them.                                       *)
(*                                                                         *)
(* Output bytes are in OutputPath; here a connection is open or closed.    *)
(***************************************************************************)
EXTENDS SessionIndex

CONSTANTS
    Conns,          \* WebSocket connections, each served by its own handler
    None            \* nil

ASSUME ConnConstants ==
    None \notin Sessions /\ None \notin Conns

VARIABLES
    \* localSession, one per id
    kind,           \* ls.longLived: "short" or "long" ("none": no such session yet)
    local,          \* whether m.local holds it
    closed, conn,   \* ls.closed, ls.conn
    proc, rec,      \* its shell and its audit recorder
    pump,           \* its pump goroutine
    \* close() of a session: the winner of step 2 runs steps 3 to 6
    ending,         \* the last step done
    victim,         \* ac, the connection taken off the session in step 2
    \* handler goroutine of a connection
    pc, target,
    info, old,      \* locals of Create and of Attach
    sock,           \* the server's end of the connection
    \* runReaper
    due, reaping    \* ids still to be closed; the one being closed

lsVars == <<kind, local, closed, conn, proc, rec, pump>>
closeVars == <<ending, victim>>
wsVars == <<pc, target, info, old, sock>>
reapVars == <<due, reaping>>
mgrVars == <<indexVars, lsVars, closeVars, wsVars, reapVars>>

HandlerPCs == {"idle", "add", "register", "ticket", "swap", "index", "kick",
               "reading", "detach", "renew", "done"}
CloseSteps == {"no", "marked", "unindexed", "notified", "shellClosed",
               "recorderClosed", "gone"}

Usable(s) == local[s] /\ ~closed[s]          \* GetLocal(s) != nil && !isClosed()

Goto(c, label) == pc' = [pc EXCEPT ![c] = label]

(* NewWs returns: nothing of the handler's locals matters any more.        *)
Return(c) ==
    /\ Goto(c, "done")
    /\ target' = [target EXCEPT ![c] = None]

(* wsClose, or a close message followed by conn.Close.                     *)
HangUp(c) == sock' = [sock EXCEPT ![c] = "closed"]

Init ==
    /\ IndexInit
    /\ kind = [s \in Sessions |-> "none"]
    /\ local = [s \in Sessions |-> FALSE]
    /\ closed = [s \in Sessions |-> FALSE]
    /\ conn = [s \in Sessions |-> None]
    /\ proc = [s \in Sessions |-> "none"]
    /\ rec = [s \in Sessions |-> "none"]
    /\ pump = [s \in Sessions |-> "none"]
    /\ ending = [s \in Sessions |-> "no"]
    /\ victim = [s \in Sessions |-> None]
    /\ pc = [c \in Conns |-> "idle"]
    /\ target = [c \in Conns |-> None]
    /\ info = [c \in Conns |-> Absent]
    /\ old = [c \in Conns |-> None]
    /\ sock = [c \in Conns |-> "none"]
    /\ due = {} /\ reaping = None

-----------------------------------------------------------------------------
(* NewWs, action=create, and SessionManager.Create.                        *)

(* expireAt is computed when Create starts, from the clock of that moment. *)
Newborn(u, long, h) ==
    [user |-> u, longLived |-> long, attached |-> FALSE,
     expireAt |-> now + (IF long THEN h ELSE ShortTTL)]

KindOf(new) == IF new.longLived THEN "long" ELSE "short"

(* The ticket is spent, the shell is running, and the recorder was opened, *)
(* is disabled, or failed to open with fail_closed off ("none").           *)
BeginCreate(c, s, new, r) ==
    /\ pc[c] = "idle" /\ kind[s] = "none"
    /\ kind' = [kind EXCEPT ![s] = KindOf(new)]
    /\ info' = [info EXCEPT ![c] = new]
    /\ proc' = [proc EXCEPT ![s] = "running"]
    /\ rec' = [rec EXCEPT ![s] = r]
    /\ Goto(c, "add")
    /\ target' = [target EXCEPT ![c] = s]
    /\ sock' = [sock EXCEPT ![c] = "open"]
    /\ UNCHANGED <<indexVars, local, closed, conn, pump, closeVars, old, reapVars>>

(* fail_closed and the recorder did not open: the shell is closed again.   *)
RefuseUnrecorded(c, s, new) ==
    /\ pc[c] = "idle" /\ kind[s] = "none"
    /\ kind' = [kind EXCEPT ![s] = KindOf(new)]
    /\ proc' = [proc EXCEPT ![s] = "closed"]
    /\ Return(c)
    /\ HangUp(c)
    /\ UNCHANGED <<indexVars, local, closed, conn, rec, pump, closeVars,
                   info, old, reapVars>>

AddToIndex(c) ==
    /\ pc[c] = "add"
    /\ Add(target[c], info[c])
    /\ info' = [info EXCEPT ![c] = Absent]
    /\ Goto(c, "register")
    /\ UNCHANGED <<now, lsVars, closeVars, target, old, sock, reapVars>>

(* Mutant of RejectOverQuota: the shell of the refused session is left.    *)
RejectKeepsShell(c) ==
    LET s == target[c] IN
    /\ pc[c] = "add" /\ ~HasRoom(info[c])
    /\ info' = [info EXCEPT ![c] = Absent]
    /\ rec' = [rec EXCEPT ![s] = IF @ = "open" THEN "closed" ELSE @]
    /\ Return(c)
    /\ HangUp(c)
    /\ UNCHANGED <<indexVars, kind, local, closed, conn, proc, pump, closeVars,
                   old, reapVars>>

(* ErrTotalLimit, ErrLongLimit: recorder first, then the shell.            *)
RejectOverQuota(c) ==
    LET s == target[c] IN
    /\ pc[c] = "add" /\ ~HasRoom(info[c])
    /\ info' = [info EXCEPT ![c] = Absent]
    /\ rec' = [rec EXCEPT ![s] = IF @ = "open" THEN "closed" ELSE @]
    /\ proc' = [proc EXCEPT ![s] = "closed"]
    /\ Return(c)
    /\ HangUp(c)
    /\ UNCHANGED <<indexVars, kind, local, closed, conn, pump, closeVars,
                   old, reapVars>>

(* m.local[id] = ls; go ls.pump(m).                                        *)
Register(c) ==
    LET s == target[c] IN
    /\ pc[c] = "register"
    /\ local' = [local EXCEPT ![s] = TRUE]
    /\ pump' = [pump EXCEPT ![s] = "reading"]
    /\ Goto(c, "swap")
    /\ UNCHANGED <<indexVars, kind, closed, conn, proc, rec, closeVars,
                   target, info, old, sock, reapVars>>

-----------------------------------------------------------------------------
(* NewTicketHandler and NewWs, action=attach.                              *)

CanAttach(s) == Indexed(s) /\ ~Expired(sessions[s], now) /\ Usable(s)

(* The attach branch of NewTicketHandler, for the owner of s; the client   *)
(* then connects with the ticket.                                          *)
IssueAttachTicket(c, s) ==
    /\ pc[c] = "idle" /\ CanAttach(s)
    /\ Goto(c, "ticket")
    /\ target' = [target EXCEPT ![c] = s]
    /\ sock' = [sock EXCEPT ![c] = "open"]
    /\ UNCHANGED <<indexVars, lsVars, closeVars, info, old, reapVars>>

(* The same checks again in NewWs: "TOCTOU".                               *)
RecheckAttach(c) ==
    /\ pc[c] = "ticket" /\ CanAttach(target[c])
    /\ Goto(c, "swap")
    /\ UNCHANGED <<indexVars, lsVars, closeVars, target, info, old, sock, reapVars>>

RefuseAttach(c) ==
    /\ pc[c] = "ticket" /\ ~CanAttach(target[c])
    /\ Return(c)
    /\ HangUp(c)
    /\ UNCHANGED <<indexVars, lsVars, closeVars, info, old, reapVars>>

-----------------------------------------------------------------------------
(* SessionManager.Attach: swap under sMu, then the index, then the old     *)
(* connection, then the client is served.                                  *)

(* Mutant of AttachSwap: ls.closed is not looked at under sMu.             *)
AttachSwapAnyway(c) ==
    LET s == target[c] IN
    /\ pc[c] = "swap"
    /\ old' = [old EXCEPT ![c] = conn[s]]
    /\ conn' = [conn EXCEPT ![s] = c]
    /\ Goto(c, "index")
    /\ UNCHANGED <<indexVars, kind, local, closed, proc, rec, pump, closeVars,
                   target, info, sock, reapVars>>

AttachSwap(c) ==
    LET s == target[c] IN
    /\ pc[c] = "swap" /\ ~closed[s]
    /\ old' = [old EXCEPT ![c] = conn[s]]
    /\ conn' = [conn EXCEPT ![s] = c]
    /\ Goto(c, "index")
    /\ UNCHANGED <<indexVars, kind, local, closed, proc, rec, pump, closeVars,
                   target, info, sock, reapVars>>

(* ls.closed: hang up and return false.  The create branch ignores the     *)
(* result, but its readLoop and Detach then find nothing left to do.       *)
AttachClosed(c) ==
    /\ pc[c] = "swap" /\ closed[target[c]]
    /\ Return(c)
    /\ HangUp(c)
    /\ UNCHANGED <<indexVars, lsVars, closeVars, info, old, reapVars>>

AttachIndex(c) ==
    /\ pc[c] = "index"
    /\ SetAttached(target[c], TRUE)
    /\ Goto(c, "kick")
    /\ UNCHANGED <<now, lsVars, closeVars, target, info, old, sock, reapVars>>

(* Mutant of AttachKick: the replaced connection is not hung up on.        *)
AttachKeepsOld(c) ==
    /\ pc[c] = "kick"
    /\ old' = [old EXCEPT ![c] = None]
    /\ Goto(c, "reading")
    /\ UNCHANGED <<indexVars, lsVars, closeVars, target, info, sock, reapVars>>

(* "replaced by new connection"; then the flush and the session message.   *)
AttachKick(c) ==
    /\ pc[c] = "kick"
    /\ sock' = IF old[c] = None THEN sock ELSE [sock EXCEPT ![old[c]] = "closed"]
    /\ old' = [old EXCEPT ![c] = None]
    /\ Goto(c, "reading")
    /\ UNCHANGED <<indexVars, lsVars, closeVars, target, info, reapVars>>

-----------------------------------------------------------------------------
(* readLoop and SessionManager.Detach.                                     *)

(* The client goes away.  A client lost earlier is noticed here too: only  *)
(* readLoop reads from the connection.                                     *)
ClientGone(c) ==
    /\ pc[c] = "reading" /\ sock[c] = "open"
    /\ HangUp(c)
    /\ UNCHANGED <<indexVars, lsVars, closeVars, pc, target, info, old, reapVars>>

(* Detach, under sMu: only the attached connection clears itself.          *)
DetachClear(c) ==
    LET s == target[c] IN
    /\ pc[c] = "reading"
    /\ conn' = [conn EXCEPT ![s] = IF @ = c THEN None ELSE @]
    /\ IF conn[s] = c THEN Goto(c, "detach") /\ UNCHANGED target ELSE Return(c)
    /\ UNCHANGED <<indexVars, kind, local, closed, proc, rec, pump, closeVars,
                   info, old, sock, reapVars>>

ReadFails(c) == sock[c] = "closed" /\ DetachClear(c)

(* readLoop also returns, with the connection still open, on a message     *)
(* that does not parse and on input a closed shell refuses.                *)
ReadLoopGivesUp(c) == sock[c] = "open" /\ DetachClear(c)

(* Mutant of DetachIndex: the deadline of a long session is renewed too.   *)
DetachRenewsAll(c) ==
    /\ pc[c] = "detach"
    /\ SetAttached(target[c], FALSE)
    /\ Goto(c, "renew") /\ UNCHANGED target
    /\ UNCHANGED <<now, lsVars, closeVars, info, old, sock, reapVars>>

(* setAttached(false); the recorder then writes meta.json before the       *)
(* deadline of a short session is renewed.                                 *)
DetachIndex(c) ==
    /\ pc[c] = "detach"
    /\ SetAttached(target[c], FALSE)
    /\ IF kind[target[c]] = "long" THEN Return(c)
                                   ELSE Goto(c, "renew") /\ UNCHANGED target
    /\ UNCHANGED <<now, lsVars, closeVars, info, old, sock, reapVars>>

DetachRenew(c) ==
    /\ pc[c] = "renew"
    /\ Update(target[c], now + ShortTTL)
    /\ Return(c)
    /\ UNCHANGED <<now, lsVars, closeVars, info, old, sock, reapVars>>

-----------------------------------------------------------------------------
(* SessionManager.close.  Steps 1 and 2: whoever finds the session in      *)
(* m.local and not closed takes it; every other caller returns false.      *)

Take(s) ==
    /\ Usable(s)
    /\ closed' = [closed EXCEPT ![s] = TRUE]
    /\ victim' = [victim EXCEPT ![s] = conn[s]]
    /\ conn' = [conn EXCEPT ![s] = None]
    /\ ending' = [ending EXCEPT ![s] = "marked"]

(* NewCloseHandler: any time, for a session that was indexed.              *)
HttpClose(s) ==
    /\ Take(s)
    /\ UNCHANGED <<indexVars, kind, local, proc, rec, pump, wsVars, reapVars>>

(* The shell exits by itself; the pump's Read then fails, as it does after *)
(* proc.Close.                                                             *)
ShellExits(s) ==
    /\ proc[s] = "running"
    /\ proc' = [proc EXCEPT ![s] = "exited"]
    /\ UNCHANGED <<indexVars, kind, local, closed, conn, rec, pump, closeVars,
                   wsVars, reapVars>>

PumpCloses(s) ==
    /\ pump[s] = "reading" /\ proc[s] \in {"exited", "closed"}
    /\ pump' = [pump EXCEPT ![s] = "done"]
    /\ \/ Take(s)
       \/ ~Usable(s) /\ UNCHANGED <<closed, conn, closeVars>>
    /\ UNCHANGED <<indexVars, kind, local, proc, rec, wsVars, reapVars>>

(* Mutant of Unindex: step 3 is forgotten.                                 *)
UnindexSkipped(s) ==
    /\ ending[s] = "marked"
    /\ ending' = [ending EXCEPT ![s] = "unindexed"]
    /\ UNCHANGED <<indexVars, lsVars, victim, wsVars, reapVars>>

(* Step 3. *)
Unindex(s) ==
    /\ ending[s] = "marked"
    /\ Remove(s)
    /\ ending' = [ending EXCEPT ![s] = "unindexed"]
    /\ UNCHANGED <<now, lsVars, victim, wsVars, reapVars>>

(* Mutant of Notify: the message is sent, the connection is not closed.    *)
NotifyOnly(s) ==
    /\ ending[s] = "unindexed"
    /\ victim' = [victim EXCEPT ![s] = None]
    /\ ending' = [ending EXCEPT ![s] = "notified"]
    /\ UNCHANGED <<indexVars, lsVars, wsVars, reapVars>>

(* Step 4. *)
Notify(s) ==
    /\ ending[s] = "unindexed"
    /\ sock' = IF victim[s] = None THEN sock ELSE [sock EXCEPT ![victim[s]] = "closed"]
    /\ victim' = [victim EXCEPT ![s] = None]
    /\ ending' = [ending EXCEPT ![s] = "notified"]
    /\ UNCHANGED <<indexVars, lsVars, pc, target, info, old, reapVars>>

(* Step 5, which waits for the shell process to be reaped. *)
CloseShell(s) ==
    /\ ending[s] = "notified"
    /\ proc' = [proc EXCEPT ![s] = "closed"]
    /\ ending' = [ending EXCEPT ![s] = "shellClosed"]
    /\ UNCHANGED <<indexVars, kind, local, closed, conn, rec, pump, victim,
                   wsVars, reapVars>>

(* Mutant of CloseRecorder: an error return between steps 5 and 6.         *)
CloseRecorderReturnsEarly(s) ==
    /\ ending[s] = "shellClosed"
    /\ rec' = [rec EXCEPT ![s] = IF @ = "open" THEN "closed" ELSE @]
    /\ ending' = [ending EXCEPT ![s] = "gone"]
    /\ reaping' = IF reaping = s THEN None ELSE reaping
    /\ UNCHANGED <<indexVars, kind, local, closed, conn, proc, pump, victim,
                   wsVars, due>>

(* Step 5.5. *)
CloseRecorder(s) ==
    /\ ending[s] = "shellClosed"
    /\ rec' = [rec EXCEPT ![s] = IF @ = "open" THEN "closed" ELSE @]
    /\ ending' = [ending EXCEPT ![s] = "recorderClosed"]
    /\ UNCHANGED <<indexVars, kind, local, closed, conn, proc, pump, victim,
                   wsVars, reapVars>>

(* Step 6; close returns to its caller, which may be the reaper.           *)
Forget(s) ==
    /\ ending[s] = "recorderClosed"
    /\ local' = [local EXCEPT ![s] = FALSE]
    /\ ending' = [ending EXCEPT ![s] = "gone"]
    /\ reaping' = IF reaping = s THEN None ELSE reaping
    /\ UNCHANGED <<indexVars, kind, closed, conn, proc, rec, pump, victim,
                   wsVars, due>>

-----------------------------------------------------------------------------
(* ReapOnce: a snapshot under indexMu, then close, one id after the other. *)

ReapSnapshot ==
    /\ due = {} /\ reaping = None
    /\ ExpiredNow # {}
    /\ due' = ExpiredNow
    /\ UNCHANGED <<indexVars, lsVars, closeVars, wsVars, reaping>>

ReapNext(s) ==
    /\ s \in due /\ reaping = None
    /\ due' = due \ {s}
    /\ \/ Take(s) /\ reaping' = s
       \/ ~Usable(s) /\ UNCHANGED <<closed, conn, closeVars, reaping>>
    /\ UNCHANGED <<indexVars, kind, local, proc, rec, pump, wsVars>>

(* NewExtendHandler, for the owner.                                        *)
HttpExtend(s, h) ==
    /\ Indexed(s) /\ sessions[s].expireAt + h <= MaxDeadline
    /\ Extend(s, sessions[s].user, h)
    /\ UNCHANGED <<now, lsVars, closeVars, wsVars, reapVars>>

Clock == Tick /\ UNCHANGED <<sessions, lsVars, closeVars, wsVars, reapVars>>

-----------------------------------------------------------------------------
Create(c) ==
    \E s \in Sessions, u \in Users, long \in BOOLEAN, h \in 1..MaxHours :
        /\ ~long => h = 1          \* a short session has no hours
        /\ \/ \E r \in {"open", "none"} : BeginCreate(c, s, Newborn(u, long, h), r)
           \/ RefuseUnrecorded(c, s, Newborn(u, long, h))

(* What the goroutine of c does on its own, without client or clock.       *)
HandlerStep(c) ==
    \/ AddToIndex(c) \/ RejectOverQuota(c) \/ Register(c)
    \/ RecheckAttach(c) \/ RefuseAttach(c)
    \/ AttachSwap(c) \/ AttachClosed(c) \/ AttachIndex(c) \/ AttachKick(c)
    \/ ReadFails(c) \/ DetachIndex(c) \/ DetachRenew(c)

CloseStep(s) ==
    \/ Unindex(s) \/ Notify(s) \/ CloseShell(s) \/ CloseRecorder(s) \/ Forget(s)

Reap == ReapSnapshot \/ \E s \in Sessions : ReapNext(s)

Next ==
    \/ \E c \in Conns :
          \/ Create(c)
          \/ \E s \in Sessions : IssueAttachTicket(c, s)
          \/ HandlerStep(c)
          \/ ClientGone(c) \/ ReadLoopGivesUp(c)
    \/ \E s \in Sessions :
          \/ HttpClose(s) \/ ShellExits(s) \/ PumpCloses(s) \/ CloseStep(s)
          \/ \E h \in 1..MaxHours : HttpExtend(s, h)
    \/ Reap
    \/ Clock

Spec == Init /\ [][Next]_mgrVars

(* What a goroutine does between its locks.  The other steps of a handler  *)
(* and of close write to a client, without a deadline, or wait for the     *)
(* processes of a session: they may take for ever.                         *)
HandlerRuns(c) == Register(c) \/ AttachIndex(c) \/ ReadFails(c) \/ DetachIndex(c) \/ DetachRenew(c)
CloseRuns(s) == Unindex(s) \/ CloseRecorder(s) \/ Forget(s)

(* Goroutines are scheduled, time passes and the reaper's ticker fires.    *)
(* Clients, shells and HTTP requests owe us nothing.                       *)
Fairness ==
    /\ \A c \in Conns : WF_mgrVars(HandlerRuns(c))
    /\ \A s \in Sessions : WF_mgrVars(CloseRuns(s))
    /\ WF_mgrVars(Reap)
    /\ WF_mgrVars(Clock)

FairSpec == Spec /\ Fairness
-----------------------------------------------------------------------------
(* Every variable has its type (the fields of localSession, attachedConn   *)
(* and the locals of Attach, close and ReapOnce).                          *)
TypeOK ==
    /\ IndexTypeOK
    /\ kind \in [Sessions -> {"none", "short", "long"}]
    /\ local \in [Sessions -> BOOLEAN]
    /\ closed \in [Sessions -> BOOLEAN]
    /\ conn \in [Sessions -> Conns \cup {None}]
    /\ proc \in [Sessions -> {"none", "running", "exited", "closed"}]
    /\ rec \in [Sessions -> {"none", "open", "closed"}]
    /\ pump \in [Sessions -> {"none", "reading", "done"}]
    /\ ending \in [Sessions -> CloseSteps]
    /\ victim \in [Sessions -> Conns \cup {None}]
    /\ pc \in [Conns -> HandlerPCs]
    /\ target \in [Conns -> Sessions \cup {None}]
    /\ info \in [Conns -> SessionInfo \cup {Absent}]
    /\ old \in [Conns -> Conns \cup {None}]
    /\ sock \in [Conns -> {"none", "open", "closed"}]
    /\ due \in SUBSET Sessions
    /\ reaping \in Sessions \cup {None}

BeingCreated(s) == \E c \in Conns : pc[c] \in {"add", "register"} /\ target[c] = s

(* Whatever holds a quota slot can be closed: an indexed session is in     *)
(* m.local (or about to be put there by Create), and is gone from the      *)
(* index before it is gone from m.local; a usable session is indexed.      *)
(* Create's steps, close's steps 3 and 6 and the late setAttached and      *)
(* Update of a handler that lost its session all have to agree on this.    *)
SlotsAreClosable ==
    \A s \in Sessions :
        /\ Indexed(s) => local[s] \/ BeingCreated(s)
        /\ Usable(s) => Indexed(s)

(* No shell and no recorder outlives its session: while one is open, the   *)
(* session is in m.local, where close will find it, or is still being      *)
(* created.  Create's three early returns and close's order depend on it.  *)
NothingLeftRunning ==
    \A s \in Sessions :
        proc[s] \in {"running", "exited"} \/ rec[s] = "open"
            => local[s] \/ BeingCreated(s)

(* A connection that is still open and read from is the attached one, or   *)
(* somebody is about to hang up on it: the Attach that replaced it, or the *)
(* close that took it off the session.                                     *)
NoForgottenConn ==
    \A c \in Conns :
        pc[c] = "reading" /\ sock[c] = "open" =>
            \/ conn[target[c]] = c
            \/ \E d \in Conns : pc[d] \in {"index", "kick"} /\ old[d] = c
            \/ victim[target[c]] = c

(* What the three invariants above rest on, by part.  Serving: from the    *)
(* ticket check to the end of Detach.                                      *)
Creating == {"add", "register"}
Serving == {"ticket", "swap", "index", "kick", "reading", "detach", "renew"}
Attached == {"index", "kick", "reading"}
Closing == {"marked", "unindexed", "notified", "shellClosed", "recorderClosed"}

(* A handler that creates works on a session nobody else can reach, and a  *)
(* handler that serves works on one that is usable or already closed.      *)
HandlersConsistent ==
    \A c \in Conns :
        /\ pc[c] \in {"idle", "done"} <=> target[c] = None
        /\ pc[c] \in {"idle", "done"} \/ kind[target[c]] # "none"
        /\ pc[c] = "add" =>
              /\ info[c] # Absent /\ ~Indexed(target[c])
              /\ ~info[c].attached /\ info[c].expireAt <= MaxDeadline
              /\ info[c].longLived <=> kind[target[c]] = "long"
        /\ pc[c] = "register" => Indexed(target[c])
        /\ pc[c] \in Creating => ~local[target[c]] /\ ~closed[target[c]]
        /\ pc[c] \in Serving => closed[target[c]] \/ (Usable(target[c]) /\ Indexed(target[c]))
        /\ pc[c] = "renew" => kind[target[c]] = "short"

OneCreator ==
    \A c, d \in Conns :
        pc[c] \in Creating /\ pc[d] \in Creating /\ target[c] = target[d] => c = d

(* How far close() got determines what is left of the session.             *)
ClosingConsistent ==
    \A s \in Sessions :
        /\ kind[s] = "none" => ~Indexed(s) /\ ~local[s] /\ ~closed[s]
        /\ closed[s] <=> ending[s] # "no"
        /\ ending[s] \in Closing => local[s]
        /\ ending[s] = "gone" => ~local[s]
        /\ ending[s] \notin {"no", "marked"} => ~Indexed(s)
        /\ ending[s] \in {"shellClosed", "recorderClosed", "gone"} => proc[s] = "closed"
        /\ ending[s] \in {"recorderClosed", "gone"} => rec[s] # "open"
        /\ Indexed(s) => (sessions[s].longLived <=> kind[s] = "long")

(* ls.conn is the connection of a handler between its swap and its Detach. *)
ConnConsistent ==
    \A s \in Sessions :
        /\ closed[s] => conn[s] = None
        /\ victim[s] # None => closed[s]
        /\ conn[s] # None => pc[conn[s]] \in Attached /\ target[conn[s]] = s

(* NoForgottenConn from the swap on, not only once readLoop runs.          *)
NobodyForgotten ==
    \A c \in Conns :
        pc[c] \in Attached /\ sock[c] = "open" =>
            \/ conn[target[c]] = c
            \/ \E d \in Conns : pc[d] \in {"index", "kick"} /\ old[d] = c
            \/ victim[target[c]] = c

(* The reaper's snapshot may be old, but no long session in it is alive    *)
(* with its deadline ahead.                                                *)
SnapshotSound ==
    \A s \in due :
        /\ closed[s] \/ Indexed(s)
        /\ Indexed(s) /\ sessions[s].longLived => now >= sessions[s].expireAt

(* The inductive invariant of the manager: the three invariants above and  *)
(* how handlers, close() and the reaper's snapshot hang together.          *)
IndInv ==
    /\ TypeOK
    /\ HandlersConsistent /\ OneCreator
    /\ ClosingConsistent /\ ConnConsistent
    /\ SlotsAreClosable /\ NothingLeftRunning
    /\ NobodyForgotten /\ SnapshotSound

ReaperEnds(s) == ReapNext(s) /\ Usable(s)

(* The reaper ends a long session only when its deadline, extensions       *)
(* included, has passed, although ReapOnce decided on an older snapshot:   *)
(* an Extend that was granted is never overrun by the reaper.              *)
LongReapedWhenDue ==
    [][\A s \in Sessions :
          ReaperEnds(s) /\ kind[s] = "long"
              => now >= sessions[s].expireAt]_mgrVars

(* The manager never uses the index other than IndexSpec allows, so what   *)
(* is proved of the index holds of it.                                     *)
UsesIndexAsSpecified == IndexSpec

Phase(s) ==
    IF closed[s] THEN (IF Indexed(s) THEN "closing" ELSE "gone")
                 ELSE (IF Indexed(s) THEN "open" ELSE "new")

Lifecycle == INSTANCE SessionLifecycle WITH
                phase <- [s \in Sessions |-> Phase(s)], served <- conn

(* The manager implements the life of a session that SessionLifecycle      *)
(* describes: never served, listed or counted again once closing (sMu's    *)
(* closed flag against late Attach, Detach and index updates).             *)
ImplementsLifecycle == Lifecycle!Spec

-----------------------------------------------------------------------------
(* A close in step 4, which writes to a client, or in step 5, which waits  *)
(* for the shell.                                                          *)
InNotify(s) == ending[s] = "unindexed"
Blocked(s) == InNotify(s) \/ ending[s] = "notified"

(* A close that has begun is carried through, unless the client or the     *)
(* shell keeps it for ever: the slot is freed, shell and recorder are      *)
(* closed and m.local forgets the session (step 6).  The slot is free even *)
(* then: step 3 comes first.                                               *)
CloseCompletes ==
    \A s \in Sessions :
        /\ closed[s] ~> ~Indexed(s)
        /\ \/ <>[]Blocked(s)
           \/ closed[s] ~> ~local[s] /\ proc[s] = "closed" /\ rec[s] # "open"

(* A long session whose deadline passes is ended, attached or not and      *)
(* whatever other closes the reaper has to do first, unless one of them    *)
(* keeps it for ever.                                                      *)
LongSessionsEnd ==
    \A s \in Sessions :
        \/ \E t \in Sessions : <>[](reaping = t /\ Blocked(t))
        \/ Indexed(s) /\ sessions[s].longLived /\ Expired(sessions[s], now) ~> ~Indexed(s)

(* No client is left in readLoop on a session that has ended, unless the   *)
(* write that should tell it so, of close or of the Attach that replaced   *)
(* it, keeps the goroutine for ever.                                       *)
ReadersLeave ==
    \A c \in Conns :
        \/ \E s \in Sessions : <>[](InNotify(s) /\ victim[s] = c)
        \/ \E d \in Conns : <>[](pc[d] = "kick" /\ old[d] = c)
        \/ pc[c] = "reading" /\ closed[target[c]] ~> pc[c] = "done"

-----------------------------------------------------------------------------
(* What a document says and the code does not always do.                   *)

(* DESIGN_SESSIONS.md:430: a short session nobody is connected to is       *)
(* reclaimed once its time is up (or somebody comes back).                 *)
Abandoned(s) ==
    /\ Indexed(s) /\ ~sessions[s].longLived
    /\ conn[s] = None /\ sessions[s].expireAt <= MaxTime

AbandonedShortReaped == \A s \in Sessions : Abandoned(s) ~> ~Abandoned(s)

(* The same, if every write and every close returned.                      *)
PromptSpec ==
    /\ FairSpec
    /\ \A c \in Conns : WF_mgrVars(HandlerStep(c))
    /\ \A s \in Sessions : WF_mgrVars(CloseStep(s)) /\ WF_mgrVars(PumpCloses(s))
=============================================================================
