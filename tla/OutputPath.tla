----------------------------- MODULE OutputPath -----------------------------
(***************************************************************************)
(* The way of the shell's output to the recorder and to the clients of one *)
(* session (handler/manager.go): pump and sendOutput against Attach,       *)
(* Detach and close.                                                       *)
(*                                                                         *)
(* What the pump reads in one go is a chunk, and chunks are numbered in    *)
(* the order they are read.  sMu guards closed, conn and pending.  Every   *)
(* write to a connection holds its writeMu, so a write is one step; it     *)
(* waits as long as the client does not read, because no deadline is set   *)
(* on it, and its error is ignored, so a write to a closed connection is   *)
(* lost.  The index is left to SessionManager.                             *)
(***************************************************************************)
EXTENDS Integers, Sequences, SequencesExt

CONSTANTS
    Conns,          \* WebSocket connections that attach to the session
    None,           \* nil
    MaxPending,     \* pendingMaxBytes, in chunks
    MaxChunks       \* bound of the exploration: chunks the shell writes

ASSUME OutputConstants ==
    /\ None \notin Conns
    /\ MaxPending \in Nat \ {0} /\ MaxChunks \in Nat

VARIABLES
    closed, conn, pending,      \* localSession
    shell,                      \* "running", "exited" or "closed" (proc.Close)
    recorder, recorded,         \* "open" or "closed", and what it was given
    pumpAt, chunk, to,          \* pump: where it is, the last chunk read, ac
    at, old, backlog,           \* per connection: Attach and its locals
    sock, stalled, received,    \* per connection: the socket and the client
    ending, victim              \* close(): the next step, ac

sessionVars == <<closed, conn, pending>>
recVars == <<recorder, recorded>>
pumpVars == <<pumpAt, chunk, to>>
attachVars == <<at, old, backlog>>
clientVars == <<sock, stalled, received>>
endVars == <<ending, victim>>
vars == <<sessionVars, shell, recVars, pumpVars, attachVars, clientVars, endVars>>

Init ==
    /\ closed = FALSE /\ conn = None /\ pending = <<>>
    /\ shell = "running"
    /\ recorder = "open" /\ recorded = <<>>
    /\ pumpAt = "read" /\ chunk = 0 /\ to = None
    /\ at = [c \in Conns |-> "idle"]
    /\ old = [c \in Conns |-> None]
    /\ backlog = [c \in Conns |-> <<>>]
    /\ sock = [c \in Conns |-> "open"]
    /\ stalled = [c \in Conns |-> FALSE]
    /\ received = [c \in Conns |-> <<>>]
    /\ ending = "no" /\ victim = None

(* A write returns once the client takes it, or at once with an error.     *)
WriteReturns(c) == sock[c] = "closed" \/ ~stalled[c]

Deliver(c, chunks) ==
    received' = IF sock[c] = "open" THEN [received EXCEPT ![c] = @ \o chunks] ELSE received

(* A close message, then conn.Close, under writeMu.                        *)
HangUp(c) == WriteReturns(c) /\ sock' = [sock EXCEPT ![c] = "closed"]

Goto(c, label) == at' = [at EXCEPT ![c] = label]

-----------------------------------------------------------------------------
(* pump and sendOutput.                                                    *)

(* What the shell wrote before it exited can still be read.                *)
PumpRead ==
    /\ pumpAt = "read" /\ shell # "closed" /\ chunk < MaxChunks
    /\ chunk' = chunk + 1
    /\ pumpAt' = "record"
    /\ UNCHANGED <<sessionVars, shell, recVars, to, attachVars, clientVars, endVars>>

(* Mutant of Record: the hook sits in writeTo, which a detached session    *)
(* never calls.                                                            *)
RecordWhenAttached ==
    /\ pumpAt = "record"
    /\ recorded' = IF recorder = "open" /\ conn # None THEN Append(recorded, chunk) ELSE recorded
    /\ pumpAt' = "route"
    /\ UNCHANGED <<sessionVars, shell, recorder, chunk, to, attachVars, clientVars, endVars>>

(* rec.WriteOutput; a closed recorder drops it.                            *)
Record ==
    /\ pumpAt = "record"
    /\ recorded' = IF recorder = "open" THEN Append(recorded, chunk) ELSE recorded
    /\ pumpAt' = "route"
    /\ UNCHANGED <<sessionVars, shell, recorder, chunk, to, attachVars, clientVars, endVars>>

RouteNowhere ==
    /\ pumpAt = "route" /\ closed
    /\ pumpAt' = "read"
    /\ UNCHANGED <<sessionVars, shell, recVars, chunk, to, attachVars, clientVars, endVars>>

RouteToConn ==
    /\ pumpAt = "route" /\ ~closed /\ conn # None
    /\ to' = conn
    /\ pumpAt' = "send"
    /\ UNCHANGED <<sessionVars, shell, recVars, chunk, attachVars, clientVars, endVars>>

(* Mutant of Trimmed: the wrong end of the slice is kept.                  *)
TrimmedAtTheEnd(seq) == IF Len(seq) > MaxPending THEN SubSeq(seq, 1, MaxPending) ELSE seq

(* Mutant of Trimmed: one more than the limit stays.                       *)
TrimmedLate(seq) == IF Len(seq) > MaxPending + 1 THEN Tail(seq) ELSE seq

(* The newest pendingMaxBytes are kept.                                    *)
Trimmed(seq) ==
    IF Len(seq) > MaxPending THEN SubSeq(seq, Len(seq) - MaxPending + 1, Len(seq)) ELSE seq

RouteToPending ==
    /\ pumpAt = "route" /\ ~closed /\ conn = None
    /\ pending' = Trimmed(Append(pending, chunk))
    /\ pumpAt' = "read"
    /\ UNCHANGED <<closed, conn, shell, recVars, chunk, to, attachVars, clientVars, endVars>>

(* writeTo the connection that was attached when sMu was held.             *)
Send ==
    /\ pumpAt = "send" /\ WriteReturns(to)
    /\ Deliver(to, <<chunk>>)
    /\ to' = None
    /\ pumpAt' = "read"
    /\ UNCHANGED <<sessionVars, shell, recVars, chunk, attachVars, sock, stalled, endVars>>

Pump == PumpRead \/ Record \/ RouteNowhere \/ RouteToConn \/ RouteToPending \/ Send

-----------------------------------------------------------------------------
(* Attach, readLoop and Detach of connection c.                            *)

(* Mutant of Swap: ls.pending = nil is missing.                            *)
SwapKeepsPending(c) ==
    /\ at[c] = "idle" /\ ~closed
    /\ old' = [old EXCEPT ![c] = conn]
    /\ conn' = c
    /\ backlog' = [backlog EXCEPT ![c] = pending]
    /\ Goto(c, "kick")
    /\ UNCHANGED <<closed, pending, shell, recVars, pumpVars, clientVars, endVars>>

(* Under sMu: the connection is swapped in and the backlog taken.          *)
Swap(c) ==
    /\ at[c] = "idle" /\ ~closed
    /\ old' = [old EXCEPT ![c] = conn]
    /\ conn' = c
    /\ backlog' = [backlog EXCEPT ![c] = pending]
    /\ pending' = <<>>
    /\ Goto(c, "kick")
    /\ UNCHANGED <<closed, shell, recVars, pumpVars, clientVars, endVars>>

Refuse(c) ==
    /\ at[c] = "idle" /\ closed
    /\ HangUp(c)
    /\ Goto(c, "done")
    /\ UNCHANGED <<sessionVars, shell, recVars, pumpVars, old, backlog, stalled, received, endVars>>

Kick(c) ==
    /\ at[c] = "kick"
    /\ IF old[c] = None THEN UNCHANGED sock ELSE HangUp(old[c])
    /\ old' = [old EXCEPT ![c] = None]
    /\ Goto(c, "flush")
    /\ UNCHANGED <<sessionVars, shell, recVars, pumpVars, backlog, stalled, received, endVars>>

(* Mutant of Flush: the backlog goes out in blocks, writeMu is let go of   *)
(* in between (what the comment in Attach says was done before).           *)
FlushInBlocks(c) ==
    /\ at[c] = "flush"
    /\ IF backlog[c] = <<>> THEN UNCHANGED <<received, backlog>> /\ Goto(c, "announce")
       ELSE /\ WriteReturns(c)
            /\ Deliver(c, <<Head(backlog[c])>>)
            /\ backlog' = [backlog EXCEPT ![c] = Tail(@)]
            /\ UNCHANGED at
    /\ UNCHANGED <<sessionVars, shell, recVars, pumpVars, old, sock, stalled, endVars>>

(* The whole backlog in one message.                                       *)
Flush(c) ==
    /\ at[c] = "flush"
    /\ backlog[c] # <<>> => WriteReturns(c)
    /\ Deliver(c, backlog[c])
    /\ backlog' = [backlog EXCEPT ![c] = <<>>]
    /\ Goto(c, "announce")
    /\ UNCHANGED <<sessionVars, shell, recVars, pumpVars, old, sock, stalled, endVars>>

(* The session message.                                                    *)
Announce(c) ==
    /\ at[c] = "announce" /\ WriteReturns(c)
    /\ Goto(c, "reading")
    /\ UNCHANGED <<sessionVars, shell, recVars, pumpVars, old, backlog, clientVars, endVars>>

(* readLoop returns, sock closed or not, and Detach clears its own conn.   *)
DetachClear(c) ==
    /\ at[c] = "reading"
    /\ conn' = IF conn = c THEN None ELSE conn
    /\ Goto(c, "done")
    /\ UNCHANGED <<closed, pending, shell, recVars, pumpVars, old, backlog, clientVars, endVars>>

Attaching(c) == Kick(c) \/ Flush(c) \/ Announce(c)

-----------------------------------------------------------------------------
(* The client: it stops reading, takes up again, or goes away.             *)

ClientStalls(c) ==
    /\ at[c] # "idle" /\ sock[c] = "open" /\ ~stalled[c]
    /\ stalled' = [stalled EXCEPT ![c] = TRUE]
    /\ UNCHANGED <<sessionVars, shell, recVars, pumpVars, attachVars, sock, received, endVars>>

ClientResumes(c) ==
    /\ sock[c] = "open" /\ stalled[c]
    /\ stalled' = [stalled EXCEPT ![c] = FALSE]
    /\ UNCHANGED <<sessionVars, shell, recVars, pumpVars, attachVars, sock, received, endVars>>

ClientGone(c) ==
    /\ at[c] # "idle" /\ sock[c] = "open"
    /\ sock' = [sock EXCEPT ![c] = "closed"]
    /\ UNCHANGED <<sessionVars, shell, recVars, pumpVars, attachVars, stalled, received, endVars>>

Client(c) == ClientStalls(c) \/ ClientResumes(c) \/ ClientGone(c)

-----------------------------------------------------------------------------
(* close(), from step 2 on.                                                *)

Take ==
    /\ ~closed
    /\ closed' = TRUE
    /\ victim' = conn /\ conn' = None
    /\ ending' = "notify"

(* By the reaper, a request or Shutdown.                                   *)
CloseByOther ==
    /\ Take
    /\ UNCHANGED <<pending, shell, recVars, pumpVars, attachVars, clientVars>>

ShellExits ==
    /\ shell = "running"
    /\ shell' = "exited"
    /\ UNCHANGED <<sessionVars, recVars, pumpVars, attachVars, clientVars, endVars>>

(* proc.Read fails, and the pump itself calls close.                       *)
PumpEnds ==
    /\ pumpAt = "read" /\ shell \in {"exited", "closed"}
    /\ pumpAt' = "done"
    /\ \/ Take
       \/ closed /\ UNCHANGED <<closed, conn, endVars>>
    /\ UNCHANGED <<pending, shell, recVars, chunk, to, attachVars, clientVars>>

(* Step 4. *)
Notify ==
    /\ ending = "notify"
    /\ IF victim = None THEN UNCHANGED sock ELSE HangUp(victim)
    /\ victim' = None
    /\ ending' = "shell"
    /\ UNCHANGED <<sessionVars, shell, recVars, pumpVars, attachVars, stalled, received>>


(* Step 5. *)
CloseShell ==
    /\ ending = "shell"
    /\ shell' = "closed"
    /\ ending' = "recorder"
    /\ UNCHANGED <<sessionVars, recVars, pumpVars, attachVars, clientVars, victim>>

(* Step 5.5. *)
CloseRecorder ==
    /\ ending = "recorder"
    /\ recorder' = "closed"
    /\ ending' = "gone"
    /\ UNCHANGED <<sessionVars, shell, recorded, pumpVars, attachVars, clientVars, victim>>

CloseSteps == Notify \/ CloseShell \/ CloseRecorder

-----------------------------------------------------------------------------
Next ==
    \/ Pump \/ PumpEnds
    \/ \E c \in Conns :
          Swap(c) \/ Refuse(c) \/ Attaching(c) \/ DetachClear(c) \/ Client(c)
    \/ ShellExits \/ CloseByOther \/ CloseSteps

Spec == Init /\ [][Next]_vars

(* Goroutines run.  A stalled client sooner or later reads again or is     *)
(* dropped by TCP; a write that waits for it may find it stalled again and *)
(* again, but what it has read by then is enough for the write to end.     *)
FairSpec ==
    /\ Spec
    /\ SF_vars(Pump) /\ WF_vars(PumpEnds) /\ SF_vars(CloseSteps)
    /\ \A c \in Conns : SF_vars(Attaching(c))
    /\ \A c \in Conns : WF_vars(stalled[c] /\ (ClientResumes(c) \/ ClientGone(c)))

-----------------------------------------------------------------------------
Chunks == 1..MaxChunks

(* Every variable has its type (the fields of localSession, the locals of  *)
(* pump, sendOutput, Attach and close).                                    *)
TypeOK ==
    /\ closed \in BOOLEAN /\ conn \in Conns \cup {None}
    /\ pending \in Seq(Chunks) /\ Len(pending) <= MaxPending
    /\ shell \in {"running", "exited", "closed"}
    /\ recorder \in {"open", "closed"} /\ recorded \in Seq(Chunks)
    /\ pumpAt \in {"read", "record", "route", "send", "done"}
    /\ chunk \in 0..MaxChunks /\ to \in Conns \cup {None}
    /\ at \in [Conns -> {"idle", "kick", "flush", "announce", "reading", "done"}]
    /\ old \in [Conns -> Conns \cup {None}]
    /\ backlog \in [Conns -> Seq(Chunks)]
    /\ sock \in [Conns -> {"open", "closed"}] /\ stalled \in [Conns -> BOOLEAN]
    /\ received \in [Conns -> Seq(Chunks)]
    /\ ending \in {"no", "notify", "shell", "recorder", "gone"}
    /\ victim \in Conns \cup {None}

Seen(c) == Range(received[c])

(* Whatever connections come and go, no client is given a chunk twice and  *)
(* no two clients are given the same one (Attach takes the backlog with    *)
(* the swap, sendOutput picks one connection).                             *)
NoDuplicates ==
    \A c \in Conns :
        /\ IsInjective(received[c])
        /\ \A d \in Conns \ {c} : Seen(c) \cap Seen(d) = {}

InBacklogs == UNION {Range(backlog[c]) : c \in Conns}
InHand == IF pumpAt \in {"record", "route", "send"} THEN {chunk} ELSE {}
InFlight == Range(pending) \cup InBacklogs \cup InHand

(* A chunk only gets lost for a reason: its connection was dead when it    *)
(* was written, the session was closed when sendOutput looked, or the      *)
(* backlog was full and it was the oldest there.                           *)
LossExplained ==
    \A k \in InFlight \ InFlight' :
       \/ \E c \in Conns : k \in Seen(c)'
       \/ \E c \in Conns : sock[c] = "closed" /\ (to = c \/ k \in Range(backlog[c]))
       \/ closed /\ k = chunk
       \/ Len(pending) = MaxPending /\ k = Head(pending)

NoSilentLoss == [][LossExplained]_vars

(* The backlog arrives as one piece: what a client sees is the output in   *)
(* order except that, once, the backlog comes after output that is newer   *)
(* than all of it (Attach's single write).                                 *)
BacklogInOnePiece ==
    \A c \in Conns : LET got == received[c] IN
        \A i \in 1..(Len(got) - 1) : got[i] > got[i + 1] =>
            \A j \in 1..i : got[j] > got[i + 1] /\ (j < i => got[j] < got[j + 1])

(* The recording has no gap before its end, and whatever any client was    *)
(* shown is in it: sendOutput records first, and close() sets ls.closed    *)
(* before it closes the recorder.                                          *)
RecordingCoversClients ==
    /\ \A i \in 1..Len(recorded) : recorded[i] = i
    /\ \A c \in Conns : Seen(c) \subseteq Range(recorded)


-----------------------------------------------------------------------------
(* The inductive invariant that the safety properties follow from.         *)

Holding == pumpAt \in {"record", "route", "send"}

(* What is waiting or was written: no longer in the pump's hands.          *)
Stored == Range(pending) \cup UNION {Range(backlog[c]) \cup Seen(c) : c \in Conns}

Increasing(seq) == \A i, j \in 1..Len(seq) : i < j => seq[i] < seq[j]

(* Who is where: a connection is idle until it is swapped in, close and    *)
(* the recorder go together, and a backlog is taken along to the flush.    *)
PlacesConsistent ==
    /\ pumpAt = "send" <=> to # None
    /\ Holding => chunk > 0
    /\ closed <=> ending # "no"
    /\ recorder = "closed" <=> ending = "gone"
    /\ \A c \in Conns :
          /\ at[c] = "idle" => conn # c /\ to # c /\ received[c] = <<>>
          /\ at[c] \notin {"kick", "flush"} => backlog[c] = <<>>

(* The recorder is ahead of everybody else.                                *)
RecordedFirst ==
    /\ \A i \in 1..Len(recorded) : recorded[i] = i
    /\ Len(recorded) <= chunk
    /\ recorder = "open" => Len(recorded) = IF pumpAt = "record" THEN chunk - 1 ELSE chunk
    /\ pumpAt = "send" \/ (pumpAt = "route" /\ ~closed) => Len(recorded) = chunk
    /\ \A k \in Stored : k <= Len(recorded) /\ (Holding => k < chunk)

(* Every chunk is in one place.                                            *)
InOnePlace ==
    \A c \in Conns :
        /\ IsInjective(received[c])
        /\ Range(pending) \cap (Range(backlog[c]) \cup Seen(c)) = {}
        /\ \A d \in Conns :
              /\ Range(backlog[c]) \cap Seen(d) = {}
              /\ c # d => /\ Range(backlog[c]) \cap Range(backlog[d]) = {}
                          /\ Seen(c) \cap Seen(d) = {}

(* Until the flush a client gets only what is newer than its backlog.      *)
OldestWaits ==
    /\ Increasing(pending)
    /\ \A c \in Conns :
          /\ Increasing(backlog[c])
          /\ \A older \in Range(backlog[c]), newer \in Seen(c) : older < newer
          /\ at[c] \in {"kick", "flush"} => Increasing(received[c])

IndInv ==
    /\ TypeOK /\ PlacesConsistent /\ RecordedFirst /\ InOnePlace /\ OldestWaits
    /\ BacklogInOnePiece
=============================================================================
