----------------------------- MODULE AuditStore -----------------------------
(***************************************************************************)
(* The audit directory (audit/store.go) and those who write, delete and    *)
(* read in it: Create and close (handler/manager.go), each through its     *)
(* recorder, the cleanup goroutine, a viewer of the audit API              *)
(* (handler/audit_api.go), Shutdown, and ScanAndFinalize at the next start *)
(* (main.go) after an exit or a crash.                                     *)
(*                                                                         *)
(* A recorder is what its file needs: lines on disk and lines still in     *)
(* memory (Recorder has the rest).  meta.json is replaced by a rename, in  *)
(* one step, or not at all: its errors are logged, or end a scan.          *)
(* Sessions are numbers, in the order of their creation, which is the      *)
(* order of List; the clock counts days.                                   *)
(***************************************************************************)
EXTENDS Integers, FiniteSets, FiniteSetsExt

CONSTANTS
    Sessions,
    Users,                          \* directories of users: the sessions in each
    RetentionDays, MaxTotalBytes,   \* 0: none; MaxTotalBytes in lines
    FailClosed,                     \* fail_closed
    Page,                           \* page of scanOwner
    Mixes,                          \* sets of "cleaner", "viewer", "event",
                                    \* "shutdown", "crash" and "errors": what
                                    \* there is, besides sessions, in one
                                    \* behaviour
    MaxDays, MaxLines, MaxStarts    \* bounds of the exploration

ASSUME StoreConstants ==
    /\ Sessions \subseteq Nat /\ IsFiniteSet(Sessions)
    /\ UNION Users = Sessions
    /\ \A u, v \in Users : u # v => u \cap v = {}
    /\ {RetentionDays, MaxTotalBytes, MaxDays, MaxLines, MaxStarts} \subseteq Nat
    /\ Page \in Nat \ {0}
    /\ FailClosed \in BOOLEAN

VARIABLES
    mix,        \* a member of Mixes, never changes
    server,     \* "boot", "up" or "off"
    starts,     \* how often it was started
    now,
    disk,       \* per session, its directory
    memory,     \* per session, lines its recorder has not written
    life,       \* per session, where Create or close is
    local,      \* m.local
    event,      \* sessions with an Event between snapshot and meta.json
    cleaner,    \* CleanOnce
    viewer,     \* a request of the audit API
    shutdown,   \* Shutdown, or how the server ended
    boot,       \* ScanAndFinalize: directories to do, and those left undone
    late,       \* sessions whose meta.json an Event wrote late (a history)
    young,      \* sessions that were scanned during their Create (a history)
    unended     \* sessions whose recorder could not write the end in its
                \* Close, since this start (a history)

diskVars == <<disk, memory>>
sessionVars == <<life, local, event>>
histories == <<late, young, unended>>
vars == <<mix, server, starts, now, diskVars, sessionVars, cleaner, viewer, shutdown, boot, histories>>

(* A directory: none, without meta.json, or with one that has no end yet   *)
(* ("open") or has one.                                                    *)
Absent == [meta |-> "absent"]
Listed == {s \in Sessions : disk[s].meta \in {"open", "ended"}}
Exists(s) == disk[s].meta # "absent"

Recording == {"opened", "refused", "running", "closing"}
Serving == server = "up"
IdleCleaner == [at |-> "idle"]
IdleViewer == [at |-> "idle"]
NoScan == [todo |-> {}, left |-> {}]

Init ==
    /\ mix \in Mixes
    /\ server = "up" /\ starts = 1 /\ now = 0
    /\ disk = [s \in Sessions |-> Absent]
    /\ memory = [s \in Sessions |-> 0]
    /\ life = [s \in Sessions |-> "none"]
    /\ local = {} /\ event = {}
    /\ cleaner = IdleCleaner /\ viewer = IdleViewer
    /\ shutdown = [at |-> "no"]
    /\ boot = NoScan
    /\ late = {} /\ young = {} /\ unended = {}

(* Writing a meta.json or reading a directory; where there are errors, the *)
(* code may find one and go on without.                                    *)
Succeeds == IF "errors" \in mix THEN BOOLEAN ELSE {TRUE}

Becomes(s, state) == life' = [life EXCEPT ![s] = state]

-----------------------------------------------------------------------------
(* Create.                                                                 *)

NotSession == UNCHANGED <<mix, server, starts, now, cleaner, viewer, shutdown, boot, histories>>

(* The directory and cast.log are there before meta.json.                  *)
OpenDirectory(s) ==
    /\ Serving /\ life[s] = "none"
    /\ \A t \in Sessions : t < s => life[t] # "none"
    /\ disk' = [disk EXCEPT ![s] = [meta |-> "none", size |-> 0, last |-> now]]
    /\ Becomes(s, "opening")
    /\ UNCHANGED <<memory, local, event>> /\ NotSession

OpenMeta(s) ==
    /\ life[s] = "opening"
    /\ disk' = [disk EXCEPT ![s].meta = "open"]
    /\ Becomes(s, "opened")
    /\ UNCHANGED <<memory, local, event>> /\ NotSession

(* meta.json cannot be written: no session, or one without a recording.    *)
OpenFails(s) ==
    /\ life[s] = "opening"
    /\ Becomes(s, IF FailClosed THEN "gone" ELSE "unrecorded")
    /\ UNCHANGED <<diskVars, local, event>> /\ NotSession

(* index.Add, then m.local, then the pump.                                 *)
Register(s) ==
    /\ life[s] = "opened"
    /\ local' = local \cup {s}
    /\ Becomes(s, "running")
    /\ UNCHANGED <<diskVars, event>> /\ NotSession

(* index.Add refuses; the recorder is closed.                              *)
Refuse(s) ==
    /\ life[s] = "opened"
    /\ Becomes(s, "refused")
    /\ UNCHANGED <<diskVars, local, event>> /\ NotSession

-----------------------------------------------------------------------------
(* The recorder of a session.                                              *)

RecordLine(s) ==
    /\ life[s] = "running"
    /\ memory[s] + (IF Exists(s) THEN disk[s].size ELSE 0) < MaxLines
    /\ memory' = [memory EXCEPT ![s] = @ + 1]
    /\ UNCHANGED <<disk, sessionVars>> /\ NotSession

(* Into a directory that was deleted, nothing is written.                  *)
Written(s) ==
    IF Exists(s) THEN [disk[s] EXCEPT !.size = @ + memory[s],
                                      !.last = IF memory[s] > 0 THEN now ELSE @]
    ELSE Absent

FlushLines(s) ==
    /\ life[s] \in {"running", "closing"} /\ memory[s] > 0
    /\ disk' = [disk EXCEPT ![s] = Written(s)]
    /\ memory' = [memory EXCEPT ![s] = 0]
    /\ UNCHANGED sessionVars /\ NotSession

(* Event took its snapshot while the recorder was open ...                 *)
EventSnapshot(s) ==
    /\ "event" \in mix /\ life[s] \in {"running", "closing"} /\ s \notin event
    /\ event' = event \cup {s}
    /\ UNCHANGED <<diskVars, life, local>> /\ NotSession

(* ... and writes it, maybe over what Close wrote, or fails to.            *)
EventWrite(s) ==
    /\ s \in event
    /\ event' = event \ {s}
    /\ \E saved \in Succeeds :
         IF saved /\ disk[s].meta = "ended"
         THEN /\ disk' = [disk EXCEPT ![s] = [meta |-> "open", size |-> @.size, last |-> @.ended]]
              /\ late' = late \cup {s}
         ELSE UNCHANGED <<disk, late>>
    /\ UNCHANGED <<mix, server, starts, now, memory, life, local, cleaner, viewer, shutdown, boot, young, unended>>

Ended(dir, at) == [meta |-> "ended", size |-> dir.size, ended |-> at]

(* rec.Close: the last lines, then the end of the session.  An error of    *)
(* its meta.json is only logged: the session goes on to its end.           *)
FinishRecording(s) ==
    /\ life[s] \in {"closing", "refused"}
    /\ \E saved \in Succeeds :
         /\ disk' = [disk EXCEPT ![s] = IF saved /\ Exists(s) THEN Ended(Written(s), now)
                                        ELSE Written(s)]
         /\ unended' = IF saved THEN unended ELSE unended \cup {s}
    /\ memory' = [memory EXCEPT ![s] = 0]
    /\ Becomes(s, IF life[s] = "refused" THEN "gone" ELSE "finished")
    /\ UNCHANGED <<mix, server, starts, now, local, event, cleaner, viewer, shutdown, boot, late, young>>

-----------------------------------------------------------------------------
(* close.                                                                  *)

(* Mutant of CloseClaim: m.local forgets the session at the beginning.     *)
CloseClaimForgets(s) ==
    /\ s \in local /\ life[s] = "running"
    /\ local' = local \ {s}
    /\ Becomes(s, "closing")
    /\ UNCHANGED <<diskVars, event>> /\ NotSession

(* By a request, the GC or the pump: the session is closed, not forgotten. *)
CloseClaim(s) ==
    /\ s \in local /\ life[s] = "running"
    /\ Becomes(s, "closing")
    /\ UNCHANGED <<diskVars, local, event>> /\ NotSession

(* Mutant of CloseForget: the session stays in m.local.                    *)
CloseForgetNot(s) ==
    /\ life[s] = "finished"
    /\ Becomes(s, "gone")
    /\ UNCHANGED <<diskVars, local, event>> /\ NotSession

CloseForget(s) ==
    /\ life[s] = "finished"
    /\ local' = local \ {s}
    /\ Becomes(s, "gone")
    /\ UNCHANGED <<diskVars, event>> /\ NotSession

-----------------------------------------------------------------------------
(* CleanOnce.                                                              *)

NotCleaner == UNCHANGED <<mix, server, starts, now, memory, sessionVars, viewer, shutdown, boot, late, unended>>

CleanBegin ==
    /\ "cleaner" \in mix /\ Serving /\ cleaner.at = "idle" /\ RetentionDays + MaxTotalBytes > 0
    /\ cleaner' = [at |-> "scan", now |-> now, users |-> Users, todo |-> {}, cands |-> {}]
    /\ UNCHANGED <<disk, young>> /\ NotCleaner

(* The directories of one user; if they cannot be read, the user is        *)
(* skipped.                                                                *)
CleanUser(u) ==
    /\ cleaner.at = "scan" /\ cleaner.todo = {} /\ u \in cleaner.users
    /\ \E read \in Succeeds :
         cleaner' = [cleaner EXCEPT !.users = @ \ {u}, !.todo = {s \in u : read /\ Exists(s)}]
    /\ UNCHANGED <<disk, young>> /\ NotCleaner

Candidate(s) ==
    [s |-> s, size |-> disk[s].size,
     ended |-> IF disk[s].meta = "ended" THEN disk[s].ended ELSE -1]

(* Mutant of CleanScan: isActive is not asked.                             *)
CleanScanAll(s) ==
    /\ cleaner.at = "scan" /\ s \in cleaner.todo
    /\ cleaner' = [cleaner EXCEPT !.todo = @ \ {s},
                                  !.cands = IF s \in Listed THEN @ \cup {Candidate(s)} ELSE @]
    /\ UNCHANGED <<disk, young>> /\ NotCleaner

(* One directory: an active session or an unreadable meta.json is skipped. *)
CleanScan(s) ==
    /\ cleaner.at = "scan" /\ s \in cleaner.todo
    /\ \E read \in Succeeds :
         cleaner' = [cleaner EXCEPT !.todo = @ \ {s},
                                    !.cands = IF read /\ s \in Listed /\ s \notin local
                                              THEN @ \cup {Candidate(s)} ELSE @]
    /\ young' = IF life[s] = "opened" THEN young \cup {s} ELSE young
    /\ UNCHANGED disk /\ NotCleaner

CleanScanned ==
    /\ cleaner.at = "scan" /\ cleaner.users = {} /\ cleaner.todo = {}
    /\ cleaner' = [cleaner EXCEPT !.at = "retain"]
    /\ UNCHANGED <<disk, young>> /\ NotCleaner

(* Mutant of Expired: a recording without an end is as old as can be.      *)
ExpiredUnended(c) == RetentionDays > 0 /\ cleaner.now - c.ended > RetentionDays

Expired(c) == RetentionDays > 0 /\ c.ended >= 0 /\ cleaner.now - c.ended > RetentionDays

Delete(c) ==
    /\ disk' = [disk EXCEPT ![c.s] = Absent]
    /\ cleaner' = [cleaner EXCEPT !.cands = @ \ {c}]

CleanExpired(c) ==
    /\ cleaner.at = "retain" /\ c \in cleaner.cands /\ Expired(c)
    /\ Delete(c)
    /\ UNCHANGED young /\ NotCleaner

CleanRetained ==
    /\ cleaner.at = "retain" /\ \A c \in cleaner.cands : ~Expired(c)
    /\ cleaner' = [cleaner EXCEPT !.at = "quota"]
    /\ UNCHANGED <<disk, young>> /\ NotCleaner

OverQuota ==
    MaxTotalBytes > 0 /\ MapThenSumSet(LAMBDA c : c.size, cleaner.cands) > MaxTotalBytes

(* endedLess: one without an end comes first.                              *)
OldestFirst(c) == \A d \in cleaner.cands : c.ended <= d.ended

CleanQuota(c) ==
    /\ cleaner.at = "quota" /\ c \in cleaner.cands /\ OverQuota /\ OldestFirst(c)
    /\ Delete(c)
    /\ UNCHANGED young /\ NotCleaner

CleanEnd ==
    /\ cleaner.at = "quota" /\ ~OverQuota
    /\ cleaner' = IdleCleaner
    /\ UNCHANGED <<disk, young>> /\ NotCleaner

(* os.RemoveAll failed: the rest is left to the next time.                 *)
CleanFails ==
    /\ cleaner.at \in {"retain", "quota"}
    /\ cleaner' = IdleCleaner
    /\ UNCHANGED <<disk, young>> /\ NotCleaner

Clean ==
    \/ CleanBegin \/ CleanScanned \/ CleanRetained \/ CleanEnd \/ CleanFails
    \/ \E u \in Users : CleanUser(u)
    \/ \E s \in Sessions : CleanScan(s)
    \/ cleaner.at # "idle" /\ \E c \in cleaner.cands : CleanExpired(c) \/ CleanQuota(c)

-----------------------------------------------------------------------------
(* A viewer: resolveMeta, then the handler of cast or download.            *)

NotViewer ==
    UNCHANGED <<mix, server, starts, now, diskVars, sessionVars, cleaner, shutdown, boot, histories>>

(* The owner's path: ReadMeta.                                             *)
ViewOwn(s) ==
    /\ "viewer" \in mix /\ Serving /\ viewer.at = "idle" /\ s \in Listed
    /\ viewer' = [at |-> "check", s |-> s]
    /\ NotViewer

(* An auditor's path: scanOwner goes through the pages of List.            *)
ViewAny(s) ==
    /\ "viewer" \in mix /\ Serving /\ viewer.at = "idle"
    /\ viewer' = [at |-> "scan", s |-> s, offset |-> 0, there |-> s \in Listed, had |-> Listed]
    /\ NotViewer

(* List: the newest first, counted from 0.                                 *)
Rank(s) == Cardinality({t \in Listed : t > s})

OnPage == viewer.s \in Listed /\ Rank(viewer.s) - viewer.offset \in 0..(Page - 1)

(* Mutant of ViewPage: the offset goes one page further than it was read.  *)
ViewPageSkipping ==
    /\ viewer.at = "scan"
    /\ LET next == viewer.offset + Page + 1
       IN viewer' = IF OnPage THEN [at |-> "check", s |-> viewer.s]
                    ELSE IF next >= Cardinality(Listed) THEN [viewer EXCEPT !.at = "missed"]
                    ELSE [viewer EXCEPT !.offset = next, !.had = @ \cup Listed]
    /\ NotViewer

ViewPage ==
    /\ viewer.at = "scan"
    /\ LET next == viewer.offset + Page
       IN viewer' = IF OnPage THEN [at |-> "check", s |-> viewer.s]
                    ELSE IF next >= Cardinality(Listed) THEN [viewer EXCEPT !.at = "missed"]
                    ELSE [viewer EXCEPT !.offset = next, !.had = @ \cup Listed]
    /\ NotViewer

(* IsActive: 409.                                                          *)
ViewCheck ==
    /\ viewer.at = "check"
    /\ viewer' = IF viewer.s \in local THEN IdleViewer
                 ELSE [at |-> "read", s |-> viewer.s, early |-> life[viewer.s] \in {"opened", "refused"}]
    /\ NotViewer

ViewRead ==
    /\ viewer.at = "read"
    /\ viewer' = IF Exists(viewer.s)
                 THEN [at |-> "served", s |-> viewer.s, early |-> viewer.early,
                       live |-> life[viewer.s] \in Recording]
                 ELSE IdleViewer
    /\ NotViewer

ViewEnd ==
    /\ viewer.at \in {"served", "missed"}
    /\ viewer' = IdleViewer
    /\ NotViewer

-----------------------------------------------------------------------------
(* The server: Shutdown, the end of the process, and the next start.       *)

NotServer == UNCHANGED <<mix, server, starts, now, diskVars, cleaner, viewer, boot, histories>>

(* The sessions to close are those of this moment.                         *)
ShutdownBegin ==
    /\ "shutdown" \in mix /\ Serving /\ shutdown.at = "no"
    /\ shutdown' = [at |-> "closing", todo |-> local, own |-> {}, had |-> local]
    /\ UNCHANGED sessionVars /\ NotServer

(* close returns at once for a session another goroutine is closing.       *)
ShutdownClose(s) ==
    /\ shutdown.at = "closing" /\ s \in shutdown.todo /\ shutdown.own = {}
    /\ IF s \in local /\ life[s] = "running"
       THEN /\ Becomes(s, "closing")
            /\ shutdown' = [shutdown EXCEPT !.todo = @ \ {s}, !.own = {s}]
       ELSE /\ UNCHANGED life
            /\ shutdown' = [shutdown EXCEPT !.todo = @ \ {s}]
    /\ UNCHANGED <<local, event>> /\ NotServer

ShutdownClosed ==
    /\ shutdown.at = "closing" /\ shutdown.own # {}
    /\ \A s \in shutdown.own : life[s] = "gone"
    /\ shutdown' = [shutdown EXCEPT !.own = {}]
    /\ UNCHANGED sessionVars /\ NotServer

(* srv.Shutdown: ListenAndServe returns, and main with it.                 *)
ServerEnds(how, had) ==
    /\ server' = "off" /\ shutdown' = [at |-> how, had |-> had]
    /\ memory' = [s \in Sessions |-> 0]
    /\ life' = [s \in Sessions |-> IF life[s] = "none" THEN "none" ELSE "gone"]
    /\ local' = {} /\ event' = {}
    /\ cleaner' = IdleCleaner /\ viewer' = IdleViewer
    /\ boot' = NoScan
    /\ UNCHANGED <<mix, starts, now, disk, histories>>

Exit ==
    /\ shutdown.at = "closing" /\ shutdown.todo = {} /\ shutdown.own = {}
    /\ ServerEnds("exited", shutdown.had)

Crash == "crash" \in mix /\ server # "off" /\ ServerEnds("crashed", {})

NotBoot ==
    UNCHANGED <<mix, now, memory, sessionVars, cleaner, viewer, late, young>>

(* A directory without meta.json is skipped by the scan.                   *)
Start ==
    /\ server = "off" /\ starts < MaxStarts
    /\ server' = "boot" /\ starts' = starts + 1
    /\ boot' = [todo |-> Listed, left |-> {}]
    /\ shutdown' = [at |-> "no"] /\ unended' = {}
    /\ UNCHANGED disk /\ NotBoot

(* The time of the last line of cast.log, or else of the file.             *)
lastCastTime(s) == disk[s].last

(* Mutant of Finalize: the end is written although there is one.           *)
FinalizeAll(s) ==
    /\ server = "boot" /\ s \in boot.todo
    /\ disk' = [disk EXCEPT ![s] = Ended(disk[s], now)]
    /\ boot' = [boot EXCEPT !.todo = @ \ {s}]
    /\ UNCHANGED <<server, starts, shutdown, unended>> /\ NotBoot

(* Mutant of Finalize: an empty cast.log is taken for no recording.        *)
FinalizeLines(s) ==
    /\ server = "boot" /\ s \in boot.todo
    /\ disk' = IF disk[s].meta = "open" /\ disk[s].size > 0
               THEN [disk EXCEPT ![s] = Ended(disk[s], lastCastTime(s))]
               ELSE disk
    /\ boot' = [boot EXCEPT !.todo = @ \ {s}]
    /\ UNCHANGED <<server, starts, shutdown, unended>> /\ NotBoot

(* A recording without an end ends with its last line.                     *)
Finalize(s) ==
    /\ server = "boot" /\ s \in boot.todo
    /\ disk' = IF disk[s].meta = "open"
               THEN [disk EXCEPT ![s] = Ended(disk[s], lastCastTime(s))]
               ELSE disk
    /\ boot' = [boot EXCEPT !.todo = @ \ {s}]
    /\ UNCHANGED <<server, starts, shutdown, unended>> /\ NotBoot

(* The directory of a user that cannot be read is skipped, without a word. *)
BootSkips(u) ==
    /\ "errors" \in mix /\ server = "boot" /\ u \cap Listed \subseteq boot.todo
    /\ boot' = [todo |-> boot.todo \ u, left |-> boot.left \cup (boot.todo \cap u)]
    /\ UNCHANGED <<server, starts, disk, shutdown, unended>> /\ NotBoot

(* An error ends the scan and is logged; the server starts anyway.         *)
BootEnds ==
    /\ server = "boot"
    /\ server' = "up"
    /\ boot' = [todo |-> {}, left |-> boot.left \cup boot.todo]
    /\ UNCHANGED <<starts, disk, shutdown, unended>> /\ NotBoot

NextDay ==
    /\ now < MaxDays
    /\ now' = now + 1
    /\ UNCHANGED <<mix, server, starts, diskVars, sessionVars, cleaner, viewer, shutdown, boot, histories>>

Session(s) ==
    \/ OpenDirectory(s) \/ OpenMeta(s) \/ OpenFails(s) \/ Register(s) \/ Refuse(s)
    \/ RecordLine(s) \/ FlushLines(s) \/ EventSnapshot(s) \/ EventWrite(s)
    \/ CloseClaim(s) \/ FinishRecording(s) \/ CloseForget(s)

Viewer ==
    \/ \E s \in Sessions : ViewOwn(s) \/ ViewAny(s)
    \/ ViewPage \/ ViewCheck \/ ViewRead \/ ViewEnd

Server ==
    \/ ShutdownBegin \/ ShutdownClosed \/ Exit \/ Crash \/ Start \/ BootEnds
    \/ \E s \in Sessions : ShutdownClose(s) \/ Finalize(s)
    \/ \E u \in Users : BootSkips(u)

Next == (\E s \in Sessions : Session(s)) \/ Clean \/ Viewer \/ Server \/ NextDay

Spec == Init /\ [][Next]_vars

-----------------------------------------------------------------------------
(* Properties.                                                             *)

Directories ==
    {Absent} \cup [meta : {"none", "open"}, size : Nat, last : Nat]
             \cup [meta : {"ended"}, size : Nat, ended : Nat]

Candidates == [s : Sessions, size : Nat, ended : Nat \cup {-1}]

Cleaners ==
    {IdleCleaner} \cup [at : {"scan", "retain", "quota"}, now : Nat, users : SUBSET Users,
                        todo : SUBSET Sessions, cands : SUBSET Candidates]

Viewers ==
    {IdleViewer}
    \cup [at : {"scan", "missed"}, s : Sessions, offset : Nat, there : BOOLEAN, had : SUBSET Sessions]
    \cup [at : {"check"}, s : Sessions]
    \cup [at : {"read"}, s : Sessions, early : BOOLEAN]
    \cup [at : {"served"}, s : Sessions, early : BOOLEAN, live : BOOLEAN]

Shutdowns ==
    {[at |-> "no"]}
    \cup [at : {"closing"}, todo : SUBSET Sessions, own : SUBSET Sessions, had : SUBSET Sessions]
    \cup [at : {"exited", "crashed"}, had : SUBSET Sessions]

Held == {"running", "closing", "finished"}
Lives == Recording \cup {"none", "opening", "unrecorded", "finished", "gone"}

TypeOK ==
    /\ server \in {"boot", "up", "off"} /\ starts \in Nat /\ now \in Nat
    /\ disk \in [Sessions -> Directories] /\ memory \in [Sessions -> Nat]
    /\ life \in [Sessions -> Lives]
    /\ local \subseteq {s \in Sessions : life[s] \in Held}
    /\ \A group \in {event, late, young, unended} : group \subseteq Sessions
    /\ cleaner \in Cleaners /\ viewer \in Viewers /\ shutdown \in Shutdowns
    /\ boot \in [todo : SUBSET Sessions, left : SUBSET Sessions]

(* The cleanup never takes the recording of a session that runs, though it *)
(* decides from a list it made before; only one that was still in Create   *)
(* when it was listed, and so not in m.local, may be lost.                 *)
LiveRecordingKept == \A s \in local : Exists(s) \/ s \in young

(* Whatever ended the process, once the server is up again a recording     *)
(* without an end is one of its own sessions - unless an Event wrote its   *)
(* older meta.json over that of Close, the Close of this run of the server *)
(* could not write the end, or the scan at the start did not get to its    *)
(* directory: a user skipped, or an error before it.                       *)
UnfinishedIsLive ==
    Serving => \A s \in Sessions : disk[s].meta = "open" =>
        life[s] \in Recording \/ s \in late \cup unended \cup boot.left

Unretained(dir) == dir.meta = "ended" /\ now - dir.ended > RetentionDays
InUse == MapThenSumSet(LAMBDA s : disk[s].size, Listed)

EndUnchanged(s) ==
    disk[s].meta = "ended" /\ disk'[s].meta # "absent" => disk'[s] = disk[s] \/ s \in late'

Removed(s) == Exists(s) /\ disk'[s].meta = "absent"

OutOfRetention(s) == RetentionDays > 0 /\ (Unretained(disk[s]) \/ s \in late)

(* The end of a recording is written once, and no scan at a later start    *)
(* changes it; a directory goes only if its recording is out of retention  *)
(* or the directory as a whole is over the quota.                          *)
EndKept ==
    [][\A s \in Sessions :
          /\ EndUnchanged(s)
          /\ Removed(s) => \/ OutOfRetention(s)
                           \/ MaxTotalBytes > 0 /\ InUse > MaxTotalBytes]_vars

(* A viewer is never served a recording that is being written, except one  *)
(* that was asked for during its Create.                                   *)
ServedWhole == viewer.at = "served" /\ viewer.live => viewer.early

(* An auditor is told that there is no such recording, although there was  *)
(* and is, only when another one was deleted between two pages.            *)
MissedExplained ==
    viewer.at = "missed" /\ viewer.there /\ viewer.s \in Listed =>
        ~(viewer.had \subseteq Listed)

-----------------------------------------------------------------------------
(* The inductive invariant behind them.                                    *)

(* Without a meta.json that was ever there: List and the cleanup do not    *)
(* know the session yet, and never will if its recorder could not start.   *)
Unheard == {"none", "opening", "unrecorded"}

(* What is on disk, and who knows of it, follows from how far the session  *)
(* came; outside of the time the server is up there is nobody.             *)
LifeConsistent ==
    /\ \A s \in Sessions :
         /\ life[s] \in Held => s \in local
         /\ life[s] \in Unheard => disk[s].meta \in {"absent", "none"} /\ s \notin young
         /\ life[s] = "none" => disk[s] = Absent
         /\ life[s] = "opening" => disk[s].meta = "none"
         /\ life[s] \in Recording => disk[s].meta \in {"absent", "open"}
         /\ life[s] \in {"opened"} \cup Held => Exists(s) \/ s \in young
    /\ ~Serving => /\ \A s \in Sessions : life[s] \in {"none", "gone"}
                  /\ event = {} /\ cleaner = IdleCleaner /\ viewer = IdleViewer

EndsAt(s, day) == disk[s].meta = "ended" /\ disk[s].ended = day

(* What CleanOnce holds is of sessions that are over, or were in Create;   *)
(* the end it noted is the one on disk, if there is one.                   *)
CandidatesSound ==
    cleaner.at # "idle" =>
        /\ cleaner.now <= now
        /\ \A c \in cleaner.cands :
             /\ c.s \in young \/ life[c.s] \in {"refused", "gone"}
             /\ life[c.s] \notin Unheard
             /\ c.ended >= 0 => disk[c.s] = Absent \/ c.s \in late \/ EndsAt(c.s, c.ended)

(* Its list holds no directory twice, and only such as are there and have  *)
(* not become smaller since they were listed; what is still to be listed   *)
(* is not on it.                                                           *)
ListCurrent ==
    cleaner.at # "idle" =>
        /\ \A u \in cleaner.users : u \cap cleaner.todo = {}
        /\ \A c \in cleaner.cands :
             /\ c.s \in Listed /\ c.size <= disk[c.s].size
             /\ c.s \notin cleaner.todo /\ \A u \in cleaner.users : c.s \notin u
             /\ \A d \in cleaner.cands : d.s = c.s => d = c

(* A recording without an end has one who will write it - its session, or  *)
(* the scan of this or the next start - or one who should have and failed. *)
UnfinishedHasReason ==
    \A s \in Sessions : disk[s].meta = "open" =>
        \/ life[s] \in Recording \/ s \in late \cup unended
        \/ server = "off"
        \/ s \in boot.left
        \/ server = "boot" /\ s \in boot.todo

(* Between IsActive and the file, the session a viewer asked for can only  *)
(* go on to its end.                                                       *)
ViewerSound ==
    /\ viewer.at \in {"check", "read"} => life[viewer.s] \notin Unheard
    /\ viewer.at = "read" /\ ~viewer.early => life[viewer.s] = "gone"
    /\ ServedWhole

(* As long as nothing that scanOwner saw is deleted, what it looks for is  *)
(* not before the page it asks for next.                                   *)
ScanSound ==
    /\ viewer.at \in {"scan", "missed"} =>
         /\ \A t \in viewer.had : life[t] \notin Unheard
         /\ viewer.there => viewer.s \in viewer.had
    /\ viewer.at = "scan" /\ viewer.there /\ viewer.s \in Listed /\ viewer.had \subseteq Listed =>
         viewer.offset <= Cardinality({t \in viewer.had : t > viewer.s})
    /\ MissedExplained

IndInv ==
    /\ TypeOK /\ LifeConsistent /\ CandidatesSound /\ ListCurrent
    /\ UnfinishedHasReason /\ ViewerSound /\ ScanSound

-----------------------------------------------------------------------------
(* What the documents say and the code does not always do.                 *)

(* DESIGN_AUDIT.md, 6.3: closing the sessions first makes sure that every  *)
(* recording is finished; here, of the sessions that were there and whose  *)
(* recorder could write.                                                   *)
ShutdownFinishes ==
    shutdown.at = "exited" => \A s \in shutdown.had \ unended : disk[s].meta # "open"
=============================================================================
