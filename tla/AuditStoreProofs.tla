-------------------------- MODULE AuditStoreProofs --------------------------
(***************************************************************************)
(* What AuditStore.tla claims of Spec, for any sessions, limits, page and  *)
(* bounds of the exploration.  The inductive invariant is IndInv: first    *)
(* its types, then one lemma per part of it, one step per action that can  *)
(* disturb the part, then the theorems.                                    *)
(***************************************************************************)
EXTENDS AuditStore, FoldProofs

-----------------------------------------------------------------------------
(* Directories.                                                            *)

LEMMA DirectoryKinds ==
    ASSUME NEW d \in Directories
    PROVE  \/ d = Absent /\ d.meta = "absent"
           \/ /\ d \in [meta : {"none", "open"}, size : Nat, last : Nat]
              /\ d.meta \in {"none", "open"} /\ d.size \in Nat /\ d.last \in Nat
           \/ /\ d \in [meta : {"ended"}, size : Nat, ended : Nat]
              /\ d.meta = "ended" /\ d.size \in Nat /\ d.ended \in Nat
BY DEF Directories, Absent

LEMMA EndedType ==
    ASSUME NEW d \in Directories, d # Absent, NEW at \in Nat
    PROVE  Ended(d, at) \in Directories /\ Ended(d, at).meta = "ended"
BY DirectoryKinds DEF Ended, Directories

(* What a flush writes: it leaves the meta.json alone.                     *)
LEMMA WrittenType ==
    ASSUME TypeOK, NEW s \in Sessions, disk[s].meta # "ended"
    PROVE  /\ Written(s) \in Directories
           /\ Written(s).meta = disk[s].meta
           /\ disk[s] = Absent => Written(s) = Absent
<1>1. disk[s] \in Directories /\ memory[s] \in Nat /\ now \in Nat
  BY DEF TypeOK
<1>2. CASE disk[s] = Absent
  BY <1>1, <1>2 DEF Written, Exists, Absent, Directories
<1>3. CASE disk[s] \in [meta : {"none", "open"}, size : Nat, last : Nat]
  <2> DEFINE size == disk[s].size + memory[s]
             last == IF memory[s] > 0 THEN now ELSE disk[s].last
  <2>1. size \in Nat /\ last \in Nat /\ disk[s].meta \in {"none", "open"}
    BY <1>1, <1>3
  <2>2. Written(s) = [disk[s] EXCEPT !.size = size, !.last = last]
    BY <2>1 DEF Written, Exists
  <2>3. disk[s] # Absent
    BY <2>1 DEF Absent
  <2> HIDE DEF size, last
  <2>4. /\ Written(s) \in [meta : {"none", "open"}, size : Nat, last : Nat]
        /\ Written(s).meta = disk[s].meta
    BY <1>3, <2>1, <2>2
  <2>5. QED
    BY <2>3, <2>4 DEF Directories
<1>4. QED
  BY <1>1, <1>2, <1>3, DirectoryKinds

-----------------------------------------------------------------------------
(* Types.                                                                  *)

LEMMA TypeInit ==
    ASSUME Init
    PROVE  TypeOK
BY DEF Init, TypeOK, Directories, Lives, Recording, Cleaners, Viewers, Shutdowns,
       IdleCleaner, IdleViewer, NoScan, Absent

(* Each session's own actions: its directory, its recorder, its close.     *)
LEMMA TypeSession ==
    ASSUME TypeOK, LifeConsistent, NEW s \in Sessions, Session(s)
    PROVE  TypeOK'
<1> USE DEF TypeOK, Becomes, NotSession, diskVars, sessionVars, histories, Lives, Recording, Held
<1>1. CASE OpenDirectory(s)
  <2>1. [meta |-> "none", size |-> 0, last |-> now] \in Directories
    BY DEF Directories
  <2>2. QED
    BY <1>1, <2>1 DEF OpenDirectory
<1>2. CASE OpenMeta(s)
  <2>1. disk[s].meta = "none"
    BY <1>2 DEF OpenMeta, LifeConsistent
  <2>2. [disk[s] EXCEPT !.meta = "open"] \in Directories
    BY <2>1, DirectoryKinds DEF Directories
  <2>3. QED
    BY <1>2, <2>2 DEF OpenMeta
<1>3. CASE OpenFails(s)
  BY <1>3 DEF OpenFails
<1>4. CASE Register(s)
  BY <1>4 DEF Register
<1>5. CASE Refuse(s)
  BY <1>5 DEF Refuse
<1>6. CASE RecordLine(s)
  BY <1>6 DEF RecordLine
<1>7. CASE FlushLines(s)
  <2>1. disk[s].meta # "ended"
    BY <1>7 DEF FlushLines, LifeConsistent
  <2>2. Written(s) \in Directories
    BY <2>1, WrittenType
  <2>3. QED
    BY <1>7, <2>2 DEF FlushLines
<1>8. CASE EventSnapshot(s)
  BY <1>8 DEF EventSnapshot
<1>9. CASE EventWrite(s)
  <2>1. CASE disk[s].meta = "ended" /\ disk' # disk
    <3>1. [meta |-> "open", size |-> disk[s].size, last |-> disk[s].ended] \in Directories
      BY <2>1, DirectoryKinds DEF Directories
    <3>2. QED
      BY <1>9, <2>1, <3>1 DEF EventWrite
  <2>2. CASE disk[s].meta # "ended" \/ disk' = disk
    BY <1>9, <2>2 DEF EventWrite
  <2>3. QED
    BY <2>1, <2>2
<1>10. CASE CloseClaim(s)
  BY <1>10 DEF CloseClaim
<1>11. CASE FinishRecording(s)
  <2>1. disk[s].meta # "ended"
    BY <1>11 DEF FinishRecording, LifeConsistent
  <2>2. Written(s) \in Directories
    BY <2>1, WrittenType
  <2>2a. Exists(s) => Ended(Written(s), now) \in Directories
    <3> SUFFICES ASSUME Exists(s)  PROVE Ended(Written(s), now) \in Directories
      OBVIOUS
    <3>1. disk[s].meta # "absent"
      BY DEF Exists
    <3>2. Written(s).meta # "absent"
      BY <2>1, <3>1, WrittenType
    <3>3. Written(s) # Absent
      BY <3>2 DEF Absent
    <3>4. now \in Nat
      OBVIOUS
    <3>5. QED
      BY <2>2, <3>3, <3>4, EndedType
  <2>3. disk' \in [Sessions -> Directories] /\ unended' \subseteq Sessions
    BY <1>11, <2>2, <2>2a DEF FinishRecording
  <2>4. life' \in [Sessions -> Lives] /\ memory' \in [Sessions -> Nat]
    BY <1>11 DEF FinishRecording
  <2>5. local' \subseteq {t \in Sessions : life'[t] \in Held}
    BY <1>11 DEF FinishRecording
  <2>6. QED
    BY <1>11, <2>3, <2>4, <2>5 DEF FinishRecording
<1>12. CASE CloseForget(s)
  BY <1>12 DEF CloseForget
<1>13. QED
  BY <1>1, <1>2, <1>3, <1>4, <1>5, <1>6, <1>7, <1>8, <1>9, <1>10, <1>11, <1>12 DEF Session

LEMMA CandidateType ==
    ASSUME TypeOK, NEW s \in Listed
    PROVE  /\ Candidate(s) \in Candidates /\ Candidate(s).s = s
           /\ Candidate(s).ended >= 0 => EndsAt(s, Candidate(s).ended)
<1>1. s \in Sessions /\ disk[s] \in Directories /\ disk[s].meta \in {"open", "ended"}
  BY DEF TypeOK, Listed
<1>2. QED
  BY <1>1, DirectoryKinds DEF Candidate, Candidates, EndsAt

(* The cleanup goroutine.                                                  *)
LEMMA TypeClean ==
    ASSUME TypeOK, Clean
    PROVE  TypeOK'
<1> USE DEF TypeOK, NotCleaner, sessionVars, Cleaners, IdleCleaner
<1>1. CASE CleanBegin
  BY <1>1 DEF CleanBegin
<1>1a. ASSUME NEW u \in Users, CleanUser(u)
      PROVE  TypeOK'
  <2>1. PICK found : cleaner' = [cleaner EXCEPT !.users = @ \ {u}, !.todo = found] /\ found \subseteq u
    BY <1>1a DEF CleanUser
  <2>2. found \in SUBSET Sessions
    BY <2>1, StoreConstants
  <2>3. cleaner \in [at : {"scan", "retain", "quota"}, now : Nat, users : SUBSET Users,
                     todo : SUBSET Sessions, cands : SUBSET Candidates]
    BY <1>1a DEF CleanUser
  <2>4. cleaner' \in Cleaners
    BY <2>1, <2>2, <2>3
  <2>5. QED
    BY <1>1a, <2>4 DEF CleanUser
<1>2. CASE CleanScanned
  BY <1>2 DEF CleanScanned
<1>3. CASE CleanRetained
  BY <1>3 DEF CleanRetained
<1>4. CASE CleanEnd
  BY <1>4 DEF CleanEnd
<1>5. CASE CleanFails
  BY <1>5 DEF CleanFails
<1>6. ASSUME NEW s \in Sessions, CleanScan(s)
      PROVE  TypeOK'
  <2>1. cleaner \in [at : {"scan", "retain", "quota"}, now : Nat, users : SUBSET Users,
                     todo : SUBSET Sessions, cands : SUBSET Candidates]
    BY <1>6 DEF CleanScan
  <2>2. PICK added : /\ added \subseteq {Candidate(t) : t \in {s} \cap Listed}
                     /\ cleaner' = [cleaner EXCEPT !.todo = @ \ {s}, !.cands = @ \cup added]
    <3>1. PICK read \in BOOLEAN :
            cleaner' = [cleaner EXCEPT !.todo = @ \ {s},
                                       !.cands = IF read /\ s \in Listed /\ s \notin local
                                                 THEN @ \cup {Candidate(s)} ELSE @]
      BY <1>6 DEF CleanScan, Succeeds
    <3>2. CASE read /\ s \in Listed /\ s \notin local
      BY <3>1, <3>2
    <3>3. CASE ~(read /\ s \in Listed /\ s \notin local)
      <4>1. cleaner' = [cleaner EXCEPT !.todo = @ \ {s}, !.cands = @ \cup {}]
        BY <3>1, <3>3
      <4>2. QED
        BY <4>1
    <3>4. QED
      BY <3>2, <3>3
  <2>3. added \subseteq Candidates
    BY <2>2, CandidateType
  <2>4. cleaner' \in Cleaners
    BY <2>1, <2>2, <2>3
  <2>5. young' \subseteq Sessions
    BY <1>6 DEF CleanScan
  <2>6. QED
    BY <1>6, <2>4, <2>5 DEF CleanScan
<1>7. ASSUME NEW c \in cleaner.cands, cleaner.at # "idle", CleanExpired(c) \/ CleanQuota(c)
      PROVE  TypeOK'
  <2>1. c \in Candidates /\ c.s \in Sessions
    BY <1>7 DEF Candidates
  <2>2. Absent \in Directories
    BY DEF Directories
  <2>3. disk' \in [Sessions -> Directories] /\ cleaner' \in Cleaners
    BY <1>7, <2>1, <2>2 DEF CleanExpired, CleanQuota, Delete
  <2>4. QED
    BY <1>7, <2>3 DEF CleanExpired, CleanQuota, Delete
<1>8. QED
  BY <1>1, <1>2, <1>3, <1>4, <1>5, <1>6, <1>7, <1>1a DEF Clean

LEMMA TypeViewer ==
    ASSUME TypeOK, Viewer
    PROVE  TypeOK'
<1> USE DEF TypeOK, NotViewer, diskVars, sessionVars, histories, Viewers, IdleViewer
<1>1. Listed \subseteq Sessions
  BY DEF Listed
<1>2. ASSUME NEW s \in Sessions, ViewOwn(s) \/ ViewAny(s)
      PROVE  TypeOK'
  <2>1. CASE ViewOwn(s)
    BY <2>1 DEF ViewOwn
  <2>2. CASE ViewAny(s)
    <3>1. /\ 0 \in Nat /\ Listed \in SUBSET Sessions /\ (s \in Listed) \in BOOLEAN
      BY <1>1
    <3>2. viewer' \in [at : {"scan", "missed"}, s : Sessions, offset : Nat,
                       there : BOOLEAN, had : SUBSET Sessions]
      BY <2>2, <3>1, Zenon DEF ViewAny
    <3>3. QED
      BY <2>2, <3>2 DEF ViewAny
  <2>3. QED
    BY <1>2, <2>1, <2>2
<1>3. CASE ViewPage
  <2>1. viewer \in [at : {"scan", "missed"}, s : Sessions, offset : Nat,
                    there : BOOLEAN, had : SUBSET Sessions]
    BY <1>3 DEF ViewPage
  <2>2. viewer.offset + Page \in Nat /\ viewer.had \cup Listed \in SUBSET Sessions
    <3>1. viewer.offset \in Nat /\ viewer.had \in SUBSET Sessions /\ Page \in Nat
      BY <2>1, StoreConstants
    <3>2. QED
      BY <1>1, <3>1
  <2>3. \/ viewer' = [at |-> "check", s |-> viewer.s]
        \/ viewer' = [viewer EXCEPT !.at = "missed"]
        \/ viewer' = [viewer EXCEPT !.offset = viewer.offset + Page, !.had = viewer.had \cup Listed]
    BY <1>3, <2>1 DEF ViewPage
  <2>4. viewer' \in Viewers
    <3>1. CASE viewer' = [at |-> "check", s |-> viewer.s]
      BY <2>1, <3>1
    <3>2. CASE viewer' = [viewer EXCEPT !.at = "missed"]
      BY <2>1, <3>2
    <3>3. CASE viewer' = [viewer EXCEPT !.offset = viewer.offset + Page, !.had = viewer.had \cup Listed]
      BY <2>1, <2>2, <3>3
    <3>4. QED
      BY <2>3, <3>1, <3>2, <3>3
  <2>5. QED
    BY <1>3, <2>4 DEF ViewPage
<1>4. CASE ViewCheck
  <2>1. viewer.s \in Sessions
    BY <1>4 DEF ViewCheck
  <2>2. viewer' \in Viewers
    BY <1>4, <2>1 DEF ViewCheck
  <2>3. QED
    BY <1>4, <2>2 DEF ViewCheck
<1>5. CASE ViewRead
  BY <1>5 DEF ViewRead
<1>6. CASE ViewEnd
  BY <1>6 DEF ViewEnd
<1>7. QED
  BY <1>2, <1>3, <1>4, <1>5, <1>6 DEF Viewer

(* Shutdown, the end of the process and the next start.                    *)
LEMMA TypeServer ==
    ASSUME TypeOK, Server
    PROVE  TypeOK'
<1> USE DEF TypeOK, NotServer, NotBoot, diskVars, sessionVars, histories, Shutdowns
<1>1. local \subseteq Sessions
  OBVIOUS
<1>2. CASE ShutdownBegin
  BY <1>1, <1>2 DEF ShutdownBegin
<1>3. CASE ShutdownClosed
  BY <1>3 DEF ShutdownClosed
<1>4. ASSUME NEW how \in {"exited", "crashed"}, NEW had \in SUBSET Sessions, ServerEnds(how, had)
      PROVE  TypeOK'
  <2>1. life' \in [Sessions -> Lives] /\ memory' \in [Sessions -> Nat]
    BY <1>4 DEF ServerEnds, Lives
  <2>2. cleaner' \in Cleaners /\ viewer' \in Viewers
    BY <1>4 DEF ServerEnds, Cleaners, Viewers
  <2>3. QED
    BY <1>4, <2>1, <2>2 DEF ServerEnds, NoScan
<1>5. CASE Exit
  <2>1. shutdown.had \in SUBSET Sessions
    BY <1>5 DEF Exit
  <2>2. QED
    BY <1>4, <1>5, <2>1 DEF Exit
<1>6. CASE Crash
  <2>1. {} \in SUBSET Sessions
    OBVIOUS
  <2>2. QED
    BY <1>4, <1>6, <2>1 DEF Crash
<1>7. CASE Start
  BY <1>7 DEF Start, Listed
<1>8. CASE BootEnds \/ \E u \in Users : BootSkips(u)
  BY <1>8 DEF BootEnds, BootSkips
<1>9. ASSUME NEW s \in Sessions, ShutdownClose(s)
      PROVE  TypeOK'
  <2>1. shutdown' \in Shutdowns
    <3>1. shutdown \in [at : {"closing"}, todo : SUBSET Sessions,
                        own : SUBSET Sessions, had : SUBSET Sessions]
      BY <1>9 DEF ShutdownClose
    <3>2. shutdown.todo \ {s} \in SUBSET Sessions /\ {s} \in SUBSET Sessions
      BY <3>1
    <3>3. \/ shutdown' = [shutdown EXCEPT !.todo = shutdown.todo \ {s}, !.own = {s}]
          \/ shutdown' = [shutdown EXCEPT !.todo = shutdown.todo \ {s}]
      BY <1>9 DEF ShutdownClose
    <3>4. shutdown' \in [at : {"closing"}, todo : SUBSET Sessions,
                         own : SUBSET Sessions, had : SUBSET Sessions]
      BY <3>1, <3>2, <3>3
    <3>5. QED
      BY <3>4
  <2>2. life' \in [Sessions -> Lives] /\ \A t \in local : life'[t] \in Held
    BY <1>9 DEF ShutdownClose, Becomes, Lives, Recording, Held
  <2>3. QED
    BY <1>9, <2>1, <2>2 DEF ShutdownClose
<1>10. ASSUME NEW s \in Sessions, Finalize(s)
       PROVE  TypeOK'
  <2>1. CASE disk[s].meta = "open"
    <3>1. disk[s] # Absent /\ disk[s].last \in Nat
      BY <2>1, DirectoryKinds DEF Absent
    <3>2. Ended(disk[s], lastCastTime(s)) \in Directories
      BY <3>1, EndedType DEF lastCastTime
    <3>3. disk' \in [Sessions -> Directories]
      BY <1>10, <3>2 DEF Finalize
    <3>4. QED
      BY <1>10, <3>3 DEF Finalize
  <2>2. CASE disk[s].meta # "open"
    BY <1>10, <2>2 DEF Finalize
  <2>3. QED
    BY <2>1, <2>2
<1>11. QED
  BY <1>2, <1>3, <1>5, <1>6, <1>7, <1>8, <1>9, <1>10 DEF Server

LEMMA TypeStep ==
    ASSUME TypeOK, LifeConsistent, [Next]_vars
    PROVE  TypeOK'
<1>1. CASE NextDay
  BY <1>1 DEF NextDay, TypeOK, diskVars, sessionVars, histories
<1>2. CASE UNCHANGED vars
  BY <1>2 DEF TypeOK, vars, diskVars, sessionVars, histories
<1>3. QED
  BY <1>1, <1>2, TypeSession, TypeClean, TypeViewer, TypeServer DEF Next

-----------------------------------------------------------------------------
(* How far a session came, and what is on disk of it.                      *)

LEMMA LifeInit ==
    ASSUME Init
    PROVE  LifeConsistent
BY DEF Init, LifeConsistent, Held, Unheard, Recording, Absent, Serving, Exists

LEMMA LifeSession ==
    ASSUME TypeOK, LifeConsistent, NEW s \in Sessions, Session(s)
    PROVE  LifeConsistent'
<1> USE DEF TypeOK, LifeConsistent, Becomes, NotSession, diskVars, sessionVars, histories,
            Recording, Held, Unheard, Serving, Exists
<1>0. Absent.meta = "absent" /\ \A t \in Sessions : disk[t].meta = "absent" => disk[t] = Absent
  BY DirectoryKinds DEF Absent
<1>1. CASE OpenDirectory(s)
  BY <1>0, <1>1 DEF OpenDirectory
<1>2. CASE OpenMeta(s)
  BY <1>0, <1>2 DEF OpenMeta
<1>3. CASE OpenFails(s)
  BY <1>0, <1>3 DEF OpenFails
<1>4. CASE Register(s)
  BY <1>0, <1>4 DEF Register
<1>5. CASE Refuse(s)
  BY <1>0, <1>5 DEF Refuse
<1>6. CASE RecordLine(s)
  BY <1>6 DEF RecordLine
<1>7. CASE FlushLines(s)
  <2>1. disk[s].meta # "ended"
    BY <1>7 DEF FlushLines
  <2>2. Written(s).meta = disk[s].meta
    BY <2>1, WrittenType
  <2>3. QED
    BY <1>0, <1>7, <2>2 DEF FlushLines
<1>8. CASE EventSnapshot(s)
  BY <1>8 DEF EventSnapshot
<1>9. CASE EventWrite(s)
  BY <1>0, <1>9 DEF EventWrite
<1>10. CASE CloseClaim(s)
  BY <1>0, <1>10 DEF CloseClaim
<1>11. CASE FinishRecording(s)
  <2>1. disk[s].meta # "ended"
    BY <1>11 DEF FinishRecording
  <2>2. Written(s).meta = disk[s].meta
    BY <2>1, WrittenType
  <2>3. \/ disk' = [disk EXCEPT ![s] = Written(s)]
        \/ Exists(s) /\ disk' = [disk EXCEPT ![s] = Ended(Written(s), now)]
    BY <1>11 DEF FinishRecording
  <2>4. QED
    BY <1>0, <1>11, <2>2, <2>3 DEF FinishRecording, Ended
<1>12. CASE CloseForget(s)
  BY <1>0, <1>12 DEF CloseForget
<1>13. QED
  BY <1>1, <1>2, <1>3, <1>4, <1>5, <1>6, <1>7, <1>8, <1>9, <1>10, <1>11, <1>12 DEF Session

(* Only what CleanOnce holds is deleted, and that is not of a session that *)
(* still needs its directory.                                              *)
LEMMA CleanDeletes ==
    ASSUME TypeOK, CandidatesSound, NEW c \in cleaner.cands, cleaner.at # "idle", Delete(c)
    PROVE  /\ c \in Candidates /\ c.s \in Sessions
           /\ c.s \in young \/ life[c.s] \in {"refused", "gone"}
           /\ life[c.s] \notin Unheard
           /\ disk'[c.s] = Absent
           /\ \A s \in Sessions \ {c.s} : disk'[s] = disk[s]
<1>1. c \in Candidates /\ c.s \in Sessions
  BY DEF TypeOK, Cleaners, IdleCleaner, Candidates
<1>2. QED
  BY <1>1 DEF CandidatesSound, Delete, TypeOK

(* A session in young was there when the cleanup came by.                  *)
LEMMA LifeClean ==
    ASSUME TypeOK, LifeConsistent, CandidatesSound, Clean
    PROVE  LifeConsistent'
<1> USE DEF LifeConsistent, NotCleaner, sessionVars, Recording, Held, Unheard, Serving, Exists
<1>1. CASE CleanBegin \/ \E u \in Users : CleanUser(u)
  BY <1>1 DEF CleanBegin, CleanUser, IdleCleaner
<1>2. CASE CleanScanned
  BY <1>2 DEF CleanScanned, IdleCleaner
<1>3. CASE CleanRetained
  BY <1>3 DEF CleanRetained, IdleCleaner
<1>4. CASE CleanEnd
  BY <1>4 DEF CleanEnd
<1>5. CASE CleanFails
  BY <1>5 DEF CleanFails
<1>6. ASSUME NEW s \in Sessions, CleanScan(s)
      PROVE  LifeConsistent'
  BY <1>6 DEF CleanScan, IdleCleaner
<1>7. ASSUME NEW c \in cleaner.cands, cleaner.at # "idle", CleanExpired(c) \/ CleanQuota(c)
      PROVE  LifeConsistent'
  <2>1. Delete(c) /\ UNCHANGED <<server, life, local, event, young, viewer>> /\ Serving
    BY <1>7 DEF CleanExpired, CleanQuota, IdleCleaner
  <2>2. QED
    BY <1>7, <2>1, CleanDeletes DEF Absent
<1>8. QED
  BY <1>1, <1>2, <1>3, <1>4, <1>5, <1>6, <1>7 DEF Clean

LEMMA LifeServer ==
    ASSUME TypeOK, LifeConsistent, Server
    PROVE  LifeConsistent'
<1> USE DEF TypeOK, LifeConsistent, NotServer, NotBoot, diskVars, sessionVars, histories,
            Recording, Held, Unheard, Serving, Exists
<1>1. CASE ShutdownBegin
  BY <1>1 DEF ShutdownBegin
<1>2. CASE ShutdownClosed
  BY <1>2 DEF ShutdownClosed
<1>3. ASSUME NEW how, NEW had, ServerEnds(how, had)
      PROVE  LifeConsistent'
  BY <1>3 DEF ServerEnds
<1>4. CASE Exit \/ Crash
  BY <1>3, <1>4 DEF Exit, Crash
<1>5. CASE Start
  BY <1>5 DEF Start
<1>6. CASE BootEnds \/ \E u \in Users : BootSkips(u)
  BY <1>6 DEF BootEnds, BootSkips
<1>7. ASSUME NEW s \in Sessions, ShutdownClose(s)
      PROVE  LifeConsistent'
  BY <1>7 DEF ShutdownClose, Becomes
<1>8. ASSUME NEW s \in Sessions, Finalize(s)
      PROVE  LifeConsistent'
  BY <1>8 DEF Finalize, Ended, Absent
<1>9. QED
  BY <1>1, <1>2, <1>4, <1>5, <1>6, <1>7, <1>8 DEF Server

LEMMA LifeViewer ==
    ASSUME TypeOK, LifeConsistent, Viewer
    PROVE  LifeConsistent'
<1>1. UNCHANGED <<server, disk, life, local, event, young, cleaner>>
  BY DEF Viewer, ViewOwn, ViewAny, ViewPage, ViewCheck, ViewRead, ViewEnd, NotViewer,
         diskVars, sessionVars, histories
<1>2. Serving
  BY DEF Viewer, ViewOwn, ViewAny, ViewPage, ViewCheck, ViewRead, ViewEnd, LifeConsistent, IdleViewer
<1>3. QED
  BY <1>1, <1>2 DEF LifeConsistent, Serving, Exists

LEMMA LifeStep ==
    ASSUME TypeOK, LifeConsistent, CandidatesSound, [Next]_vars
    PROVE  LifeConsistent'
<1>1. CASE NextDay \/ UNCHANGED vars
  BY <1>1 DEF NextDay, vars, LifeConsistent, Serving, Exists, diskVars, sessionVars, histories
<1>2. QED
  BY <1>1, LifeSession, LifeClean, LifeServer, LifeViewer DEF Next

-----------------------------------------------------------------------------
(* How a directory may change in one step: it is created by a session of   *)
(* its own, and otherwise only gets its meta.json, its end or goes.        *)

DirectoryMoves(s) ==
    \/ disk'[s] = disk[s]
    \/ life[s] = "none" /\ life'[s] = "opening" /\ disk'[s].meta = "none"
    \/ life[s] = "opening" /\ life'[s] = "opened" /\ disk'[s].meta = "open"
    \/ disk[s].meta # "ended" /\ disk'[s].meta = disk[s].meta
    \/ disk[s].meta = "ended" /\ disk'[s].meta = "open" /\ s \in late'
    \/ life[s] \in {"closing", "refused"} /\ Exists(s) /\ disk'[s].meta = "ended"
    \/ server = "boot" /\ disk[s].meta = "open" /\ disk'[s].meta = "ended"
    \/ disk'[s] = Absent /\ Exists(s) /\ server = "up" /\ s \in young \cup {t \in Sessions : life[t] \in {"refused", "gone"}}

LEMMA DirectoryStep ==
    ASSUME TypeOK, LifeConsistent, CandidatesSound, [Next]_vars, NEW s \in Sessions
    PROVE  DirectoryMoves(s)
<1>1. ASSUME NEW t \in Sessions, Session(t)
      PROVE  DirectoryMoves(s)
  <2> USE DEF Becomes, NotSession, diskVars, sessionVars, histories, TypeOK
  <2>1. CASE disk' = disk
    BY <2>1 DEF DirectoryMoves
  <2>2. CASE OpenDirectory(t)
    BY <2>2 DEF OpenDirectory, DirectoryMoves
  <2>3. CASE OpenMeta(t)
    BY <2>3 DEF OpenMeta, DirectoryMoves, LifeConsistent
  <2>4. CASE FlushLines(t)
    <3>1. disk[t].meta # "ended"
      BY <2>4 DEF FlushLines, LifeConsistent, Recording
    <3>2. QED
      BY <2>4, <3>1, WrittenType DEF FlushLines, DirectoryMoves
  <2>5. CASE EventWrite(t)
    BY <2>5 DEF EventWrite, DirectoryMoves
  <2>6. CASE FinishRecording(t)
    <3>1. disk[t].meta # "ended" /\ Written(t).meta = disk[t].meta
      BY <2>6, WrittenType DEF FinishRecording, LifeConsistent, Recording
    <3>2. \/ disk' = [disk EXCEPT ![t] = Written(t)]
          \/ Exists(t) /\ disk' = [disk EXCEPT ![t] = Ended(Written(t), now)]
      BY <2>6 DEF FinishRecording
    <3>3. QED
      BY <2>6, <3>1, <3>2 DEF FinishRecording, DirectoryMoves, Ended
  <2>7. QED
    BY <1>1, <2>1, <2>2, <2>3, <2>4, <2>5, <2>6
       DEF Session, OpenFails, Register, Refuse, RecordLine, EventSnapshot, CloseClaim, CloseForget
<1>2. CASE Clean
  <2>1. CASE disk' = disk
    BY <2>1 DEF DirectoryMoves
  <2>2. ASSUME NEW c \in cleaner.cands, cleaner.at # "idle", CleanExpired(c) \/ CleanQuota(c)
        PROVE  DirectoryMoves(s)
    <3>1. Delete(c) /\ Serving
      BY <2>2 DEF CleanExpired, CleanQuota, LifeConsistent, IdleCleaner
    <3>2. CASE s = c.s /\ Exists(s)
      BY <2>2, <3>1, <3>2, CleanDeletes DEF DirectoryMoves, Serving
    <3>3. CASE s = c.s /\ ~Exists(s)
      BY <2>2, <3>1, <3>3, CleanDeletes, DirectoryKinds DEF DirectoryMoves, Exists, TypeOK
    <3>4. CASE s # c.s
      BY <2>2, <3>1, <3>4, CleanDeletes DEF DirectoryMoves
    <3>5. QED
      BY <3>2, <3>3, <3>4
  <2>3. QED
    BY <1>2, <2>1, <2>2 DEF Clean, CleanBegin, CleanUser, CleanScan, CleanScanned, CleanRetained, CleanEnd, CleanFails
<1>3. CASE Viewer
  BY <1>3 DEF Viewer, ViewOwn, ViewAny, ViewPage, ViewCheck, ViewRead, ViewEnd, NotViewer,
              diskVars, DirectoryMoves
<1>4. ASSUME NEW t \in Sessions, Finalize(t)
      PROVE  DirectoryMoves(s)
  BY <1>4 DEF Finalize, Ended, TypeOK, DirectoryMoves
<1>5. CASE Server
  BY <1>4, <1>5 DEF Server, ShutdownBegin, ShutdownClose, ShutdownClosed, Exit, Crash, Start, BootSkips, BootEnds,
                    ServerEnds, NotServer, diskVars, DirectoryMoves
<1>6. CASE NextDay \/ UNCHANGED vars
  BY <1>6 DEF NextDay, vars, diskVars, DirectoryMoves
<1>7. QED
  BY <1>1, <1>2, <1>3, <1>5, <1>6 DEF Next

(* What rec.Close leaves.                                                  *)
EndOrFailure(s) == disk'[s].meta \in {"absent", "ended"} \/ s \in unended'

(* How a session may go on in one step: forward, or to its end with the    *)
(* process.                                                                *)
LifeMoves(s) ==
    \/ life'[s] = life[s]
    \/ life[s] = "none" /\ life'[s] = "opening"
    \/ life[s] = "opening" /\ life'[s] \in {"opened", "unrecorded", "gone"}
    \/ life[s] = "opened" /\ life'[s] \in {"running", "refused"}
    \/ life[s] = "running" /\ life'[s] = "closing"
    \/ life[s] = "closing" /\ life'[s] = "finished" /\ EndOrFailure(s)
    \/ life[s] = "refused" /\ life'[s] = "gone" /\ EndOrFailure(s)
    \/ life[s] = "finished" /\ life'[s] = "gone"
    \/ life[s] # "none" /\ life'[s] = "gone" /\ server' = "off"

LEMMA SessionStep ==
    ASSUME TypeOK, LifeConsistent, [Next]_vars, NEW s \in Sessions
    PROVE  LifeMoves(s)
<1> USE DEF Becomes, NotSession, diskVars, sessionVars, histories, TypeOK
<1>1. ASSUME NEW t \in Sessions, Session(t)
      PROVE  LifeMoves(s)
  <2>1. CASE life' = life
    BY <2>1 DEF LifeMoves
  <2>2. CASE OpenDirectory(t) \/ OpenMeta(t) \/ OpenFails(t)
    BY <2>2 DEF OpenDirectory, OpenMeta, OpenFails, LifeMoves
  <2>3. CASE Register(t) \/ Refuse(t) \/ CloseClaim(t) \/ CloseForget(t)
    BY <2>3 DEF Register, Refuse, CloseClaim, CloseForget, LifeMoves
  <2>4. CASE FinishRecording(t)
    <3>1. Exists(t) \/ Written(t).meta = "absent"
      BY DEF Written, Absent
    <3>2. EndOrFailure(t)
      BY <2>4, <3>1 DEF FinishRecording, Ended, EndOrFailure
    <3>3. QED
      BY <2>4, <3>2 DEF FinishRecording, LifeMoves
  <2>5. QED
    BY <1>1, <2>1, <2>2, <2>3, <2>4 DEF Session, RecordLine, FlushLines, EventSnapshot, EventWrite
<1>2. CASE Clean
  BY <1>2 DEF Clean, CleanBegin, CleanUser, CleanScan, CleanScanned, CleanRetained, CleanExpired, CleanQuota,
              CleanEnd, CleanFails, NotCleaner, LifeMoves
<1>3. CASE Viewer
  BY <1>3 DEF Viewer, ViewOwn, ViewAny, ViewPage, ViewCheck, ViewRead, ViewEnd, NotViewer, LifeMoves
<1>4. CASE Server
  <2>1. CASE life' = life
    BY <2>1 DEF LifeMoves
  <2>2. CASE Exit \/ Crash
    BY <2>2 DEF Exit, Crash, ServerEnds, LifeMoves
  <2>3. ASSUME NEW t \in Sessions, ShutdownClose(t)
        PROVE  LifeMoves(s)
    BY <2>3 DEF ShutdownClose, LifeMoves
  <2>4. QED
    BY <1>4, <2>1, <2>2, <2>3 DEF Server, ShutdownBegin, ShutdownClosed, Start, BootSkips, BootEnds, Finalize, NotServer, NotBoot
<1>5. CASE NextDay \/ UNCHANGED vars
  BY <1>5 DEF NextDay, vars, LifeMoves
<1>6. QED
  BY <1>1, <1>2, <1>3, <1>4, <1>5 DEF Next

(* The clock and the histories only grow, but that of this start; young    *)
(* grows by a session that is in Create.                                   *)
LEMMA HistoryStep ==
    ASSUME TypeOK, [Next]_vars
    PROVE  /\ late \subseteq late' /\ young \subseteq young' /\ now \in Nat /\ now' \in Nat /\ now <= now'
           /\ server # "off" => unended \subseteq unended'
<1> USE DEF NotSession, diskVars, sessionVars, histories, TypeOK
<1>1. ASSUME NEW t \in Sessions, Session(t)
      PROVE  late \subseteq late' /\ unended \subseteq unended' /\ young' = young /\ now' = now
  BY <1>1 DEF Session, OpenDirectory, OpenMeta, OpenFails, Register, Refuse, RecordLine, FlushLines,
              EventSnapshot, EventWrite, CloseClaim, FinishRecording, CloseForget
<1>2. CASE Clean
  <2>1. now' = now /\ late' = late /\ unended' = unended
    BY <1>2 DEF Clean, CleanBegin, CleanUser, CleanScan, CleanScanned, CleanRetained, CleanExpired, CleanQuota,
                CleanEnd, CleanFails, NotCleaner
  <2>2. young \subseteq young'
    BY <1>2 DEF Clean, CleanBegin, CleanUser, CleanScan, CleanScanned, CleanRetained, CleanExpired, CleanQuota,
                CleanEnd, CleanFails
  <2>3. QED
    BY <2>1, <2>2
<1>3. CASE Viewer
  BY <1>3 DEF Viewer, ViewOwn, ViewAny, ViewPage, ViewCheck, ViewRead, ViewEnd, NotViewer
<1>4. CASE Server
  <2>1. UNCHANGED <<now, late, young>> /\ (server # "off" => unended' = unended)
    BY <1>4 DEF Server, ShutdownBegin, ShutdownClose, ShutdownClosed, Exit, Crash, ServerEnds, Start,
                BootSkips, BootEnds, Finalize, NotServer, NotBoot
  <2>2. QED
    BY <2>1
<1>5. CASE NextDay \/ UNCHANGED vars
  BY <1>5 DEF NextDay, vars
<1>6. QED
  BY <1>1, <1>2, <1>3, <1>4, <1>5 DEF Next

(* List gets longer only by a session in Create.                           *)
LEMMA ListedStep ==
    ASSUME TypeOK, LifeConsistent, CandidatesSound, [Next]_vars,
           NEW s \in Sessions, life[s] \notin Unheard
    PROVE  s \in Listed' => s \in Listed
<1>1. DirectoryMoves(s)
  BY DirectoryStep
<1>2. life[s] \in {"closing", "refused"} /\ Exists(s) => disk[s].meta = "open"
  BY DEF LifeConsistent, Recording, Exists
<1>3. QED
  BY <1>1, <1>2 DEF DirectoryMoves, Listed, Unheard, Absent

-----------------------------------------------------------------------------
(* What CleanOnce holds.                                                   *)

LEMMA CandidatesInit ==
    ASSUME Init
    PROVE  CandidatesSound
BY DEF Init, CandidatesSound, IdleCleaner

(* One candidate: what made it one does not change while it is held.       *)
CandidateSound(c) ==
    /\ c.s \in young \/ life[c.s] \in {"refused", "gone"}
    /\ life[c.s] \notin Unheard
    /\ c.ended >= 0 => disk[c.s] = Absent \/ c.s \in late \/ EndsAt(c.s, c.ended)

LEMMA CandidateStays ==
    ASSUME TypeOK, TypeOK', LifeConsistent, CandidatesSound, [Next]_vars,
           NEW c \in Candidates, CandidateSound(c)
    PROVE  CandidateSound(c)'
<1>1. c.s \in Sessions
  BY DEF Candidates
<1>2. LifeMoves(c.s) /\ DirectoryMoves(c.s)
  BY <1>1, SessionStep, DirectoryStep
<1>3. late \subseteq late' /\ young \subseteq young'
  BY HistoryStep
<1>4. life'[c.s] \notin Unheard /\ (c.s \in young' \/ life'[c.s] \in {"refused", "gone"})
  BY <1>2, <1>3 DEF CandidateSound, LifeMoves, Unheard
<1>5. ASSUME c.ended >= 0
      PROVE  disk'[c.s] = Absent \/ c.s \in late' \/ EndsAt(c.s, c.ended)'
  <2>1. CASE c.s \in late
    BY <1>3, <2>1
  <2>2. CASE disk[c.s] = Absent
    <3>1. disk'[c.s].meta = "absent" \/ disk'[c.s] = Absent
      BY <1>2, <2>2 DEF DirectoryMoves, CandidateSound, Unheard, Exists, Absent
    <3>2. QED
      BY <1>1, <3>1, DirectoryKinds DEF TypeOK
  <2>3. CASE EndsAt(c.s, c.ended)
    <3>1. life[c.s] \notin {"closing", "refused"}
      BY <1>1, <2>3 DEF LifeConsistent, Recording, EndsAt
    <3>2. disk'[c.s] = disk[c.s] \/ disk'[c.s] = Absent \/ c.s \in late'
      BY <1>2, <2>3, <3>1 DEF DirectoryMoves, CandidateSound, Unheard, EndsAt
    <3>3. QED
      BY <2>3, <3>2 DEF EndsAt
  <2>4. QED
    BY <1>5, <2>1, <2>2, <2>3 DEF CandidateSound
<1>6. QED
  BY <1>4, <1>5 DEF CandidateSound

(* The scan adds only what is listed and not active.                       *)
LEMMA CandidateNew ==
    ASSUME TypeOK, LifeConsistent, NEW s \in Listed, s \notin local,
           young' = IF life[s] = "opened" THEN young \cup {s} ELSE young,
           UNCHANGED <<life, disk, late>>
    PROVE  CandidateSound(Candidate(s))'
<1>1. s \in Sessions /\ disk[s].meta \in {"open", "ended"}
  BY DEF Listed
<1>2. life[s] \notin Unheard /\ life[s] \notin Held
  BY <1>1 DEF LifeConsistent
<1>3. life[s] \in {"opened", "refused", "gone"}
  BY <1>1, <1>2 DEF TypeOK, Lives, Recording, Unheard, Held
<1> DEFINE c == Candidate(s)
<1>4. c.s = s /\ (c.ended >= 0 => EndsAt(s, c.ended))
  BY CandidateType
<1>5. c' = c
  BY DEF Candidate
<1> HIDE DEF c
<1>6. CandidateSound(c)'
  BY <1>2, <1>3, <1>4, <1>5 DEF CandidateSound, EndsAt
<1>7. QED
  BY <1>6 DEF c

LEMMA CandidatesStep ==
    ASSUME TypeOK, TypeOK', LifeConsistent, CandidatesSound, [Next]_vars
    PROVE  CandidatesSound'
<1>1. now <= now' /\ now \in Nat /\ now' \in Nat
  BY HistoryStep
<1>2. ASSUME cleaner.at # "idle"
      PROVE  /\ cleaner.now <= now' /\ cleaner.cands \subseteq Candidates
             /\ \A c \in cleaner.cands : CandidateSound(c)'
  <2>1. cleaner.now \in Nat /\ cleaner.cands \subseteq Candidates
    BY <1>2 DEF TypeOK, Cleaners, IdleCleaner
  <2>2. cleaner.now <= now /\ \A c \in cleaner.cands : CandidateSound(c)
    BY <1>2 DEF CandidatesSound, CandidateSound
  <2>3. QED
    BY <1>1, <2>1, <2>2, CandidateStays
<1>3. CASE cleaner' = IdleCleaner
  BY <1>3 DEF CandidatesSound, IdleCleaner
<1>4. CASE cleaner' = cleaner
  BY <1>2, <1>4 DEF CandidatesSound, CandidateSound
<1>5. CASE CleanBegin
  BY <1>1, <1>5 DEF CleanBegin, NotCleaner, CandidatesSound
<1>6. ASSUME cleaner.at # "idle", cleaner'.now = cleaner.now, cleaner'.cands \subseteq cleaner.cands
      PROVE  CandidatesSound'
  BY <1>2, <1>6 DEF CandidatesSound, CandidateSound
<1>7. ASSUME NEW s \in Sessions, CleanScan(s)
      PROVE  CandidatesSound'
  <2>1. cleaner.at # "idle" /\ cleaner \in [at : {"scan", "retain", "quota"}, now : Nat, users : SUBSET Users,
                                            todo : SUBSET Sessions, cands : SUBSET Candidates]
    BY <1>7 DEF CleanScan, TypeOK, Cleaners, IdleCleaner
  <2>2. /\ cleaner'.now = cleaner.now
        /\ \/ cleaner'.cands = cleaner.cands
           \/ s \in Listed /\ s \notin local /\ cleaner'.cands = cleaner.cands \cup {Candidate(s)}
    BY <1>7, <2>1 DEF CleanScan
  <2>3. UNCHANGED <<life, disk, late>>
    BY <1>7 DEF CleanScan, NotCleaner, sessionVars
  <2>4. s \in Listed /\ s \notin local => CandidateSound(Candidate(s))'
    BY <1>7, <2>3, CandidateNew DEF CleanScan
  <2>5. Candidate(s)' = Candidate(s)
    BY <2>3 DEF Candidate
  <2>6. \A c \in cleaner'.cands : CandidateSound(c)'
    BY <1>2, <2>1, <2>2, <2>4, <2>5
  <2>7. QED
    BY <1>2, <2>1, <2>2, <2>6 DEF CandidatesSound, CandidateSound
<1>8. CASE Clean
  <2>1. ASSUME NEW c \in cleaner.cands, cleaner.at # "idle", Delete(c)
        PROVE  CandidatesSound'
    <3>1. cleaner \in [at : {"scan", "retain", "quota"}, now : Nat, users : SUBSET Users,
                       todo : SUBSET Sessions, cands : SUBSET Candidates]
      BY <2>1 DEF TypeOK, Cleaners, IdleCleaner
    <3>2. cleaner'.now = cleaner.now /\ cleaner'.cands \subseteq cleaner.cands
      BY <2>1, <3>1 DEF Delete
    <3>3. QED
      BY <1>6, <2>1, <3>2
  <2>2. CASE CleanScanned \/ CleanRetained \/ \E u \in Users : CleanUser(u)
    BY <1>6, <2>2 DEF CleanScanned, CleanRetained, CleanUser, TypeOK, Cleaners, IdleCleaner
  <2>3. QED
    BY <1>3, <1>5, <1>7, <1>8, <2>1, <2>2 DEF Clean, CleanExpired, CleanQuota, CleanEnd, CleanFails
<1>9. QED
  <2>1. ASSUME NEW s \in Sessions, Session(s)
        PROVE  cleaner' = cleaner
    BY <2>1 DEF Session, OpenDirectory, OpenMeta, OpenFails, Register, Refuse, RecordLine, FlushLines,
                EventSnapshot, EventWrite, CloseClaim, FinishRecording, CloseForget, NotSession
  <2>2. CASE Viewer
    BY <2>2, <1>4 DEF Viewer, ViewOwn, ViewAny, ViewPage, ViewCheck, ViewRead, ViewEnd, NotViewer
  <2>3. CASE Server
    BY <2>3, <1>3, <1>4 DEF Server, ShutdownBegin, ShutdownClose, ShutdownClosed, Exit, Crash,
                ServerEnds, Start, BootSkips, BootEnds, Finalize, NotServer, NotBoot
  <2>4. CASE NextDay \/ UNCHANGED vars
    BY <2>4, <1>4 DEF NextDay, vars
  <2>5. QED
    BY <1>4, <1>8, <2>1, <2>2, <2>3, <2>4 DEF Next

-----------------------------------------------------------------------------
(* Recordings without an end.                                              *)

(* The process ends, starts again, and its scan goes on or ends.           *)
ServerMoves ==
    \/ server' = server /\ boot' = boot
    \/ server' = "off"
    \/ server = "off" /\ server' = "boot" /\ disk' = disk /\ boot'.todo = Listed
    \/ /\ server = "boot" /\ server' = "boot" /\ boot'.left = boot.left
       /\ \E s \in Sessions : boot'.todo = boot.todo \ {s} /\ disk'[s].meta # "open"
    \/ /\ server = "boot" /\ server' \in {"boot", "up"} /\ disk' = disk
       /\ boot.todo \cup boot.left \subseteq boot'.left \cup IF server' = "boot" THEN boot'.todo ELSE {}

LEMMA ServerStep ==
    ASSUME TypeOK, [Next]_vars
    PROVE  ServerMoves
<1>1. ASSUME NEW s \in Sessions, Session(s)
      PROVE  server' = server /\ boot' = boot
  BY <1>1 DEF Session, OpenDirectory, OpenMeta, OpenFails, Register, Refuse, RecordLine, FlushLines,
              EventSnapshot, EventWrite, CloseClaim, FinishRecording, CloseForget, NotSession
<1>2. CASE Clean
  BY <1>2 DEF Clean, CleanBegin, CleanUser, CleanScan, CleanScanned, CleanRetained, CleanExpired, CleanQuota,
              CleanEnd, CleanFails, NotCleaner, ServerMoves
<1>3. CASE Viewer
  BY <1>3 DEF Viewer, ViewOwn, ViewAny, ViewPage, ViewCheck, ViewRead, ViewEnd, NotViewer, ServerMoves
<1>4. ASSUME NEW s \in Sessions, Finalize(s)
      PROVE  ServerMoves
  <2>1. server = "boot" /\ server' = "boot" /\ boot' = [boot EXCEPT !.todo = boot.todo \ {s}]
    BY <1>4 DEF Finalize
  <2>2. boot'.todo = boot.todo \ {s} /\ boot'.left = boot.left
    BY <2>1 DEF TypeOK
  <2>3. disk'[s].meta # "open"
    BY <1>4 DEF Finalize, Ended, TypeOK
  <2>4. QED
    BY <2>1, <2>2, <2>3 DEF ServerMoves
<1>5. CASE Server
  <2>1. CASE Start \/ BootEnds \/ \E u \in Users : BootSkips(u)
    BY <2>1 DEF Start, BootEnds, BootSkips, ServerMoves
  <2>2. CASE Exit \/ Crash
    BY <2>2 DEF Exit, Crash, ServerEnds, ServerMoves
  <2>3. QED
    BY <1>4, <1>5, <2>1, <2>2 DEF Server, ShutdownBegin, ShutdownClose, ShutdownClosed, NotServer, ServerMoves
<1>6. CASE NextDay \/ UNCHANGED vars
  BY <1>6 DEF NextDay, vars, ServerMoves
<1>7. QED
  BY <1>1, <1>2, <1>3, <1>5, <1>6 DEF Next, ServerMoves

LEMMA UnfinishedInit ==
    ASSUME Init
    PROVE  UnfinishedHasReason
BY DEF Init, UnfinishedHasReason, Absent

LEMMA UnfinishedStep ==
    ASSUME TypeOK, LifeConsistent, CandidatesSound, UnfinishedHasReason, [Next]_vars
    PROVE  UnfinishedHasReason'
<1> SUFFICES ASSUME NEW s \in Sessions, disk'[s].meta = "open", s \notin late' \cup unended',
                    server' # "off", life'[s] \notin Recording
             PROVE  s \in boot'.left \/ (server' = "boot" /\ s \in boot'.todo)
  BY DEF UnfinishedHasReason
<1>1. /\ DirectoryMoves(s) /\ LifeMoves(s) /\ ServerMoves /\ late \subseteq late'
      /\ server # "off" => unended \subseteq unended'
  BY DirectoryStep, SessionStep, ServerStep, HistoryStep
<1>2. disk[s].meta = "open"
  BY <1>1 DEF DirectoryMoves, Absent, Recording
<1>3. life[s] \notin Recording
  BY <1>1 DEF LifeMoves, EndOrFailure, Recording
<1>4. \/ server = "off"
      \/ s \in boot.left
      \/ server = "boot" /\ s \in boot.todo
  BY <1>1, <1>2, <1>3 DEF UnfinishedHasReason
<1>5. QED
  BY <1>1, <1>2, <1>4 DEF ServerMoves, Listed

-----------------------------------------------------------------------------
(* A viewer.                                                               *)

LEMMA ViewerInit ==
    ASSUME Init
    PROVE  ViewerSound /\ ScanSound
BY DEF Init, ViewerSound, ServedWhole, ScanSound, MissedExplained, IdleViewer

LEMMA ViewerMoves ==
    ASSUME [Next]_vars
    PROVE  viewer' = viewer \/ viewer' = IdleViewer \/ Viewer
<1>1. ASSUME NEW s \in Sessions, Session(s)
      PROVE  viewer' = viewer
  BY <1>1 DEF Session, OpenDirectory, OpenMeta, OpenFails, Register, Refuse, RecordLine, FlushLines,
              EventSnapshot, EventWrite, CloseClaim, FinishRecording, CloseForget, NotSession
<1>2. CASE Clean
  BY <1>2 DEF Clean, CleanBegin, CleanUser, CleanScan, CleanScanned, CleanRetained, CleanExpired, CleanQuota,
              CleanEnd, CleanFails, NotCleaner
<1>3. CASE Server
  BY <1>3 DEF Server, ShutdownBegin, ShutdownClose, ShutdownClosed, Exit, Crash,
              ServerEnds, Start, BootSkips, BootEnds, Finalize, NotServer, NotBoot
<1>4. CASE NextDay \/ UNCHANGED vars
  BY <1>4 DEF NextDay, vars
<1>5. QED
  BY <1>1, <1>2, <1>3, <1>4 DEF Next

LEMMA ViewerStep ==
    ASSUME TypeOK, LifeConsistent, ViewerSound, [Next]_vars
    PROVE  ViewerSound'
<1> USE DEF ViewerSound, ServedWhole
<1>1. CASE viewer' = viewer
  <2>1. CASE viewer.at \in {"check", "read"}
    <3>1. viewer.s \in Sessions
      BY <2>1 DEF TypeOK, Viewers, IdleViewer
    <3>2. LifeMoves(viewer.s)
      BY <3>1, SessionStep
    <3>3. QED
      BY <1>1, <2>1, <3>2 DEF LifeMoves, Unheard
  <2>2. CASE viewer.at \notin {"check", "read"}
    BY <1>1, <2>2
  <2>3. QED
    BY <2>1, <2>2
<1>2. CASE viewer' = IdleViewer
  BY <1>2 DEF IdleViewer
<1>3. CASE Viewer
  <2>1. UNCHANGED <<life, disk, local>>
    BY <1>3 DEF Viewer, ViewOwn, ViewAny, ViewPage, ViewCheck, ViewRead, ViewEnd, NotViewer,
           diskVars, sessionVars
  <2>2. \A s \in Listed : life[s] \notin Unheard
    BY DEF Listed, LifeConsistent
  <2>3. CASE viewer'.at \notin {"check", "read", "served"}
    BY <2>3
  <2>4. ASSUME NEW s \in Sessions, ViewOwn(s)
        PROVE  ViewerSound'
    BY <2>1, <2>2, <2>4 DEF ViewOwn
  <2>5. CASE ViewPage /\ OnPage
    BY <2>1, <2>2, <2>5 DEF ViewPage, OnPage
  <2>6. CASE ViewCheck
    <3>1. viewer.s \in Sessions /\ life[viewer.s] \notin Unheard
      BY <2>6 DEF ViewCheck, TypeOK, Viewers, IdleViewer
    <3>2. viewer.s \notin local => life[viewer.s] \in {"opened", "refused", "gone"}
      BY <3>1 DEF LifeConsistent, TypeOK, Lives, Recording, Unheard, Held
    <3>3. QED
      BY <2>1, <2>6, <3>1, <3>2 DEF ViewCheck, IdleViewer
  <2>7. CASE ViewRead
    BY <2>1, <2>7 DEF ViewRead, IdleViewer, Recording
  <2>8. ASSUME NEW s \in Sessions, ViewAny(s)
        PROVE  viewer'.at = "scan"
    BY <2>8 DEF ViewAny
  <2>9. CASE ViewPage /\ ~OnPage
    <3>1. viewer'.at \in {"scan", "missed"}
      BY <2>9 DEF ViewPage, TypeOK, Viewers, IdleViewer
    <3>2. QED
      BY <2>3, <3>1
  <2>10. CASE ViewEnd
    BY <2>3, <2>10 DEF ViewEnd, IdleViewer
  <2>11. QED
    BY <1>3, <2>3, <2>4, <2>5, <2>6, <2>7, <2>8, <2>9, <2>10 DEF Viewer
<1>4. QED
  BY <1>1, <1>2, <1>3, ViewerMoves

(* A page that does not hold what is listed lies before it, if the offset  *)
(* did not pass it yet: there is a next page, and that does not pass it.   *)
LEMMA PageBefore ==
    ASSUME NEW s \in Listed, NEW had \in SUBSET Listed, NEW offset \in Nat,
           offset <= Cardinality({t \in had : t > s}),
           Rank(s) - offset \notin 0..(Page - 1)
    PROVE  /\ offset + Page <= Rank(s)
           /\ offset + Page < Cardinality(Listed)
<1> DEFINE newer == {t \in Listed : t > s}
           seen == {t \in had : t > s}
<1>1. IsFiniteSet(Listed) /\ s \in Nat /\ Page \in Nat
  BY StoreConstants, FS_Subset DEF Listed
<1>2. IsFiniteSet(newer) /\ Cardinality(newer) \in Nat /\ Cardinality(Listed) \in Nat
  BY <1>1, FS_Subset, FS_CardinalityType
<1>3. Cardinality(seen) \in Nat /\ Cardinality(seen) <= Cardinality(newer)
  <2>1. seen \subseteq newer
    OBVIOUS
  <2>2. QED
    BY <1>2, <2>1, FS_Subset, FS_CardinalityType
<1>4. Cardinality(newer) + 1 <= Cardinality(Listed)
  <2>1. newer \cup {s} \subseteq Listed /\ s \notin newer
    BY <1>1
  <2>2. IsFiniteSet(newer \cup {s}) /\ Cardinality(newer \cup {s}) = Cardinality(newer) + 1
    BY <1>2, <2>1, FS_AddElement
  <2>3. QED
    BY <1>1, <2>1, <2>2, FS_Subset
<1>5. Rank(s) = Cardinality(newer)
  BY DEF Rank
<1>6. offset <= Cardinality(seen)
  OBVIOUS
<1> HIDE DEF newer, seen
<1>7. QED
  BY <1>1, <1>2, <1>3, <1>4, <1>5, <1>6

LEMMA ScanStep ==
    ASSUME TypeOK, LifeConsistent, CandidatesSound, ScanSound, [Next]_vars
    PROVE  ScanSound'
<1> USE DEF ScanSound, MissedExplained
<1>1. CASE viewer' = viewer
  <2>1. CASE viewer.at \in {"scan", "missed"}
    <3>1. viewer.had \subseteq Sessions /\ \A t \in viewer.had : life[t] \notin Unheard
      BY <2>1 DEF TypeOK, Viewers, IdleViewer
    <3>2. \A t \in viewer.had : life'[t] \notin Unheard
      BY <3>1, SessionStep DEF LifeMoves, Unheard
    <3>3. \A t \in viewer.had : t \in Listed' => t \in Listed
      BY <3>1, ListedStep
    <3>4. viewer.there => viewer.s \in viewer.had
      BY <2>1
    <3>5. QED
      BY <1>1, <2>1, <3>2, <3>3, <3>4
  <2>2. CASE viewer.at \notin {"scan", "missed"}
    BY <1>1, <2>2
  <2>3. QED
    BY <2>1, <2>2
<1>2. CASE viewer'.at \notin {"scan", "missed"}
  BY <1>2
<1>3. CASE Viewer
  <2>1. UNCHANGED <<life, disk>> /\ Listed' = Listed
    BY <1>3 DEF Viewer, ViewOwn, ViewAny, ViewPage, ViewCheck, ViewRead, ViewEnd, NotViewer,
           diskVars, sessionVars, Listed
  <2>2. Listed \subseteq Sessions /\ \A s \in Listed : life[s] \notin Unheard
    BY DEF Listed, LifeConsistent
  <2>3. ASSUME NEW s \in Sessions, ViewAny(s)
        PROVE  ScanSound'
    <3>1. /\ viewer'.at = "scan" /\ viewer'.s = s /\ viewer'.offset = 0
          /\ viewer'.there = (s \in Listed) /\ viewer'.had = Listed
      BY <2>3 DEF ViewAny
    <3>2. IsFiniteSet({t \in Listed : t > s})
      BY <2>2, StoreConstants, FS_Subset
    <3>3. 0 <= Cardinality({t \in Listed : t > s})
      BY <3>2, FS_CardinalityType
    <3>4. QED
      BY <2>1, <2>2, <3>1, <3>3
  <2>4. CASE ViewPage /\ ~OnPage
    <3> DEFINE off == viewer.offset  had == viewer.had
    <3>1. /\ viewer.at = "scan" /\ off \in Nat /\ had \subseteq Sessions
          /\ viewer \in [at : {"scan", "missed"}, s : Sessions, offset : Nat,
                         there : BOOLEAN, had : SUBSET Sessions]
      BY <2>4 DEF ViewPage, TypeOK, Viewers, IdleViewer
    <3>2. CASE viewer.there /\ viewer.s \in Listed /\ had \subseteq Listed
      <4>1. off <= Cardinality({t \in had : t > viewer.s})
        BY <3>1, <3>2
      <4>2. Rank(viewer.s) - off \notin 0..(Page - 1)
        BY <2>4, <3>2 DEF OnPage
      <4>3. off + Page <= Rank(viewer.s) /\ off + Page < Cardinality(Listed)
        BY <3>1, <3>2, <4>1, <4>2, PageBefore
      <4>4. had \cup Listed = Listed
        BY <3>2
      <4>5. ~(off + Page >= Cardinality(Listed))
        <5>1. Cardinality(Listed) \in Nat
          BY <2>2, StoreConstants, FS_Subset, FS_CardinalityType
        <5>2. QED
          BY <3>1, <4>3, <5>1, StoreConstants
      <4>6. viewer' = [viewer EXCEPT !.offset = off + Page, !.had = Listed]
        BY <2>4, <4>4, <4>5 DEF ViewPage
      <4>7. /\ viewer'.at = "scan" /\ viewer'.s = viewer.s /\ viewer'.offset = off + Page
            /\ viewer'.there = viewer.there /\ viewer'.had = Listed
        BY <3>1, <4>6
      <4>8. viewer'.offset <= Cardinality({t \in viewer'.had : t > viewer'.s})
        BY <4>3, <4>7 DEF Rank
      <4>9. QED
        BY <2>1, <2>2, <3>2, <4>7, <4>8
    <3>3. CASE ~(viewer.there /\ viewer.s \in Listed /\ had \subseteq Listed)
      <4>1. /\ viewer'.at \in {"scan", "missed"} /\ viewer'.s = viewer.s /\ viewer'.there = viewer.there
            /\ viewer'.had = had \/ viewer'.had = had \cup Listed
        BY <2>4, <3>1 DEF ViewPage
      <4>2. ~(viewer'.there /\ viewer'.s \in Listed /\ viewer'.had \subseteq Listed)
        BY <3>3, <4>1
      <4>3. /\ \A t \in viewer'.had : life[t] \notin Unheard
            /\ viewer'.there => viewer'.s \in viewer'.had
        BY <2>2, <3>1, <4>1
      <4>4. QED
        BY <2>1, <4>2, <4>3
    <3>4. QED
      BY <3>2, <3>3
  <2>5. CASE ViewPage /\ OnPage
    BY <1>2, <2>5 DEF ViewPage
  <2>6. ASSUME NEW s \in Sessions, ViewOwn(s)
        PROVE  ScanSound'
    BY <1>2, <2>6 DEF ViewOwn
  <2>7. CASE ViewCheck \/ ViewRead \/ ViewEnd
    BY <1>2, <2>7 DEF ViewCheck, ViewRead, ViewEnd, IdleViewer
  <2>8. QED
    BY <1>3, <2>3, <2>4, <2>5, <2>6, <2>7 DEF Viewer
<1>4. QED
  BY <1>1, <1>2, <1>3, ViewerMoves DEF IdleViewer

-----------------------------------------------------------------------------
(* What CleanOnce listed is still there, once each, and no smaller.        *)

LEMMA ListInit ==
    ASSUME Init
    PROVE  ListCurrent
BY DEF Init, ListCurrent, IdleCleaner

(* While a recording is written or gets its end, its directory stays and   *)
(* does not become smaller.                                                *)
Stays(s) == s \in Listed => s \in Listed' /\ disk[s].size <= disk'[s].size

LEMMA WrittenGrows ==
    ASSUME TypeOK, NEW s \in Sessions, disk[s].meta \in {"none", "open"}
    PROVE  /\ Written(s).meta = disk[s].meta
           /\ Written(s).size \in Nat /\ disk[s].size \in Nat /\ disk[s].size <= Written(s).size
<1>1. /\ disk[s] \in [meta : {"none", "open"}, size : Nat, last : Nat]
      /\ disk[s].size \in Nat /\ memory[s] \in Nat
  BY DirectoryKinds DEF TypeOK
<1>2. PICK size : size = disk[s].size + memory[s]
  OBVIOUS
<1>3. PICK last : last = IF memory[s] > 0 THEN now ELSE disk[s].last
  OBVIOUS
<1>4. Written(s) = [disk[s] EXCEPT !.size = size, !.last = last]
  BY <1>2, <1>3 DEF Written, Exists
<1>5. Written(s).meta = disk[s].meta /\ Written(s).size = size
  BY <1>1, <1>4
<1>6. QED
  BY <1>1, <1>2, <1>5

LEMMA SessionStays ==
    ASSUME TypeOK, LifeConsistent, NEW t \in Sessions, Session(t), NEW s \in Sessions
    PROVE  Stays(s)
<1> USE DEF TypeOK, NotSession, diskVars
<1>0. s \in Listed => disk[s].size \in Nat /\ disk[s].meta \in {"open", "ended"}
  BY DirectoryKinds DEF Listed
<1>1. CASE disk'[s] = disk[s]
  BY <1>0, <1>1 DEF Stays, Listed
<1>2. CASE disk'[s] # disk[s]
  <2>1. s = t /\ s \in Listed => disk[s].meta \in {"open", "ended"}
    BY <1>0
  <2>2. s = t
    BY <1>2 DEF Session, OpenDirectory, OpenMeta, OpenFails, Register, Refuse, RecordLine, FlushLines,
                EventSnapshot, EventWrite, CloseClaim, FinishRecording, CloseForget
  <2>3. CASE OpenDirectory(t)
    BY <2>2, <2>3 DEF OpenDirectory, LifeConsistent, Stays, Listed, Absent
  <2>4. CASE OpenMeta(t)
    BY <2>2, <2>4 DEF OpenMeta, LifeConsistent, Stays, Listed
  <2>5. CASE FlushLines(t)
    <3>1. disk'[s] = Written(s) /\ disk[s].meta \in {"absent", "open"}
      BY <2>2, <2>5 DEF FlushLines, LifeConsistent, Recording
    <3>2. QED
      BY <3>1, WrittenGrows DEF Stays, Listed
  <2>6. CASE EventWrite(t)
    <3>1. disk[s].meta = "ended" /\ disk'[s] = [meta |-> "open", size |-> disk[s].size, last |-> disk[s].ended]
      BY <1>2, <2>2, <2>6 DEF EventWrite
    <3>2. QED
      BY <1>0, <3>1 DEF Stays, Listed
  <2>7. CASE FinishRecording(t)
    <3>1. /\ disk[s].meta \in {"absent", "open"}
          /\ disk'[s] = Ended(Written(s), now) \/ disk'[s] = Written(s)
      BY <1>2, <2>2, <2>7 DEF FinishRecording, LifeConsistent, Recording
    <3>2. Listed' = {r \in Sessions : disk'[r].meta \in {"open", "ended"}}
      BY DEF Listed
    <3>3. /\ s \in Listed => disk[s].meta = "open" /\ Written(s).meta = "open"
          /\ disk'[s].meta \in {"ended", Written(s).meta} /\ disk'[s].size = Written(s).size
      BY <3>1, WrittenGrows DEF Ended, Listed
    <3>4. QED
      BY <3>2, <3>3, WrittenGrows DEF Stays
  <2>8. QED
    BY <1>2, <2>3, <2>4, <2>5, <2>6, <2>7
       DEF Session, OpenFails, Register, Refuse, RecordLine, EventSnapshot, CloseClaim, CloseForget
<1>3. QED
  BY <1>1, <1>2

LEMMA ServerStays ==
    ASSUME TypeOK, LifeConsistent, Viewer \/ Server \/ NextDay \/ UNCHANGED vars, NEW s \in Sessions
    PROVE  Stays(s)
<1>0. s \in Listed => disk[s].size \in Nat
  BY DirectoryKinds DEF Listed, TypeOK
<1>1. CASE disk'[s] = disk[s]
  BY <1>0, <1>1 DEF Stays, Listed
<1>2. ASSUME NEW t \in Sessions, Finalize(t), disk'[s] # disk[s]
      PROVE  Stays(s)
  <2>1. disk[s].meta = "open" /\ disk'[s] = Ended(disk[s], lastCastTime(s))
    BY <1>2 DEF Finalize, TypeOK
  <2>2. QED
    BY <1>0, <2>1 DEF Ended, Stays, Listed
<1>3. CASE disk' = disk
  BY <1>1, <1>3
<1>4. CASE Viewer
  BY <1>3, <1>4 DEF Viewer, ViewOwn, ViewAny, ViewPage, ViewCheck, ViewRead, ViewEnd, NotViewer, diskVars
<1>5. CASE Server
  BY <1>1, <1>2, <1>3, <1>5 DEF Server, ShutdownBegin, ShutdownClose, ShutdownClosed, Exit, Crash, Start, BootSkips, BootEnds,
                    ServerEnds, NotServer, diskVars
<1>6. CASE NextDay \/ UNCHANGED vars
  BY <1>3, <1>6 DEF NextDay, vars, diskVars
<1>7. QED
  BY <1>4, <1>5, <1>6

(* What ListCurrent says of one entry.                                     *)
Current(c) ==
    /\ c.s \in Listed /\ c.size <= disk[c.s].size
    /\ c.s \notin cleaner.todo /\ \A u \in cleaner.users : c.s \notin u
    /\ \A d \in cleaner.cands : d.s = c.s => d = c

LEMMA CandidatesAre ==
    ASSUME TypeOK, cleaner.at # "idle"
    PROVE  /\ cleaner.cands \in SUBSET Candidates /\ cleaner.todo \in SUBSET Sessions
           /\ \A c \in cleaner.cands : c \in Candidates /\ c.s \in Sessions /\ c.size \in Nat
BY DEF TypeOK, Cleaners, IdleCleaner, Candidates

(* The list is left alone, or ends with the cleanup.                       *)
LEMMA ListKept ==
    ASSUME TypeOK, TypeOK', ListCurrent, \A s \in Sessions : Stays(s),
           UNCHANGED cleaner \/ cleaner' = IdleCleaner
    PROVE  ListCurrent'
<1>1. CASE UNCHANGED cleaner /\ cleaner.at # "idle"
  <2>1. ASSUME NEW c \in cleaner.cands
        PROVE  c.s \in Listed' /\ c.size <= disk'[c.s].size
    <3>1. c.s \in Sessions /\ c.size \in Nat /\ c.s \in Listed /\ c.size <= disk[c.s].size
      BY <1>1, CandidatesAre DEF ListCurrent
    <3>2. c.s \in Listed' /\ disk[c.s].size <= disk'[c.s].size
      BY <3>1 DEF Stays
    <3>3. disk[c.s].size \in Nat /\ disk'[c.s].size \in Nat
      BY <3>1, <3>2, DirectoryKinds DEF TypeOK, Listed
    <3>4. QED
      BY <3>1, <3>2, <3>3
  <2>2. QED
    BY <1>1, <2>1 DEF ListCurrent
<1>2. CASE cleaner' = IdleCleaner
  BY <1>2 DEF ListCurrent, IdleCleaner
<1>3. CASE UNCHANGED cleaner /\ cleaner.at = "idle"
  BY <1>3 DEF ListCurrent
<1>4. QED
  BY <1>1, <1>2, <1>3

LEMMA ListUser ==
    ASSUME TypeOK, ListCurrent, NEW u \in Users, CleanUser(u)
    PROVE  ListCurrent'
<1>1. /\ cleaner \in [at : {"scan", "retain", "quota"}, now : Nat, users : SUBSET Users,
                       todo : SUBSET Sessions, cands : SUBSET Candidates]
      /\ cleaner.at = "scan" /\ u \in cleaner.users /\ UNCHANGED disk
  BY DEF CleanUser, TypeOK, Cleaners, IdleCleaner
<1>2. /\ cleaner'.users = cleaner.users \ {u} /\ cleaner'.cands = cleaner.cands
      /\ cleaner'.todo \subseteq u
  BY <1>1 DEF CleanUser
<1>3. \A v \in cleaner'.users : u \cap v = {}
  BY <1>1, <1>2, StoreConstants
<1>4. \A c \in cleaner.cands : Current(c)
  BY <1>1 DEF ListCurrent, Current
<1>5. ASSUME NEW c \in cleaner.cands
      PROVE  Current(c)'
  BY <1>1, <1>2, <1>4 DEF Current, Listed
<1>6. QED
  BY <1>2, <1>3, <1>5 DEF ListCurrent, Current

LEMMA ListScan ==
    ASSUME TypeOK, LifeConsistent, ListCurrent, NEW s \in Sessions, CleanScan(s)
    PROVE  ListCurrent'
<1>1. /\ cleaner.at = "scan" /\ s \in cleaner.todo /\ UNCHANGED disk
      /\ \A u \in cleaner.users : u \cap cleaner.todo = {}
      /\ \A c \in cleaner.cands : c \in Candidates /\ c.s \in Sessions
      /\ \A c \in cleaner.cands : Current(c)
  BY CandidatesAre DEF CleanScan, ListCurrent, Current
<1>2. cleaner \in [at : {"scan", "retain", "quota"}, now : Nat, users : SUBSET Users,
                   todo : SUBSET Sessions, cands : SUBSET Candidates]
  BY <1>1 DEF TypeOK, Cleaners, IdleCleaner
<1>3. PICK read \in BOOLEAN :
        cleaner' = [cleaner EXCEPT !.todo = @ \ {s},
                                   !.cands = IF read /\ s \in Listed /\ s \notin local
                                             THEN @ \cup {Candidate(s)} ELSE @]
  BY DEF CleanScan, Succeeds
<1>3a. PICK added : added = IF read /\ s \in Listed /\ s \notin local THEN {Candidate(s)} ELSE {}
  OBVIOUS
<1>4. /\ added = IF read /\ s \in Listed /\ s \notin local THEN {Candidate(s)} ELSE {}
      /\ cleaner'.todo = cleaner.todo \ {s} /\ cleaner'.cands = cleaner.cands \cup added
      /\ cleaner'.users = cleaner.users
  BY <1>2, <1>3, <1>3a
<1>5. \A c \in added : c.s = s /\ s \in Listed /\ c.size = disk[s].size /\ disk[s].size \in Nat
  BY <1>4, DirectoryKinds DEF Candidate, TypeOK, Listed
<1>6. \A c, d \in added : c = d
  BY <1>4
<1>7. ASSUME NEW c \in cleaner.cands \cup added
      PROVE  Current(c)'
  <2>1. CASE c \in cleaner.cands
    <3>1. Current(c) /\ c.s # s
      BY <1>1, <2>1 DEF Current
    <3>2. QED
      BY <1>1, <1>4, <1>5, <3>1 DEF Current, Listed
  <2>2. CASE c \in added
    <3>1. \A d \in cleaner.cands : d.s # s
      BY <1>1 DEF Current
    <3>2. \A u \in cleaner.users : s \notin u
      BY <1>1
    <3>3. QED
      BY <1>1, <1>4, <1>5, <1>6, <2>2, <3>1, <3>2 DEF Current, Listed
  <2>3. QED
    BY <2>1, <2>2
<1>8. QED
  BY <1>1, <1>4, <1>7 DEF ListCurrent, Current

LEMMA ListDelete ==
    ASSUME TypeOK, ListCurrent, NEW c \in cleaner.cands, cleaner.at # "idle", Delete(c)
    PROVE  ListCurrent'
<1>1. /\ \A d \in cleaner.cands : d \in Candidates /\ d.s \in Sessions
      /\ \A d \in cleaner.cands : Current(d)
  BY CandidatesAre DEF ListCurrent, Current
<1>2. cleaner \in [at : {"scan", "retain", "quota"}, now : Nat, users : SUBSET Users,
                   todo : SUBSET Sessions, cands : SUBSET Candidates]
  BY DEF TypeOK, Cleaners, IdleCleaner
<1>3. /\ cleaner'.users = cleaner.users /\ cleaner'.todo = cleaner.todo
      /\ cleaner'.cands = cleaner.cands \ {c}
  BY <1>2 DEF Delete
<1>4. \A s \in Sessions \ {c.s} : disk'[s] = disk[s]
  BY <1>1 DEF Delete, TypeOK
<1>5. ASSUME NEW d \in cleaner.cands \ {c}
      PROVE  Current(d)'
  <2>1. d.s \in Sessions \ {c.s} /\ Current(d)
    BY <1>1 DEF Current
  <2>2. disk'[d.s] = disk[d.s]
    BY <1>4, <2>1
  <2>3. QED
    BY <1>3, <2>1, <2>2 DEF Current, Listed
<1>6. QED
  BY <1>3, <1>5 DEF ListCurrent, Current

LEMMA ListStep ==
    ASSUME TypeOK, TypeOK', LifeConsistent, ListCurrent, [Next]_vars
    PROVE  ListCurrent'
<1>1. ASSUME NEW t \in Sessions, Session(t)
      PROVE  ListCurrent'
  <2>1. UNCHANGED cleaner
    BY <1>1 DEF Session, OpenDirectory, OpenMeta, OpenFails, Register, Refuse, RecordLine, FlushLines,
                EventSnapshot, EventWrite, CloseClaim, FinishRecording, CloseForget, NotSession
  <2>2. \A s \in Sessions : Stays(s)
    BY <1>1, SessionStays
  <2>3. QED
    BY <2>1, <2>2, ListKept
<1>2. CASE Clean
  <2>1. CASE CleanBegin
    BY <2>1 DEF CleanBegin, ListCurrent
  <2>2. CASE CleanScanned \/ CleanRetained
    <3>1. cleaner.at # "idle" /\ UNCHANGED disk
      BY <2>2 DEF CleanScanned, CleanRetained
    <3>2. cleaner \in [at : {"scan", "retain", "quota"}, now : Nat, users : SUBSET Users,
                       todo : SUBSET Sessions, cands : SUBSET Candidates]
      BY <3>1 DEF TypeOK, Cleaners, IdleCleaner
    <3>3. cleaner'.users = cleaner.users /\ cleaner'.todo = cleaner.todo /\ cleaner'.cands = cleaner.cands
      BY <2>2, <3>2 DEF CleanScanned, CleanRetained
    <3>4. QED
      BY <3>1, <3>3 DEF ListCurrent, Listed
  <2>3. CASE CleanEnd \/ CleanFails
    BY <2>3 DEF CleanEnd, CleanFails, ListCurrent, IdleCleaner
  <2>4. ASSUME NEW s \in Sessions, CleanScan(s)
        PROVE  ListCurrent'
    BY <2>4, ListScan
  <2>5. ASSUME NEW c \in cleaner.cands, cleaner.at # "idle", CleanExpired(c) \/ CleanQuota(c)
        PROVE  ListCurrent'
    BY <2>5, ListDelete DEF CleanExpired, CleanQuota
  <2>6. ASSUME NEW u \in Users, CleanUser(u)
        PROVE  ListCurrent'
    BY <2>6, ListUser
  <2>7. QED
    BY <1>2, <2>1, <2>2, <2>3, <2>4, <2>5, <2>6 DEF Clean
<1>3. CASE Viewer \/ Server \/ NextDay \/ UNCHANGED vars
  <2>1. UNCHANGED cleaner \/ cleaner' = IdleCleaner
    BY <1>3 DEF Viewer, ViewOwn, ViewAny, ViewPage, ViewCheck, ViewRead, ViewEnd, NotViewer,
                Server, ShutdownBegin, ShutdownClose, ShutdownClosed, Exit, Crash, Start, BootSkips, BootEnds, Finalize,
                ServerEnds, NotServer, NotBoot, NextDay, vars
  <2>2. \A s \in Sessions : Stays(s)
    BY <1>3, ServerStays
  <2>3. QED
    BY <2>1, <2>2, ListKept
<1>4. QED
  BY <1>1, <1>2, <1>3 DEF Next

-----------------------------------------------------------------------------
(* The sums that are compared with the quota: of what was listed, and of   *)
(* what is on disk.                                                        *)

LEMMA ListFold ==
    LET It(f) == [u \in SUBSET cleaner.cands |->
                    IF u = {} THEN 0
                    ELSE LET x == CHOOSE x \in u : TRUE
                         IN x.size + f[u \ {x}]]
    IN MapThenSumSet(LAMBDA c : c.size, cleaner.cands) = (CHOOSE f : f = It(f))[cleaner.cands]
BY Zenon DEF MapThenSumSet, MapThenFoldSet

LEMMA DiskFold ==
    LET It(f) == [u \in SUBSET Listed |->
                    IF u = {} THEN 0
                    ELSE LET x == CHOOSE x \in u : TRUE
                         IN disk[x].size + f[u \ {x}]]
    IN InUse = (CHOOSE f : f = It(f))[Listed]
BY Zenon DEF InUse, MapThenSumSet, MapThenFoldSet

SizesListed == [c \in cleaner.cands |-> c.size]
SizesOnDisk == [s \in Listed |-> disk[s].size]

LEMMA ListSum ==
    ASSUME IsFiniteSet(cleaner.cands), Weights(SizesListed, cleaner.cands)
    PROVE  \E f : /\ Sums(f, cleaner.cands, SizesListed)
                  /\ MapThenSumSet(LAMBDA c : c.size, cleaner.cands) = f[cleaner.cands]
<1> DEFINE It(f) == [u \in SUBSET cleaner.cands |->
                       IF u = {} THEN 0
                       ELSE LET x == CHOOSE x \in u : TRUE
                            IN x.size + f[u \ {x}]]
           f == CHOOSE f : f = It(f)
<1>1. MapThenSumSet(LAMBDA c : c.size, cleaner.cands) = f[cleaner.cands]
  BY Zenon, ListFold
<1>2. \A u \in SUBSET cleaner.cands : u # {} =>
          (CHOOSE x \in u : TRUE) \in u /\ SizesListed[CHOOSE x \in u : TRUE] = (CHOOSE x \in u : TRUE).size
  BY DEF SizesListed
<1>3. \A h : SumsUp(h, cleaner.cands, SizesListed) <=> h = It(h)
  BY <1>2 DEF SumsUp
<1>4. PICK h : SumsUp(h, cleaner.cands, SizesListed)
  BY SumExists
<1>5. h = It(h)
  BY <1>3, <1>4
<1> HIDE DEF It
<1>6. f = It(f)
  BY <1>5
<1> HIDE DEF f
<1>7. SumsUp(f, cleaner.cands, SizesListed)
  BY <1>3, <1>6
<1>8. Sums(f, cleaner.cands, SizesListed)
  BY <1>7, SumIsSum
<1>9. QED
  BY <1>1, <1>8

LEMMA DiskSum ==
    ASSUME IsFiniteSet(Listed), Weights(SizesOnDisk, Listed)
    PROVE  \E f : Sums(f, Listed, SizesOnDisk) /\ InUse = f[Listed]
<1> DEFINE It(f) == [u \in SUBSET Listed |->
                       IF u = {} THEN 0
                       ELSE LET x == CHOOSE x \in u : TRUE
                            IN disk[x].size + f[u \ {x}]]
           f == CHOOSE f : f = It(f)
<1>1. InUse = f[Listed]
  BY Zenon, DiskFold
<1>2. \A u \in SUBSET Listed : u # {} =>
          (CHOOSE x \in u : TRUE) \in u /\ SizesOnDisk[CHOOSE x \in u : TRUE] = disk[CHOOSE x \in u : TRUE].size
  BY DEF SizesOnDisk
<1>3. \A h : SumsUp(h, Listed, SizesOnDisk) <=> h = It(h)
  BY <1>2 DEF SumsUp
<1>4. PICK h : SumsUp(h, Listed, SizesOnDisk)
  BY SumExists
<1>5. h = It(h)
  BY <1>3, <1>4
<1> HIDE DEF It
<1>6. f = It(f)
  BY <1>5
<1> HIDE DEF f
<1>7. SumsUp(f, Listed, SizesOnDisk)
  BY <1>3, <1>6
<1>8. Sums(f, Listed, SizesOnDisk)
  BY <1>7, SumIsSum
<1>9. QED
  BY <1>1, <1>8

(* The list is over the quota only if the directories are.                 *)
LEMMA OverQuotaIsOver ==
    ASSUME TypeOK, ListCurrent, cleaner.at # "idle", OverQuota
    PROVE  MaxTotalBytes > 0 /\ InUse > MaxTotalBytes
<1> DEFINE key == [c \in cleaner.cands |-> c.s]
<1>1. /\ \A c \in cleaner.cands : c.size \in Nat /\ c.s \in Listed /\ c.size <= disk[c.s].size
      /\ \A c, d \in cleaner.cands : c.s = d.s => c = d
  BY CandidatesAre DEF ListCurrent
<1>2. IsFiniteSet(Listed)
  BY StoreConstants, FS_Subset DEF Listed
<1>3. IsFiniteSet(cleaner.cands)
  <2>1. key \in Injection(cleaner.cands, Listed)
    BY <1>1 DEF Injection, IsInjective
  <2> HIDE DEF key
  <2>2. QED
    BY <1>2, <2>1, FS_Injection
<1>4. Weights(SizesListed, cleaner.cands)
  BY <1>1 DEF SizesListed, Weights
<1>5. Weights(SizesOnDisk, Listed)
  BY DirectoryKinds DEF SizesOnDisk, Weights, TypeOK, Listed
<1>6. Keyed(key, cleaner.cands, Listed, SizesListed, SizesOnDisk)
  BY <1>1 DEF Keyed, SizesListed, SizesOnDisk
<1>7. PICK f : /\ Sums(f, cleaner.cands, SizesListed)
               /\ MapThenSumSet(LAMBDA c : c.size, cleaner.cands) = f[cleaner.cands]
  BY <1>3, <1>4, ListSum
<1>8. PICK g : Sums(g, Listed, SizesOnDisk) /\ InUse = g[Listed]
  BY <1>2, <1>5, DiskSum
<1> HIDE DEF key
<1>9. f[cleaner.cands] <= g[Listed]
  BY <1>2, <1>3, <1>4, <1>5, <1>6, <1>7, <1>8, SumBelow
<1>10. f[cleaner.cands] \in Nat /\ g[Listed] \in Nat
  BY <1>7, <1>8 DEF Sums
<1>11. MaxTotalBytes > 0 /\ f[cleaner.cands] > MaxTotalBytes /\ MaxTotalBytes \in Nat
  BY <1>7, StoreConstants, Zenon DEF OverQuota
<1>12. QED
  BY <1>8, <1>9, <1>10, <1>11

-----------------------------------------------------------------------------
(* The theorems.                                                           *)

(* Every reachable state satisfies the inductive invariant: the types, and *)
(* what disk, cleanup, scan at the start and viewers hold of one another.  *)
THEOREM IndInvHolds == Spec => []IndInv
<1>1. Init => IndInv
  BY TypeInit, LifeInit, CandidatesInit, ListInit, UnfinishedInit, ViewerInit DEF IndInv
<1>2. IndInv /\ [Next]_vars => IndInv'
  BY TypeStep, LifeStep, CandidatesStep, ListStep, UnfinishedStep, ViewerStep, ScanStep DEF IndInv
<1>3. QED
  BY <1>1, <1>2, PTL DEF Spec

(* The cleanup goroutine never removes the directory of a session in       *)
(* m.local, except one that it scanned between Open and index.Add          *)
(* (Store.CleanOnce against SessionManager.Create and close).              *)
THEOREM LiveKept == Spec => []LiveRecordingKept
<1>1. IndInv => LiveRecordingKept
  BY DEF IndInv, TypeOK, LifeConsistent, LiveRecordingKept
<1>2. QED
  BY <1>1, IndInvHolds, PTL

(* After any crash or exit and the next start, a recording without an end  *)
(* belongs to a session that runs now, or an Event overwrote its end, or   *)
(* its own Close since this start could not write it, or ScanAndFinalize   *)
(* did not get to its directory: it skipped that user or stopped at an     *)
(* error before.                                                           *)
THEOREM UnfinishedAlwaysLive == Spec => []UnfinishedIsLive
<1>1. IndInv => UnfinishedIsLive
  BY DEF IndInv, UnfinishedHasReason, UnfinishedIsLive, Serving
<1>2. QED
  BY <1>1, IndInvHolds, PTL

(* The handlers of cast and download serve no recording that is still      *)
(* being written, except one asked for before its session was in m.local.  *)
THEOREM ServedAlwaysWhole == Spec => []ServedWhole
<1>1. IndInv => ServedWhole
  BY DEF IndInv, ViewerSound
<1>2. QED
  BY <1>1, IndInvHolds, PTL

(* scanOwner answers "not found" for a recording that was there before and *)
(* is there now only if another one it saw was deleted meanwhile, for any  *)
(* page and any number of sessions.                                        *)
THEOREM MissesExplained == Spec => []MissedExplained
<1>1. IndInv => MissedExplained
  BY DEF IndInv, ScanSound
<1>2. QED
  BY <1>1, IndInvHolds, PTL

(* Once Close or Finalize wrote the end of a recording, nothing that runs  *)
(* afterwards changes it - no flush, no Close, no later scan - but an      *)
(* Event whose snapshot is older.                                          *)
THEOREM EndWrittenOnce == Spec => [][\A s \in Sessions : EndUnchanged(s)]_vars
<1>1. ASSUME IndInv, [Next]_vars, NEW s \in Sessions
      PROVE  EndUnchanged(s)
  <2>1. DirectoryMoves(s)
    BY <1>1, DirectoryStep DEF IndInv
  <2>2. disk[s].meta = "ended" => life[s] \notin {"none", "opening"} \cup Recording
    BY <1>1 DEF IndInv, LifeConsistent, Absent
  <2>3. QED
    BY <2>1, <2>2 DEF DirectoryMoves, EndUnchanged, Recording, Absent
<1>2. IndInv /\ [Next]_vars => \A s \in Sessions : EndUnchanged(s)
  BY <1>1
<1>3. QED
  BY <1>2, IndInvHolds, PTL DEF Spec

(* What makes CleanOnce take a directory for the quota: it is the oldest   *)
(* of its list, and the list is over the quota.                            *)
TakenForQuota(s) ==
    /\ cleaner.at = "quota" /\ OverQuota
    /\ \E c \in cleaner.cands : c.s = s /\ OldestFirst(c)

(* A directory goes only by CleanOnce, and only if its recording is past   *)
(* the retention now, whatever changed since it was listed, or for the     *)
(* quota as the oldest of the list.                                        *)
THEOREM RemovedForCause ==
    Spec => [][\A s \in Sessions : Removed(s) => OutOfRetention(s) \/ TakenForQuota(s)]_vars
<1>1. ASSUME IndInv, [Next]_vars, NEW s \in Sessions, Removed(s)
      PROVE  OutOfRetention(s) \/ TakenForQuota(s)
  <2> USE <1>1 DEF IndInv
  <2>1. disk'[s] # disk[s] /\ disk[s].meta # "absent" /\ disk'[s].meta = "absent"
    BY DEF Removed, Exists
  <2>2. ASSUME NEW t \in Sessions, Session(t)
        PROVE  FALSE
    <3> USE DEF TypeOK, Absent
    <3>1. CASE disk' = disk
      BY <2>1, <3>1
    <3>2. CASE OpenDirectory(t) \/ OpenMeta(t) \/ EventWrite(t)
      <4>1. disk'[t] # disk[t] => disk'[t].meta \in {"none", "open"}
        <5>1. CASE OpenDirectory(t)
          BY <5>1 DEF OpenDirectory
        <5>2. CASE OpenMeta(t)
          <6>1. disk[t].meta = "none"
            BY <5>2 DEF OpenMeta, LifeConsistent
          <6>2. QED
            BY <5>2, <6>1, DirectoryKinds DEF OpenMeta
        <5>3. CASE EventWrite(t)
          BY <5>3 DEF EventWrite
        <5>4. QED
          BY <3>2, <5>1, <5>2, <5>3
      <4>2. s = t
        BY <2>1, <3>2 DEF OpenDirectory, OpenMeta, EventWrite
      <4>3. QED
        BY <2>1, <4>1, <4>2
    <3>3. CASE FlushLines(t)
      <4>1. disk[t].meta # "ended"
        BY <3>3 DEF FlushLines, LifeConsistent, Recording
      <4>2. QED
        BY <2>1, <3>3, <4>1, WrittenType DEF FlushLines
    <3>4. CASE FinishRecording(t)
      <4>1. Written(t).meta = disk[t].meta
        BY <3>4, WrittenType DEF FinishRecording, LifeConsistent, Recording
      <4>2. QED
        BY <2>1, <3>4, <4>1 DEF FinishRecording, Exists, Ended
    <3>5. QED
      BY <2>2, <3>1, <3>2, <3>3, <3>4
         DEF Session, OpenFails, Register, Refuse, RecordLine, EventSnapshot, CloseClaim, CloseForget,
             NotSession, diskVars
  <2>3. CASE Clean
    <3>1. PICK c \in cleaner.cands : cleaner.at # "idle" /\ (CleanExpired(c) \/ CleanQuota(c))
      BY <2>1, <2>3 DEF Clean, CleanBegin, CleanUser, CleanScan, CleanScanned, CleanRetained, CleanEnd, CleanFails
    <3>2. c \in Candidates /\ c.s = s
      BY <2>1, <3>1, CleanDeletes DEF CleanExpired, CleanQuota
    <3>3. CASE CleanQuota(c)
      BY <3>2, <3>3 DEF CleanQuota, TakenForQuota
    <3>4. CASE CleanExpired(c)
      <4>1. RetentionDays > 0 /\ c.ended >= 0 /\ cleaner.now - c.ended > RetentionDays
        BY <3>4 DEF CleanExpired, Expired
      <4>2. s \in late \/ EndsAt(s, c.ended)
        BY <2>1, <3>1, <3>2, <4>1 DEF CandidatesSound, Absent
      <4>3. cleaner.now <= now /\ cleaner.now \in Nat /\ now \in Nat /\ RetentionDays \in Nat /\ c.ended \in Int
        BY <3>1, <3>2, StoreConstants DEF CandidatesSound, TypeOK, Cleaners, IdleCleaner, Candidates
      <4>4. now - c.ended > RetentionDays
        BY <4>1, <4>3
      <4>5. QED
        BY <4>1, <4>2, <4>4 DEF OutOfRetention, Unretained, EndsAt
    <3>5. QED
      BY <3>1, <3>3, <3>4
  <2>4. CASE Viewer
    BY <2>1, <2>4 DEF Viewer, ViewOwn, ViewAny, ViewPage, ViewCheck, ViewRead, ViewEnd, NotViewer, diskVars
  <2>5. CASE Server
    <3>1. ASSUME NEW t \in Sessions, Finalize(t)
          PROVE  FALSE
      BY <2>1, <3>1 DEF Finalize, Ended, TypeOK
    <3>2. CASE disk' = disk
      BY <2>1, <3>2
    <3>3. QED
      BY <2>5, <3>1, <3>2 DEF Server, ShutdownBegin, ShutdownClose, ShutdownClosed, Exit, Crash,
              ServerEnds, Start, BootSkips, BootEnds, NotServer, diskVars
  <2>6. CASE NextDay \/ UNCHANGED vars
    BY <2>1, <2>6 DEF NextDay, vars, diskVars
  <2>7. QED
    BY <2>2, <2>3, <2>4, <2>5, <2>6 DEF Next
<1>2. IndInv /\ [Next]_vars =>
        \A s \in Sessions : Removed(s) => OutOfRetention(s) \/ TakenForQuota(s)
  BY <1>1
<1>3. QED
  BY <1>2, IndInvHolds, PTL DEF Spec

(* The end of a recording is written once, but for a late Event; and its   *)
(* directory goes only when it is past the retention, or when the          *)
(* recordings that are on disk at that moment take more than the quota,    *)
(* however long ago and one by one CleanOnce added them up.                *)
THEOREM EndAlwaysKept == Spec => EndKept
<1>1. ASSUME IndInv, [Next]_vars, NEW s \in Sessions, Removed(s) => OutOfRetention(s) \/ TakenForQuota(s)
      PROVE  Removed(s) => OutOfRetention(s) \/ (MaxTotalBytes > 0 /\ InUse > MaxTotalBytes)
  <2>1. TakenForQuota(s) => MaxTotalBytes > 0 /\ InUse > MaxTotalBytes
    BY <1>1, OverQuotaIsOver DEF TakenForQuota, IndInv
  <2>2. QED
    BY <1>1, <2>1
<1>2. IndInv /\ [Next]_vars =>
        ((\A s \in Sessions : EndUnchanged(s)) /\
         (\A s \in Sessions : Removed(s) => OutOfRetention(s) \/ TakenForQuota(s))
         => \A s \in Sessions :
              /\ EndUnchanged(s)
              /\ Removed(s) => \/ OutOfRetention(s)
                               \/ MaxTotalBytes > 0 /\ InUse > MaxTotalBytes)
  BY <1>1
<1>3. QED
  BY <1>2, IndInvHolds, EndWrittenOnce, RemovedForCause, PTL DEF Spec, EndKept

=============================================================================
