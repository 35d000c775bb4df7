---------------------------- MODULE PtySession ----------------------------
(***************************************************************************)
(* A session's pty (pty/session.go) on top of the processes it started     *)
(* (SandboxLaunch).  The lock s.mu guards the pointer to the master and    *)
(* the closed flag.  Read copies them and blocks outside the lock; Write   *)
(* keeps the lock while the kernel takes its bytes, which it does only     *)
(* while the terminal has room; Close needs the lock to set the flag, then *)
(* closes the master (which hangs the terminal up), tries to kill sudo and *)
(* waits for it.  Close runs once; a second caller waits for the first.    *)
(*                                                                         *)
(* Resize takes the lock for one ioctl and EchoState works like Read with  *)
(* an ioctl that never blocks: neither changes anything seen here.         *)
(***************************************************************************)
EXTENDS SandboxLaunch

CONSTANTS
    Writers,  \* the readLoops that write input to this session
    Closers,   \* callers of Close
    InputRoom, \* how many writes the terminal takes before one blocks
    Free       \* the lock is free

ASSUME PtyAssumption == Free \notin Writers /\ InputRoom \in Nat

VARIABLES
    mu,       \* who holds s.mu
    closed,   \* s.closed
    master,   \* "open", "closed"
    once,     \* "new", "running", "done"
    input,    \* writes the program has not read yet
    output,   \* the terminal holds output that the pump has not read
    writer,   \* each writer: "idle", "writing"
    pump,     \* the caller of Read: "idle", "reading", "ended"
    closer    \* each closer: "idle", "lock", "master", "kill", "wait",
              \* "queued" behind the other, "returned"

ptyVars == <<mu, closed, master, once, input, output, writer, pump, closer>>
vars == <<launchVars, ptyVars>>

Init ==
    /\ LaunchInit
    /\ mu = Free
    /\ closed = FALSE
    /\ master = "open"
    /\ once = "new"
    /\ input = 0
    /\ output = FALSE
    /\ writer = [w \in Writers |-> "idle"]
    /\ pump = "idle"
    /\ closer = [k \in Closers |-> "idle"]

(* The processes hold the other side of the terminal: they got it as their *)
(* standard files, the cleaner included.                                   *)
SlaveOpen == sudo = "running" \/ \E p \in {"main", "cleaner", "child"} : Alive(p)

(* Write takes the lock, unless the session is closed.                     *)
WriteLock(w) ==
    /\ writer[w] = "idle"
    /\ mu = Free
    /\ ~closed
    /\ mu' = w
    /\ writer' = [writer EXCEPT ![w] = "writing"]
    /\ UNCHANGED <<launchVars, closed, master, once, input, output, pump, closer>>

(* ... and returns when the kernel has taken the bytes, or an error.       *)
WriteReturns(w) ==
    /\ writer[w] = "writing"
    /\ \/ input < InputRoom /\ input' = input + 1
       \/ ~SlaveOpen /\ UNCHANGED input
    /\ mu' = Free
    /\ writer' = [writer EXCEPT ![w] = "idle"]
    /\ UNCHANGED <<launchVars, closed, master, once, output, pump, closer>>

(* Read looks at the session under the lock.                               *)
ReadBegin ==
    /\ pump = "idle"
    /\ mu = Free
    /\ pump' = IF closed THEN "ended" ELSE "reading"
    /\ UNCHANGED <<launchVars, mu, closed, master, once, input, output, writer, closer>>

(* ... and blocks until there is output, the master is closed, or the last *)
(* process is gone.                                                        *)
ReadReturns ==
    /\ pump = "reading"
    /\ \/ output /\ master = "open" /\ pump' = "idle"
       \/ /\ master = "closed" \/ ~SlaveOpen
          /\ pump' = "ended"
    /\ output' = FALSE
    /\ UNCHANGED <<launchVars, mu, closed, master, once, input, writer, closer>>

(* once.Do                                                                 *)
CloseCall(k) ==
    /\ closer[k] = "idle"
    /\ closer' = [closer EXCEPT ![k] =
                     CASE once = "new" -> "lock"
                       [] once = "running" -> "queued"
                       [] OTHER -> "returned"]
    /\ once' = IF once = "new" THEN "running" ELSE once
    /\ UNCHANGED <<launchVars, mu, closed, master, input, output, writer, pump>>

(* Mutant of CloseMark: Read blocks with the lock held, so the flag has to *)
(* wait until it returns.                                                  *)
CloseMarkBehindRead(k) ==
    /\ closer[k] = "lock"
    /\ mu = Free
    /\ pump # "reading"
    /\ closed' = TRUE
    /\ closer' = [closer EXCEPT ![k] = "master"]
    /\ UNCHANGED <<launchVars, mu, master, once, input, output, writer, pump>>

CloseMark(k) ==
    /\ closer[k] = "lock"
    /\ mu = Free
    /\ closed' = TRUE
    /\ closer' = [closer EXCEPT ![k] = "master"]
    /\ UNCHANGED <<launchVars, mu, master, once, input, output, writer, pump>>

(* The master is closed: the kernel hangs the terminal up.                 *)
CloseMaster(k) ==
    /\ closer[k] = "master"
    /\ master' = "closed"
    /\ hungUp' = TRUE
    /\ closer' = [closer EXCEPT ![k] = "kill"]
    /\ UNCHANGED <<sudo, main, cleaner, child, at, proc, cgroup, told, copy, tries,
                   mu, closed, once, input, output, writer, pump>>

(* Kill: the service may not be allowed to signal a sudo that runs as      *)
(* root, and ignores the error.                                            *)
CloseKill(k) ==
    /\ closer[k] = "kill"
    /\ sudo' \in {sudo, "gone"}
    /\ closer' = [closer EXCEPT ![k] = "wait"]
    /\ UNCHANGED <<main, cleaner, child, at, proc, cgroup, told, copy, tries,
                   hungUp, mu, closed, master, once, input, output, writer, pump>>

(* cmd.Wait returns when sudo is gone, and with it once.Do.                *)
CloseWait(k) ==
    /\ closer[k] = "wait"
    /\ sudo = "gone"
    /\ once' = "done"
    /\ closer' = [closer EXCEPT ![k] = "returned"]
    /\ UNCHANGED <<launchVars, mu, closed, master, input, output, writer, pump>>

CloseQueued(k) ==
    /\ closer[k] = "queued"
    /\ once = "done"
    /\ closer' = [closer EXCEPT ![k] = "returned"]
    /\ UNCHANGED <<launchVars, mu, closed, master, once, input, output, writer, pump>>

(* The program takes input from the terminal, and anyone on it may print.  *)
ProgramReads ==
    /\ child = "program"
    /\ input > 0
    /\ input' = input - 1
    /\ UNCHANGED <<launchVars, mu, closed, master, once, output, writer, pump, closer>>

Prints ==
    /\ SlaveOpen
    /\ ~hungUp
    /\ output' = TRUE
    /\ UNCHANGED <<launchVars, mu, closed, master, once, input, writer, pump, closer>>

Processes == LaunchNext /\ UNCHANGED ptyVars

CloseStep(k) == \/ CloseCall(k) \/ CloseMark(k) \/ CloseMaster(k)
                \/ CloseKill(k) \/ CloseWait(k) \/ CloseQueued(k)

Next ==
    \/ \E w \in Writers : WriteLock(w) \/ WriteReturns(w)
    \/ ReadBegin \/ ReadReturns
    \/ \E k \in Closers : CloseStep(k)
    \/ ProgramReads \/ Prints
    \/ Processes

Spec == Init /\ [][Next]_vars

(* Goroutines run, the lock is fair (Go's mutex hands itself to a waiter   *)
(* that starves), the helpers make progress, and what runs in the terminal *)
(* ends after it is hung up; it need not ever end otherwise, or print.     *)
CloseFair ==
    /\ \A k \in Closers :
          SF_vars(CloseMark(k)) /\ WF_vars(CloseStep(k) /\ closer[k] # "idle")
    /\ \A w \in Writers : WF_vars(WriteReturns(w))
    /\ WF_vars(ReadReturns)
    /\ SF_vars(ReadBegin)
    /\ WF_vars(Processes /\ (SudoRuns \/ EnterCgroup \/ Prepare \/ Unshare
                                \/ ChildStep \/ MainReaps \/ MainLeaves
                                \/ SudoLeaves \/ CleanerWakes \/ CleanTry))
    /\ WF_vars(hungUp /\ Processes /\ ProgramExits)

FairSpec == Spec /\ CloseFair /\ WF_vars(ProgramReads)

(* The same, for a program that need not read its input.                   *)
DeafSpec == Spec /\ CloseFair

-----------------------------------------------------------------------------
(* A Close that is called returns, whatever the writers and the pump are   *)
(* doing and however far the launch has come (session.go:554-626,          *)
(* userns_init.c:186-215), if the program reads its input.                 *)
CloseReturns == \A k \in Closers : closer[k] # "idle" ~> closer[k] = "returned"

(* What the comment says and the code does not always do: nobody blocks on *)
(* the terminal with the lock, so that Close can always take it to end the *)
(* program (session.go:556-558, of Read; checked with DeafSpec).           *)
CloseGetsLock == \A k \in Closers : closer[k] = "lock" ~> closer[k] # "lock"
=============================================================================
