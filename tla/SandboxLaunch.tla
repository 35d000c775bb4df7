--------------------------- MODULE SandboxLaunch ---------------------------
(***************************************************************************)
(* How one sandboxed program is started and what becomes of its processes: *)
(* sandbox/sandbox.go (Run, childInit, execProgram) and                    *)
(* sandbox/userns_init.c.  The processes are                               *)
(*                                                                         *)
(*   sudo     what the service started; it waits for main                  *)
(*   main     sandbox-init, then (exec) userns-init, as root of the host   *)
(*   cleaner  forked by main before unshare, blocked on a pipe until main  *)
(*            writes a byte or the last writer is gone                     *)
(*   child    process 1 of the new pid namespace: sandbox-init --child and *)
(*            then (exec) the user's program; it inherits the pipe, which  *)
(*            nothing closes for it                                        *)
(*                                                                         *)
(* sandbox-init is a Go program: childInit runs on one of several threads, *)
(* and nothing ties it to that one.  The root, the working directory, the  *)
(* limits and the uid and gid (which the Go library sets on every thread)  *)
(* belong to the process; the filter and the groups, set by plain system   *)
(* calls, to the calling thread.                                           *)
(*                                                                         *)
(* A system call may fail wherever the code looks at its result.  A        *)
(* hang-up of the terminal (the service has closed the pty master) may     *)
(* kill any of the processes.  Left out: the sizes of the limits, mount    *)
(* options, device nodes, paths, the environment of the program other than *)
(* the keys (see ApiKeys), and processes that the program forks: they are  *)
(* in its pid namespace and end with it.                                   *)
(***************************************************************************)
EXTENDS Integers, Sequences

CONSTANTS
    Seccomp,    \* --seccomp
    Network,    \* --network: "none", "loopback" or "full"
    CleanTries  \* attempts of cleanup_cgroup (10 in the code)

ASSUME LaunchAssumption ==
    /\ Seccomp \in BOOLEAN
    /\ Network \in {"none", "loopback", "full"}
    /\ CleanTries \in Nat \ {0}

VARIABLES
    sudo,    \* "running", "gone"
    main,    \* how far main is
    cleaner, \* "none", "waiting", "cleaning", "gone"
    child,   \* "none", "init", "program", "gone"
    at,      \* the step of childInit that is next
    proc,    \* what childInit has made of the child: the thread it runs on,
             \* and the threads that there may be
    cgroup,  \* the session's cgroup: does it exist, who is in it, and has
             \* main ever been (only then do the limits apply)
    told,    \* there is a byte in the pipe
    copy,    \* the child's copy of the pipe: "kept", "used", "closed"
    tries,   \* attempts of the cleaner
    hungUp   \* the terminal is hung up

launchVars == <<sudo, main, cleaner, child, at, proc, cgroup, told, copy, tries,
                hungUp>>

-----------------------------------------------------------------------------
(* The seccomp filter.                                                     *)

(* The system calls that installSeccomp denies.                            *)
Blacklist == <<
    "unshare", "setns", "mount", "umount2", "pivot_root", "chroot",
    "init_module", "finit_module", "delete_module", "kexec_load", "reboot",
    "swapon", "swapoff", "keyctl", "add_key", "request_key", "bpf",
    "userfaultfd", "ioperm", "iopl", "open_tree", "move_mount", "fsopen",
    "fsconfig", "fsmount", "fspick", "open_by_handle_at",
    "name_to_handle_at", "mknod", "mknodat", "ptrace", "personality",
    "process_vm_readv", "process_vm_writev">>

Denied == {Blacklist[i] : i \in 1..Len(Blacklist)}

Jump(nr, jt) == [op |-> "jeq", nr |-> nr, jt |-> jt]
Return(verdict) == [op |-> "ret", nr |-> verdict, jt |-> 0]

(* Mutant of BuildFilter: the jump is one instruction too short.           *)
BuildFilterShort(list) ==
    [i \in 1..(1 + 2 * Len(list)) |->
        IF i <= Len(list) THEN Jump(list[i], (Len(list) - 1) % 256)
        ELSE Return(IF i = Len(list) + 1 THEN "allow" ELSE "errno")]

(* buildFilter, without the load of the number that comes first: n jumps,  *)
(* then allow, then n times deny.  Jt has eight bits.                      *)
BuildFilter(list) ==
    [i \in 1..(1 + 2 * Len(list)) |->
        IF i <= Len(list) THEN Jump(list[i], Len(list) % 256)
        ELSE Return(IF i = Len(list) + 1 THEN "allow" ELSE "errno")]

(* The kernel runs a filter: a jump is relative to the next instruction.   *)
Verdict(filter, nr) ==
    LET Hit == {i \in DOMAIN filter : filter[i].op = "jeq" /\ filter[i].nr = nr}
        Fall == {i \in DOMAIN filter : filter[i].op = "ret"}
        First(S) == CHOOSE i \in S : \A j \in S : i <= j
    IN IF filter = <<>> THEN "allow"
       ELSE IF Hit = {} THEN filter[First(Fall)].nr
       ELSE filter[First(Hit) + 1 + filter[First(Hit)].jt].nr

-----------------------------------------------------------------------------
(* The steps of childInit.                                                 *)

(* What a thread has of its own.                                           *)
ThreadOf(p) == [filtered |-> p.filtered, groups |-> p.groups]

NewChild == [root |-> "host", gid |-> "root", uid |-> "root",
             filtered |-> FALSE, groups |-> "root",
             threads |-> {[filtered |-> FALSE, groups |-> "root"]}, moved |-> FALSE]

Filter == BuildFilter(Blacklist)

(* What the kernel says to a system call of p.                             *)
Answer(p, nr) == Verdict(IF p.filtered THEN Filter ELSE <<>>, nr)

(* Mutant of ChildSteps: the filter is installed as soon as possible.      *)
ChildStepsFilterFirst ==
    <<"private", "seccomp", "build", "pivot", "chdir", "detach", "rlimits",
      "loopback", "setgroups", "setgid", "setuid", "exec">>

(* Mutant of ChildSteps: the user is dropped to in the opposite order.     *)
ChildStepsUidFirst ==
    <<"private", "build", "pivot", "chdir", "detach", "rlimits", "seccomp",
      "loopback", "setuid", "setgid", "setgroups", "exec">>

(* The order of childInit, dropToUser and execProgram.                     *)
ChildSteps ==
    <<"private", "build", "pivot", "chdir", "detach", "rlimits", "seccomp",
      "loopback", "setgroups", "setgid", "setuid", "exec">>

(* The system call by which a step does its work.                          *)
CallOf(step) ==
    CASE step \in {"private", "build"} -> "mount"
      [] step = "pivot" -> "pivot_root"
      [] step = "chdir" -> "chdir"
      [] step = "detach" -> "umount2"
      [] step = "rlimits" -> "setrlimit"
      [] step = "seccomp" -> "prctl"
      [] step = "loopback" -> "ioctl"
      [] step = "exec" -> "execve"
      [] OTHER -> step

AsRoot == {"private", "build", "pivot", "detach", "loopback", "setgroups",
           "setgid", "setuid", "seccomp"}

(* The kernel lets process p make step s (seccomp without no_new_privs     *)
(* needs root, too).                                                       *)
Permitted(p, s) == /\ s \in AsRoot => p.uid = "root"
                   /\ Answer(p, CallOf(s)) = "allow"

(* Steps whose failure is a warning.                                       *)
BestEffort == {"detach", "rlimits"}

Skipped(s) == \/ s = "seccomp" /\ ~Seccomp
              \/ s = "loopback" /\ Network # "loopback"

(* What a step that succeeds makes of the process and the thread.          *)
Stepped(p, s) ==
    CASE s = "build" -> [p EXCEPT !.root = "staged"]
      [] s = "pivot" -> [p EXCEPT !.root = "sandbox"]
      [] s = "seccomp" -> [p EXCEPT !.filtered = TRUE]
      [] s = "setgroups" -> [p EXCEPT !.groups = "user"]
      [] s = "setgid" -> [p EXCEPT !.gid = "user"]
      [] s = "setuid" -> [p EXCEPT !.uid = "user"]
      [] OTHER -> p

(* The other threads stay as they are, until exec ends them; the runtime   *)
(* may make new ones like this one.                                        *)
After(p, s) ==
    [Stepped(p, s) EXCEPT
        !.threads = (IF s = "exec" THEN {} ELSE @) \cup {ThreadOf(Stepped(p, s))}]

-----------------------------------------------------------------------------
(* Processes and their cgroup.                                             *)

Alive(p) == \/ p = "main" /\ main \notin {"none", "gone"}
            \/ p = "cleaner" /\ cleaner \in {"waiting", "cleaning"}
            \/ p = "child" /\ child \in {"init", "program"}

Forks(c, parent, new) ==
    IF parent \in c.in THEN [c EXCEPT !.in = @ \cup {new}] ELSE c

Leaves(c, p) == [c EXCEPT !.in = @ \ {p}]

MainEnds == main' = "gone" /\ cgroup' = Leaves(cgroup, "main")

(* Nothing is left of what childInit has made, and the pipe is closed.     *)
ChildEnds ==
    /\ child' = "gone"
    /\ cgroup' = Leaves(cgroup, "child")
    /\ at' = 1 /\ proc' = NewChild /\ copy' = "closed"

LaunchInit ==
    /\ sudo = "running"
    /\ main = "none"
    /\ cleaner = "none"
    /\ child = "none"
    /\ at = 1
    /\ proc = NewChild
    /\ cgroup = [dir |-> FALSE, in |-> {}, entered |-> FALSE]
    /\ told = FALSE
    /\ copy = "kept"
    /\ tries = 0
    /\ hungUp = FALSE

(* sudo starts sandbox-init, which validates its arguments.                *)
SudoRuns ==
    /\ sudo = "running"
    /\ main = "none"
    /\ \/ main' = "started" /\ UNCHANGED sudo
       \/ sudo' = "gone" /\ UNCHANGED main
    /\ UNCHANGED <<cleaner, child, at, proc, cgroup, told, copy, tries, hungUp>>

(* enterCgroup: best effort, whatever fails the launch goes on.            *)
EnterCgroup ==
    /\ main = "started"
    /\ main' = "entered"
    /\ \/ cgroup' = [dir |-> TRUE, in |-> {"main"}, entered |-> TRUE]
       \/ \E d \in BOOLEAN : cgroup' = [cgroup EXCEPT !.dir = d]
    /\ UNCHANGED <<sudo, cleaner, child, at, proc, told, copy, tries, hungUp>>

(* Mount points and groups, then exec of userns-init, up to its fork of    *)
(* the cleaner; any of it may fail and end main.                           *)
Prepare ==
    /\ main = "entered"
    /\ \/ /\ MainEnds
          /\ UNCHANGED cleaner
       \/ /\ main' = "forked"
          /\ cleaner' = "waiting"
          /\ cgroup' = Forks(cgroup, "main", "cleaner")
    /\ UNCHANGED <<sudo, child, at, proc, told, copy, tries, hungUp>>

(* unshare, make-rprivate and the fork of the child.                       *)
Unshare ==
    /\ main = "forked"
    /\ \/ /\ MainEnds
          /\ UNCHANGED child
       \/ /\ main' = "waiting"
          /\ child' = "init"
          /\ cgroup' = Forks(cgroup, "main", "child")
    /\ UNCHANGED <<sudo, cleaner, at, proc, told, copy, tries, hungUp>>

(* Mutant of ChildStep: a filter that cannot be installed is a warning.    *)
ChildStepFilterOptional ==
    /\ child = "init"
    /\ LET s == ChildSteps[at]
       IN \/ /\ Skipped(s) \/ Permitted(proc, s)
             /\ proc' = IF Skipped(s) THEN proc ELSE After(proc, s)
             /\ at' = at + 1
             /\ child' = IF s = "exec" THEN "program" ELSE "init"
             /\ UNCHANGED <<cgroup, copy>>
          \/ /\ s \in BestEffort \cup {"seccomp"}
             /\ at' = at + 1
             /\ UNCHANGED <<proc, child, cgroup, copy>>
          \/ /\ ~Skipped(s)
             /\ s \notin BestEffort
             /\ ChildEnds
    /\ UNCHANGED <<sudo, main, cleaner, told, tries, hungUp>>

(* One step of childInit.                                                  *)
ChildStep ==
    /\ child = "init"
    /\ LET s == ChildSteps[at]
       IN \/ /\ Skipped(s) \/ Permitted(proc, s)
             /\ proc' = IF Skipped(s) THEN proc ELSE After(proc, s)
             /\ at' = at + 1
             /\ child' = IF s = "exec" THEN "program" ELSE "init"
             /\ UNCHANGED <<cgroup, copy>>
          \/ /\ s \in BestEffort
             /\ at' = at + 1
             /\ UNCHANGED <<proc, child, cgroup, copy>>
          \/ /\ ~Skipped(s)
             /\ s \notin BestEffort
             /\ ChildEnds
    /\ UNCHANGED <<sudo, main, cleaner, told, tries, hungUp>>

(* The scheduler lets childInit go on on another thread, which may lack    *)
(* what a step did to the one it leaves.                                   *)
GoroutineMoves ==
    /\ child = "init"
    /\ \E t \in proc.threads \ {ThreadOf(proc)} :
          proc' = [proc EXCEPT !.filtered = t.filtered, !.groups = t.groups,
                               !.moved = TRUE]
    /\ UNCHANGED <<sudo, main, cleaner, child, at, cgroup, told, copy, tries, hungUp>>

(* The program does something with the descriptor that it was handed: it   *)
(* closes it, as a program that tidies up its descriptors does, or writes. *)
ProgramUsesPipe ==
    /\ child = "program"
    /\ copy = "kept"
    /\ \/ copy' = "used" /\ told' = TRUE
       \/ copy' = "closed" /\ UNCHANGED told
    /\ UNCHANGED <<sudo, main, cleaner, child, at, proc, cgroup, tries, hungUp>>

(* The program exits, or is killed; its pid namespace ends with it.        *)
ProgramExits ==
    /\ child = "program"
    /\ ChildEnds
    /\ UNCHANGED <<sudo, main, cleaner, told, tries, hungUp>>


(* waitpid has returned: main writes its byte and closes the pipe.         *)
MainReaps ==
    /\ main = "waiting"
    /\ child = "gone"
    /\ main' = "reaped"
    /\ told' = TRUE
    /\ UNCHANGED <<sudo, cleaner, child, at, proc, cgroup, copy, tries, hungUp>>

(* ... and leaves once the cleaner is gone.                                *)
MainLeaves ==
    /\ main = "reaped"
    /\ cleaner = "gone"
    /\ MainEnds
    /\ UNCHANGED <<sudo, cleaner, child, at, proc, told, copy, tries, hungUp>>

(* sudo leaves after its child.                                            *)
SudoLeaves ==
    /\ sudo = "running"
    /\ main = "gone"
    /\ sudo' = "gone"
    /\ UNCHANGED <<main, cleaner, child, at, proc, cgroup, told, copy, tries, hungUp>>

(* Mutant of PipeWriters: the child does not keep the pipe.                *)
PipeWritersMain == {p \in {"main"} : Alive(p)}

(* Who holds the writing end of the pipe.                                  *)
PipeWriters == {p \in {"main", "child"} :
                   Alive(p) /\ (p = "child" => copy # "closed")}

(* The cleaner's read returns: a byte, or end of file.                     *)
CleanerWakes ==
    /\ cleaner = "waiting"
    /\ told \/ PipeWriters = {}
    /\ cleaner' = "cleaning"
    /\ UNCHANGED <<sudo, main, child, at, proc, cgroup, told, copy, tries, hungUp>>

(* One attempt of cleanup_cgroup: move every process of the cgroup to the  *)
(* root cgroup, then rmdir, which may fail; the last attempt is final.     *)
CleanTry ==
    /\ cleaner = "cleaning"
    /\ tries' = tries + 1
    /\ \E removed \in {FALSE, cgroup.dir} :
          /\ cgroup' = [cgroup EXCEPT !.dir = @ /\ ~removed, !.in = {}]
          /\ cleaner' = IF removed \/ tries' = CleanTries THEN "gone"
                        ELSE "cleaning"
    /\ UNCHANGED <<sudo, main, child, at, proc, told, copy, hungUp>>

(* A hang-up kills one of the helpers: none of them handles SIGHUP.        *)
HangupKills ==
    /\ hungUp
    /\ \/ /\ Alive("main")
          /\ MainEnds
          /\ UNCHANGED <<sudo, cleaner>>
       \/ /\ Alive("cleaner")
          /\ cleaner' = "gone"
          /\ cgroup' = Leaves(cgroup, "cleaner")
          /\ UNCHANGED <<sudo, main>>
       \/ /\ sudo = "running"
          /\ sudo' = "gone"
          /\ UNCHANGED <<main, cleaner, cgroup>>
    /\ UNCHANGED <<child, at, proc, told, copy, tries, hungUp>>

LaunchNext ==
    \/ SudoRuns \/ EnterCgroup \/ Prepare \/ Unshare \/ ChildStep
    \/ GoroutineMoves \/ ProgramUsesPipe \/ ProgramExits
    \/ MainReaps \/ MainLeaves \/ SudoLeaves \/ CleanerWakes \/ CleanTry \/ HangupKills

-----------------------------------------------------------------------------
(* No step of childInit is reached that the process may no longer make,    *)
(* whether for want of root or because its own filter denies it, whatever  *)
(* thread it is on; and the program runs in the new root, with the user's  *)
(* uid and gid, under a filter that denies nothing but the black list, and *)
(* only if one is asked for.  If childInit has stayed on one thread, the   *)
(* groups are the user's, too, and the filter denies all of the black list *)
(* (sandbox.go:336-346 and 419-485).                                       *)
LaunchInOrder ==
    /\ child = "init" =>
          Skipped(ChildSteps[at]) \/ Permitted(proc, ChildSteps[at])
    /\ child = "program" =>
          /\ proc.root = "sandbox"
          /\ <<proc.gid, proc.uid>> = <<"user", "user">>
          /\ \A nr \in Denied \cup {CallOf(ChildSteps[i]) : i \in 1..Len(ChildSteps)} :
                IF Seccomp /\ nr \in Denied
                THEN ~proc.moved => Answer(proc, nr) = "errno"
                ELSE Answer(proc, nr) = "allow"
          /\ ~proc.moved => proc.groups = "user"

(* Once main has entered the cgroup, the program stays in it as long as it *)
(* runs and leaves the pipe alone, whoever of main, sudo and the cleaner   *)
(* has died before it: the cleaner moves every process out of the cgroup,  *)
(* and the child's copy of the pipe holds it back (userns_init.c:157-178,  *)
(* 67-127).                                                                *)
LimitsHold ==
    Alive("child") /\ cgroup.entered /\ copy = "kept" => "child" \in cgroup.in

(* What README.md:472 says and the code does not always do: with seccomp,  *)
(* the program is denied every system call of the black list.              *)
FilterInForce ==
    child = "program" /\ Seccomp =>
        \A nr \in Denied : Answer(proc, nr) = "errno"
=============================================================================
