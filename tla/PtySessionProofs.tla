-------------------------- MODULE PtySessionProofs --------------------------
(***************************************************************************)
(* What SandboxLaunch.tla and PtySession.tla claim of a session's          *)
(* processes, for every set of writers and closers, with and without the   *)
(* filter and for every kind of network.  First what the filter does, for  *)
(* any list it can be built from; then who is in the cgroup when           *)
(* (LimitsInv) and what childInit has made of the child before each of its *)
(* steps (ChildInv); then what Close has done when it returns (CloseInv).  *)
(***************************************************************************)
EXTENDS PtySession, FiniteSetTheorems, WellFoundedInduction, TLAPS

-----------------------------------------------------------------------------
(* The filter.                                                             *)

(* The kernel's choice of the first instruction that matches is one that   *)
(* exists: a set of numbers has a least one (the initial segments of its   *)
(* members are well-founded under inclusion).                              *)
LEMMA LeastExists ==
    ASSUME NEW S \in SUBSET Nat, S # {}
    PROVE  \E m \in S : \A k \in S : m <= k
<1> DEFINE F == {1..k : k \in S}
           R == StrictSubsetOrdering(Nat)
<1>1. F \subseteq FiniteSubsetsOf(Nat) /\ F # {}
  <2>1. ASSUME NEW k \in S
        PROVE  1..k \in FiniteSubsetsOf(Nat)
    <3>1. IsFiniteSet(1..k)
      BY FS_Interval
    <3>2. QED
      BY <3>1 DEF FiniteSubsetsOf
  <2>2. QED
    BY <2>1
<1>2. PICK x \in F : \A y \in F : <<y, x>> \notin R
  <2> HIDE DEF F, R
  <2>1. IsWellFoundedOn(R, FiniteSubsetsOf(Nat))
    BY FS_StrictSubsetOrderingWellFounded DEF R
  <2>2. QED
    BY <1>1, <2>1, WFMin
<1>3. PICK m \in S : x = 1..m
  OBVIOUS
<1>4. ASSUME NEW k \in S, k < m
      PROVE  FALSE
  <2>1. 1..k \subseteq 1..m /\ m \in 1..m /\ m \notin 1..k
    BY <1>4
  <2>2. <<1..k, 1..m>> \in R
    BY <2>1 DEF StrictSubsetOrdering
  <2>3. QED
    BY <1>2, <1>3, <2>2
<1>5. QED
  BY <1>4

Listed(list) == {list[i] : i \in 1..Len(list)}

(* A filter built from any list of fewer than 256 calls (a jump has eight  *)
(* bits) denies exactly the calls of the list (buildFilter).               *)
LEMMA FilterVerdict ==
    ASSUME NEW list, Len(list) \in 0..255, NEW nr
    PROVE  Verdict(BuildFilter(list), nr) =
              IF nr \in Listed(list) THEN "errno" ELSE "allow"
<1> DEFINE n == Len(list)
           f == BuildFilter(list)
           Hit == {i \in DOMAIN f : f[i].op = "jeq" /\ f[i].nr = nr}
           Fall == {i \in DOMAIN f : f[i].op = "ret"}
           First(S) == CHOOSE i \in S : \A j \in S : i <= j
<1>1. n \in Nat /\ n % 256 = n
  <2>1. n \in 0..255
    OBVIOUS
  <2> HIDE DEF n
  <2>2. QED
    BY <2>1
<1>2. /\ DOMAIN f = 1..(1 + 2 * n)
      /\ \A i \in 1..n : f[i] = Jump(list[i], n)
      /\ f[n + 1] = Return("allow")
      /\ \A i \in (n + 2)..(1 + 2 * n) : f[i] = Return("errno")
  <2>1. f = [i \in 1..(1 + 2 * n) |->
                IF i <= n THEN Jump(list[i], n)
                ELSE Return(IF i = n + 1 THEN "allow" ELSE "errno")]
    BY <1>1 DEF BuildFilter
  <2>2. n \in Nat
    BY <1>1
  <2> HIDE DEF n, f
  <2>3. DOMAIN f = 1..(1 + 2 * n)
    BY Zenon, <2>1
  <2>4. ASSUME NEW i \in 1..n
        PROVE  f[i] = Jump(list[i], n)
    <3>1. i \in 1..(1 + 2 * n) /\ i <= n
      BY <2>2
    <3>2. QED
      BY <2>1, <3>1
  <2>5. f[n + 1] = Return("allow")
    <3>1. n + 1 \in 1..(1 + 2 * n) /\ ~(n + 1 <= n)
      BY <2>2
    <3>2. QED
      BY <2>1, <3>1
  <2>6. ASSUME NEW i \in (n + 2)..(1 + 2 * n)
        PROVE  f[i] = Return("errno")
    <3>1. i \in 1..(1 + 2 * n) /\ ~(i <= n) /\ i # n + 1
      BY <2>2
    <3>2. QED
      BY <2>1, <3>1
  <2>7. QED
    BY <2>3, <2>4, <2>5, <2>6
<1> HIDE DEF n, f
<1>2a. \A i \in 1..n : f[i].op = "jeq" /\ f[i].nr = list[i] /\ f[i].jt = n
  <2>1. ASSUME NEW i \in 1..n
        PROVE  f[i].op = "jeq" /\ f[i].nr = list[i] /\ f[i].jt = n
    <3>1. f[i] = [op |-> "jeq", nr |-> list[i], jt |-> n]
      BY <1>2 DEF Jump
    <3>2. QED
      BY <3>1
  <2>2. QED
    BY <2>1
<1>3. f # <<>>
  <2>1. 1 \in DOMAIN f
    BY <1>1, <1>2
  <2>2. QED
    BY <2>1
<1>4. Hit = {i \in 1..n : list[i] = nr}
  <2>1. \A i \in 1..n : f[i].op = "jeq" /\ f[i].nr = list[i]
    BY <1>2a
  <2>2. \A i \in (n + 1)..(1 + 2 * n) : f[i].op = "ret"
    <3>1. f[n + 1].op = "ret" /\ \A i \in (n + 2)..(1 + 2 * n) : f[i].op = "ret"
      BY <1>2 DEF Return
    <3>2. QED
      BY <1>1, <3>1
  <2>3. DOMAIN f = 1..n \cup (n + 1)..(1 + 2 * n)
    BY <1>1, <1>2
  <2>4. QED
    BY <2>1, <2>2, <2>3
<1>5. n + 1 \in Fall /\ \A i \in Fall : n + 1 <= i
  <2>1. f[n + 1].op = "ret" /\ \A i \in 1..n : f[i].op = "jeq"
    BY SMTT(30), <1>1, <1>2, <1>2a DEF Return
  <2>2. QED
    BY <1>1, <1>2, <2>1
<1>6. Verdict(f, nr) = IF Hit = {} THEN f[First(Fall)].nr
                       ELSE f[First(Hit) + 1 + f[First(Hit)].jt].nr
  BY <1>3 DEF Verdict
<1>7. CASE Hit = {}
  <2>1. First(Fall) = n + 1
    <3> HIDE DEF Fall
    <3>1. \A i \in Fall : (\A j \in Fall : i <= j) => i = n + 1
      <4>1. Fall \subseteq Int
        BY <1>1, <1>2 DEF Fall
      <4>2. QED
        BY <1>1, <1>5, <4>1
    <3>2. QED
      BY <1>5, <3>1
  <2>2. f[n + 1].nr = "allow"
    BY <1>2 DEF Return
  <2>3. nr \notin Listed(list)
    BY <1>4, <1>7 DEF Listed, n
  <2>4. QED
    BY <1>6, <1>7, <2>1, <2>2, <2>3 DEF f
<1>8. CASE Hit # {}
  <2>1. First(Hit) \in 1..n
    <3> HIDE DEF Hit
    <3>1. Hit \in SUBSET Nat /\ Hit \subseteq 1..n
      BY <1>1, <1>4
    <3>2. \E m \in Hit : \A k \in Hit : m <= k
      BY <1>8, <3>1, LeastExists
    <3>3. First(Hit) \in Hit
      BY <3>2
    <3>4. QED
      BY <3>1, <3>3
  <2> DEFINE h == First(Hit)
  <2>0. h \in 1..n
    BY <2>1
  <2> HIDE DEF h
  <2>2. f[h].jt = n
    BY <1>2a, <2>0
  <2>3. h + 1 + n \in (n + 2)..(1 + 2 * n)
    BY <1>1, <2>0
  <2>4. f[h + 1 + n].nr = "errno"
    BY <1>2, <2>3 DEF Return
  <2>5. nr \in Listed(list)
    BY <1>4, <1>8 DEF Listed, n
  <2>6. QED
    BY <1>6, <1>8, <2>2, <2>4, <2>5 DEF f, h
<1>9. QED
  BY <1>7, <1>8

-----------------------------------------------------------------------------
(* The cgroup.                                                             *)

(* The steps of PtySession that are not the processes' own leave these     *)
(* variables alone (a hang-up and a kill only change hungUp and sudo).     *)
Processed == <<main, cleaner, child, at, proc, cgroup, told, copy, tries>>

LEMMA PtyStepsKeepProcesses ==
    [Next]_vars => LaunchNext \/ UNCHANGED Processed
BY DEF Next, vars, launchVars, Processed, Processes, CloseStep, WriteLock,
       WriteReturns, ReadBegin, ReadReturns, CloseCall, CloseMark, CloseMaster,
       CloseKill, CloseWait, CloseQueued, ProgramReads, Prints

(* The cleaner gets to work only when the child is gone or can never be:   *)
(* main has said so, or nobody holds the pipe any more; unless the program *)
(* has written to its copy of the pipe or closed it.                       *)
LimitsInv ==
    /\ main \in {"none", "started", "entered", "forked", "waiting", "reaped", "gone"}
    /\ cleaner \in {"none", "waiting", "cleaning", "gone"}
    /\ child \in {"none", "init", "program", "gone"}
    /\ cgroup \in [dir : BOOLEAN, in : SUBSET {"main", "cleaner", "child"}, entered : BOOLEAN]
    /\ cleaner # "none" => main \in {"forked", "waiting", "reaped", "gone"}
    /\ child # "none" => main \in {"waiting", "reaped", "gone"}
    /\ copy \in {"kept", "used", "closed"}
    /\ child \in {"none", "init"} => copy = "kept"
    /\ told => child = "gone" \/ (child = "program" /\ copy = "used")
    /\ cleaner = "cleaning" =>
          /\ told \/ main = "gone"
          /\ child # "init" /\ (child = "program" => copy # "kept")
    /\ main \in {"none", "started"} => ~cgroup.entered
    /\ main \in {"entered", "forked"} /\ cgroup.entered => "main" \in cgroup.in
    /\ LimitsHold

LEMMA LimitsInvInductive ==
    ASSUME LimitsInv, [Next]_vars
    PROVE  LimitsInv'
<1> USE DEF LimitsInv, LimitsHold, Alive
<1>1. CASE UNCHANGED Processed
  BY <1>1 DEF Processed
<1>2. CASE SudoRuns
  BY <1>2 DEF SudoRuns
<1>3. CASE EnterCgroup
  <2>1. child = "none" /\ main = "started"
    BY <1>3 DEF EnterCgroup
  <2>2. cgroup' \in [dir : BOOLEAN, in : SUBSET {"main", "cleaner", "child"}, entered : BOOLEAN]
        /\ (cgroup'.entered => "main" \in cgroup'.in)
    <3>1. CASE cgroup' = [dir |-> TRUE, in |-> {"main"}, entered |-> TRUE]
      BY <3>1
    <3>2. ASSUME NEW d \in BOOLEAN, cgroup' = [cgroup EXCEPT !.dir = d]
          PROVE  cgroup' \in [dir : BOOLEAN, in : SUBSET {"main", "cleaner", "child"},
                              entered : BOOLEAN] /\ ~cgroup'.entered
      BY <2>1, <3>2
    <3>3. QED
      BY <1>3, <3>1, <3>2 DEF EnterCgroup
  <2>3. QED
    BY <1>3, <2>1, <2>2 DEF EnterCgroup
<1>4. CASE Prepare
  BY <1>4 DEF Prepare, MainEnds, Leaves, Forks
<1>5. CASE Unshare
  BY <1>5 DEF Unshare, MainEnds, Leaves, Forks
<1>6. CASE ChildStep
  BY <1>6 DEF ChildStep, ChildEnds, Leaves
<1>7. CASE ProgramExits
  BY <1>7 DEF ProgramExits, ChildEnds, Leaves
<1>8. CASE MainReaps
  BY <1>8 DEF MainReaps
<1>9. CASE MainLeaves
  BY <1>9 DEF MainLeaves, MainEnds, Leaves
<1>10. CASE SudoLeaves
  BY <1>10 DEF SudoLeaves
<1>11. CASE CleanerWakes
  BY <1>11 DEF CleanerWakes, PipeWriters
<1>12. CASE CleanTry
  BY <1>12 DEF CleanTry
<1>13. CASE HangupKills
  BY <1>13 DEF HangupKills, MainEnds, Leaves
<1>14. CASE GoroutineMoves
  BY <1>14 DEF GoroutineMoves
<1>15. CASE ProgramUsesPipe
  BY <1>15 DEF ProgramUsesPipe
<1>16. QED
  BY <1>1, <1>2, <1>3, <1>4, <1>5, <1>6, <1>7, <1>8, <1>9, <1>10, <1>11, <1>12,
     <1>13, <1>14, <1>15, PtyStepsKeepProcesses DEF LaunchNext

LEMMA LimitsInvHolds == Spec => []LimitsInv
<1>1. Init => LimitsInv
  BY DEF Init, LaunchInit, LimitsInv, LimitsHold, Alive
<1>2. LimitsInv /\ [Next]_vars => LimitsInv'
  BY LimitsInvInductive
<1>3. QED
  BY <1>1, <1>2, PTL DEF Spec

(* Once main has entered the session's cgroup, the program stays in it for *)
(* its whole life, whoever else has died, as long as it leaves its copy of *)
(* the pipe alone (userns_init.c).                                         *)
THEOREM LimitsAlwaysHold == Spec => []LimitsHold
<1>1. LimitsInv => LimitsHold
  BY DEF LimitsInv
<1>2. QED
  BY <1>1, LimitsInvHolds, PTL

-----------------------------------------------------------------------------
(* childInit.                                                              *)

Procs == [root : {"host", "staged", "sandbox"}, gid : {"root", "user"},
          uid : {"root", "user"}, filtered : BOOLEAN, groups : {"root", "user"},
          threads : SUBSET [filtered : BOOLEAN, groups : {"root", "user"}],
          moved : BOOLEAN]

(* What childInit has made of the child p when step k is next: what is the *)
(* process's, for certain; what is a thread's, on no thread too early and, *)
(* if childInit has stayed on one, on that one for certain.                *)
Made(p, k) ==
    /\ p \in Procs
    /\ p.root = IF k <= 2 THEN "host" ELSE IF k = 3 THEN "staged" ELSE "sandbox"
    /\ p.gid = IF k > 10 THEN "user" ELSE "root"
    /\ p.uid = IF k > 11 THEN "user" ELSE "root"
    /\ p.filtered => k > 7 /\ Seccomp
    /\ \A t \in p.threads : t.filtered => k > 7 /\ Seccomp
    /\ ~p.moved => /\ k > 7 /\ Seccomp => p.filtered
                   /\ k > 9 => p.groups = "user"

ChildInv ==
    /\ at \in 1..13
    /\ Made(proc, at)
    /\ child \in {"none", "init", "program", "gone"}
    /\ child \in {"none", "init"} => at <= 12
    /\ child = "program" => at = 13

LEMMA StepsInOrder ==
    /\ Len(ChildSteps) = 12
    /\ ChildSteps[1] = "private" /\ ChildSteps[2] = "build"
    /\ ChildSteps[3] = "pivot" /\ ChildSteps[4] = "chdir"
    /\ ChildSteps[5] = "detach" /\ ChildSteps[6] = "rlimits"
    /\ ChildSteps[7] = "seccomp" /\ ChildSteps[8] = "loopback"
    /\ ChildSteps[9] = "setgroups" /\ ChildSteps[10] = "setgid"
    /\ ChildSteps[11] = "setuid" /\ ChildSteps[12] = "exec"
BY DEF ChildSteps

LEMMA BlacklistVerdict ==
    ASSUME NEW nr
    PROVE  /\ Verdict(BuildFilter(Blacklist), nr) =
                 IF nr \in Denied THEN "errno" ELSE "allow"
           /\ Verdict(<<>>, nr) = "allow"
<1>1. Len(Blacklist) \in 0..255
  BY DEF Blacklist
<1>2. Listed(Blacklist) = Denied
  BY DEF Listed, Denied
<1>3. Verdict(BuildFilter(Blacklist), nr) = IF nr \in Denied THEN "errno" ELSE "allow"
  BY <1>1, <1>2, FilterVerdict
<1>4. Verdict(<<>>, nr) = "allow"
  BY DEF Verdict
<1>5. QED
  BY <1>3, <1>4

(* What the child still calls under its filter is not on the list.         *)
LEMMA LaterCallsAllowed ==
    {"ioctl", "setgroups", "setgid", "setuid", "execve"} \cap Denied = {}
<1>1. \A i \in 1..34 : Blacklist[i] \notin {"ioctl", "setgroups", "setgid", "setuid", "execve"}
  BY DEF Blacklist
<1>2. Len(Blacklist) = 34
  BY DEF Blacklist
<1>3. QED
  BY <1>1, <1>2 DEF Denied

(* No step is reached that the process may not make any more.              *)
LEMMA StepsPermitted ==
    ASSUME NEW k \in 1..12, NEW p, Made(p, k)
    PROVE  Skipped(ChildSteps[k]) \/ Permitted(p, ChildSteps[k])
<1>1. ChildSteps[k] \in AsRoot => p.uid = "root"
  BY StepsInOrder DEF AsRoot, Made
<1>2. CASE ~p.filtered
  BY <1>1, <1>2, BlacklistVerdict DEF Permitted, Answer
<1>3. CASE p.filtered
  <2>1. k > 7
    BY <1>3 DEF Made
  <2>2. CallOf(ChildSteps[k]) \in {"ioctl", "setgroups", "setgid", "setuid", "execve"}
    BY <2>1, StepsInOrder DEF CallOf
  <2>3. QED
    BY <1>1, <1>3, <2>2, BlacklistVerdict, LaterCallsAllowed
    DEF Permitted, Answer, Filter
<1>4. QED
  BY <1>2, <1>3

LEMMA StepMakes ==
    ASSUME NEW k \in 1..12, NEW p, Made(p, k)
    PROVE  LET s == ChildSteps[k]
           IN /\ ~Skipped(s) => Made(After(p, s), k + 1)
              /\ Skipped(s) \/ s \in BestEffort => Made(p, k + 1)
              /\ s = "exec" <=> k = 12
<1> DEFINE s == ChildSteps[k]
           q == Stepped(p, s)
<1>1. s = "exec" <=> k = 12
  BY StepsInOrder
<1>2. Skipped(s) \/ s \in BestEffort => Made(p, k + 1)
  BY StepsInOrder DEF Skipped, BestEffort, Made
<1>3. ASSUME ~Skipped(s)
      PROVE  Made(After(p, s), k + 1)
  <2>1. Made(q, k + 1) /\ q.threads = p.threads
    <3>1. CASE k \in {1, 4, 5, 6, 8, 12}
      <4>1. q = p
        BY <3>1, StepsInOrder DEF Stepped
      <4>2. QED
        BY <3>1, <4>1 DEF Made
    <3>2. CASE k = 2
      <4>1. q = [p EXCEPT !.root = "staged"]
        BY <3>2, StepsInOrder DEF Stepped
      <4>2. QED
        BY <3>2, <4>1 DEF Made, Procs
    <3>3. CASE k = 3
      <4>1. q = [p EXCEPT !.root = "sandbox"]
        BY <3>3, StepsInOrder DEF Stepped
      <4>2. QED
        BY <3>3, <4>1 DEF Made, Procs
    <3>4. CASE k = 7
      <4>1. q = [p EXCEPT !.filtered = TRUE]
        BY <3>4, StepsInOrder DEF Stepped
      <4>2. Seccomp
        BY <1>3, <3>4, StepsInOrder DEF Skipped
      <4>3. q \in Procs /\ q.filtered
        BY <4>1 DEF Made, Procs
      <4>4. /\ q.root = p.root /\ q.gid = p.gid /\ q.uid = p.uid
            /\ q.threads = p.threads /\ q.moved = p.moved
        BY <4>1 DEF Made, Procs
      <4> HIDE DEF q
      <4>5. QED
        BY <3>4, <4>2, <4>3, <4>4 DEF Made
    <3>5. CASE k = 9
      <4>1. q = [p EXCEPT !.groups = "user"]
        BY <3>5, StepsInOrder DEF Stepped
      <4>2. QED
        BY <3>5, <4>1 DEF Made, Procs
    <3>6. CASE k = 10
      <4>1. q = [p EXCEPT !.gid = "user"]
        BY <3>6, StepsInOrder DEF Stepped
      <4>2. QED
        BY <3>6, <4>1 DEF Made, Procs
    <3>7. CASE k = 11
      <4>1. q = [p EXCEPT !.uid = "user"]
        BY <3>7, StepsInOrder DEF Stepped
      <4>2. QED
        BY <3>7, <4>1 DEF Made, Procs
    <3> HIDE DEF q
    <3>8. QED
      BY <3>1, <3>2, <3>3, <3>4, <3>5, <3>6, <3>7
  <2>2. ThreadOf(q) \in [filtered : BOOLEAN, groups : {"root", "user"}]
        /\ (ThreadOf(q).filtered => k + 1 > 7 /\ Seccomp)
    BY <2>1 DEF ThreadOf, Made, Procs
  <2> DEFINE T == (IF s = "exec" THEN {} ELSE q.threads) \cup {ThreadOf(q)}
  <2>3. T \subseteq [filtered : BOOLEAN, groups : {"root", "user"}]
        /\ \A t \in T : t.filtered => k + 1 > 7 /\ Seccomp
    BY <2>1, <2>2 DEF Made, Procs
  <2> HIDE DEF q, T
  <2>4. Made([q EXCEPT !.threads = T], k + 1)
    BY <2>1, <2>3 DEF Made, Procs
  <2>5. QED
    BY <2>4 DEF After, q, T
<1>4. QED
  BY <1>1, <1>2, <1>3

LEMMA MoveMakes ==
    ASSUME NEW k \in 1..13, NEW p, Made(p, k), NEW t \in p.threads
    PROVE  Made([p EXCEPT !.filtered = t.filtered, !.groups = t.groups,
                          !.moved = TRUE], k)
BY DEF Made, Procs

LEMMA NewChildMade == Made(NewChild, 1)
BY DEF Made, Procs, NewChild

LEMMA ChildInvInductive ==
    ASSUME ChildInv, LimitsInv, [Next]_vars
    PROVE  ChildInv'
<1>1. CASE UNCHANGED Processed
  BY <1>1 DEF ChildInv, Processed, Made
<1>2. CASE Unshare
  BY <1>2 DEF Unshare, LimitsInv, ChildInv, Made
<1>3. CASE ChildStep
  <2> DEFINE s == ChildSteps[at]
  <2>1. at \in 1..12 /\ child = "init" /\ Made(proc, at)
    BY <1>3 DEF ChildStep, ChildInv
  <2>2. CASE /\ Skipped(s) \/ Permitted(proc, s)
             /\ proc' = IF Skipped(s) THEN proc ELSE After(proc, s)
             /\ at' = at + 1
             /\ child' = IF s = "exec" THEN "program" ELSE "init"
    <3>1. Made(proc', at + 1)
      BY <2>1, <2>2, StepMakes
    <3>2. s = "exec" <=> at = 12
      BY <2>1, StepMakes
    <3>3. Made(proc, at)'
      BY <2>2, <3>1 DEF Made
    <3>4. QED
      BY <2>1, <2>2, <3>2, <3>3 DEF ChildInv
  <2>3. CASE s \in BestEffort /\ at' = at + 1 /\ UNCHANGED <<proc, child>>
    <3>1. Made(proc, at)'
      BY <2>1, <2>3, StepMakes DEF Made
    <3>2. at # 12
      BY <2>1, <2>3, StepsInOrder DEF BestEffort
    <3>3. QED
      BY <2>1, <2>3, <3>1, <3>2 DEF ChildInv
  <2>4. CASE ChildEnds
    BY <2>4, NewChildMade DEF ChildEnds, ChildInv, Made
  <2>5. QED
    BY <1>3, <2>2, <2>3, <2>4 DEF ChildStep
<1>4. CASE ProgramExits
  BY <1>4, NewChildMade DEF ProgramExits, ChildEnds, ChildInv, Made
<1>5. CASE GoroutineMoves
  <2>1. at \in 1..13 /\ Made(proc, at)
    BY DEF ChildInv
  <2>2. PICK t \in proc.threads :
           proc' = [proc EXCEPT !.filtered = t.filtered, !.groups = t.groups,
                                !.moved = TRUE]
    BY <1>5 DEF GoroutineMoves
  <2>3. UNCHANGED <<child, at>>
    BY <1>5 DEF GoroutineMoves
  <2>4. Made(proc', at)
    BY <2>1, <2>2, MoveMakes
  <2>5. Made(proc, at)'
    BY <2>3, <2>4 DEF Made
  <2>6. QED
    BY <2>3, <2>5 DEF ChildInv
<1>6. CASE SudoRuns \/ EnterCgroup \/ Prepare \/ MainReaps \/ MainLeaves
           \/ SudoLeaves \/ CleanerWakes \/ CleanTry \/ HangupKills
           \/ ProgramUsesPipe
  <2>1. UNCHANGED <<child, at, proc>>
    BY <1>6 DEF SudoRuns, EnterCgroup, Prepare, MainReaps, MainLeaves,
                SudoLeaves, CleanerWakes, CleanTry, HangupKills, ProgramUsesPipe
  <2>2. QED
    BY <2>1 DEF ChildInv, Made
<1>7. QED
  BY <1>1, <1>2, <1>3, <1>4, <1>5, <1>6, PtyStepsKeepProcesses DEF LaunchNext

LEMMA ChildInvHolds == Spec => []ChildInv
<1>1. Init => ChildInv
  BY NewChildMade DEF Init, LaunchInit, ChildInv
<1>2. ChildInv /\ LimitsInv /\ [Next]_vars => ChildInv'
  BY ChildInvInductive
<1>3. QED
  BY <1>1, <1>2, LimitsInvHolds, PTL DEF Spec

(* Every step of childInit is one that the process may still make, on      *)
(* whatever thread; the program runs in the new root, as the user, under   *)
(* no filter but the one asked for, and if childInit has stayed on one     *)
(* thread exactly under that and in the user's groups (childInit,          *)
(* dropToUser, execProgram).                                               *)
THEOREM LaunchAlwaysInOrder == Spec => []LaunchInOrder
<1>1. ChildInv => LaunchInOrder
  <2> SUFFICES ASSUME ChildInv
               PROVE  LaunchInOrder
    OBVIOUS
  <2>1. ASSUME child = "init"
        PROVE  Skipped(ChildSteps[at]) \/ Permitted(proc, ChildSteps[at])
    BY <2>1, StepsPermitted DEF ChildInv
  <2>2. ASSUME child = "program"
        PROVE  /\ proc.root = "sandbox"
               /\ <<proc.gid, proc.uid>> = <<"user", "user">>
               /\ proc.filtered => Seccomp
               /\ ~proc.moved => /\ Seccomp => proc.filtered
                                 /\ proc.groups = "user"
    BY <2>2 DEF ChildInv, Made
  <2>3. QED
    BY <2>1, <2>2, BlacklistVerdict, LaunchAssumption
    DEF LaunchInOrder, Answer, Filter
<1>2. QED
  BY <1>1, ChildInvHolds, PTL

-----------------------------------------------------------------------------
(* Close.                                                                  *)

Working == {"lock", "master", "kill", "wait"}

CloseInv ==
    /\ mu \in Writers \cup {Free}
    /\ writer \in [Writers -> {"idle", "writing"}]
    /\ closer \in [Closers -> Working \cup {"idle", "queued", "returned"}]
    /\ once \in {"new", "running", "done"} /\ closed \in BOOLEAN
    /\ sudo \in {"running", "gone"} /\ master \in {"open", "closed"}
    /\ \A w \in Writers : writer[w] = "writing" <=> mu = w
    /\ \A k \in Closers :
          /\ closer[k] \in Working => once = "running"
          /\ closer[k] = "returned" => once = "done"
          /\ closer[k] \in {"master", "kill", "wait"} => closed
          /\ closer[k] \in {"kill", "wait"} => master = "closed"
          /\ \A j \in Closers \ {k} :
                closer[k] \in Working => closer[j] \notin Working
    /\ closed => mu = Free
    /\ once = "done" => closed /\ master = "closed" /\ sudo = "gone"

(* Nobody but Close kills sudo, and nothing brings it back.                *)
LEMMA ProcessesInClose ==
    ASSUME CloseInv, Processes
    PROVE  sudo' \in {"running", "gone"} /\ (sudo = "gone" => sudo' = "gone")
BY DEF CloseInv, Processes, LaunchNext, SudoRuns, EnterCgroup, Prepare, Unshare,
       ChildStep, GoroutineMoves, ProgramUsesPipe, ProgramExits, MainReaps,
       MainLeaves, SudoLeaves, CleanerWakes, CleanTry, HangupKills

LEMMA CloseInvInductive ==
    ASSUME CloseInv, [Next]_vars
    PROVE  CloseInv'
<1> USE PtyAssumption DEF CloseInv, Working
<1>1. CASE UNCHANGED vars
  BY <1>1 DEF vars, launchVars, ptyVars
<1>2. ASSUME NEW w \in Writers, WriteLock(w)
      PROVE  CloseInv'
  BY <1>2 DEF WriteLock, launchVars
<1>3. ASSUME NEW w \in Writers, WriteReturns(w)
      PROVE  CloseInv'
  BY <1>3 DEF WriteReturns, launchVars
<1>4. CASE ReadBegin \/ ReadReturns \/ ProgramReads \/ Prints
  BY <1>4 DEF ReadBegin, ReadReturns, ProgramReads, Prints, launchVars
<1>5. ASSUME NEW k \in Closers, CloseCall(k)
      PROVE  CloseInv'
  BY <1>5 DEF CloseCall, launchVars
<1>6. ASSUME NEW k \in Closers, CloseMark(k)
      PROVE  CloseInv'
  BY <1>6 DEF CloseMark, launchVars
<1>7. ASSUME NEW k \in Closers, CloseMaster(k)
      PROVE  CloseInv'
  BY <1>7 DEF CloseMaster
<1>8. ASSUME NEW k \in Closers, CloseKill(k)
      PROVE  CloseInv'
  BY <1>8 DEF CloseKill
<1>9. ASSUME NEW k \in Closers, CloseWait(k)
      PROVE  CloseInv'
  BY <1>9 DEF CloseWait, launchVars
<1>10. ASSUME NEW k \in Closers, CloseQueued(k)
       PROVE  CloseInv'
  BY <1>10 DEF CloseQueued, launchVars
<1>11. CASE Processes
  BY <1>11, ProcessesInClose DEF Processes, ptyVars
<1>12. QED
  BY <1>1, <1>2, <1>3, <1>4, <1>5, <1>6, <1>7, <1>8, <1>9, <1>10, <1>11
  DEF Next, CloseStep

LEMMA CloseInvHolds == Spec => []CloseInv
<1>1. Init => CloseInv
  BY PtyAssumption DEF Init, LaunchInit, CloseInv, Working
<1>2. CloseInv /\ [Next]_vars => CloseInv'
  BY CloseInvInductive
<1>3. QED
  BY <1>1, <1>2, PTL DEF Spec

(* Whichever caller's Close returns, and whoever did the work, the master  *)
(* is closed and sudo has been waited for: no caller gets back before the  *)
(* session's process is gone (once.Do and cmd.Wait in Close).              *)
ReturnedMeansGone ==
    \A k \in Closers : closer[k] = "returned" => master = "closed" /\ sudo = "gone"

(* Close returns only when there is nothing left to end, to every caller. *)
THEOREM CloseReturnsOnlyWhenGone == Spec => []ReturnedMeansGone
<1>1. CloseInv => ReturnedMeansGone
  BY DEF CloseInv, ReturnedMeansGone
<1>2. QED
  BY <1>1, CloseInvHolds, PTL

(* At most one writer is in the terminal, it is the one that has s.mu, and *)
(* once the session is marked closed nobody is or will be: a write that    *)
(* was admitted has left before Close goes on (Write and Close, s.mu).     *)
WritesBeforeClose ==
    /\ \A v, w \in Writers : writer[v] = "writing" /\ writer[w] = "writing" => v = w
    /\ closed => \A w \in Writers : writer[w] = "idle"

(* No write of readLoop is in the kernel when Close closes the master.    *)
THEOREM NoWriteIntoClosed == Spec => []WritesBeforeClose
<1>1. CloseInv => WritesBeforeClose
  BY PtyAssumption DEF CloseInv, WritesBeforeClose
<1>2. QED
  BY <1>1, CloseInvHolds, PTL
=============================================================================
