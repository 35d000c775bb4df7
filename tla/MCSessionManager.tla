-------------------------- MODULE MCSessionManager --------------------------
(* TLC instances of SessionManager.                                        *)
EXTENDS SessionManager, TLC
BothSymmetry == Permutations(Conns) \cup Permutations(Sessions)

(* Bounds of the run with two sessions and liveness, where sessions and    *)
(* connections are numbers.  They hold back no step of a goroutine that    *)
(* has begun: only recorded long sessions, which come due while the clock  *)
(* runs, and the lower number comes first (the choice of an id, which is   *)
(* random, and of a handler tells nothing).                                *)
OnlyLong ==
    \A s \in Sessions :
        /\ kind[s] = "none" \/ (kind[s] = "long" /\ rec[s] # "none")
        /\ Indexed(s) => sessions[s].expireAt <= MaxTime

LowestFirst ==
    /\ \A s, t \in Sessions : s < t /\ kind[s] = "none" => kind[t] = "none"
    /\ \A c, d \in Conns : c < d /\ pc[c] = "idle" => pc[d] = "idle"

LongSpec == Init /\ [][Next /\ (OnlyLong /\ LowestFirst)']_mgrVars /\ Fairness
=============================================================================
