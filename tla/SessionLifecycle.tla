-------------------------- MODULE SessionLifecycle --------------------------
(***************************************************************************)
(* What SessionManager promises about a session, without goroutines: it    *)
(* opens once, serves at most one connection at a time, and once it starts *)
(* to close it serves nobody, frees its quota slot and never comes back    *)
(* (DESIGN_SESSIONS.md, 3.3, 3.4 and R3 of 5.3).                           *)
(***************************************************************************)
CONSTANTS Sessions, Conns, None

VARIABLES
    phase,      \* phase[s] : "new", "open", "closing" (still holds its slot), "gone"
    served      \* served[s]: the connection that is given its output, or None

lifecycleVars == <<phase, served>>

Init ==
    /\ phase = [s \in Sessions |-> "new"]
    /\ served = [s \in Sessions |-> None]

Open(s) ==
    /\ phase[s] = "new"
    /\ phase' = [phase EXCEPT ![s] = "open"]
    /\ UNCHANGED served

Serve(s, c) ==
    /\ phase[s] = "open" /\ c # served[s]
    /\ served' = [served EXCEPT ![s] = c]
    /\ UNCHANGED phase

Leave(s) ==
    /\ phase[s] = "open" /\ served[s] # None
    /\ served' = [served EXCEPT ![s] = None]
    /\ UNCHANGED phase

BeginClose(s) ==
    /\ phase[s] = "open"
    /\ phase' = [phase EXCEPT ![s] = "closing"]
    /\ served' = [served EXCEPT ![s] = None]

FreeSlot(s) ==
    /\ phase[s] = "closing"
    /\ phase' = [phase EXCEPT ![s] = "gone"]
    /\ UNCHANGED served

Next == \E s \in Sessions :
            \/ Open(s) \/ Leave(s) \/ BeginClose(s) \/ FreeSlot(s)
            \/ \E c \in Conns : Serve(s, c)

Spec == Init /\ [][Next]_lifecycleVars
=============================================================================
