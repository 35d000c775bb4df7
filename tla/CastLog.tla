------------------------------ MODULE CastLog ------------------------------
(***************************************************************************)
(* What Recorder promises about cast.log and meta.json, without queue,     *)
(* locks and goroutines: events are accepted in the order of their times   *)
(* until the recording closes, and written in that order, so that a crash  *)
(* leaves a prefix of them that can be replayed (DESIGN_AUDIT.md, 3.1);    *)
(* once the file is sealed it holds every event that was accepted and      *)
(* never changes again, and only then can meta.json have an end.           *)
(***************************************************************************)
EXTENDS Integers, Sequences

VARIABLES
    accepted,   \* the events of the recording, in order
    written,    \* those of them in cast.log
    phase,      \* "open", "closing" (accepts nothing more) or "sealed"
    ended       \* whether meta.json has an end

logVars == <<accepted, written, phase, ended>>

Init ==
    /\ accepted = <<>> /\ written = <<>>
    /\ phase = "open" /\ ended = FALSE

(* One event, not earlier than those before it.                            *)
OneMore ==
    \E new \in {accepted'[i] : i \in DOMAIN accepted'} :
        /\ accepted' = Append(accepted, new)
        /\ \A i \in DOMAIN accepted : accepted[i].t <= new.t

Accept ==
    /\ phase = "open"
    /\ OneMore
    /\ UNCHANGED <<written, phase, ended>>

(* The last event may come with the end: input that still waited.          *)
BeginClose ==
    /\ phase = "open"
    /\ OneMore \/ UNCHANGED accepted
    /\ phase' = "closing"
    /\ UNCHANGED <<written, ended>>

Write ==
    /\ phase # "sealed"
    /\ \E n \in Len(written) + 1 .. Len(accepted) : written' = SubSeq(accepted, 1, n)
    /\ UNCHANGED <<accepted, phase, ended>>

Seal ==
    /\ phase = "closing"
    /\ written' = accepted
    /\ phase' = "sealed"
    /\ UNCHANGED <<accepted, ended>>

(* meta.json gets its end, and may lose it to an older Event.              *)
Conclude ==
    /\ phase = "sealed"
    /\ ended' = ~ended
    /\ UNCHANGED <<accepted, written, phase>>

Next == Accept \/ BeginClose \/ Write \/ Seal \/ Conclude

Spec == Init /\ [][Next]_logVars
=============================================================================
