----------------------------- MODULE MCRecorder -----------------------------
(* TLC instances of Recorder: scenarios that take the different ways       *)
(* through recordInputBlock and the recorder, each with what it needs.     *)
EXTENDS Recorder, TLC

Mask == [recordInput |-> TRUE, passwordMode |-> "mask", maskWhen |-> "echo_verify",
         strictBatch |-> FALSE, hangPlain |-> FALSE, tui |-> FALSE]

Nothing == [shell |-> <<>>, cuts |-> {}, blocks |-> {}, inputs |-> 0, sizes |-> {},
            callers |-> {}, ticks |-> 2]

(* Blocks of any length of the shell's output against Close.               *)
OutputOnly == [opt |-> Mask,
               work |-> [Nothing EXCEPT !.shell = <<"a", "l3", "c", "c", "l2", "b">>,
                                        !.cuts = 1 .. 6]]
(* Two inputs against the output that may be their echo.                   *)
Echoes == [opt |-> [Mask EXCEPT !.hangPlain = TRUE],
           work |-> [Nothing EXCEPT !.shell = <<"a", "b">>, !.cuts = {1, 2}, !.inputs = 2,
                                    !.blocks = {<<"a", "b">>}, !.ticks = 1]]
(* Resizes, before and after the header is decided.                        *)
Resizes == [opt |-> Mask,
            work |-> [Nothing EXCEPT !.shell = <<"a", "b">>, !.cuts = {1, 2}, !.sizes = {1, 2}]]
(* A program that takes the screen and leaves it.                          *)
Screen == [opt |-> [Mask EXCEPT !.tui = TRUE],
           work |-> [Nothing EXCEPT !.shell = <<"esc", "[", "?", "n47", "h", "esc", "[", "?", "n47", "l">>,
                                    !.cuts = {3, 5, 10}, !.blocks = {<<"?">>}, !.inputs = 1,
                                    !.ticks = 1]]
(* Input on both sides of the moment a program takes the screen.           *)
Takeover == [opt |-> [Mask EXCEPT !.tui = TRUE],
             work |-> [Nothing EXCEPT !.shell = <<"esc", "[", "?", "n47", "h", "a">>,
                                      !.cuts = {5, 6}, !.blocks = {<<"a">>}, !.inputs = 2,
                                      !.ticks = 0]]
(* Audit events against Close, with input that is masked as it comes.      *)
Events == [opt |-> [Mask EXCEPT !.strictBatch = TRUE],
           work |-> [Nothing EXCEPT !.shell = <<"a">>, !.cuts = {1}, !.blocks = {<<"a">>, <<"nl">>},
                                    !.inputs = 1, !.callers = Callers, !.ticks = 1]]

(* Every setting, for one block of input.                                  *)
Settings ==
    {[opt |-> [recordInput |-> i, passwordMode |-> p, maskWhen |-> m, strictBatch |-> strict,
               hangPlain |-> FALSE, tui |-> FALSE],
      work |-> [Nothing EXCEPT !.shell = <<"a">>, !.cuts = {1}, !.inputs = 1, !.ticks = 0,
                               !.blocks = {<<"a">>, <<"a", "b", "nl">>}]] :
        i \in BOOLEAN, p \in {"mask", "omit", "plaintext"},
        m \in {"echo_off", "echo_off_canonical", "echo_verify"}, strict \in BOOLEAN}

AllScenarios == {OutputOnly, Echoes, Resizes, Screen, Takeover, Events} \cup Settings
=============================================================================
