----------------------------- MODULE CastSlice -----------------------------
(***************************************************************************)
(* SliceCast (audit/cast.go): the part of a cast between two times, for a  *)
(* player that starts there.  A cast is a sequence of lines [typ, data, n, *)
(* plain, t]; the first one is the header, and a line that does not parse  *)
(* is none.                                                                *)
(***************************************************************************)
EXTENDS Integers, Sequences, SequencesExt

(* The header, output, input and resizes, each with its time.              *)
CastLines == [typ : {"h", "o", "i", "r"}, data : Seq(STRING), n : Nat, plain : BOOLEAN, t : Nat]

(* EncodeEventLine: a time below zero is written as zero.                  *)
Shifted(line, by) == [line EXCEPT !.t = IF @ + by < 0 THEN 0 ELSE @ + by]

WindowOpen(from, to) == to > from /\ to > 0

(* Mutant of SliceStep: the size is not restored.                          *)
SliceStepUnsized(acc, line, from, to) ==
    IF line.t < from \/ line.t >= to THEN acc
    ELSE [acc EXCEPT !.out = Append(@, Shifted(line, -from))]

(* The size that is in force when the window opens.                        *)
AtStart(size) == IF size = <<>> THEN <<>> ELSE <<[Head(size) EXCEPT !.t = 0]>>

(* One event: before the window the last resize is remembered, it precedes *)
(* the first event of the window, and what is not before the end is left   *)
(* out.                                                                    *)
SliceStep(acc, line, from, to) ==
    IF line.t < from THEN [acc EXCEPT !.size = IF line.typ = "r" THEN <<line>> ELSE @]
    ELSE IF line.t >= to THEN acc
    ELSE [acc EXCEPT !.out = Append(IF acc.restored THEN @ ELSE @ \o AtStart(acc.size),
                                    Shifted(line, -from)),
                     !.restored = TRUE]

NothingSliced == [out |-> <<>>, size |-> <<>>, restored |-> FALSE]

SliceState(lines, from, to) ==
    FoldLeft(LAMBDA acc, line : SliceStep(acc, line, from, to), NothingSliced, lines)

Slice(cast, from, to) ==
    IF cast = <<>> THEN <<>>
    ELSE <<Head(cast)>> \o
         (IF WindowOpen(from, to) THEN SliceState(Tail(cast), from, to).out ELSE <<>>)

-----------------------------------------------------------------------------
(* What a player shows of a cast from a time on: every event but resizes,  *)
(* with its time and with the size of the terminal it is shown on.         *)
ShowStep(acc, line, offset, first) ==
    IF line.typ \in {"h", "r"} THEN [acc EXCEPT !.size = line.n]
    ELSE IF line.t + offset < first THEN acc
    ELSE [acc EXCEPT !.out = Append(@, [typ |-> line.typ, t |-> line.t + offset, size |-> acc.size,
                                        data |-> line.data, n |-> line.n])]

NothingShown == [out |-> <<>>, size |-> 0]

ShowState(cast, offset, first) ==
    FoldLeft(LAMBDA acc, line : ShowStep(acc, line, offset, first), NothingShown, cast)

Shown(cast, offset, first) == ShowState(cast, offset, first).out
=============================================================================
