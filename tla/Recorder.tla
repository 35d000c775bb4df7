------------------------------ MODULE Recorder ------------------------------
(***************************************************************************)
(* The recorder of one session (audit/recorder.go) between the goroutines  *)
(* that use it: the pump (WriteOutput), the read loop (recordInputBlock in *)
(* handler/manager.go, then one of the WriteInput methods, and             *)
(* WriteResize), the callers of Event, its own flushLoop, and Close.       *)
(*                                                                         *)
(* r.mu is released between the parts of a method, so a method is one      *)
(* action per time it holds r.mu; writing cast.log and meta.json happens   *)
(* outside r.mu and is an action of its own.  A cast line has size 1, a    *)
(* byte is a class of bytes, and the pump reads what the shell writes in   *)
(* blocks of any length.  Sizes are numbers, 0 for "80x24".  The time is   *)
(* seconds since the recorder was opened.                                  *)
(*                                                                         *)
(* Left out: that writing cast.log may fail, of which the code takes no    *)
(* notice (recorder.go:713-724, 892-898), and that bufio puts lines on the *)
(* disk in pieces: file is what was handed to bufio.                       *)
(***************************************************************************)
EXTENDS Integers, Sequences, SequencesExt, FiniteSets, CastSlice

CONSTANTS
    Scenarios,      \* pairs of the settings of a session, opt, and of what is
                    \* done to it, work: the bytes of the shell and where a
                    \* read may end, the input blocks and how many of them,
                    \* the sizes, in order, the calls of Event, the seconds
    Replacement,    \* U+FFFD
    Callers,        \* goroutines that call Event, at most once each
    PendingCap, HeaderQueueCap, MaxSessionBytes,    \* in lines
    PendingInputCap,                                \* in bytes
    Hang, HeaderDelay                               \* in seconds

Options ==
    [recordInput : BOOLEAN, passwordMode : {"mask", "omit", "plaintext"},
     maskWhen : {"echo_off", "echo_off_canonical", "echo_verify"},
     strictBatch : BOOLEAN, hangPlain : BOOLEAN, tui : BOOLEAN]

ASSUME RecorderConstants ==
    /\ {PendingCap, HeaderQueueCap, MaxSessionBytes, PendingInputCap} \subseteq Nat
    /\ {Hang, HeaderDelay} \subseteq Nat
    /\ \A s \in Scenarios :
         /\ s.opt \in Options
         /\ s.work.shell \in Seq(STRING) /\ s.work.cuts \subseteq 1 .. Len(s.work.shell)
         /\ s.work.blocks \subseteq Seq(STRING) /\ s.work.inputs \in Nat
         /\ s.work.sizes \subseteq Nat \ {0} /\ s.work.ticks \in Nat
         /\ s.work.callers \subseteq Callers

ASSUME ReplacementIsACharacter == Replacement \in STRING

VARIABLES
    opt,        \* record_input, password_mode, mask_when, ...; never changes
    work,       \* what is done to the recorder; never changes
    now,        \* the clock
    q,          \* what r.mu guards but for the next four: the queue, counters
    pend,       \* pendPend
    tail,       \* utfTail
    screen,     \* escParse, escNum, setupOpen
    file,       \* lines of cast.log, those still in bufio included
    metaFile,   \* meta.json
    pos, pump,  \* bytes of the shell that were read; WriteOutput
    typed,      \* every input block, with the terminal's mode (a history)
    windows,    \* per input block the recorder took, the output until it
                \* took the next one (a history)
    reader,     \* the read loop's call
    event,      \* per caller of Event
    flusher,    \* flushLoop
    closer,     \* Close
    cut         \* how much output and input Close had to record (a history)

lockVars == <<q, pend, tail, screen>>
diskVars == <<file, metaFile>>
pumpVars == <<pos, pump>>
readerVars == <<typed, windows, reader>>
vars == <<opt, work, now, lockVars, diskVars, pumpVars, readerVars, event, flusher, closer, cut>>

-----------------------------------------------------------------------------
(* Bytes: "c" is a continuation byte, "l2", "l3" and "l4" lead a sequence  *)
(* of two to four bytes, "esc" and "nl" are control bytes, "n47" is the    *)
(* number of an alternate screen and "n25" another one.                    *)

Lead == [l2 |-> 1, l3 |-> 2, l4 |-> 3]
Control == {"esc", "nl"}

(* A whole character begins with byte k of b.                              *)
CharacterIn(b, k) ==
    /\ b[k] \in DOMAIN Lead /\ k + Lead[b[k]] <= Len(b)
    /\ \A j \in k + 1 .. k + Lead[b[k]] : b[j] = "c"

(* What json.Marshal makes of the string b: U+FFFD takes the place of each *)
(* byte that is not part of a character.                                   *)
Encode(b) ==
    [i \in DOMAIN b |->
        IF \/ b[i] \notin DOMAIN Lead \cup {"c"}
           \/ \E k \in 1 .. i : CharacterIn(b, k) /\ i <= k + Lead[b[k]]
        THEN b[i] ELSE Replacement]

(* An unfinished character at the end of a block waits for the next one.   *)
SplitUTF8Tail(b) ==
    LET heads == {i \in DOMAIN b : b[i] # "c"}
        i == CHOOSE i \in heads : \A j \in heads : j <= i
    IN IF heads # {} /\ b[i] \in DOMAIN Lead /\ Len(b) - i < Lead[b[i]]
       THEN [complete |-> SubSeq(b, 1, i - 1), rest |-> SubSeq(b, i, Len(b))]
       ELSE [complete |-> b, rest |-> <<>>]

(* The printable bytes of b: ASCII and whole UTF-8 sequences.              *)
Printable(b) ==
    LET kept == {i \in DOMAIN b : b[i] \notin Control \cup DOMAIN Lead \cup {"c"}}
                \cup UNION {i .. i + Lead[b[i]] : i \in {k \in DOMAIN b : CharacterIn(b, k)}}
    IN {b[i] : i \in kept}

(* One byte through the parser of ESC [ ? number h|l.                      *)
ScanByte(s, c) ==
    CASE s.esc = 0 /\ c = "esc" -> [s EXCEPT !.esc = 1]
      [] s.esc = 1 /\ c = "[" -> [s EXCEPT !.esc = 2]
      [] s.esc = 1 /\ c = "esc" -> s
      [] s.esc = 2 /\ c = "?" -> [s EXCEPT !.esc = 3, !.num = "none"]
      [] s.esc = 3 /\ c \in {"n47", "n25"} ->
            [s EXCEPT !.num = IF @ = "none" THEN c ELSE "n25"]
      [] s.esc = 3 /\ c = "h" ->
            [s EXCEPT !.esc = 0, !.open = @ \/ s.num = "n47"]
      [] s.esc = 3 /\ c = "l" ->
            [s EXCEPT !.esc = 0, !.open = @ /\ s.num # "n47",
                      !.exited = @ \/ (s.open /\ s.num = "n47")]
      [] OTHER -> [s EXCEPT !.esc = 0]

ScanAltScreen(s, block) == FoldLeft(ScanByte, [s EXCEPT !.exited = FALSE], block)

-----------------------------------------------------------------------------
(* What is done while r.mu is held.                                        *)

Later(s, t) == IF s < t THEN t ELSE s

(* The header takes the size known now, once.                              *)
DecideHeader(r) ==
    IF r.header # "none" THEN r
    ELSE [r EXCEPT !.header = "line", !.headerSize = r.size, !.bytes = @ + 1]

(* A line: n is the number of an input block, which stands for its text,   *)
(* or a size; plain is FALSE for asterisks.                                *)
Line(typ, data, n, plain, t) == [typ |-> typ, data |-> data, n |-> n, plain |-> plain, t |-> t]
OutputLine(block, t) == Line("o", Encode(block), 0, TRUE, t)
InputLine(n, plain, t) == Line("i", <<>>, n, plain, t)
SizeLine(typ, size, t) == Line(typ, <<>>, size, TRUE, t)

Refused(r, typ) ==
    \/ r.closed
    \/ typ = "o" /\ r.stopped
    \/ typ = "i" /\ ~opt.recordInput

(* Times never go back; only output stops at MaxSessionBytes; a full queue *)
(* drops the line and counts it; a long queue decides the header.          *)
AppendLine(r, line) ==
    LET at == Later(line.t, r.lastT)
        length == Len(r.lines) + 1
        headed == IF length >= HeaderQueueCap THEN DecideHeader(r) ELSE r
    IN IF Refused(r, line.typ) THEN r
       ELSE IF line.typ = "o" /\ r.bytes >= MaxSessionBytes THEN [r EXCEPT !.stopped = TRUE]
       ELSE IF length > PendingCap THEN [r EXCEPT !.dropped = @ + 1]
       ELSE [headed EXCEPT !.lines = Append(@, [line EXCEPT !.t = at]),
                           !.bytes = @ + 1, !.lastT = at]

(* A pending input block becomes a line: as it is, or masked.              *)
EmitSettled(r, p, plain) ==
    IF plain THEN AppendLine(r, InputLine(p.n, TRUE, p.t))
    ELSE IF opt.passwordMode = "omit" THEN r
    ELSE AppendLine([r EXCEPT !.masked = @ + 1], InputLine(p.n, FALSE, p.t))

(* What ends a window: the next input block or another boundary, the time, *)
(* or Close; and whether the block is then recorded as it was typed.       *)
Due(p, rule) == rule = "hang" => now - p.t >= Hang

Plain(p, rule) == p.reached /\ (rule = "boundary" \/ (rule = "hang" /\ opt.hangPlain))

Settle(r, blocks, rule) ==
    FoldLeft(LAMBDA acc, p : IF Due(p, rule) THEN EmitSettled(acc, p, Plain(p, rule)) ELSE acc,
             r, blocks)

SettleBoundary(r) == Settle(r, pend, "boundary")
SettleOverdue(r) == Settle(r, pend, "hang")
SettleForced(r) == Settle(r, pend, "close")

NotYetDue(blocks) ==
    FoldLeft(LAMBDA acc, p : IF Due(p, "hang") THEN acc ELSE Append(acc, p), <<>>, blocks)

(* Mutant of MatchPending: one echoed byte is enough.                      *)
MatchPendingAny(block) ==
    [k \in DOMAIN pend |->
        LET seen == pend[k].seen \cup Range(block)
        IN [pend[k] EXCEPT !.seen = seen, !.reached = @ \/ pend[k].printable \cap seen # {}]]

(* An output block is evidence that a pending input was echoed.            *)
MatchPending(block) ==
    [k \in DOMAIN pend |->
        LET seen == pend[k].seen \cup Range(block)
        IN IF pend[k].reached THEN pend[k]
           ELSE [pend[k] EXCEPT !.seen = seen, !.reached = pend[k].printable \subseteq seen]]

MetaNow == [ended |-> q.closed, masked |-> q.masked, dropped |-> q.dropped,
            stopped |-> q.stopped]

-----------------------------------------------------------------------------
Idle == [at |-> "idle"]
Modes == {"echo", "canon", "raw", "unreadable"}     \* of the terminal

(* Open wrote meta.json and started flushLoop.                             *)
Init ==
    /\ \E s \in Scenarios : opt = s.opt /\ work = s.work
    /\ now = 0
    /\ q = [closed |-> FALSE, header |-> "none", headerSize |-> 0, size |-> 0,
            lines |-> <<>>, bytes |-> 0, lastT |-> 0, stopped |-> FALSE,
            dropped |-> 0, masked |-> 0]
    /\ pend = <<>> /\ tail = <<>>
    /\ screen = [esc |-> 0, num |-> "none", open |-> FALSE, exited |-> FALSE]
    /\ file = <<>>
    /\ metaFile = MetaNow
    /\ pos = 0 /\ pump = [at |-> "read", block |-> <<>>, since |-> 0]
    /\ typed = <<>> /\ windows = <<>>
    /\ reader = Idle
    /\ event = [e \in Callers |-> Idle]
    /\ flusher = [at |-> "wait", lines |-> <<>>]
    /\ closer = Idle
    /\ cut = [out |-> -1, ins |-> 0]

-----------------------------------------------------------------------------
(* WriteOutput, in the pump: the block is completed with the tail of the   *)
(* last one and cut before an unfinished character.                        *)
OutputSplit ==
    /\ pump.at = "read"
    /\ \E end \in {e \in work.cuts : e > pos} :
         LET split == SplitUTF8Tail(tail \o SubSeq(work.shell, pos + 1, end)) IN
         /\ pos' = end
         /\ tail' = split.rest
         /\ pump' = IF split.complete = <<>> THEN pump
                    ELSE [at |-> "match", block |-> split.complete, since |-> now]
    /\ cut' = IF closer.at \in {"tail", "mark"} THEN [cut EXCEPT !.out = -1] ELSE cut
    /\ UNCHANGED <<opt, work, now, q, pend, screen, diskVars, readerVars, event, flusher, closer>>

Observed(block) ==
    windows' = IF windows = <<>> THEN windows
               ELSE [windows EXCEPT ![Len(windows)] = @ \cup Range(block)]

(* Then it counts as evidence; leaving the alternate screen is a boundary. *)
OutputMatch ==
    /\ pump.at = "match"
    /\ LET scanned == IF opt.tui THEN ScanAltScreen(screen, pump.block) ELSE screen
           matched == MatchPending(pump.block)
       IN /\ screen' = [scanned EXCEPT !.exited = FALSE]
          /\ pend' = IF scanned.exited THEN <<>> ELSE matched
          /\ q' = IF scanned.exited
                  THEN Settle(q, matched, "boundary")
                  ELSE q
    /\ Observed(pump.block)
    /\ pump' = [pump EXCEPT !.at = "append", !.since = now]
    /\ UNCHANGED <<opt, work, now, tail, diskVars, pos, typed, reader, event, flusher, closer, cut>>

(* Then it becomes a line, with a time taken before r.mu was.              *)
OutputAppend ==
    /\ pump.at = "append"
    /\ \E t \in pump.since .. now : q' = AppendLine(q, OutputLine(pump.block, t))
    /\ pump' = [at |-> "read", block |-> <<>>, since |-> 0]
    /\ UNCHANGED <<opt, work, now, pend, tail, screen, diskVars, pos, readerVars, event, flusher,
                   closer, cut>>

-----------------------------------------------------------------------------
(* The read loop: recordInputBlock chooses the method from the settings    *)
(* and from the terminal's mode, which is read before the pty is written.  *)
Method(b, mode) ==
    LET verify == opt.maskWhen = "echo_verify"
        newline == "nl" \in Range(b)
    IN IF ~opt.recordInput THEN "none"
       ELSE IF opt.passwordMode = "plaintext" THEN "plain"
       ELSE CASE mode = "unreadable" -> "none"
              [] mode = "echo" ->
                   IF ~newline THEN "plain"
                   ELSE IF opt.strictBatch THEN "masked"
                   ELSE IF verify THEN "deferred" ELSE "plain"
              [] mode = "canon" -> "masked"
              [] mode = "raw" ->
                   CASE opt.maskWhen = "echo_off" -> "masked"
                     [] opt.maskWhen = "echo_off_canonical" -> "plain"
                     [] verify -> "deferred"

Arrives(b, mode) ==
    /\ reader.at = "idle" /\ Len(typed) < work.inputs
    /\ typed' = Append(typed, [b |-> b, mode |-> mode, alt |-> opt.tui /\ screen.open])

Appends(line) == reader' = [at |-> "append", line |-> line]

NotReader == UNCHANGED <<opt, work, now, tail, screen, diskVars, pumpVars, event, flusher, closer, cut>>

(* Nothing is recorded: the setting, or echoState failed.                  *)
SkipInput(b, mode) ==
    /\ Method(b, mode) = "none" \/ (Method(b, mode) = "masked" /\ opt.passwordMode = "omit")
    /\ reader.at = "idle" /\ Len(typed) < work.inputs
    /\ UNCHANGED <<q, pend, readerVars>> /\ NotReader

(* WriteInput, also of a deferred block with nothing printable in it.      *)
WriteInput(b, mode) ==
    /\ Method(b, mode) = "plain" \/ (Method(b, mode) = "deferred" /\ Printable(b) = {})
    /\ Arrives(b, mode) /\ windows' = Append(windows, {})
    /\ q' = SettleBoundary(q) /\ pend' = <<>>
    /\ Appends(InputLine(Len(typed) + 1, TRUE, now))
    /\ NotReader

WriteInputMasked(b, mode) ==
    /\ Method(b, mode) = "masked" /\ opt.passwordMode # "omit"
    /\ Arrives(b, mode) /\ windows' = Append(windows, {})
    /\ LET r == SettleBoundary(q) IN q' = [r EXCEPT !.masked = @ + 1]
    /\ pend' = <<>>
    /\ Appends(InputLine(Len(typed) + 1, FALSE, now))
    /\ NotReader

Deferrable(b, mode) == Method(b, mode) = "deferred" /\ Printable(b) # {}

(* On the alternate screen: r.mu is released, then WriteInput is called.   *)
DeferToProgram(b, mode) ==
    /\ Deferrable(b, mode) /\ ~q.closed /\ opt.tui /\ screen.open
    /\ Arrives(b, mode)
    /\ reader' = [at |-> "plain"]
    /\ UNCHANGED <<q, pend, windows>> /\ NotReader

DeferredPlain ==
    /\ reader.at = "plain"
    /\ q' = SettleBoundary(q) /\ pend' = <<>>
    /\ Appends(InputLine(Len(typed), TRUE, now))
    /\ windows' = Append(windows, {})
    /\ UNCHANGED typed /\ NotReader

(* Mutant of WriteInputDeferred: the old windows are not closed first.     *)
DeferKeepingWindows(b, mode) ==
    /\ Deferrable(b, mode) /\ ~(opt.tui /\ screen.open)
    /\ Arrives(b, mode) /\ windows' = Append(windows, {})
    /\ pend' = Append(pend, [n |-> Len(typed) + 1, printable |-> Printable(b),
                             size |-> Len(b), t |-> now, seen |-> {}, reached |-> FALSE])
    /\ UNCHANGED <<q, reader>> /\ NotReader

(* The block waits for its echo; one above PendingInputCap is dropped.     *)
WriteInputDeferred(b, mode) ==
    /\ Deferrable(b, mode) /\ ~q.closed /\ ~(opt.tui /\ screen.open)
    /\ Arrives(b, mode) /\ windows' = Append(windows, {})
    /\ LET r == SettleBoundary(q) IN
       IF Len(b) > PendingInputCap
       THEN q' = [r EXCEPT !.dropped = @ + 1] /\ pend' = <<>>
       ELSE /\ q' = r
            /\ pend' = <<[n |-> Len(typed) + 1, printable |-> Printable(b), size |-> Len(b),
                          t |-> now, seen |-> {}, reached |-> FALSE]>>
    /\ UNCHANGED reader /\ NotReader

(* Close came first: the block is dropped.                                 *)
DeferAfterClose(b, mode) ==
    /\ Deferrable(b, mode) /\ q.closed
    /\ Arrives(b, mode) /\ windows' = Append(windows, {})
    /\ UNCHANGED <<q, pend, reader>> /\ NotReader

(* A resize is a boundary, and decides the header.  Sizes grow, which      *)
(* bounds their number.                                                    *)
WriteResize(s) ==
    /\ reader.at = "idle" /\ s > q.size
    /\ LET r == SettleBoundary(q) IN q' = DecideHeader([r EXCEPT !.size = s])
    /\ pend' = <<>>
    /\ Appends(SizeLine("r", s, now))
    /\ UNCHANGED <<typed, windows>> /\ NotReader

(* The second half of every method of the read loop.                       *)
ReaderAppend ==
    /\ reader.at = "append"
    /\ \E t \in reader.line.t .. now : q' = AppendLine(q, [reader.line EXCEPT !.t = t])
    /\ reader' = Idle
    /\ UNCHANGED <<pend, typed, windows>> /\ NotReader

Reader ==
    \/ \E b \in work.blocks, mode \in Modes :
         \/ SkipInput(b, mode) \/ WriteInput(b, mode) \/ WriteInputMasked(b, mode)
         \/ DeferToProgram(b, mode) \/ WriteInputDeferred(b, mode) \/ DeferAfterClose(b, mode)
    \/ DeferredPlain
    \/ \E s \in work.sizes : WriteResize(s)
    \/ ReaderAppend

-----------------------------------------------------------------------------
(* Event: timeline and snapshot under r.mu, the file written after it, or  *)
(* left as it is when that fails.                                          *)
EventSnapshot(e) ==
    /\ e \in work.callers /\ event[e].at = "idle" /\ ~q.closed
    /\ q' = SettleBoundary(q)
    /\ pend' = <<>>
    /\ event' = [event EXCEPT ![e] = [at |-> "write", snap |-> MetaNow']]
    /\ UNCHANGED <<opt, work, now, tail, screen, diskVars, pumpVars, readerVars, flusher, closer, cut>>

EventWrite(e) ==
    /\ event[e].at = "write"
    /\ metaFile' \in {event[e].snap, metaFile}
    /\ event' = [event EXCEPT ![e] = [at |-> "done",
                                      late |-> metaFile.ended /\ ~metaFile'.ended]]
    /\ UNCHANGED <<opt, work, now, lockVars, file, pumpVars, readerVars, flusher, closer, cut>>

-----------------------------------------------------------------------------
(* flushLoop.                                                              *)

HeaderLine(r) == IF r.header = "line" THEN <<SizeLine("h", r.headerSize, 0)>> ELSE <<>>

NotFlusher == UNCHANGED <<opt, work, now, tail, screen, metaFile, pumpVars, readerVars, event, closer, cut>>

(* flushOnce under r.mu; no line is taken before there is a header.        *)
FlushTake ==
    /\ flusher.at = "wait"
    /\ LET r == SettleOverdue(q)
           headed == DecideHeader(r)
       IN IF r.header = "none" /\ now < HeaderDelay
          THEN q' = r /\ UNCHANGED flusher
          ELSE LET taken == HeaderLine(headed) \o headed.lines IN
               /\ flusher' = IF taken = <<>> THEN flusher ELSE [at |-> "write", lines |-> taken]
               /\ q' = [headed EXCEPT !.lines = <<>>, !.header = "flushed"]
    /\ pend' = NotYetDue(pend)
    /\ UNCHANGED file /\ NotFlusher

FlushWrite ==
    /\ flusher.at = "write"
    /\ file' = file \o flusher.lines
    /\ flusher' = [at |-> "wait", lines |-> <<>>]
    /\ UNCHANGED <<q, pend>> /\ NotFlusher

(* Mutant of FlushEnd: r.done is looked at after a wake-up only.           *)
FlushEndOnWork ==
    /\ flusher.at = "wait" /\ closer.at = "wait" /\ q.lines # <<>>
    /\ flusher' = [at |-> "gone", lines |-> <<>>]
    /\ UNCHANGED <<q, pend, file>> /\ NotFlusher

(* r.done is closed.                                                       *)
FlushEnd ==
    /\ flusher.at = "wait" /\ closer.at = "wait"
    /\ flusher' = [at |-> "gone", lines |-> <<>>]
    /\ UNCHANGED <<q, pend, file>> /\ NotFlusher

-----------------------------------------------------------------------------
(* Close.                                                                  *)

NotCloser == UNCHANGED <<opt, work, now, screen, pumpVars, typed, reader, event, flusher>>

(* Mutant of CloseTail: the unfinished character is forgotten.             *)
CloseForgetsTail ==
    /\ closer.at = "idle"
    /\ closer' = [at |-> "mark"]
    /\ cut' = [cut EXCEPT !.out = IF pump.at = "read" THEN pos ELSE -1]
    /\ UNCHANGED <<q, pend, tail, diskVars, windows>> /\ NotCloser

(* flushUTF8Tail: the tail is taken, then appended.                        *)
CloseTail ==
    /\ closer.at = "idle"
    /\ tail' = <<>>
    /\ pend' = IF tail = <<>> THEN pend ELSE MatchPending(tail)
    /\ closer' = IF tail = <<>> THEN [at |-> "mark"]
                 ELSE [at |-> "tail", block |-> tail, since |-> now]
    /\ cut' = [cut EXCEPT !.out = IF pump.at = "read" THEN pos ELSE -1]
    /\ Observed(tail)
    /\ UNCHANGED <<q, diskVars>> /\ NotCloser

CloseTailAppend ==
    /\ closer.at = "tail"
    /\ \E t \in closer.since .. now : q' = AppendLine(q, OutputLine(closer.block, t))
    /\ closer' = [at |-> "mark"]
    /\ UNCHANGED <<pend, tail, diskVars, windows, cut>> /\ NotCloser

InputsBegun == IF reader.at = "idle" THEN Len(typed) ELSE Len(typed) - 1

(* Mutant of CloseMark: pending input is forgotten.                        *)
CloseMarkUnsettled ==
    /\ closer.at = "mark"
    /\ q' = DecideHeader([q EXCEPT !.closed = TRUE])
    /\ pend' = <<>>
    /\ closer' = [at |-> "wait"]
    /\ cut' = [cut EXCEPT !.ins = InputsBegun]
    /\ UNCHANGED <<tail, diskVars, windows>> /\ NotCloser

(* Mutant of CloseMark: the recorder is not marked closed.                 *)
CloseMarkOpen ==
    /\ closer.at = "mark"
    /\ q' = DecideHeader(SettleForced(q))
    /\ pend' = <<>>
    /\ closer' = [at |-> "wait"]
    /\ cut' = [cut EXCEPT !.ins = InputsBegun]
    /\ UNCHANGED <<tail, diskVars, windows>> /\ NotCloser

(* Pending input is masked, then the recorder is closed and has an end.    *)
CloseMark ==
    /\ closer.at = "mark"
    /\ q' = DecideHeader([SettleForced(q) EXCEPT !.closed = TRUE])
    /\ pend' = <<>>
    /\ closer' = [at |-> "wait"]
    /\ cut' = [cut EXCEPT !.ins = InputsBegun]
    /\ UNCHANGED <<tail, diskVars, windows>> /\ NotCloser

(* Mutant of CloseTake: wg.Wait is missing.                                *)
CloseTakeEarly ==
    /\ closer.at = "wait"
    /\ file' = file \o HeaderLine(q) \o q.lines
    /\ q' = [q EXCEPT !.lines = <<>>, !.header = IF @ = "line" THEN "none" ELSE @]
    /\ closer' = [at |-> "meta", snap |-> MetaNow]
    /\ UNCHANGED <<pend, tail, metaFile, windows, cut>> /\ NotCloser

(* wg.Wait; then what is left is written by Close alone.                   *)
CloseTake ==
    /\ closer.at = "wait" /\ flusher.at = "gone"
    /\ file' = file \o HeaderLine(q) \o q.lines
    /\ q' = [q EXCEPT !.lines = <<>>, !.header = IF @ = "line" THEN "none" ELSE @]
    /\ closer' = [at |-> "meta", snap |-> MetaNow]
    /\ UNCHANGED <<pend, tail, metaFile, windows, cut>> /\ NotCloser

(* meta.json is written, or stays as it is: a failure is only logged.      *)
CloseMeta ==
    /\ closer.at = "meta"
    /\ \E saved \in BOOLEAN :
          /\ metaFile' = IF saved THEN closer.snap ELSE metaFile
          /\ closer' = [at |-> "done", saved |-> saved]
    /\ UNCHANGED <<q, pend, tail, file, windows, cut>> /\ NotCloser

Tick ==
    /\ now < work.ticks
    /\ now' = now + 1
    /\ UNCHANGED <<opt, work, lockVars, diskVars, pumpVars, readerVars, event, flusher, closer, cut>>

Flush == FlushTake \/ FlushWrite \/ FlushEnd
Close == CloseTail \/ CloseTailAppend \/ CloseMark \/ CloseTake \/ CloseMeta

Next ==
    \/ OutputSplit \/ OutputMatch \/ OutputAppend
    \/ Reader
    \/ \E e \in Callers : EventSnapshot(e) \/ EventWrite(e)
    \/ Flush
    \/ Close
    \/ Tick

Spec == Init /\ [][Next]_vars

(* flushLoop's select takes r.done sooner or later, and a started Close    *)
(* goes on; nothing makes the session end.                                 *)
FairSpec ==
    /\ Spec
    /\ WF_vars(FlushEnd) /\ WF_vars(FlushWrite)
    /\ WF_vars(closer.at # "idle" /\ Close)

-----------------------------------------------------------------------------
(* Properties.                                                             *)

Lines == file \o flusher.lines \o q.lines
Closed == closer.at = "done"

(* The output in a sequence of lines.                                      *)
OutputOf(lines) == FoldLeft(LAMBDA acc, l : IF l.typ = "o" THEN acc \o l.data ELSE acc, <<>>, lines)

(* One of the lines that ends with byte p cuts a character of the shell's  *)
(* output in two.                                                          *)
CharacterAt(k) == CharacterIn(work.shell, k)

CutsCharacter(p) == \E k \in 1 .. p : CharacterAt(k) /\ p < k + Lead[work.shell[k]]

Queues ==
    [closed : BOOLEAN, header : {"none", "line", "flushed"}, headerSize : Nat, size : Nat,
     lines : Seq(CastLines), bytes : Nat, lastT : Nat, stopped : BOOLEAN, dropped : Nat,
     masked : Nat]
PendingInputs == [n : Nat, printable : SUBSET STRING, size : Nat, t : Nat, seen : SUBSET STRING,
                  reached : BOOLEAN]
Metas == [ended : BOOLEAN, masked : Nat, dropped : Nat, stopped : BOOLEAN]

(* Nothing is of another kind than the code's types, the queue has a       *)
(* bound, one input waits at most, and no time lies in the future.         *)
TypeOK ==
    /\ \E s \in Scenarios : opt = s.opt /\ work = s.work
    /\ now \in 0 .. work.ticks /\ pos \in 0 .. Len(work.shell)
    /\ q \in Queues /\ q.lastT <= now /\ Len(q.lines) <= PendingCap
    /\ pend \in Seq(PendingInputs) /\ Len(pend) <= 1 /\ \A i \in DOMAIN pend : pend[i].t <= now
    /\ tail \in Seq(STRING)
    /\ file \in Seq(CastLines) /\ metaFile \in Metas
    /\ pump \in [at : {"read", "match", "append"}, block : Seq(STRING), since : 0 .. now]
    /\ typed \in Seq([b : Seq(STRING), mode : Modes, alt : BOOLEAN])
    /\ windows \in Seq(SUBSET STRING)
    /\ reader \in [at : {"idle", "plain"}] \cup [at : {"append"}, line : CastLines]
    /\ reader.at = "append" => reader.line.t <= now
    /\ event \in [Callers -> {Idle} \cup [at : {"write"}, snap : Metas]
                                   \cup [at : {"done"}, late : BOOLEAN]]
    /\ flusher \in [at : {"wait", "write", "gone"}, lines : Seq(CastLines)]
    /\ closer \in [at : {"idle", "mark", "wait"}] \cup [at : {"done"}, saved : BOOLEAN]
                 \cup [at : {"tail"}, block : Seq(STRING), since : 0 .. now]
                 \cup [at : {"meta"}, snap : Metas]
    /\ cut \in [out : Int, ins : Int]

(* cast.log can be replayed at every moment: one header, before any event, *)
(* and times that never go back, although lines of three goroutines, taken *)
(* at different times, meet in the queue and two goroutines write the file.*)
CastReplays ==
    LET all == Lines IN
    /\ \A i \in DOMAIN file : file[i].typ = "h" <=> i = 1
    /\ \A i \in DOMAIN all : all[i].typ = "h" => i = 1
    /\ \A i \in 1 .. Len(all) - 1 : all[i].t <= all[i + 1].t

MayBePlain(n) ==
    LET input == typed[n] IN
    \/ opt.passwordMode = "plaintext"
    \/ input.mode = "echo" /\ ("nl" \notin Range(input.b) \/ opt.maskWhen # "echo_verify")
    \/ input.mode = "raw" /\ opt.maskWhen = "echo_off_canonical"
    \/ input.mode # "canon" /\ opt.maskWhen = "echo_verify"
       /\ (input.alt \/ Printable(input.b) \subseteq windows[n])

(* What was typed is in the recording as it is only if the terminal echoed *)
(* it when it arrived, if a program drew the screen itself, or if all its  *)
(* printable bytes were output before the recorder took the next input:    *)
(* never what was typed at a getpass prompt that echoes none of them.      *)
SecretsMasked ==
    \A i \in DOMAIN Lines : Lines[i].typ = "i" /\ Lines[i].plain => MayBePlain(Lines[i].n)

(* The recording holds the shell's output byte for byte, in order, as JSON *)
(* can hold it, whatever blocks it was read in, up to the moment of Close: *)
(* valid UTF-8 as it is, since no line ends inside a character, and U+FFFD *)
(* for any other byte.  If not, the drop is counted, the limit noted, or   *)
(* the pump was inside WriteOutput when Close began.                       *)
OutputComplete ==
    q.dropped = 0 /\ ~q.stopped =>
        /\ closer.at = "idle" =>
              LET n == Len(OutputOf(Lines)) + Len(pump.block) IN
              /\ OutputOf(Lines) \o Encode(pump.block) = Encode(SubSeq(work.shell, 1, n))
              /\ n + Len(tail) = pos /\ tail = SubSeq(work.shell, n + 1, pos)
              /\ \A i \in DOMAIN Lines : ~CutsCharacter(Len(OutputOf(SubSeq(Lines, 1, i))))
        /\ closer.at \in {"wait", "meta", "done"} /\ cut.out # -1 =>
              OutputOf(Lines) = Encode(SubSeq(work.shell, 1, cut.out))

(* The counters of a finished recording are those of its lines: no input   *)
(* has two lines, a masked line is counted, and an input that was to be    *)
(* recorded before Close has a line unless something was dropped.          *)
CountsHonest ==
    LET all == Lines
        inputs == {i \in DOMAIN all : all[i].typ = "i"}
    IN /\ \A i, j \in inputs : all[i].n = all[j].n => i = j
       /\ Closed /\ metaFile.ended =>
            /\ Cardinality({i \in inputs : ~all[i].plain}) <= metaFile.masked
            /\ metaFile.dropped = 0 /\ opt.passwordMode # "omit" =>
                 \A n \in 1 .. cut.ins : \E i \in inputs : all[i].n = n

(* meta.json has an end once Close is done and could write it, unless a    *)
(* caller of Event had taken its snapshot before and wrote it after Close  *)
(* had written its own.                                                    *)
EndStays ==
    Closed => \/ metaFile.ended
              \/ ~closer.saved
              \/ \E e \in Callers : event[e].at = "done" /\ event[e].late

(* Close gets an end although flushLoop may be writing when it starts.     *)
CloseReturns == (closer.at # "idle") ~> Closed

(* A viewer who asks for adjacent windows of a recording sees every event  *)
(* once, at its time and on the terminal size of the full replay.          *)
SlicesTile ==
    Closed => \A a, b \in 0 .. work.ticks :
        a < b =>
            Shown(Slice(file, a, b), a, 0) \o Shown(Slice(file, b, work.ticks + 1), b, 0)
                = Shown(file, 0, a)

-----------------------------------------------------------------------------
(* CastLog is what the recorder promises.                                  *)

(* Lines without the header, which comes before them when it is taken.     *)
EventsOf(lines) == IF lines # <<>> /\ lines[1].typ = "h" THEN Tail(lines) ELSE lines

Phase == IF ~q.closed THEN "open" ELSE IF closer.at = "wait" THEN "closing" ELSE "sealed"

Log == INSTANCE CastLog WITH
    accepted <- EventsOf(Lines), written <- EventsOf(file), phase <- Phase, ended <- metaFile.ended

(* Every event that was queued, by whichever goroutine, reaches cast.log   *)
(* once and in that order, a part of the file is always a beginning of the *)
(* recording, and nothing is written once Close or meta.json says so.      *)
KeepsLog == Log!Spec

-----------------------------------------------------------------------------
(* The inductive invariant: why the properties hold.                       *)

(* Who has gone how far.  Nothing is recorded after CloseMark; flushLoop   *)
(* is gone before Close takes the rest; and only Close writes an end.      *)
PhasesAgree ==
    /\ q.closed <=> closer.at \in {"wait", "meta", "done"}
    /\ flusher.at = "gone" => q.closed
    /\ closer.at \in {"meta", "done"} => flusher.at = "gone" /\ q.lines = <<>>
    /\ flusher.at # "write" => flusher.lines = <<>>
    /\ q.closed => pend = <<>>
    /\ closer.at = "wait" => q.header # "none"
    /\ closer.at = "meta" => closer.snap.ended
    /\ metaFile.ended => Closed
    /\ \A e \in Callers : event[e].at = "write" => ~event[e].snap.ended

(* The header is the first line once it was taken; until then nothing was  *)
(* taken.  Every line is in its place by its time.                         *)
HeaderFirst ==
    /\ IF q.header = "flushed" \/ closer.at \in {"meta", "done"}
       THEN Lines # <<>> /\ Lines[1].typ = "h"
       ELSE file = <<>> /\ flusher.lines = <<>>
    /\ \A i \in DOMAIN q.lines : q.lines[i].typ # "h"
    /\ \A i \in DOMAIN Lines : Lines[i].typ = "h" => i = 1

InOrder ==
    /\ \A i \in DOMAIN Lines : Lines[i].t <= q.lastT
    /\ \A i, j \in DOMAIN Lines : i < j =>
          /\ Lines[i].t <= Lines[j].t
          /\ Lines[i].typ = "i" /\ Lines[j].typ = "i" => Lines[i].n < Lines[j].n

(* The lines of input there are, the one the reader is about to append,    *)
(* and the number that waits for a line.                                   *)
Recorded == {l \in Range(Lines) : l.typ = "i"}
Appending == IF reader.at = "append" /\ reader.line.typ = "i" THEN {reader.line} ELSE {}
Awaited == {p.n : p \in Range(pend)} \cup {l.n : l \in Appending}

(* Every line of input stands for a block that may be recorded that way,   *)
(* and what waits for a line is newer than every line.                     *)
InputsKnown ==
    /\ Len(typed) = Len(windows) + (IF reader.at = "plain" THEN 1 ELSE 0)
    /\ typed # <<>> => opt.recordInput
    /\ \A l \in Recorded \cup Appending :
          l.n \in 1 .. Len(windows) /\ (l.plain => MayBePlain(l.n))
    /\ \A n \in Awaited : n = Len(windows) /\ \A l \in Recorded : l.n < n
    /\ reader.at = "append" => pend = <<>> /\ reader.line.typ \in {"i", "r"}
    /\ reader.at = "plain" => MayBePlain(Len(typed)) /\ typed[Len(typed)].alt
    /\ \A p \in Range(pend) :
          /\ p.n # 0 /\ opt.maskWhen = "echo_verify" /\ typed[p.n].mode # "canon"
          /\ p.printable = Printable(typed[p.n].b) /\ p.seen \subseteq windows[p.n]
          /\ p.reached => p.printable \subseteq windows[p.n]

(* No input is forgotten without a trace, and every masked one is counted. *)
InputsCounted ==
    /\ \A n \in 1 .. Len(windows) :
          \/ n \in Awaited \/ \E l \in Recorded : l.n = n
          \/ q.dropped > 0 \/ opt.passwordMode = "omit"
          \/ q.closed /\ n > cut.ins
    /\ q.closed => cut.ins <= Len(windows) /\ \A l \in Appending : l.n > cut.ins
    /\ LET masked == {l.n : l \in {k \in Recorded : ~k.plain}}
           counted(n) == Cardinality(masked) <= n
       IN /\ counted(IF \E l \in Appending : ~l.plain THEN q.masked - 1 ELSE q.masked)
          /\ closer.at = "meta" => counted(closer.snap.masked) /\ closer.snap.dropped = q.dropped
          /\ metaFile.ended => counted(metaFile.masked) /\ metaFile.dropped = q.dropped

(* What the pump and then Close hold is what comes next, and the next line *)
(* ends where a character does.                                            *)
OutputKept ==
    /\ pump.at = "read" => pump.block = <<>>
    /\ q.dropped = 0 /\ ~q.stopped =>
         /\ closer.at = "idle" => ~CutsCharacter(Len(OutputOf(Lines)) + Len(pump.block))
         /\ closer.at \in {"tail", "mark"} /\ cut.out # -1 =>
              /\ pump.at = "read"
              /\ OutputOf(Lines) \o Encode(IF closer.at = "tail" THEN closer.block ELSE <<>>)
                   = Encode(SubSeq(work.shell, 1, cut.out))

IndInv ==
    /\ TypeOK /\ PhasesAgree /\ EndStays
    /\ HeaderFirst /\ InOrder /\ InputsKnown /\ InputsCounted /\ OutputKept /\ OutputComplete
=============================================================================
