------------------------------ MODULE Benchmark ------------------------------
(***************************************************************************)
(* benchmark_schemes.py and what it drives.  For every implementation,     *)
(* application and run the host builds the target, opens the serial port,  *)
(* has OpenOCD program and reset the board, and reads bytes until '#' or a *)
(* deadline; meanwhile the board prints at its own pace, and the program   *)
(* that was on it goes on printing until OpenOCD halts it.  With           *)
(* --run-command, or for QEMU, the output comes from a process instead.    *)
(*                                                                         *)
(* Output is a sequence of lines.  A line cut by the flush or by a reset   *)
(* matches no pattern of parse_metrics and counts as not sent.             *)
(***************************************************************************)
EXTENDS Naturals, Sequences, FiniteSets

CONSTANTS
  Impls,     \* the implementations, in the order of the last loop
  Targets,   \* implementation and application, in the order of the loops
  Args,      \* the command lines: --runner, --runs, --fail-fast
  Iterations \* measurements one execution prints

(* Discovery finds an implementation once.  hashing.c goes by "speed": it  *)
(* prints and fails alike.                                                 *)
ASSUME BenchmarkAssumption ==
  /\ Len(Impls) \in Nat \ {0} /\ Len(Targets) \in Nat \ {0}
  /\ \A m, n \in 1 .. Len(Impls) : Impls[m] = Impls[n] => m = n
  /\ \A n \in 1 .. Len(Targets) :
       Targets[n] \in [impl : {Impls[m] : m \in 1 .. Len(Impls)}, app : {"speed", "stack"}]
  /\ Args \subseteq [runner : {"board", "command"}, runs : Nat \ {0}, fail_fast : BOOLEAN]
  /\ Iterations \in Nat

VARIABLES
  args,      \* the command line of this call
  turn, nr,  \* the loops' position: index into Targets, run_index; then into Impls
  stage,     \* what the host does next
  exit,      \* how it ended, or "none"
  failures,
  rx,        \* lines received and not yet read
  captured,  \* lines read for the present target
  board,     \* execution on the board, lines it printed, and its mode
  boots,     \* target of each execution started here
  sizes,     \* implementations whose code size was measured
  about,     \* the present capture: flushed, and who was printing then
  log        \* history: what each target of the loop came to

loop == <<args, turn, nr>>
vars == <<loop, stage, exit, failures, rx, captured, board, boots, sizes, about, log>>

-----------------------------------------------------------------------------
(* What the applications print.                                            *)
Value(b, k) == <<"value", b, k>>
Done == <<"#">>
Reason == <<"failed">>

(* All that execution b prints: a header, measurements, '#'. *)
Output(b) ==
  [n \in 1 .. 2 * Iterations + 2 |->
     IF n = 1 THEN <<"header">>
     ELSE IF n = 2 * Iterations + 2 THEN Done
     ELSE IF n % 2 = 0 THEN <<"cycles:">> ELSE Value(b, n \div 2)]

Values(b) == {Value(b, k) : k \in 1 .. Iterations}

Printing == board.mode \in {"runs", "failing"}

(* The application on the board: before the first reset, any.              *)
App(b, app) == b # 0 => boots[b].app = app

PrintLine ==
  /\ board.mode = "runs"
  /\ LET n == board.printed + 1
     IN /\ rx' = Append(rx, Output(board.boot)[n])
        /\ board' = [board EXCEPT !.printed = n,
                                  !.mode = IF n = Len(Output(board.boot)) THEN "ended" ELSE "runs"]
  /\ UNCHANGED <<loop, stage, exit, failures, captured, boots, sizes, about, log>>

Say(line, mode) ==
  /\ rx' = Append(rx, line) /\ board' = [board EXCEPT !.mode = mode]
  /\ UNCHANGED <<loop, stage, exit, failures, captured, boots, sizes, about, log>>

(* fail_and_halt of speed.c on a board: an endless loop, and no '#'.       *)
FailAndHalt ==
  /\ board.mode = "runs" /\ board.printed > 0 /\ App(board.boot, "speed")
  /\ Say(Reason, "stuck")

(* stack.c returns before it measures. *)
ReturnEarly ==
  /\ board.mode = "runs" /\ board.printed = 1 /\ App(board.boot, "stack")
  /\ Say(Reason, "stuck")

(* stack.c prints all its values, or none: a measurement that failed sends *)
(* the reason ...                                                          *)
GiveUp ==
  /\ board.mode = "runs" /\ board.printed = 1 /\ App(board.boot, "stack")
  /\ Say(Reason, "failing")

(* ... and '#'.                                                            *)
SendDone == board.mode = "failing" /\ Say(Done, "quit")

-----------------------------------------------------------------------------
First == IF args.runner = "board" THEN "build" ELSE "run"

(* Execution 0 is whatever the board ran before. *)
Init ==
  /\ args \in Args
  /\ turn = 1 /\ nr = 1 /\ stage = First /\ exit = "none" /\ failures = 0
  /\ rx = <<>> /\ captured = <<>> /\ boots = <<>> /\ sizes = {} /\ log = <<>>
  /\ about = [flushed |-> FALSE, before |-> 0, silent |-> FALSE]
  /\ \/ \E n \in 0 .. 2 * Iterations + 1 : board = [boot |-> 0, printed |-> n, mode |-> "runs"]
     \/ board = [boot |-> 0, printed |-> 0, mode |-> "ended"]

End(how) == exit' = how /\ stage' = "end" /\ UNCHANGED loop

(* range(1, args.runs + 2), an off-by-one. *)
NextRunOneMore ==
  /\ UNCHANGED <<args, exit>>
  /\ IF nr < args.runs + 1 THEN nr' = nr + 1 /\ turn' = turn /\ stage' = First
     ELSE /\ nr' = 1
          /\ IF turn < Len(Targets) THEN turn' = turn + 1 /\ stage' = First
             ELSE turn' = 1 /\ stage' = "size"

(* The next turn of the loops, and after them the code sizes. *)
NextRun ==
  /\ UNCHANGED <<args, exit>>
  /\ IF nr < args.runs THEN nr' = nr + 1 /\ turn' = turn /\ stage' = First
     ELSE /\ nr' = 1
          /\ IF turn < Len(Targets) THEN turn' = turn + 1 /\ stage' = First
             ELSE turn' = 1 /\ stage' = "size"

(* parse_metrics: a label and, on the next line, a number.                 *)
Parse(lines) ==
  {lines[n + 1] : n \in {m \in 1 .. Len(lines) - 1 :
                           lines[m] = <<"cycles:">> /\ lines[m + 1][1] = "value"}}

Outcome(b, code, lines) ==
  log' = Append(log, [target |-> Targets[turn], code |-> code, boot |-> b, about |-> about,
                      got |-> IF code = 0 THEN Parse(lines) ELSE {}])

(* A target that failed is not counted. *)
ConcludeUncounted(b, code, lines) ==
  /\ Outcome(b, code, lines)
  /\ UNCHANGED failures
  /\ IF code # 0 /\ args.fail_fast THEN End("stopped") ELSE NextRun

(* What main does with the result of a target. *)
Conclude(b, code, lines) ==
  /\ Outcome(b, code, lines)
  /\ failures' = IF code = 0 THEN failures ELSE failures + 1
  /\ IF code # 0 /\ args.fail_fast THEN End("stopped") ELSE NextRun

(* A make that is missing is not caught. *)
Build ==
  /\ stage = "build"
  /\ \/ stage' = "open" /\ UNCHANGED <<loop, exit, failures, log>>
     \/ Conclude(Len(boots), 2, <<>>)
     \/ End("traceback") /\ UNCHANGED <<failures, log>>
  /\ UNCHANGED <<rx, captured, board, boots, sizes, about>>

(* Serial.open with no reset_input_buffer, believed to be a fresh start. *)
OpenUnread ==
  /\ stage = "open" /\ stage' = "flash" /\ captured' = <<>>
  /\ about' = [flushed |-> TRUE, before |-> board.boot, silent |-> ~Printing]
  /\ UNCHANGED <<loop, exit, failures, rx, board, boots, sizes, log>>

(* The port is opened and its input discarded; a discard that fails is     *)
(* ignored.                                                                *)
Open ==
  /\ stage = "open" /\ stage' = "flash" /\ captured' = <<>>
  /\ \E ok \in BOOLEAN :
       /\ rx' = IF ok THEN <<>> ELSE rx
       /\ about' = [flushed |-> ok, before |-> board.boot, silent |-> ~Printing]
  /\ UNCHANGED <<loop, exit, failures, board, boots, sizes, log>>

OpenFails ==
  /\ stage = "open"
  /\ Conclude(Len(boots), 1, <<>>)
  /\ UNCHANGED <<rx, captured, board, boots, sizes, about>>

(* OpenOCD: "program ... verify reset exit"; it may fail or hang before it *)
(* halts the board, while it programs it, and after the reset.             *)
FlashHalts ==
  /\ stage = "flash" /\ stage' = "program"
  /\ board' = [board EXCEPT !.mode = "halted"]
  /\ UNCHANGED <<loop, exit, failures, rx, captured, boots, sizes, about, log>>

FlashResets ==
  /\ stage = "program" /\ stage' = "reset"
  /\ boots' = Append(boots, Targets[turn])
  /\ board' = [boot |-> Len(boots'), printed |-> 0, mode |-> "runs"]
  /\ UNCHANGED <<loop, exit, failures, rx, captured, sizes, about, log>>

FlashExits ==
  /\ stage = "reset" /\ stage' = "read"
  /\ UNCHANGED <<loop, exit, failures, rx, captured, board, boots, sizes, about, log>>

Flashing == stage \in {"flash", "program", "reset"}

FlashFails ==
  /\ Flashing
  /\ Conclude(Len(boots), 1, <<>>)
  /\ UNCHANGED <<rx, captured, board, boots, sizes, about>>

(* TimeoutExpired.stdout holds bytes, or None when nothing was printed: it *)
(* is added to a str.                                                      *)
FlashTimesOut ==
  /\ Flashing
  /\ \/ Conclude(Len(boots), 124, <<>>)
     \/ End("traceback") /\ UNCHANGED <<failures, log>>
  /\ UNCHANGED <<rx, captured, board, boots, sizes, about>>

Read ==
  /\ stage = "read" /\ rx # <<>>
  /\ captured' = Append(captured, Head(rx)) /\ rx' = Tail(rx)
  /\ IF Head(rx) = Done THEN Conclude(Len(boots), 0, captured')
     ELSE UNCHANGED <<loop, stage, exit, failures, log>>
  /\ UNCHANGED <<board, boots, sizes, about>>

(* The deadline is looked at only after data. *)
TimeOutOnData ==
  /\ stage = "read" /\ rx # <<>>
  /\ Conclude(Len(boots), 124, captured)
  /\ UNCHANGED <<rx, captured, board, boots, sizes, about>>

(* The deadline; an error of the port ends the capture alike, with a code  *)
(* of its own that main does not tell from this one.                       *)
TimeOut ==
  /\ stage = "read"
  /\ Conclude(Len(boots), 124, captured)
  /\ UNCHANGED <<rx, captured, board, boots, sizes, about>>

(* What execution b prints when it fails: all of it at once.               *)
FailedOutputs(b) ==
  LET upTo(n) == Append(SubSeq(Output(b), 1, n), Reason)
  IN IF boots'[b].app = "stack" THEN {upTo(1), Append(upTo(1), Done)}
     ELSE {upTo(n) : n \in 1 .. 2 * Iterations + 1}

(* run_command: the whole output of a new execution; the output of one     *)
(* that failed, which QEMU ends with success all the same; an error of     *)
(* make; or a timeout, where bytes are written to the log as text.         *)
RunCommand ==
  /\ stage = "run"
  /\ boots' = Append(boots, Targets[turn])
  /\ LET b == Len(boots')
     IN \/ \E out \in {Output(b)} \cup FailedOutputs(b) : Conclude(b, 0, out)
        \/ Conclude(b, 2, <<>>)
        \/ Conclude(b, 124, <<>>)
        \/ End("traceback") /\ UNCHANGED <<failures, log>>
  /\ UNCHANGED <<rx, captured, board, sizes, about>>

(* collect_code_size *)
CodeSize ==
  /\ stage = "size" /\ turn <= Len(Impls)
  /\ \/ sizes' = sizes \cup {Impls[turn]} /\ turn' = turn + 1 /\ UNCHANGED <<args, nr, failures, stage, exit>>
     \/ /\ failures' = failures + 1 /\ UNCHANGED sizes
        /\ IF args.fail_fast THEN End("stopped") ELSE turn' = turn + 1 /\ UNCHANGED <<args, nr, stage, exit>>
  /\ UNCHANGED <<rx, captured, board, boots, about, log>>

(* What the tables are written from: measurements_by_key. *)
Samples(n) == {<<log[n].target, v>> : v \in log[n].got}
Measurements == UNION {Samples(n) : n \in 1 .. Len(log)}

Summarise ==
  /\ stage = "size" /\ turn > Len(Impls)
  /\ End(IF Measurements = {} /\ sizes = {} THEN "empty"
         ELSE IF failures = 0 THEN "ok" ELSE "failed")
  /\ UNCHANGED <<failures, rx, captured, board, boots, sizes, about, log>>

Host ==
  \/ Build \/ Open \/ OpenFails \/ FlashHalts \/ FlashResets \/ FlashExits
  \/ FlashFails \/ FlashTimesOut
  \/ Read \/ TimeOut \/ RunCommand \/ CodeSize \/ Summarise

Board == PrintLine \/ FailAndHalt \/ ReturnEarly \/ GiveUp \/ SendDone

Next == Host \/ Board

(* The script keeps running: every wait of it has a deadline.  Nothing is  *)
(* assumed of the board.                                                   *)
Spec == Init /\ [][Next]_vars /\ WF_vars(Host)

-----------------------------------------------------------------------------
Planned == Len(Targets) * args.runs
Logged == {log[n] : n \in 1 .. Len(log)}

(* The loop's position, the board's mode and the counters stay in range.   *)
TypeOK ==
  /\ turn \in 1 .. Len(Targets) + Len(Impls) /\ nr \in 1 .. args.runs
  /\ stage = "size" => turn <= Len(Impls) + 1
  /\ stage \notin {"size", "end"} => turn <= Len(Targets)
  /\ stage \in {"build", "open", "flash", "program", "reset", "read", "run", "size", "end"}
  /\ exit \in {"none", "ok", "failed", "empty", "stopped", "traceback"}
  /\ (exit = "none") = (stage # "end")
  /\ failures \in 0 .. Planned + Len(Impls)
  /\ board.boot \in 0 .. Len(boots) /\ board.printed \in 0 .. 2 * Iterations + 2
  /\ board.mode \in {"runs", "ended", "stuck", "failing", "quit", "halted"}
  /\ Len(boots) <= Planned /\ Len(log) <= Planned
  /\ \A l \in Logged : l.got \subseteq UNION {Values(b) : b \in 0 .. Len(boots)}

(* What a board capture that saw '#' and was counted holds, once the input *)
(* was discarded: nothing but what the program flashed for it and the one  *)
(* it replaced printed.  When the board was silent at that moment, it      *)
(* holds exactly one whole execution of the target, or, from a stack.c     *)
(* that gave up, no value at all (run_board_capture).                      *)
CaptureExact ==
  \A l \in Logged : args.runner = "board" /\ l.code = 0 /\ l.about.flushed =>
    /\ l.boot # 0 /\ boots[l.boot] = l.target
    /\ l.got \subseteq Values(l.boot) \cup Values(l.about.before)
    /\ l.about.silent => \/ l.got = Values(l.boot)
                         \/ l.got = {} /\ l.target.app = "stack"

(* The exit status tells what happened: 0 only when every target of every  *)
(* loop was captured and every code size measured, 1 after the summary     *)
(* only when one of them failed, and an early end only after a failure.    *)
ExitTells ==
  LET clean == (\A l \in Logged : l.code = 0) /\ sizes = {Impls[n] : n \in 1 .. Len(Impls)}
  IN /\ exit \in {"ok", "failed", "empty"} => Len(log) = Planned /\ (exit = "ok" <=> clean)
     /\ exit = "stopped" => args.fail_fast /\ ~clean

(* The script ends, whatever the board and the tools do. *)
Ends == <>(stage = "end")
=============================================================================
