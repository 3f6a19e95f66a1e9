-------------------------- MODULE BenchmarkProofs --------------------------
(***************************************************************************)
(* What benchmark_schemes.py may conclude from its captures and its exit   *)
(* status, for any implementations, command lines and number of            *)
(* measurements.  The position of the loops counts the targets that ended  *)
(* (Position) and main counts their failures (Counted).  What can be read  *)
(* after a flush comes from the program flashed or from the one it         *)
(* replaced; had that one stopped, the lines read followed by those still  *)
(* to be read are what the new one printed so far (Flushed), so that '#'   *)
(* ends one whole execution.                                               *)
(* The last part shows that the script comes to its end.                   *)
(***************************************************************************)
EXTENDS Benchmark, SequenceTheorems, TLAPS

L == Len(Impls)
W == Len(Targets)
Work == {Targets[n] : n \in 1 .. W}
Names == {Impls[n] : n \in 1 .. L}
Before(i) == {Impls[n] : n \in 1 .. i - 1}

(* Every line a program prints. *)
Lines == {<<"header">>, <<"cycles:">>, Done, Reason} \cup UNION {Values(b) : b \in Nat}
IsValue(x) == x[1] = "value"
ValuesOf(B) == UNION {Values(b) : b \in B}

Entries ==
  [target : Work, code : Nat, boot : Nat,
   about : [flushed : BOOLEAN, before : Nat, silent : BOOLEAN], got : SUBSET ValuesOf(Nat)]

-----------------------------------------------------------------------------
Shape ==
  /\ args \in Args
  /\ rx \in Seq(Lines) /\ captured \in Seq(Lines) /\ boots \in Seq(Work) /\ log \in Seq(Entries)
  /\ board.boot \in 0 .. Len(boots) /\ board.printed \in 0 .. 2 * Iterations + 2
  /\ board = [boot |-> board.boot, printed |-> board.printed, mode |-> board.mode]
  /\ board.mode \in {"runs", "ended", "stuck", "failing", "quit", "halted"}
  /\ Printing => board.printed < 2 * Iterations + 2
  /\ about \in [flushed : BOOLEAN, before : 0 .. Len(boots), silent : BOOLEAN]
  /\ stage \in {"build", "open", "flash", "program", "reset", "read", "run", "size", "end"}
  /\ exit \in {"none", "ok", "failed", "empty", "stopped", "traceback"}
  /\ exit = "none" <=> stage # "end"
  /\ stage \in {"build", "open", "flash", "program", "reset", "read"} => args.runner = "board"
  /\ stage = "run" => args.runner # "board"

(* In the loops, how many targets have come to an end. *)
Looping == stage \notin {"size", "end"}

Position ==
  /\ turn \in 1 .. W + L /\ nr \in 1 .. args.runs
  /\ Looping => turn \in 1 .. W /\ Len(log) = (turn - 1) * args.runs + nr - 1
  /\ stage = "size" => turn \in 1 .. L + 1 /\ Len(log) = Planned
  /\ Len(log) <= Planned /\ Len(boots) <= Planned
  /\ stage \in {"reset", "read"} => Len(boots) <= Len(log) + 1
  /\ stage \in {"build", "open", "flash", "program", "run"} => Len(boots) <= Len(log)

AllZero == \A l \in Logged : l.code = 0

Counted ==
  /\ failures \in Nat
  /\ Looping => failures <= Len(log) /\ (failures = 0 <=> AllZero) /\ sizes = {}
  /\ stage = "size" =>
       /\ failures <= Len(log) + (turn - 1)
       /\ sizes \subseteq Before(turn)
       /\ failures = 0 <=> AllZero /\ sizes = Before(turn)
  /\ failures <= Planned + L
  /\ ExitTells

(* Values come from a program that was started. *)
From(lines, B) == \A i \in 1 .. Len(lines) : IsValue(lines[i]) => lines[i] \in ValuesOf(B)

Told ==
  /\ From(rx, 0 .. Len(boots)) /\ From(captured, 0 .. Len(boots))
  /\ \A l \in Logged : l.got \subseteq ValuesOf(0 .. Len(boots))

(* Line i printed by the program now on the board, its end included when   *)
(* it failed.                                                              *)
Line(bd, i) == IF i <= bd.printed THEN Output(bd.boot)[i] ELSE IF i = bd.printed + 1 THEN Reason ELSE Done

Printed ==
  CASE board.mode \in {"stuck", "failing"} -> board.printed + 1
    [] board.mode = "quit"                 -> board.printed + 2
    [] OTHER                               -> board.printed

(* After a flush: what the input may hold, and all that it holds when the  *)
(* board was silent.                                                       *)
Flushed ==
  /\ stage \in {"flash", "program"} =>
       /\ board.boot = about.before /\ captured = <<>>
       /\ about.flushed => From(rx, {about.before})
       /\ about.flushed /\ about.silent => rx = <<>>
       /\ about.silent => ~Printing
  /\ stage = "program" => board.mode = "halted"
  /\ stage \in {"reset", "read"} =>
       /\ board.boot = Len(boots) /\ Len(boots) # 0 /\ boots[Len(boots)] = Targets[turn]
       /\ board.mode # "halted"
       /\ about.flushed =>
            From(rx, {board.boot, about.before}) /\ From(captured, {board.boot, about.before})
       /\ about.flushed /\ about.silent =>
            /\ Len(captured) + Len(rx) = Printed
            /\ \A i \in 1 .. Len(captured) : captured[i] = Line(board, i)
            /\ \A i \in 1 .. Len(rx) : rx[i] = Line(board, Len(captured) + i)

Filed ==
  \A l \in Logged : args.runner = "board" /\ l.code = 0 /\ l.about.flushed =>
    /\ l.boot \in 1 .. Len(boots) /\ boots[l.boot] = l.target
    /\ l.got \subseteq Values(l.boot) \cup Values(l.about.before)
    /\ l.about.silent => l.got = Values(l.boot) \/ (l.got = {} /\ l.target.app = "stack")

(* A measurement that failed is one of stack.c, after its header.          *)
Failing == board.mode \in {"failing", "quit"} => board.printed = 1 /\ App(board.boot, "stack")

IInv == Shape /\ Position /\ Counted /\ Told /\ Flushed /\ Filed /\ Failing

-----------------------------------------------------------------------------
(* Constants and lines. *)
LEMMA Constants ==
  /\ L \in Nat /\ L >= 1 /\ W \in Nat /\ W >= 1 /\ Iterations \in Nat
  /\ \A n \in 1 .. L : Impls[n] \in Names
  /\ \A n \in 1 .. W : Targets[n] \in Work
  /\ \A m, n \in 1 .. L : Impls[m] = Impls[n] => m = n
  /\ \A a \in Args : a.runs \in Nat /\ a.runs >= 1 /\ a.runner \in {"board", "command"} /\ a.fail_fast \in BOOLEAN
BY BenchmarkAssumption DEF BenchmarkAssumption, L, Names, W, Work

LEMMA ValueLines ==
  /\ \A b, k : IsValue(Value(b, k))
  /\ \A b, k : Value(b, k) # Done
  /\ ~IsValue(<<"header">>) /\ ~IsValue(<<"cycles:">>) /\ ~IsValue(Done) /\ ~IsValue(Reason)
  /\ <<"header">> # Done /\ <<"cycles:">> # Done /\ Reason # Done /\ <<"header">> # <<"cycles:">>
  /\ Done # <<"cycles:">> /\ Reason # <<"cycles:">> /\ \A b, k : Value(b, k) # <<"cycles:">>
BY DEF IsValue, Value, Done, Reason

LEMMA LinesKnown ==
  /\ Done \in Lines /\ Reason \in Lines
  /\ \A x \in Lines : IsValue(x) => x \in ValuesOf(Nat)
BY ValueLines DEF Lines, ValuesOf

(* What the applications print. *)
LEMMA OutputLines ==
  ASSUME NEW b \in Nat
  PROVE  /\ Len(Output(b)) = 2 * Iterations + 2
         /\ Output(b) \in Seq(Lines)
         /\ \A n \in 1 .. 2 * Iterations + 2 : Output(b)[n] = Done <=> n = 2 * Iterations + 2
         /\ \A n \in 1 .. 2 * Iterations + 2 :
              IsValue(Output(b)[n]) => Output(b)[n] \in Values(b)
<1> DEFINE top == 2 * Iterations + 2
           Out(n) == IF n = 1 THEN <<"header">>
                     ELSE IF n = top THEN Done
                     ELSE IF n % 2 = 0 THEN <<"cycles:">> ELSE Value(b, n \div 2)
<1>1. top \in Nat /\ top >= 2 /\ Iterations \in Nat
  BY Constants
<1>2. ASSUME NEW n \in 1 .. top
      PROVE  /\ Out(n) \in Lines
             /\ Out(n) = Done <=> n = top
             /\ IsValue(Out(n)) => Out(n) \in Values(b)
  <2>1. CASE n = 1 \/ n = top \/ n % 2 = 0
    BY <1>1, <2>1, ValueLines DEF Lines
  <2>2. CASE n # 1 /\ n # top /\ n % 2 # 0
    <3>1. n \div 2 \in 1 .. Iterations
      BY <1>1, <2>2
    <3>2. Out(n) = Value(b, n \div 2)
      BY <2>2
    <3>3. Out(n) \in Values(b)
      BY <3>1, <3>2 DEF Values
    <3> QED BY <2>2, <3>2, <3>3, ValueLines DEF Lines
  <2> QED BY <2>1, <2>2
<1>3. Output(b) = [n \in 1 .. top |-> Out(n)]
  BY DEF Output
<1> HIDE DEF Out, top
<1>4. Output(b) \in [1 .. top -> Lines]
  BY <1>2, <1>3
<1>5. Output(b) \in Seq(Lines) /\ Len(Output(b)) = top
  BY <1>1, <1>4
<1> QED BY <1>2, <1>3, <1>5 DEF top

LEMMA OutputAt ==
  ASSUME NEW b \in Nat
  PROVE  /\ \A k \in 1 .. Iterations : 2 * k \in 1 .. 2 * Iterations + 1
                /\ Output(b)[2 * k] = <<"cycles:">> /\ Output(b)[2 * k + 1] = Value(b, k)
<1> SUFFICES ASSUME NEW k \in 1 .. Iterations
             PROVE  2 * k \in 1 .. 2 * Iterations + 1
                      /\ Output(b)[2 * k] = <<"cycles:">> /\ Output(b)[2 * k + 1] = Value(b, k)
  OBVIOUS
<1>1. Iterations \in Nat /\ (2 * k) % 2 = 0 /\ (2 * k + 1) % 2 = 1 /\ (2 * k + 1) \div 2 = k
  BY Constants
<1>2. 2 * k \in 1 .. 2 * Iterations + 2 /\ 2 * k + 1 \in 1 .. 2 * Iterations + 2 /\ 2 * k # 1
        /\ 2 * k # 2 * Iterations + 2 /\ 2 * k + 1 # 1 /\ 2 * k + 1 # 2 * Iterations + 2
  BY <1>1
<1>3. Output(b)[2 * k] = <<"cycles:">>
  BY <1>1, <1>2 DEF Output
<1>4. Output(b)[2 * k + 1] = Value(b, k)
  BY <1>1, <1>2 DEF Output
<1> QED BY <1>1, <1>2, <1>3, <1>4

(* parse_metrics finds nothing that was not printed ...                    *)
LEMMA ParseSome ==
  ASSUME NEW lines \in Seq(Lines), NEW B, From(lines, B)
  PROVE  Parse(lines) \subseteq ValuesOf(B)
<1> SUFFICES ASSUME NEW x \in Parse(lines) PROVE x \in ValuesOf(B)
  OBVIOUS
<1>1. PICK m \in 1 .. Len(lines) - 1 : lines[m + 1][1] = "value" /\ x = lines[m + 1]
  BY DEF Parse
<1>2. Len(lines) \in Nat
  OBVIOUS
<1>3. m + 1 \in 1 .. Len(lines)
  BY <1>1, <1>2
<1> QED BY <1>1, <1>3 DEF From, IsValue

(* ... and all values of a whole execution.                                *)
LEMMA ParseWhole ==
  ASSUME NEW b \in Nat, NEW lines \in Seq(Lines), Len(lines) = 2 * Iterations + 2,
         \A i \in 1 .. 2 * Iterations + 2 : lines[i] = Output(b)[i]
  PROVE  Parse(lines) = Values(b)
<1>0. Iterations \in Nat
  BY Constants
<1>1. ASSUME NEW x \in Parse(lines) PROVE x \in Values(b)
  <2>1. PICK m \in 1 .. Len(lines) - 1 : lines[m + 1][1] = "value" /\ x = lines[m + 1]
    BY DEF Parse
  <2>2. m + 1 \in 1 .. 2 * Iterations + 2
    BY <1>0, <2>1
  <2> QED BY <2>1, <2>2, OutputLines DEF IsValue
<1>2. ASSUME NEW x \in Values(b) PROVE x \in Parse(lines)
  <2>1. PICK k \in 1 .. Iterations : x = Value(b, k)
    BY <1>2 DEF Values
  <2> DEFINE m == 2 * k
  <2>2. m \in 1 .. Len(lines) - 1 /\ m \in 1 .. 2 * Iterations + 2 /\ m + 1 \in 1 .. 2 * Iterations + 2
    BY <1>0
  <2>3. lines[m] = <<"cycles:">> /\ lines[m + 1] = x
    BY <2>1, <2>2, OutputAt
  <2>4. lines[m + 1][1] = "value"
    BY <2>1, <2>3, ValueLines DEF IsValue
  <2> HIDE DEF m
  <2> QED BY <2>2, <2>3, <2>4 DEF Parse
<1> QED BY <1>1, <1>2

(* What From says of sequences that grow, shrink or are empty.             *)
LEMMA FromAppend ==
  ASSUME NEW s \in Seq(Lines), NEW B, NEW C, From(s, B), B \subseteq C, NEW x \in Lines,
         IsValue(x) => x \in ValuesOf(C)
  PROVE  /\ Append(s, x) \in Seq(Lines) /\ Len(Append(s, x)) = Len(s) + 1
         /\ \A i \in 1 .. Len(s) : Append(s, x)[i] = s[i]
         /\ Append(s, x)[Len(s) + 1] = x
         /\ From(Append(s, x), C)
<1>1. /\ Append(s, x) \in Seq(Lines) /\ Len(Append(s, x)) = Len(s) + 1
      /\ \A i \in 1 .. Len(s) : Append(s, x)[i] = s[i]
      /\ Append(s, x)[Len(s) + 1] = x
  BY AppendProperties
<1>2. ASSUME NEW i \in 1 .. Len(s) + 1, IsValue(Append(s, x)[i]) PROVE Append(s, x)[i] \in ValuesOf(C)
  <2>1. CASE i = Len(s) + 1
    BY <1>1, <1>2, <2>1
  <2>2. CASE i # Len(s) + 1
    <3>1. i \in 1 .. Len(s) /\ Append(s, x)[i] = s[i]
      BY <1>1, <2>2
    <3>2. s[i] \in ValuesOf(B)
      BY <1>2, <3>1 DEF From
    <3> QED BY <3>1, <3>2 DEF ValuesOf
  <2> QED BY <2>1, <2>2
<1> QED BY <1>1, <1>2 DEF From

LEMMA FromTail ==
  ASSUME NEW s \in Seq(Lines), NEW B, From(s, B), s # <<>>
  PROVE  /\ Head(s) = s[1] /\ Head(s) \in Lines /\ Len(s) \in Nat /\ Len(s) >= 1
         /\ Tail(s) \in Seq(Lines) /\ Len(Tail(s)) = Len(s) - 1
         /\ \A i \in 1 .. Len(Tail(s)) : Tail(s)[i] = s[i + 1]
         /\ IsValue(Head(s)) => Head(s) \in ValuesOf(B)
         /\ From(Tail(s), B)
<1>1. Len(s) \in Nat \ {0}
  BY EmptySeq
<1>2. /\ Head(s) \in Lines /\ Tail(s) \in Seq(Lines) /\ Len(Tail(s)) = Len(s) - 1
      /\ \A i \in 1 .. Len(Tail(s)) : Tail(s)[i] = s[i + 1]
  BY HeadTailProperties
<1>3. Head(s) = s[1] /\ 1 \in 1 .. Len(s)
  BY <1>1 DEF Head
<1>4. \A i \in 1 .. Len(Tail(s)) : i + 1 \in 1 .. Len(s)
  BY <1>1, <1>2
<1> QED BY <1>1, <1>2, <1>3, <1>4 DEF From

LEMMA FromWider ==
  ASSUME NEW s, NEW B, NEW C, From(s, B), B \subseteq C
  PROVE  From(s, C)
BY DEF From, ValuesOf

LEMMA FromEmpty == ASSUME NEW B PROVE From(<<>>, B)
BY DEF From

-----------------------------------------------------------------------------
(* The loops over implementations and runs.                                *)
LEMMA LoopBound ==
  ASSUME NEW i \in 1 .. W, NEW R \in Nat, R >= 1, NEW r \in 1 .. R
  PROVE  /\ (i - 1) * R \in Nat /\ i * R \in Nat /\ W * R \in Nat
         /\ (i - 1) * R + R = i * R
         /\ (i - 1) * R + r <= W * R
<1>1. W \in Nat /\ i \in Nat /\ i - 1 \in Nat
  BY Constants
<1>2. (i - 1) * R \in Nat /\ i * R \in Nat /\ W * R \in Nat
  BY <1>1
<1>3. (i - 1) * R + R = i * R
  BY <1>1
<1>4. i * R <= W * R
  <2>1. PICK d \in Nat : W = i + d
    BY <1>1
  <2>2. W * R = i * R + d * R /\ d * R \in Nat
    BY <1>1, <2>1
  <2> QED BY <1>2, <2>2
<1> QED BY <1>2, <1>3, <1>4

Entry(b, code, lines) ==
  [target |-> Targets[turn], code |-> code, boot |-> b, about |-> about,
   got |-> IF code = 0 THEN Parse(lines) ELSE {}]

LEMMA LogGrows ==
  ASSUME log \in Seq(Entries), NEW e \in Entries, log' = Append(log, e)
  PROVE  log' \in Seq(Entries) /\ Len(log) \in Nat /\ Len(log') = Len(log) + 1 /\ Logged' = Logged \cup {e}
<1>1. /\ log' \in Seq(Entries) /\ Len(log') = Len(log) + 1 /\ log'[Len(log) + 1] = e
      /\ \A i \in 1 .. Len(log) : log'[i] = log[i]
  BY AppendProperties
<1>2. Len(log) \in Nat
  OBVIOUS
<1>3. 1 .. Len(log') = 1 .. Len(log) \cup {Len(log) + 1}
  BY <1>1, <1>2
<1>4. Logged' = Logged \cup {e}
  BY <1>1, <1>2, <1>3 DEF Logged
<1> QED BY <1>1, <1>2, <1>4

(* A target that comes to an end. *)
LEMMA Concluded ==
  ASSUME Shape, Position, Counted, Looping, NEW b \in Nat, NEW code \in Nat, NEW lines,
         Parse(lines) \subseteq ValuesOf(Nat), Conclude(b, code, lines),
         sizes' = sizes, boots' \in Seq(Work), Len(boots') <= Len(log) + 1
  PROVE  /\ log' \in Seq(Entries) /\ Logged' = Logged \cup {Entry(b, code, lines)}
         /\ args' = args /\ stage' \in {First, "size", "end"}
         /\ exit' \in {"none", "stopped"} /\ (exit' = "none" <=> stage' # "end")
         /\ Position' /\ Counted'
<1> DEFINE e == Entry(b, code, lines)
           R == args.runs
<1>1. /\ log' = Append(log, e) /\ failures' = IF code = 0 THEN failures ELSE failures + 1
      /\ \/ code # 0 /\ args.fail_fast /\ End("stopped")
         \/ ~(code # 0 /\ args.fail_fast) /\ NextRun
  BY DEF Conclude, Outcome, Entry
<1>2. /\ turn \in 1 .. W /\ R \in Nat /\ R >= 1 /\ nr \in 1 .. R /\ L \in Nat /\ L >= 1
      /\ W \in Nat /\ W >= 1
      /\ Len(log) = (turn - 1) * R + nr - 1 /\ Planned = W * R /\ failures \in Nat /\ failures <= Len(log)
  BY Constants DEF Shape, Position, Counted, Planned, W
<1>3. e \in Entries
  <2>1. about \in [flushed : BOOLEAN, before : Nat, silent : BOOLEAN]
    <3>1. about \in [flushed : BOOLEAN, before : 0 .. Len(boots), silent : BOOLEAN] /\ Len(boots) \in Nat
      BY DEF Shape
    <3> QED BY <3>1
  <2>2. Targets[turn] \in Work
    BY <1>2, Constants
  <2> QED BY <2>1, <2>2 DEF Entry, Entries
<1>4. /\ log' \in Seq(Entries) /\ Len(log) \in Nat /\ Len(log') = Len(log) + 1 /\ Logged' = Logged \cup {e}
  BY <1>1, <1>3, LogGrows DEF Shape
<1>5. /\ (turn - 1) * R \in Nat /\ turn * R \in Nat /\ W * R \in Nat
      /\ (turn - 1) * R + R = turn * R /\ (turn - 1) * R + nr <= W * R
  BY <1>2, LoopBound
<1>6. failures' \in Nat /\ failures' <= Len(log') /\ (failures' = 0 <=> AllZero')
  <2>1. failures = 0 <=> AllZero
    BY DEF Counted, AllZero
  <2>2. e.code = code
    BY DEF Entry
  <2>3. AllZero' <=> (AllZero /\ e.code = 0)
    <3> HIDE DEF e
    <3> QED BY <1>4 DEF AllZero
  <2>4. CASE code = 0
    <3> HIDE DEF e
    <3>1. failures' = failures
      BY <1>1, <2>4
    <3>2. AllZero' <=> AllZero
      BY <2>2, <2>3, <2>4
    <3>3. failures \in Nat /\ failures <= Len(log) /\ Len(log) \in Nat /\ Len(log') = Len(log) + 1
      BY <1>2, <1>4
    <3>4. failures' \in Nat /\ failures' <= Len(log')
      BY <3>1, <3>3
    <3> QED BY <2>1, <3>1, <3>2, <3>4, Zenon
  <2>5. CASE code # 0
    <3> HIDE DEF e
    <3>1. failures' = failures + 1
      BY <1>1, <2>5
    <3> QED BY <1>2, <1>4, <2>2, <2>3, <2>5, <3>1 DEF AllZero
  <2> QED BY <2>4, <2>5
<1> HIDE DEF R
<1>7. Len(log') <= W * R /\ Len(log') = (turn - 1) * R + nr /\ failures' <= W * R + L /\ sizes = {}
  <2>1. sizes = {}
    BY DEF Counted
  <2> QED BY <1>2, <1>4, <1>5, <1>6, <2>1
<1>p. ASSUME args' = args, turn' \in 1 .. W + L, nr' \in 1 .. R,
             stage' \notin {"size", "end"} => turn' \in 1 .. W /\ Len(log') = (turn' - 1) * R + nr' - 1,
             stage' = "size" => turn' \in 1 .. L + 1 /\ Len(log') = W * R, stage' \in {First, "size", "end"}
      PROVE  Position'
  <2>1. args'.runs = R /\ Planned' = W * R
    BY <1>2, <1>p DEF R, Planned, W
  <2>2. Len(boots') <= Len(log')
    BY <1>4
  <2>3. Len(boots') <= W * R
    <3>1. Len(boots') <= Len(log) + 1 /\ Len(log) + 1 = Len(log') /\ Len(log') <= W * R
      BY <1>4, <1>7
    <3>2. Len(boots') \in Nat
      OBVIOUS
    <3> QED BY <1>4, <1>5, <3>1, <3>2
  <2>4. First \in {"build", "run"}
    BY DEF First
  <2> QED BY <1>7, <1>p, <2>1, <2>2, <2>3, <2>4 DEF Position, Looping
<1>r. turn \in 1 .. W /\ nr \in 1 .. R /\ R \in Nat /\ L \in Nat /\ W \in Nat
  BY <1>2
<1>q. ASSUME args' = args, exit' = "none", Looping' PROVE Counted'
  <2>1. Planned' = Planned /\ Planned = W * R
    BY <1>2, <1>q DEF Planned
  <2>2. failures' = 0 <=> AllZero'
    BY <1>6
  <2> QED BY <1>6, <1>7, <1>q, <2>1, <2>2 DEF Counted, ExitTells, Looping
<1> HIDE DEF e
<1>9. CASE code # 0 /\ args.fail_fast /\ End("stopped")
  <2>1. exit' = "stopped" /\ stage' = "end" /\ UNCHANGED <<args, turn, nr>>
    BY <1>9 DEF End, loop
  <2>2. Position'
    BY <1>2, <1>p, <2>1
  <2>3. ~AllZero'
    <3>1. e.code = code
      BY DEF e, Entry
    <3> QED BY <1>4, <1>9, <3>1 DEF AllZero
  <2>4. Counted'
    BY <1>2, <1>6, <1>7, <1>9, <2>1, <2>3 DEF Counted, ExitTells, AllZero, Looping, Planned, L, W, R
  <2> QED BY <1>4, <2>1, <2>2, <2>4 DEF e
<1>10. CASE ~(code # 0 /\ args.fail_fast) /\ NextRun
  <2>1. UNCHANGED <<args, exit>> /\ exit' = "none" /\ First \in {"build", "run"}
    BY <1>10 DEF NextRun, Shape, Looping, First
  <2>2. CASE nr < R
    <3>1. nr' = nr + 1 /\ turn' = turn /\ stage' = First
      BY <1>r, <1>10, <2>2 DEF NextRun, R
    <3>2. Len(log') = (turn' - 1) * R + nr' - 1 /\ nr' \in 1 .. R
      BY <1>2, <1>5, <1>7, <2>2, <3>1
    <3>3. Position'
      BY <1>2, <1>p, <2>1, <3>1, <3>2
    <3>4. Counted'
      BY <1>q, <2>1, <3>1 DEF Looping
    <3> QED BY <1>4, <2>1, <3>1, <3>3, <3>4 DEF e
  <2>3. CASE ~(nr < R) /\ turn < W
    <3>1. nr' = 1 /\ turn' = turn + 1 /\ stage' = First /\ nr = R
      BY <1>r, <1>10, <2>3 DEF NextRun, W, R
    <3>2. Len(log') = (turn' - 1) * R + nr' - 1
      BY <1>2, <1>5, <1>7, <3>1
    <3>3. Position'
      BY <1>2, <1>p, <2>1, <2>3, <3>1, <3>2
    <3>4. Counted'
      BY <1>q, <2>1, <3>1 DEF Looping
    <3> QED BY <1>4, <2>1, <3>1, <3>3, <3>4 DEF e
  <2>4. CASE ~(nr < R) /\ ~(turn < W)
    <3>1. nr' = 1 /\ turn' = 1 /\ stage' = "size" /\ nr = R /\ turn = W
      BY <1>r, <1>10, <2>4 DEF NextRun, W, R
    <3>2. Len(log') = W * R
      BY <1>2, <1>5, <1>7, <3>1
    <3>3. Position'
      BY <1>2, <1>p, <2>1, <3>1, <3>2
    <3>4. Before(turn)' = {} /\ sizes' = {}
      BY <1>7, <3>1 DEF Before
    <3>5. /\ failures' <= Len(log') + (turn' - 1) /\ sizes' \subseteq Before(turn)'
          /\ failures' = 0 <=> (AllZero' /\ sizes' = Before(turn)')
      BY <1>6, <3>1, <3>4, <1>4 DEF AllZero
    <3>6. Planned' = W * R
      BY <1>2, <2>1 DEF Planned, W, R
    <3>7. exit' = "none" /\ ~Looping'
      BY <2>1, <3>1 DEF Looping
    <3>8. Counted'
      BY <1>6, <1>7, <3>1, <3>5, <3>6, <3>7 DEF Counted, ExitTells
    <3> QED BY <1>4, <2>1, <3>1, <3>3, <3>8 DEF e
  <2> QED BY <2>2, <2>3, <2>4
<1> QED BY <1>1, <1>9, <1>10

-----------------------------------------------------------------------------
(* Nothing that was logged is changed by later executions.                 *)
BootsKept ==
  /\ boots' \in Seq(Work) /\ Len(boots) <= Len(boots')
  /\ \A i \in 1 .. Len(boots) : boots'[i] = boots[i]

LEMMA ValuesWider == ASSUME NEW B, NEW C, B \subseteq C PROVE ValuesOf(B) \subseteq ValuesOf(C)
BY DEF ValuesOf

LEMMA LogKept ==
  ASSUME Shape, Told, Filed, BootsKept, log' = log, args' = args
  PROVE  Filed' /\ \A l \in Logged' : l.got \subseteq ValuesOf(0 .. Len(boots'))
<1>1. Len(boots) \in Nat /\ Len(boots') \in Nat /\ Len(boots) <= Len(boots') /\ Logged' = Logged
  BY DEF BootsKept, Shape, Logged
<1>2. 0 .. Len(boots) \subseteq 0 .. Len(boots') /\ 1 .. Len(boots) \subseteq 1 .. Len(boots')
  BY <1>1
<1>3. \A l \in Logged' : l.got \subseteq ValuesOf(0 .. Len(boots'))
  BY <1>1, <1>2, ValuesWider DEF Told
<1>4. Filed'
  BY <1>1, <1>2 DEF Filed, BootsKept
<1> QED BY <1>3, <1>4

LEMMA FailingKept ==
  ASSUME Shape, Failing, BootsKept, board' = board \/ board'.mode \in {"runs", "halted"}
  PROVE  Failing'
<1>1. board.boot \in 0 .. Len(boots) /\ Len(boots) \in Nat
  BY DEF Shape
<1>2. board.boot # 0 => boots'[board.boot] = boots[board.boot]
  BY <1>1 DEF BootsKept
<1> QED BY <1>2 DEF Failing, App

LEMMA BootsLengths ==
  ASSUME Shape, BootsKept
  PROVE  Len(boots) \in Nat /\ Len(boots') \in Nat /\ Len(boots) <= Len(boots')
BY DEF Shape, BootsKept

(* A target that comes to an end, with what was captured for it.           *)
LEMMA ConcludedInv ==
  ASSUME IInv, Looping, NEW b \in Nat, NEW code \in Nat, NEW lines, Conclude(b, code, lines),
         BootsKept, Len(boots') <= Len(log) + 1, UNCHANGED <<sizes, about, board>>,
         rx' \in Seq(Lines), captured' \in Seq(Lines),
         From(rx', 0 .. Len(boots')), From(captured', 0 .. Len(boots')),
         Parse(lines) \subseteq ValuesOf(0 .. Len(boots')),
         args.runner = "board" /\ code = 0 /\ about.flushed =>
           /\ b \in 1 .. Len(boots') /\ boots'[b] = Targets[turn]
           /\ Parse(lines) \subseteq Values(b) \cup Values(about.before)
           /\ about.silent => Parse(lines) = Values(b) \/ (Parse(lines) = {} /\ Targets[turn].app = "stack")
  PROVE  IInv'
<1> DEFINE e == Entry(b, code, lines)
<1>1. Len(boots) \in Nat /\ Len(boots') \in Nat /\ Len(boots) <= Len(boots')
  BY BootsLengths DEF IInv
<1>2. 0 .. Len(boots) \subseteq 0 .. Len(boots') /\ 0 .. Len(boots') \subseteq Nat
        /\ 1 .. Len(boots) \subseteq 1 .. Len(boots')
  BY <1>1
<1>3. /\ log' \in Seq(Entries) /\ Logged' = Logged \cup {e}
      /\ args' = args /\ stage' \in {First, "size", "end"}
      /\ exit' \in {"none", "stopped"} /\ (exit' = "none" <=> stage' # "end")
      /\ Position' /\ Counted'
  <2>1. Parse(lines) \subseteq ValuesOf(Nat)
    BY <1>2, ValuesWider
  <2> QED BY <2>1, Concluded DEF IInv, BootsKept
<1>4. First \in {"build", "run"} /\ (First = "build" <=> args.runner = "board")
  BY DEF First
<1>5. Shape'
  <2>1. about' \in [flushed : BOOLEAN, before : 0 .. Len(boots'), silent : BOOLEAN]
    <3>1. about \in [flushed : BOOLEAN, before : 0 .. Len(boots), silent : BOOLEAN]
      BY DEF IInv, Shape
    <3> QED BY <1>2, <3>1
  <2>2. board'.boot \in 0 .. Len(boots')
    BY <1>2 DEF IInv, Shape
  <2> QED BY <1>3, <1>4, <2>1, <2>2 DEF IInv, Shape, Printing, BootsKept
<1>6. /\ e.got \subseteq Parse(lines) /\ e.code = code /\ e.boot = b /\ e.target = Targets[turn] /\ e.about = about
      /\ code = 0 => e.got = Parse(lines)
  BY DEF Entry
<1> HIDE DEF e
<1>7. Told'
  <2>1. \A l \in Logged : l.got \subseteq ValuesOf(0 .. Len(boots'))
    BY <1>2, ValuesWider DEF IInv, Told
  <2> QED BY <1>3, <1>6, <2>1 DEF Told
<1>8. Filed'
  <2>1. ASSUME NEW l \in Logged, args.runner = "board", l.code = 0, l.about.flushed
        PROVE  /\ l.boot \in 1 .. Len(boots') /\ boots'[l.boot] = l.target
               /\ l.got \subseteq Values(l.boot) \cup Values(l.about.before)
               /\ l.about.silent => l.got = Values(l.boot) \/ (l.got = {} /\ l.target.app = "stack")
    BY <1>2, <2>1 DEF IInv, Filed, BootsKept
  <2> QED BY <1>3, <1>6, <2>1 DEF Filed
<1>9. Flushed' /\ Failing'
  BY <1>3, <1>4, FailingKept DEF Flushed, IInv
<1> QED BY <1>3, <1>5, <1>7, <1>8, <1>9 DEF IInv

LEMMA ParseNothing == Parse(<<>>) = {}
<1>1. 1 .. Len(<<>>) - 1 = {}
  BY EmptySeq
<1> QED BY <1>1 DEF Parse

LEMMA BootsSame == ASSUME Shape, boots' = boots PROVE BootsKept
BY DEF Shape, BootsKept

LEMMA FailureInv ==
  ASSUME IInv, Looping, NEW b \in Nat, NEW code \in Nat \ {0}, NEW lines, Conclude(b, code, lines),
         lines = <<>> \/ lines = captured, UNCHANGED <<rx, captured, board, boots, sizes, about>>
  PROVE  IInv'
<1>1. BootsKept /\ Len(boots) \in Nat
  BY BootsSame DEF IInv, Shape
<1>2. Len(boots') <= Len(log) + 1
  <2>1. Len(log) \in Nat
    BY DEF IInv, Shape
  <2> QED BY <1>1, <2>1 DEF IInv, Shape, Position, Looping
<1>3. Parse(lines) \subseteq ValuesOf(0 .. Len(boots'))
  BY ParseNothing, ParseSome DEF IInv, Shape, Told
<1>4. rx' \in Seq(Lines) /\ captured' \in Seq(Lines) /\ From(rx', 0 .. Len(boots')) /\ From(captured', 0 .. Len(boots'))
  BY DEF IInv, Shape, Told
<1> QED BY <1>1, <1>2, <1>3, <1>4, ConcludedInv

-----------------------------------------------------------------------------
(* The board prints. *)
LEMMA BoardKeeps ==
  ASSUME IInv, UNCHANGED <<loop, stage, exit, failures, captured, boots, sizes, about, log>>
  PROVE  Position' /\ Counted' /\ Filed' /\ BootsKept
<1>1. Position'
  BY DEF loop, IInv, Position, Looping, Planned
<1>2. Counted'
  BY DEF loop, IInv, Counted, Looping, Planned, AllZero, Logged, Before, ExitTells
<1>3. BootsKept /\ Filed'
  BY BootsSame, LogKept DEF loop, IInv
<1> QED BY <1>1, <1>2, <1>3

(* One more line x of the program on the board.                            *)
LEMMA LineInv ==
  ASSUME IInv, Printing, UNCHANGED <<loop, stage, exit, failures, captured, boots, sizes, about, log>>,
         NEW x \in Lines, rx' = Append(rx, x), IsValue(x) => x \in Values(board.boot),
         board' = [boot |-> board.boot, printed |-> board'.printed, mode |-> board'.mode],
         board'.printed \in 0 .. 2 * Iterations + 2, board'.mode \in {"runs", "ended", "stuck", "failing", "quit"},
         Printing' => board'.printed < 2 * Iterations + 2,
         board'.mode \in {"failing", "quit"} => board'.printed = 1 /\ App(board.boot, "stack"),
         Printed' = Printed + 1,
         \A i \in 1 .. Printed : Line(board', i) = Line(board, i),
         Line(board', Printed + 1) = x
  PROVE  IInv'
<1>1. Position' /\ Counted' /\ Filed' /\ Failing'
  <2>1. board'.boot = board.boot /\ boots' = boots
    BY DEF loop
  <2> QED BY <2>1, BoardKeeps DEF Failing, App
<1>2. board.boot \in 0 .. Len(boots) /\ rx \in Seq(Lines) /\ From(rx, 0 .. Len(boots))
      /\ board'.boot = board.boot
  BY DEF IInv, Shape, Told
<1>3. IsValue(x) => x \in ValuesOf({board.boot}) /\ x \in ValuesOf(0 .. Len(boots))
  BY <1>2 DEF ValuesOf
<1>4. /\ rx' \in Seq(Lines) /\ Len(rx') = Len(rx) + 1 /\ From(rx', 0 .. Len(boots))
      /\ \A i \in 1 .. Len(rx) : rx'[i] = rx[i]
      /\ rx'[Len(rx) + 1] = x
  <2> DEFINE B == 0 .. Len(boots)
  <2>1. rx \in Seq(Lines) /\ From(rx, B) /\ B \subseteq B /\ (IsValue(x) => x \in ValuesOf(B))
    BY <1>2, <1>3
  <2> HIDE DEF B
  <2>2. /\ Append(rx, x) \in Seq(Lines) /\ Len(Append(rx, x)) = Len(rx) + 1
        /\ \A i \in 1 .. Len(rx) : Append(rx, x)[i] = rx[i]
        /\ Append(rx, x)[Len(rx) + 1] = x
    BY <2>1, AppendProperties
  <2>3. From(Append(rx, x), B)
    BY <2>1, FromAppend, Zenon
  <2> QED BY <2>2, <2>3 DEF B
<1>5. Shape'
  <2>1. UNCHANGED <<args, stage, exit, captured, boots, about, log>>
    BY DEF loop
  <2>2. /\ board'.boot \in 0 .. Len(boots') /\ board'.printed \in 0 .. 2 * Iterations + 2
        /\ board' = [boot |-> board'.boot, printed |-> board'.printed, mode |-> board'.mode]
        /\ board'.mode \in {"runs", "ended", "stuck", "failing", "quit", "halted"}
        /\ Printing' => board'.printed < 2 * Iterations + 2
    BY <1>2, <2>1 DEF Printing
  <2>3. /\ args' \in Args /\ captured' \in Seq(Lines) /\ boots' \in Seq(Work) /\ log' \in Seq(Entries)
        /\ about' \in [flushed : BOOLEAN, before : 0 .. Len(boots'), silent : BOOLEAN]
        /\ stage' \in {"build", "open", "flash", "program", "reset", "read", "run", "size", "end"}
        /\ exit' \in {"none", "ok", "failed", "empty", "stopped", "traceback"}
        /\ exit' = "none" <=> stage' # "end"
        /\ stage' \in {"build", "open", "flash", "program", "reset", "read"} => args'.runner = "board"
        /\ stage' = "run" => args'.runner # "board"
    BY <2>1 DEF IInv, Shape
  <2> QED BY <1>4, <2>2, <2>3 DEF Shape
<1>6. Told'
  BY <1>4 DEF IInv, Told, Logged
<1>7. Flushed'
  <2>1. CASE stage \in {"flash", "program"}
    <3>1. stage = "flash" /\ ~about.silent /\ board.boot = about.before /\ captured = <<>>
      BY <2>1 DEF IInv, Flushed, Printing
    <3>2. ASSUME about.flushed PROVE From(rx', {about.before})
      BY <1>2, <1>3, <2>1, <3>1, <3>2, FromAppend DEF IInv, Flushed
    <3> QED BY <1>2, <3>1, <3>2 DEF Flushed
  <2>2. CASE stage \in {"reset", "read"}
    <3>1. /\ board.boot = Len(boots) /\ Len(boots) # 0 /\ boots[Len(boots)] = Targets[turn]
      BY <2>2 DEF IInv, Flushed
    <3>2. ASSUME about.flushed PROVE From(rx', {board.boot, about.before}) /\ From(captured, {board.boot, about.before})
      <4>1. From(rx, {board.boot, about.before}) /\ From(captured, {board.boot, about.before})
        BY <2>2, <3>2 DEF IInv, Flushed
      <4>2. IsValue(x) => x \in ValuesOf({board.boot, about.before})
        BY <1>3 DEF ValuesOf
      <4> QED BY <1>2, <4>1, <4>2, FromAppend
    <3>3. ASSUME about.flushed, about.silent
          PROVE  /\ Len(captured) + Len(rx') = Printed'
                 /\ \A i \in 1 .. Len(captured) : captured[i] = Line(board', i)
                 /\ \A i \in 1 .. Len(rx') : rx'[i] = Line(board', Len(captured) + i)
      <4>1. /\ Len(captured) + Len(rx) = Printed
            /\ \A i \in 1 .. Len(captured) : captured[i] = Line(board, i)
            /\ \A i \in 1 .. Len(rx) : rx[i] = Line(board, Len(captured) + i)
        BY <2>2, <3>3 DEF IInv, Flushed
      <4>2. Len(captured) \in Nat /\ Len(rx) \in Nat
        BY DEF IInv, Shape
      <4>3. ASSUME NEW i \in 1 .. Len(captured) PROVE captured[i] = Line(board', i)
        <5>1. i \in 1 .. Printed
          BY <4>1, <4>2
        <5> QED BY <4>1, <5>1
      <4>4. ASSUME NEW i \in 1 .. Len(rx') PROVE rx'[i] = Line(board', Len(captured) + i)
        <5>1. CASE i = Len(rx) + 1
          <6>1. Len(captured) + i = Printed + 1
            BY <4>1, <4>2, <5>1
          <6> QED BY <1>4, <5>1, <6>1
        <5>2. CASE i # Len(rx) + 1
          <6>1. i \in 1 .. Len(rx) /\ Len(captured) + i \in 1 .. Printed
            BY <1>4, <4>1, <4>2, <5>2
          <6> QED BY <1>4, <4>1, <6>1
        <5> QED BY <5>1, <5>2
      <4> QED BY <1>4, <4>1, <4>2, <4>3, <4>4
    <3>4. /\ board'.boot = Len(boots') /\ Len(boots') # 0 /\ boots'[Len(boots')] = Targets[turn']
          /\ board'.mode # "halted" /\ stage' = stage /\ about' = about /\ captured' = captured
          /\ board'.boot = board.boot
      BY <1>2, <3>1 DEF loop
    <3> QED BY <2>2, <3>2, <3>3, <3>4 DEF Flushed
  <2>3. CASE stage \notin {"flash", "program", "reset", "read"}
    BY <2>3 DEF Flushed
  <2> QED BY <2>1, <2>2, <2>3
<1> QED BY <1>1, <1>5, <1>6, <1>7 DEF IInv

LEMMA BoardInv == ASSUME IInv, Board PROVE IInv'
<1> DEFINE top == 2 * Iterations + 2
<1>1. /\ board.boot \in Nat /\ board.printed \in Nat /\ top \in Nat /\ Iterations \in Nat
      /\ board = [boot |-> board.boot, printed |-> board.printed, mode |-> board.mode]
  <2>1. Len(boots) \in Nat
    BY DEF IInv, Shape
  <2> QED BY <2>1, Constants DEF IInv, Shape
<1>2. Len(Output(board.boot)) = top /\ \A n \in 1 .. top : Output(board.boot)[n] \in Lines
        /\ (IsValue(Output(board.boot)[n]) => Output(board.boot)[n] \in Values(board.boot))
  <2>1. Output(board.boot) \in Seq(Lines)
    BY <1>1, OutputLines
  <2> QED BY <1>1, <2>1, OutputLines
<1>3. CASE PrintLine
  <2> DEFINE n == board.printed + 1
             x == Output(board.boot)[n]
  <2>1. /\ Printing /\ board.mode = "runs" /\ rx' = Append(rx, x)
        /\ board' = [board EXCEPT !.printed = n,
                                  !.mode = IF n = Len(Output(board.boot)) THEN "ended" ELSE "runs"]
        /\ UNCHANGED <<loop, stage, exit, failures, captured, boots, sizes, about, log>>
    BY <1>3 DEF PrintLine, Printing
  <2>2. board.mode = "runs" /\ board.printed < top /\ n \in 1 .. top
    <3>1. board.mode = "runs" /\ board.printed < 2 * Iterations + 2 /\ board.printed \in 0 .. 2 * Iterations + 2
      BY <2>1 DEF IInv, Shape, Printing
    <3> QED BY <1>1, <3>1
  <2>3. board' = [boot |-> board.boot, printed |-> n, mode |-> IF n = top THEN "ended" ELSE "runs"]
    BY <1>1, <1>2, <2>1
  <2>4. x \in Lines /\ (IsValue(x) => x \in Values(board.boot))
    BY <1>2, <2>2
  <2>5. /\ board'.boot = board.boot /\ board'.printed = n /\ board'.mode \in {"runs", "ended"}
        /\ Printing' => n < top
        /\ board' = [boot |-> board.boot, printed |-> board'.printed, mode |-> board'.mode]
    BY <1>1, <2>2, <2>3 DEF Printing
  <2>6. Printed' = n /\ Printed = board.printed
    BY <2>2, <2>5 DEF Printed
  <2>7. Line(board', n) = x /\ \A i \in 1 .. board.printed : Line(board', i) = Line(board, i)
    BY <1>1, <2>5 DEF Line
  <2>8. board'.printed \in 0 .. top /\ n = Printed + 1 /\ Printed' = Printed + 1
    BY <1>1, <2>2, <2>5, <2>6
  <2>9. Line(board', Printed + 1) = x /\ \A i \in 1 .. Printed : Line(board', i) = Line(board, i)
    BY <2>6, <2>7
  <2> HIDE DEF x, n
  <2> QED BY <2>1, <2>4, <2>5, <2>8, <2>9, LineInv
<1>4. CASE FailAndHalt \/ ReturnEarly \/ GiveUp
  <2>1. PICK m \in {"stuck", "failing"} :
          /\ board.mode = "runs" /\ rx' = Append(rx, Reason) /\ board' = [board EXCEPT !.mode = m]
          /\ m = "failing" => board.printed = 1 /\ App(board.boot, "stack")
          /\ UNCHANGED <<loop, stage, exit, failures, captured, boots, sizes, about, log>>
    BY <1>4 DEF FailAndHalt, ReturnEarly, GiveUp, Say
  <2>2. Printing /\ board.printed < top
    BY <1>1, <2>1 DEF IInv, Shape, Printing
  <2>3. board' = [boot |-> board.boot, printed |-> board.printed, mode |-> m]
    BY <1>1, <2>1
  <2>4. /\ board'.boot = board.boot /\ board'.printed = board.printed /\ board'.mode = m
        /\ board' = [boot |-> board.boot, printed |-> board'.printed, mode |-> board'.mode]
    BY <2>3
  <2>5. Printed' = Printed + 1 /\ Printed = board.printed
    BY <2>1, <2>4 DEF Printed
  <2>6. Line(board', Printed + 1) = Reason /\ \A i \in 1 .. Printed : Line(board', i) = Line(board, i)
    BY <1>1, <2>4, <2>5 DEF Line
  <2>7. board'.printed \in 0 .. top /\ Reason \in Lines /\ ~IsValue(Reason)
    BY <1>1, <2>2, <2>4, LinesKnown, ValueLines
  <2> QED BY <2>1, <2>2, <2>4, <2>5, <2>6, <2>7, LineInv
<1>5. CASE SendDone
  <2>1. /\ board.mode = "failing" /\ rx' = Append(rx, Done) /\ board' = [board EXCEPT !.mode = "quit"]
        /\ UNCHANGED <<loop, stage, exit, failures, captured, boots, sizes, about, log>>
    BY <1>5 DEF SendDone, Say
  <2>2. Printing /\ board.printed < top
    BY <1>1, <2>1 DEF IInv, Shape, Printing
  <2>3. board.printed = 1 /\ App(board.boot, "stack")
    BY <2>1 DEF IInv, Failing
  <2>4. board' = [boot |-> board.boot, printed |-> board.printed, mode |-> "quit"]
    BY <1>1, <2>1
  <2>5. /\ board'.boot = board.boot /\ board'.printed = board.printed /\ board'.mode = "quit"
        /\ board' = [boot |-> board.boot, printed |-> board'.printed, mode |-> board'.mode]
    BY <2>4
  <2>6. Printed' = Printed + 1 /\ Printed = board.printed + 1
    BY <1>1, <2>1, <2>5 DEF Printed
  <2>7. Line(board', Printed + 1) = Done /\ \A i \in 1 .. Printed : Line(board', i) = Line(board, i)
    BY <1>1, <2>5, <2>6 DEF Line
  <2>8. board'.printed \in 0 .. top /\ Done \in Lines /\ ~IsValue(Done) /\ ~Printing'
    BY <1>1, <2>2, <2>5, LinesKnown, ValueLines DEF Printing
  <2> QED BY <2>1, <2>2, <2>3, <2>5, <2>6, <2>7, <2>8, LineInv
<1> QED BY <1>3, <1>4, <1>5 DEF Board

-----------------------------------------------------------------------------
(* The host goes on with the present target.                               *)
LEMMA QuietKeeps ==
  ASSUME IInv, Looping, stage' \in {"build", "open", "flash", "program", "reset", "read", "run"},
         UNCHANGED <<loop, exit, failures, sizes, log>>, BootsKept,
         board' = board \/ board'.mode \in {"runs", "halted"}, Len(boots') <= Len(log) + 1,
         stage' \in {"build", "open", "flash", "program", "run"} => Len(boots') <= Len(log)
  PROVE  /\ Position' /\ Counted' /\ Filed' /\ Failing' /\ exit' = "none"
         /\ \A l \in Logged' : l.got \subseteq ValuesOf(0 .. Len(boots'))
<1>1. UNCHANGED <<args, turn, nr>> /\ Looping' /\ Logged' = Logged
  BY DEF loop, Looping, Logged
<1>2. Len(log) + 1 <= Planned /\ Len(log) \in Nat /\ Planned \in Nat
  <2>1. turn \in 1 .. W /\ args.runs \in Nat /\ args.runs >= 1 /\ nr \in 1 .. args.runs
          /\ Len(log) = (turn - 1) * args.runs + nr - 1 /\ Len(log) \in Nat
    <3>1. args \in Args /\ log \in Seq(Entries)
      BY DEF IInv, Shape
    <3>2. args.runs \in Nat /\ args.runs >= 1 /\ Len(log) \in Nat
      BY <3>1, Constants
    <3>3. turn \in 1 .. W /\ nr \in 1 .. args.runs /\ Len(log) = (turn - 1) * args.runs + nr - 1
      BY DEF IInv, Position
    <3> QED BY <3>2, <3>3
  <2> DEFINE R == args.runs
  <2>2. (turn - 1) * R \in Nat /\ W * R \in Nat /\ (turn - 1) * R + nr <= W * R
    BY <2>1, LoopBound
  <2> HIDE DEF R
  <2>3. Planned = W * R
    BY DEF Planned, W, R
  <2>4. Len(log) = (turn - 1) * R + nr - 1
    BY <2>1 DEF R
  <2> QED BY <2>1, <2>2, <2>3, <2>4
<1>3. Position'
  <2>1. Len(boots') \in Nat
    BY DEF BootsKept
  <2>2. Len(boots') <= Planned /\ Planned' = Planned
    BY <1>1, <1>2, <2>1 DEF Planned
  <2> QED BY <1>1, <1>2, <2>2 DEF IInv, Position, Looping
<1>4. Counted'
  BY <1>1 DEF IInv, Counted, Looping, AllZero, ExitTells, Planned, Shape
<1>5. exit' = "none"
  BY DEF IInv, Shape, Looping
<1> QED BY <1>1, <1>3, <1>4, <1>5, LogKept, FailingKept DEF IInv

(* The end with a traceback: an exit status that tells nothing.            *)
LEMMA TracebackInv ==
  ASSUME IInv, Looping, End("traceback"), UNCHANGED <<failures, log, rx, captured, board, sizes, about>>,
         BootsKept, Len(boots') <= Len(log) + 1
  PROVE  IInv'
<1>1. exit' = "traceback" /\ stage' = "end" /\ UNCHANGED <<args, turn, nr>> /\ ~Looping' /\ Logged' = Logged
  BY DEF End, loop, Looping, Logged
<1>2. /\ Len(boots) \in Nat /\ Len(boots') \in Nat /\ Len(boots) <= Len(boots')
      /\ 0 .. Len(boots) \subseteq 0 .. Len(boots')
  BY DEF IInv, Shape, BootsKept
<1>3. Filed' /\ \A l \in Logged' : l.got \subseteq ValuesOf(0 .. Len(boots'))
  BY <1>1, LogKept DEF IInv
<1>4. Position'
  <2>1. turn \in 1 .. W /\ args.runs \in Nat /\ args.runs >= 1 /\ nr \in 1 .. args.runs
          /\ Len(log) = (turn - 1) * args.runs + nr - 1 /\ Len(log) \in Nat
    <3>1. args \in Args /\ log \in Seq(Entries)
      BY DEF IInv, Shape
    <3>2. args.runs \in Nat /\ args.runs >= 1 /\ Len(log) \in Nat
      BY <3>1, Constants
    <3>3. turn \in 1 .. W /\ nr \in 1 .. args.runs /\ Len(log) = (turn - 1) * args.runs + nr - 1
      BY DEF IInv, Position
    <3> QED BY <3>2, <3>3
  <2> DEFINE R == args.runs
  <2>2. (turn - 1) * R \in Nat /\ W * R \in Nat /\ (turn - 1) * R + nr <= W * R
    BY <2>1, LoopBound
  <2> HIDE DEF R
  <2>3. Planned = W * R /\ Len(log) = (turn - 1) * R + nr - 1
    BY <2>1 DEF Planned, W, R
  <2>4. Len(boots') <= Planned /\ Planned' = Planned
    BY <1>1, <1>2, <2>1, <2>2, <2>3 DEF Planned
  <2> QED BY <1>1, <2>4 DEF IInv, Position
<1>5. Counted'
  BY <1>1 DEF IInv, Counted, ExitTells, Planned
<1>6. Shape'
  <2>1. about' \in [flushed : BOOLEAN, before : 0 .. Len(boots'), silent : BOOLEAN]
    <3>1. about \in [flushed : BOOLEAN, before : 0 .. Len(boots), silent : BOOLEAN]
      BY DEF IInv, Shape
    <3> QED BY <1>2, <3>1
  <2>2. board'.boot \in 0 .. Len(boots')
    BY <1>2 DEF IInv, Shape
  <2> QED BY <1>1, <2>1, <2>2 DEF IInv, Shape, BootsKept, Printing
<1>7. Told' /\ Flushed' /\ Failing'
  BY <1>1, <1>2, <1>3, FromWider, FailingKept DEF IInv, Told, Flushed
<1> QED BY <1>3, <1>4, <1>5, <1>6, <1>7 DEF IInv

LEMMA BuildInv == ASSUME IInv, Build PROVE IInv'
<1>1. stage = "build" /\ Looping /\ UNCHANGED <<rx, captured, board, boots, sizes, about>> /\ Len(boots) \in Nat
  BY DEF Build, Looping, IInv, Shape
<1>2. CASE stage' = "open" /\ UNCHANGED <<loop, exit, failures, log>>
  <2>1. BootsKept /\ Len(boots') <= Len(log) /\ Len(log) \in Nat
    BY <1>1, BootsSame DEF IInv, Position, Shape
  <2>2. Position' /\ Counted' /\ Filed' /\ Failing' /\ exit' = "none"
          /\ \A l \in Logged' : l.got \subseteq ValuesOf(0 .. Len(boots'))
    BY <1>1, <1>2, <2>1, QuietKeeps
  <2>3. Shape'
    BY <1>1, <1>2, <2>2 DEF IInv, Shape, loop, Printing
  <2>4. Told' /\ Flushed'
    BY <1>1, <1>2, <2>2 DEF IInv, Told, Flushed
  <2> QED BY <2>2, <2>3, <2>4 DEF IInv
<1>3. CASE Conclude(Len(boots), 2, <<>>)
  BY <1>1, <1>3, FailureInv
<1>4. CASE End("traceback") /\ UNCHANGED <<failures, log>>
  <2>1. BootsKept /\ Len(boots') <= Len(log) + 1 /\ Len(log) \in Nat
    BY <1>1, BootsSame DEF IInv, Position, Shape
  <2> QED BY <1>1, <1>4, <2>1, TracebackInv
<1> QED BY <1>2, <1>3, <1>4 DEF Build

LEMMA OpenInv == ASSUME IInv, Open PROVE IInv'
<1>1. /\ stage = "open" /\ stage' = "flash" /\ captured' = <<>> /\ Looping
      /\ UNCHANGED <<loop, exit, failures, board, boots, sizes, log>>
      /\ Len(boots) \in Nat
  BY DEF Open, Looping, IInv, Shape
<1>2. PICK ok \in BOOLEAN :
        /\ rx' = IF ok THEN <<>> ELSE rx
        /\ about' = [flushed |-> ok, before |-> board.boot, silent |-> ~Printing]
  BY DEF Open
<1>3. BootsKept /\ Len(boots') <= Len(log) /\ Len(log) \in Nat
  BY <1>1, BootsSame DEF IInv, Position, Shape
<1>4. Position' /\ Counted' /\ Filed' /\ Failing' /\ exit' = "none"
        /\ \A l \in Logged' : l.got \subseteq ValuesOf(0 .. Len(boots'))
  BY <1>1, <1>3, QuietKeeps
<1>5. /\ rx' \in Seq(Lines) /\ captured' \in Seq(Lines)
      /\ From(rx', 0 .. Len(boots')) /\ From(captured', 0 .. Len(boots'))
      /\ ok => From(rx', {board.boot}) /\ rx' = <<>>
  BY <1>1, <1>2, FromEmpty DEF IInv, Shape, Told
<1>6. about'.flushed = ok /\ about'.before = board.boot /\ about'.silent = ~Printing
        /\ about' \in [flushed : BOOLEAN, before : 0 .. Len(boots'), silent : BOOLEAN]
  BY <1>1, <1>2 DEF IInv, Shape, Printing
<1>7. Shape'
  BY <1>1, <1>4, <1>5, <1>6 DEF IInv, Shape, loop, Printing
<1>8. Told'
  BY <1>4, <1>5 DEF Told
<1>9. Flushed'
  BY <1>1, <1>5, <1>6 DEF Flushed, Printing
<1> QED BY <1>4, <1>7, <1>8, <1>9 DEF IInv

LEMMA FlashInv == ASSUME IInv, FlashHalts \/ FlashResets \/ FlashExits PROVE IInv'
<1>1. /\ stage \in {"flash", "program", "reset"} /\ stage' \in {"program", "reset", "read"} /\ Looping
      /\ UNCHANGED <<loop, exit, failures, rx, captured, sizes, about, log>>
      /\ Len(boots) \in Nat /\ Len(log) \in Nat
  BY DEF FlashHalts, FlashResets, FlashExits, Looping, IInv, Shape
<1>2. turn \in 1 .. W /\ Targets[turn] \in Work
  BY <1>1, Constants DEF IInv, Position
<1>3. CASE FlashHalts
  <2>1. stage = "flash" /\ stage' = "program" /\ board' = [board EXCEPT !.mode = "halted"] /\ boots' = boots
    BY <1>3 DEF FlashHalts
  <2>2. board' = [boot |-> board.boot, printed |-> board.printed, mode |-> "halted"]
    BY <2>1 DEF IInv, Shape
  <2>3. /\ board'.boot = board.boot /\ board'.printed = board.printed /\ board'.mode = "halted"
        /\ board' = [boot |-> board'.boot, printed |-> board'.printed, mode |-> board'.mode]
    BY <2>2
  <2>4. BootsKept /\ Len(boots') <= Len(log)
    BY <2>1, BootsSame DEF IInv, Position
  <2>5. Position' /\ Counted' /\ Filed' /\ Failing' /\ exit' = "none"
          /\ \A l \in Logged' : l.got \subseteq ValuesOf(0 .. Len(boots'))
    <3>1. Len(boots') <= Len(log) + 1
      BY <1>1, <2>1, <2>4
    <3> QED BY <1>1, <2>3, <2>4, <3>1, QuietKeeps
  <2>6. Shape'
    BY <1>1, <2>1, <2>3, <2>5 DEF IInv, Shape, loop, Printing
  <2>7. Told' /\ Flushed'
    BY <1>1, <2>1, <2>3, <2>5 DEF IInv, Told, Flushed, Printing
  <2> QED BY <2>5, <2>6, <2>7 DEF IInv
<1>4. CASE FlashResets
  <2>1. /\ stage = "program" /\ stage' = "reset" /\ boots' = Append(boots, Targets[turn])
        /\ board' = [boot |-> Len(boots'), printed |-> 0, mode |-> "runs"]
    BY <1>4 DEF FlashResets
  <2>2. /\ boots' \in Seq(Work) /\ Len(boots') = Len(boots) + 1 /\ boots'[Len(boots')] = Targets[turn]
        /\ \A i \in 1 .. Len(boots) : boots'[i] = boots[i]
    <3>1. boots \in Seq(Work)
      BY DEF IInv, Shape
    <3> QED BY <1>2, <2>1, <3>1, AppendProperties
  <2>3. BootsKept /\ Len(boots') <= Len(log) + 1
    <3>1. Len(boots) <= Len(log)
      BY <2>1 DEF IInv, Position
    <3> QED BY <1>1, <2>2, <3>1 DEF BootsKept
  <2>4. Position' /\ Counted' /\ Filed' /\ Failing' /\ exit' = "none"
          /\ \A l \in Logged' : l.got \subseteq ValuesOf(0 .. Len(boots'))
    BY <1>1, <2>1, <2>3, QuietKeeps
  <2>5. /\ board'.boot = Len(boots') /\ board'.printed = 0 /\ board'.mode = "runs"
        /\ board' = [boot |-> board'.boot, printed |-> board'.printed, mode |-> board'.mode]
    BY <2>1
  <2>6. Iterations \in Nat /\ Len(boots') \in Nat /\ 0 .. Len(boots) \subseteq 0 .. Len(boots')
          /\ Len(boots') \in 0 .. Len(boots') /\ Len(boots') # 0
    BY <1>1, <2>2, Constants
  <2>7. Shape'
    <3>1. about' \in [flushed : BOOLEAN, before : 0 .. Len(boots'), silent : BOOLEAN]
      <4>1. about \in [flushed : BOOLEAN, before : 0 .. Len(boots), silent : BOOLEAN]
        BY DEF IInv, Shape
      <4> QED BY <1>1, <2>6, <4>1
    <3>2. board'.printed \in 0 .. 2 * Iterations + 2 /\ board'.printed < 2 * Iterations + 2
      BY <2>5, <2>6
    <3>3. board'.boot \in 0 .. Len(boots')
      BY <2>5, <2>6
    <3> QED BY <1>1, <2>1, <2>2, <2>4, <2>5, <3>1, <3>2, <3>3 DEF IInv, Shape, loop
  <2>8. Told'
    BY <1>1, <2>4, <2>6, FromWider DEF IInv, Told
  <2>9. Flushed'
    <3>1. /\ captured = <<>>
          /\ about.flushed => From(rx, {about.before})
          /\ about.flushed /\ about.silent => rx = <<>>
      BY <2>1 DEF IInv, Flushed
    <3>2. ASSUME about.flushed PROVE From(rx, {board'.boot, about.before}) /\ From(captured, {board'.boot, about.before})
      <4>1. From(rx, {about.before}) /\ {about.before} \subseteq {board'.boot, about.before}
        BY <3>1, <3>2
      <4>2. From(rx, {board'.boot, about.before})
        BY <4>1, FromWider
      <4>3. From(captured, {board'.boot, about.before})
        BY <3>1, FromEmpty
      <4> QED BY <4>2, <4>3
    <3>3. Printed' = 0
      BY <2>5 DEF Printed
    <3>4. ASSUME about.flushed, about.silent
          PROVE  /\ Len(captured) + Len(rx) = Printed'
                 /\ \A i \in 1 .. Len(captured) : captured[i] = Line(board', i)
                 /\ \A i \in 1 .. Len(rx) : rx[i] = Line(board', Len(captured) + i)
      <4>1. rx = <<>> /\ captured = <<>> /\ Len(<<>>) = 0
        BY <3>1, <3>4
      <4>2. 1 .. Len(rx) = {} /\ 1 .. Len(captured) = {} /\ Len(captured) + Len(rx) = 0
        BY <4>1
      <4> QED BY <3>3, <4>2
    <3> QED BY <1>1, <2>1, <2>2, <2>5, <2>6, <3>2, <3>4 DEF Flushed, loop
  <2> QED BY <2>4, <2>7, <2>8, <2>9 DEF IInv
<1>5. CASE FlashExits
  <2>1. stage = "reset" /\ stage' = "read" /\ board' = board /\ boots' = boots
    BY <1>5 DEF FlashExits
  <2>2. BootsKept /\ Len(boots') <= Len(log) + 1
    BY <2>1, BootsSame DEF IInv, Position
  <2>3. Position' /\ Counted' /\ Filed' /\ Failing' /\ exit' = "none"
          /\ \A l \in Logged' : l.got \subseteq ValuesOf(0 .. Len(boots'))
    BY <1>1, <2>1, <2>2, QuietKeeps
  <2>4. Shape'
    BY <1>1, <2>1, <2>3 DEF IInv, Shape, loop, Printing
  <2>5. Told'
    BY <1>1, <2>1, <2>3 DEF IInv, Told
  <2>6. Flushed'
    BY <1>1, <2>1 DEF IInv, Flushed, loop, Printed
  <2> QED BY <2>3, <2>4, <2>5, <2>6 DEF IInv
<1> QED BY <1>3, <1>4, <1>5

LEMMA FailedInv == ASSUME IInv, OpenFails \/ FlashFails \/ TimeOut PROVE IInv'
<1>1. Looping /\ UNCHANGED <<rx, captured, board, boots, sizes, about>> /\ Len(boots) \in Nat
  BY DEF OpenFails, FlashFails, TimeOut, Flashing, Looping, IInv, Shape
<1>2. \/ Conclude(Len(boots), 1, <<>>)
      \/ Conclude(Len(boots), 124, captured)
  BY DEF OpenFails, FlashFails, TimeOut
<1> QED BY <1>1, <1>2, FailureInv

LEMMA FlashTimesOutInv == ASSUME IInv, FlashTimesOut PROVE IInv'
<1>1. Looping /\ UNCHANGED <<rx, captured, board, boots, sizes, about>> /\ Len(boots) \in Nat
        /\ stage \in {"flash", "program", "reset"}
  BY DEF FlashTimesOut, Flashing, Looping, IInv, Shape
<1>2. CASE Conclude(Len(boots), 124, <<>>)
  BY <1>1, <1>2, FailureInv
<1>3. CASE End("traceback") /\ UNCHANGED <<failures, log>>
  <2>1. BootsKept /\ Len(log) \in Nat
    BY <1>1, BootsSame DEF IInv, Shape
  <2>2. Len(boots') <= Len(log) + 1
    BY <1>1, <2>1 DEF IInv, Position
  <2> QED BY <1>1, <1>3, <2>1, <2>2, TracebackInv
<1> QED BY <1>2, <1>3 DEF FlashTimesOut

(* A line read, and with '#' the end of the capture: the lines read of a   *)
(* silent board are then those of one whole execution.                     *)
LEMMA ReadInv == ASSUME IInv, Read PROVE IInv'
<1> DEFINE b == Len(boots)
           B == {board.boot, about.before}
<1>1. /\ stage = "read" /\ Looping /\ rx # <<>> /\ UNCHANGED <<board, boots, sizes, about>>
      /\ captured' = Append(captured, Head(rx)) /\ rx' = Tail(rx)
      /\ \/ Head(rx) = Done /\ Conclude(b, 0, captured')
         \/ Head(rx) # Done /\ UNCHANGED <<loop, stage, exit, failures, log>>
  BY DEF Read, Looping
<1>2. /\ rx \in Seq(Lines) /\ captured \in Seq(Lines) /\ b \in Nat /\ Len(log) \in Nat
      /\ From(rx, 0 .. b) /\ From(captured, 0 .. b)
      /\ board.boot = b /\ b # 0 /\ boots[b] = Targets[turn] /\ Len(boots) <= Len(log) + 1
      /\ board.mode # "halted"
  <2>1. /\ rx \in Seq(Lines) /\ captured \in Seq(Lines) /\ b \in Nat /\ Len(log) \in Nat
        /\ From(rx, 0 .. b) /\ From(captured, 0 .. b)
    BY DEF IInv, Shape, Told
  <2>2. board.boot = b /\ b # 0 /\ boots[b] = Targets[turn] /\ board.mode # "halted"
    BY <1>1 DEF IInv, Flushed
  <2>3. Len(boots) <= Len(log) + 1
    BY <1>1 DEF IInv, Position
  <2> QED BY <2>1, <2>2, <2>3
<1>3. ASSUME NEW D, From(rx, D), From(captured, D) PROVE From(rx', D) /\ From(captured', D)
  <2>1. Head(rx) \in Lines /\ From(rx', D) /\ (IsValue(Head(rx)) => Head(rx) \in ValuesOf(D))
    BY <1>1, <1>2, <1>3, FromTail
  <2> QED BY <1>1, <1>2, <1>3, <2>1, FromAppend
<1>4. From(rx', 0 .. b) /\ From(captured', 0 .. b)
  BY <1>2, <1>3
<1>5. ASSUME about.flushed PROVE From(rx', B) /\ From(captured', B)
  <2>1. From(rx, B) /\ From(captured, B)
    BY <1>1, <1>5 DEF IInv, Flushed
  <2> QED BY <1>3, <2>1
<1>6. /\ Head(rx) = rx[1] /\ Len(rx) \in Nat /\ Len(rx) >= 1 /\ Head(rx) \in Lines
      /\ rx' \in Seq(Lines) /\ Len(rx') = Len(rx) - 1 /\ \A i \in 1 .. Len(rx') : rx'[i] = rx[i + 1]
  <2> DEFINE D == 0 .. b
  <2>1. From(rx, D)
    BY <1>2
  <2> HIDE DEF D
  <2> QED BY <1>1, <1>2, <2>1, FromTail
<1>7. /\ captured' \in Seq(Lines) /\ Len(captured') = Len(captured) + 1 /\ Len(captured) \in Nat
      /\ \A i \in 1 .. Len(captured) : captured'[i] = captured[i]
      /\ captured'[Len(captured) + 1] = Head(rx)
  BY <1>1, <1>2, <1>6, AppendProperties
<1>8. ASSUME about.flushed, about.silent
      PROVE  /\ Len(captured') + Len(rx') = Printed
             /\ \A i \in 1 .. Len(captured') : captured'[i] = Line(board, i)
             /\ \A i \in 1 .. Len(rx') : rx'[i] = Line(board, Len(captured') + i)
  <2>1. /\ Len(captured) + Len(rx) = Printed
        /\ \A i \in 1 .. Len(captured) : captured[i] = Line(board, i)
        /\ \A i \in 1 .. Len(rx) : rx[i] = Line(board, Len(captured) + i)
    BY <1>1, <1>8 DEF IInv, Flushed
  <2>2. rx[1] = Line(board, Len(captured) + 1)
    BY <1>6, <2>1
  <2>3. ASSUME NEW i \in 1 .. Len(captured') PROVE captured'[i] = Line(board, i)
    <3>1. CASE i = Len(captured) + 1
      BY <1>6, <1>7, <2>2, <3>1
    <3>2. CASE i # Len(captured) + 1
      <4>1. i \in 1 .. Len(captured)
        BY <1>7, <3>2
      <4> QED BY <1>7, <2>1, <4>1
    <3> QED BY <3>1, <3>2
  <2>4. ASSUME NEW i \in 1 .. Len(rx') PROVE rx'[i] = Line(board, Len(captured') + i)
    <3>1. i + 1 \in 1 .. Len(rx) /\ Len(captured) + (i + 1) = Len(captured') + i
      BY <1>6, <1>7
    <3> QED BY <1>6, <2>1, <3>1
  <2> QED BY <1>6, <1>7, <2>1, <2>3, <2>4
<1>9. BootsKept
  BY <1>1, BootsSame DEF IInv
<1> HIDE DEF B, b
<1>10. CASE Head(rx) = Done /\ Conclude(b, 0, captured')
  <2>1. Parse(captured') \subseteq ValuesOf(0 .. b)
    BY <1>4, <1>7, ParseSome
  <2>2. ASSUME about.flushed PROVE Parse(captured') \subseteq Values(b) \cup Values(about.before)
    <3>1. Parse(captured') \subseteq ValuesOf(B)
      BY <1>5, <1>7, <2>2, ParseSome
    <3> QED BY <1>2, <3>1 DEF ValuesOf, B
  <2>3. ASSUME about.flushed, about.silent
        PROVE  Parse(captured') = Values(b) \/ (Parse(captured') = {} /\ Targets[turn].app = "stack")
    <3> DEFINE k == Len(captured')
               top == 2 * Iterations + 2
    <3>1. k \in Nat /\ k \in 1 .. k /\ captured'[k] = Done /\ captured'[k] = Line(board, k) /\ k <= Printed
          /\ \A i \in 1 .. k : captured'[i] = Line(board, i)
      BY <1>6, <1>7, <1>8, <1>10, <2>3
    <3>2. board.printed <= top /\ board.printed \in Nat /\ top \in Nat /\ top >= 2 /\ Iterations \in Nat
      BY Constants DEF IInv, Shape
    <3>3. CASE k <= board.printed
      <4>1. Output(board.boot)[k] = Done
        BY <3>1, <3>3 DEF Line
      <4>2. k = top
        <5>1. k \in 1 .. top
          BY <3>1, <3>2, <3>3
        <5> QED BY <1>2, <4>1, <5>1, OutputLines
      <4>3. \A i \in 1 .. top : captured'[i] = Output(b)[i]
        <5>1. \A i \in 1 .. k : captured'[i] = Line(board, i) /\ i <= board.printed
          BY <3>1, <3>2, <3>3
        <5> QED BY <1>2, <4>2, <5>1 DEF Line
      <4> QED BY <1>2, <1>7, <4>2, <4>3, ParseWhole
    <3>4. CASE k = board.printed + 1
      BY <3>1, <3>2, <3>4, ValueLines DEF Line
    <3>5. CASE k > board.printed + 1
      <4>1. board.mode = "quit" /\ k = board.printed + 2
        BY <3>1, <3>2, <3>5 DEF Printed
      <4>2. board.printed = 1 /\ Targets[turn].app = "stack" /\ k = 3
        <5>1. board.printed = 1 /\ App(board.boot, "stack")
          BY <4>1 DEF IInv, Failing
        <5> QED BY <1>2, <4>1, <5>1 DEF App
      <4>3. captured'[2] = Reason /\ captured'[3] = Done
        BY <3>1, <4>2 DEF Line
      <4>4. ~IsValue(captured'[2]) /\ ~IsValue(captured'[3])
        BY <4>3, ValueLines
      <4>5. ASSUME NEW m \in 1 .. k - 1, captured'[m + 1][1] = "value" PROVE FALSE
        <5>1. m = 1 \/ m = 2
          BY <4>2
        <5> QED BY <4>4, <4>5, <5>1 DEF IsValue
      <4> HIDE DEF k
      <4>6. Parse(captured') = {}
        BY <4>5 DEF Parse, k
      <4> QED BY <4>2, <4>6
    <3> QED BY <3>1, <3>2, <3>3, <3>4, <3>5
  <2>4. b \in 1 .. b /\ boots'[b] = Targets[turn] /\ b = Len(boots')
    BY <1>1, <1>2 DEF b
  <2>5. Len(boots') <= Len(log) + 1
    BY <1>1, <1>2
  <2> QED BY <1>1, <1>2, <1>4, <1>6, <1>7, <1>9, <1>10, <2>1, <2>2, <2>3, <2>4, <2>5, ConcludedInv
<1>11. CASE Head(rx) # Done /\ UNCHANGED <<loop, stage, exit, failures, log>>
  <2>1. stage' = "read" /\ Len(boots') <= Len(log) + 1
    BY <1>1, <1>2, <1>11
  <2>2. Position' /\ Counted' /\ Filed' /\ Failing' /\ exit' = "none"
          /\ \A l \in Logged' : l.got \subseteq ValuesOf(0 .. Len(boots'))
    BY <1>1, <1>9, <1>11, <2>1, QuietKeeps
  <2>3. Shape'
    BY <1>1, <1>6, <1>7, <1>11, <2>2 DEF IInv, Shape, loop, Printing
  <2>4. Told'
    BY <1>1, <1>4, <2>2 DEF Told, b
  <2>5. Flushed'
    BY <1>1, <1>2, <1>5, <1>8, <1>11, <2>1 DEF Flushed, loop, Printed, b, B
  <2> QED BY <2>2, <2>3, <2>4, <2>5 DEF IInv
<1> QED BY <1>1, <1>10, <1>11

LEMMA RunCommandInv == ASSUME IInv, RunCommand PROVE IInv'
<1> DEFINE b == Len(boots')
           out == Output(b)
<1>1. /\ stage = "run" /\ Looping /\ args.runner # "board"
      /\ boots' = Append(boots, Targets[turn]) /\ UNCHANGED <<rx, captured, board, sizes, about>>
      /\ boots \in Seq(Work) /\ Len(boots) \in Nat /\ Len(log) \in Nat /\ Len(boots) <= Len(log)
  BY DEF RunCommand, Looping, IInv, Shape, Position
<1>2. /\ boots' \in Seq(Work) /\ b = Len(boots) + 1
      /\ \A i \in 1 .. Len(boots) : boots'[i] = boots[i]
  <2>1. Targets[turn] \in Work
    BY <1>1, Constants DEF IInv, Position
  <2> QED BY <1>1, <2>1, AppendProperties
<1>3. BootsKept /\ b <= Len(log) + 1 /\ b \in Nat /\ 0 .. Len(boots) \subseteq 0 .. b /\ b \in 0 .. b
  BY <1>1, <1>2 DEF BootsKept
<1>4. rx' \in Seq(Lines) /\ captured' \in Seq(Lines) /\ From(rx', 0 .. b) /\ From(captured', 0 .. b)
  BY <1>1, <1>3, FromWider DEF IInv, Shape, Told
<1>5. out \in Seq(Lines) /\ Len(out) = 2 * Iterations + 2 /\ 2 * Iterations + 2 \in Nat /\ From(out, {b})
  <2>1. /\ out \in Seq(Lines) /\ Len(out) = 2 * Iterations + 2
        /\ \A n \in 1 .. 2 * Iterations + 2 : IsValue(out[n]) => out[n] \in Values(b)
    BY <1>3, OutputLines
  <2> QED BY <2>1, Constants DEF From, ValuesOf
<1>6. {b} \subseteq 0 .. b
  BY <1>3
<1> HIDE DEF out, b
<1>7. \/ Conclude(b, 0, out)
      \/ \E s \in FailedOutputs(b) : Conclude(b, 0, s)
      \/ Conclude(b, 2, <<>>)
      \/ Conclude(b, 124, <<>>)
      \/ End("traceback") /\ UNCHANGED <<failures, log>>
  BY DEF RunCommand, b, out
<1>8. ASSUME NEW code \in Nat, NEW lines \in Seq(Lines), From(lines, {b}), Conclude(b, code, lines)
      PROVE  IInv'
  <2>1. Parse(lines) \subseteq ValuesOf(0 .. b)
    BY <1>6, <1>8, FromWider, ParseSome
  <2> QED BY <1>1, <1>3, <1>4, <1>8, <2>1, ConcludedInv DEF b
<1>9. CASE Conclude(b, 0, out)
  BY <1>5, <1>8, <1>9
<1>10. CASE \E s \in FailedOutputs(b) : Conclude(b, 0, s)
  <2> DEFINE upTo(n) == Append(SubSeq(out, 1, n), Reason)
  <2>1. ASSUME NEW n \in 1 .. 2 * Iterations + 1
        PROVE  upTo(n) \in Seq(Lines) /\ From(upTo(n), {b})
    <3>1. n \in 1 .. Len(out)
      <4>1. Len(out) = 2 * Iterations + 2 /\ Iterations \in Nat
        BY <1>5, Constants
      <4> QED BY <2>1, <4>1
    <3> DEFINE s == SubSeq(out, 1, n)
    <3>2. s \in Seq(Lines) /\ Len(s) = n /\ \A i \in 1 .. n : s[i] = out[i] /\ i \in 1 .. Len(out)
      BY <1>5, <3>1
    <3>3. From(s, {b})
      BY <1>5, <3>2 DEF From
    <3> HIDE DEF s
    <3>4. Append(s, Reason) \in Seq(Lines) /\ From(Append(s, Reason), {b})
      BY <3>2, <3>3, FromAppend, LinesKnown, ValueLines
    <3> QED BY <3>4 DEF s
  <2>2. 1 \in 1 .. 2 * Iterations + 1
    BY Constants
  <2> HIDE DEF upTo
  <2>3. Append(upTo(1), Done) \in Seq(Lines) /\ From(Append(upTo(1), Done), {b})
    BY <2>1, <2>2, FromAppend, LinesKnown, ValueLines
  <2>4. PICK s \in FailedOutputs(b) : Conclude(b, 0, s)
    BY <1>10
  <2>5. s = Append(upTo(1), Done) \/ \E n \in 1 .. 2 * Iterations + 1 : s = upTo(n)
    BY <2>2 DEF FailedOutputs, upTo, out
  <2>6. s \in Seq(Lines) /\ From(s, {b})
    BY <2>1, <2>3, <2>5
  <2> QED BY <1>8, <2>4, <2>6
<1>11. CASE Conclude(b, 2, <<>>) \/ Conclude(b, 124, <<>>)
  <2>1. <<>> \in Seq(Lines) /\ From(<<>>, {b})
    BY FromEmpty
  <2> QED BY <1>8, <1>11, <2>1
<1>12. CASE End("traceback") /\ UNCHANGED <<failures, log>>
  BY <1>1, <1>3, <1>12, TracebackInv DEF b
<1> QED BY <1>7, <1>9, <1>10, <1>11, <1>12

-----------------------------------------------------------------------------
(* After the loops: one code size for each implementation.                 *)
LEMMA BeforeGrows ==
  ASSUME NEW i \in 1 .. L
  PROVE  Before(i + 1) = Before(i) \cup {Impls[i]} /\ Impls[i] \notin Before(i)
<1>1. L \in Nat /\ 1 .. i = 1 .. i - 1 \cup {i} /\ (i + 1) - 1 = i /\ 1 .. i - 1 \subseteq 1 .. L
  BY Constants
<1>2. \A n \in 1 .. i - 1 : n # i
  BY <1>1
<1> QED BY <1>1, <1>2, Constants DEF Before

(* A step after the loops changes nothing that Told and Filed are about.   *)
LEMMA AfterLoop ==
  ASSUME IInv, stage = "size", stage' \in {"size", "end"}, args' = args, exit' = "none" <=> stage' # "end",
         exit' \in {"none", "ok", "failed", "empty", "stopped", "traceback"},
         UNCHANGED <<rx, captured, board, boots, about, log>>,
         turn' \in 1 .. L + 1, nr' = nr
  PROVE  Shape' /\ Position' /\ Told' /\ Flushed' /\ Filed' /\ Failing'
<1>1. Shape'
  BY DEF IInv, Shape, Printing
<1>2. Position'
  BY Constants DEF IInv, Position, Looping, Planned
<1>3. BootsKept
  BY BootsSame DEF IInv
<1>4. Filed' /\ \A l \in Logged' : l.got \subseteq ValuesOf(0 .. Len(boots'))
  BY <1>3, LogKept DEF IInv
<1>5. Told' /\ Flushed' /\ Failing'
  BY <1>3, <1>4, FailingKept DEF IInv, Told, Flushed
<1> QED BY <1>1, <1>2, <1>4, <1>5

LEMMA CodeSizeInv == ASSUME IInv, CodeSize PROVE IInv'
<1>1. /\ stage = "size" /\ turn \in 1 .. L /\ L \in Nat /\ Len(log) = Planned /\ Len(log) \in Nat
      /\ failures \in Nat /\ failures <= Len(log) + (turn - 1)
      /\ sizes \subseteq Before(turn)
      /\ failures = 0 <=> AllZero /\ sizes = Before(turn)
      /\ exit = "none"
      /\ UNCHANGED <<rx, captured, board, boots, about, log>>
  <2>1. stage = "size" /\ turn <= L /\ UNCHANGED <<rx, captured, board, boots, about, log>>
    BY DEF CodeSize, L
  <2>2. turn \in 1 .. L + 1 /\ Len(log) = Planned /\ exit = "none" /\ Len(log) \in Nat
    BY <2>1 DEF IInv, Position, Shape
  <2>3. /\ failures \in Nat /\ failures <= Len(log) + (turn - 1)
        /\ sizes \subseteq Before(turn)
        /\ failures = 0 <=> AllZero /\ sizes = Before(turn)
    BY <2>1 DEF IInv, Counted
  <2> QED BY <2>1, <2>2, <2>3, Constants
<1>2. Before(turn + 1) = Before(turn) \cup {Impls[turn]} /\ Impls[turn] \notin Before(turn)
  BY <1>1, BeforeGrows
<1>3. (AllZero' <=> AllZero) /\ Planned \in Nat /\ Logged' = Logged
  BY <1>1 DEF AllZero, Logged
<1>4. Before(turn + 1) \subseteq Names
  <2>1. 1 .. (turn + 1) - 1 \subseteq 1 .. L
    BY <1>1
  <2> QED BY <2>1 DEF Before, Names
<1>5. ASSUME args' = args, nr' = nr, stage' = "size", exit' = "none", turn' = turn + 1, failures' \in Nat,
             failures' <= Len(log) + turn, sizes' \subseteq Before(turn + 1),
             failures' = 0 <=> AllZero /\ sizes' = Before(turn + 1)
      PROVE  IInv'
  <2>1. turn' \in 1 .. L + 1 /\ turn' - 1 = turn /\ Planned' = Planned /\ failures' <= Planned + L
    BY <1>1, <1>3, <1>5 DEF Planned
  <2>2. Shape' /\ Position' /\ Told' /\ Flushed' /\ Filed' /\ Failing'
    BY <1>1, <1>5, <2>1, AfterLoop
  <2>3. Counted'
    BY <1>1, <1>3, <1>5, <2>1 DEF Counted, Looping, ExitTells
  <2> QED BY <2>2, <2>3 DEF IInv
<1>6. CASE /\ sizes' = sizes \cup {Impls[turn]} /\ turn' = turn + 1
           /\ UNCHANGED <<args, nr, failures, stage, exit>>
  <2>1. sizes' \subseteq Before(turn + 1) /\ (sizes' = Before(turn + 1) <=> sizes = Before(turn))
    <3> DEFINE i == Impls[turn]
               was == Before(turn)
               now == Before(turn + 1)
    <3>1. sizes' = sizes \cup {i} /\ now = was \cup {i} /\ i \notin was /\ sizes \subseteq was
      BY <1>1, <1>2, <1>6
    <3> HIDE DEF i, was, now
    <3>2. sizes' \subseteq now /\ (sizes' = now <=> sizes = was)
      BY <3>1
    <3> QED BY <3>2 DEF was, now
  <2>2. failures' <= Len(log) + turn
    BY <1>1, <1>6
  <2> QED BY <1>1, <1>5, <1>6, <2>1, <2>2
<1>7. CASE failures' = failures + 1 /\ sizes' = sizes /\ (IF args.fail_fast THEN End("stopped") ELSE turn' = turn + 1 /\ UNCHANGED <<args, nr, stage, exit>>)
  <2>1. /\ failures' \in Nat /\ failures' # 0 /\ failures' <= Len(log) + turn
        /\ sizes' \subseteq Before(turn) /\ Impls[turn] \in Before(turn + 1)
    BY <1>1, <1>2, <1>7
  <2>2. sizes' # Before(turn + 1)
    BY <1>2, <2>1
  <2>3. CASE ~args.fail_fast
    BY <1>1, <1>2, <1>5, <1>7, <2>1, <2>2, <2>3
  <2>4. CASE args.fail_fast
    <3>1. exit' = "stopped" /\ stage' = "end" /\ UNCHANGED <<args, turn, nr>>
      BY <1>7, <2>4 DEF End, loop
    <3>2. Shape' /\ Position' /\ Told' /\ Flushed' /\ Filed' /\ Failing'
      <4>1. turn' \in 1 .. L + 1
        BY <1>1, <3>1
      <4> QED BY <1>1, <3>1, <4>1, AfterLoop
    <3>3. sizes' # Names
      BY <1>2, <1>4, <2>1
    <3>4. failures' <= Planned' + L /\ Planned' = Planned
      BY <1>1, <1>3, <2>1, <3>1 DEF Planned
    <3>5. Counted'
      BY <2>1, <2>4, <3>1, <3>3, <3>4 DEF Counted, Looping, ExitTells, Names, L
    <3> QED BY <3>2, <3>5 DEF IInv
  <2> QED BY <2>3, <2>4
<1> QED BY <1>6, <1>7 DEF CodeSize

LEMMA SummariseInv == ASSUME IInv, Summarise PROVE IInv'
<1>1. /\ stage = "size" /\ turn = L + 1 /\ L \in Nat /\ L >= 1 /\ Len(log) = Planned
      /\ failures \in Nat /\ failures <= Planned + L
      /\ failures = 0 <=> AllZero /\ sizes = Before(turn)
      /\ UNCHANGED <<failures, rx, captured, board, boots, sizes, about, log, args, turn, nr>>
      /\ stage' = "end"
      /\ exit' = IF Measurements = {} /\ sizes = {} THEN "empty" ELSE IF failures = 0 THEN "ok" ELSE "failed"
  BY Constants DEF Summarise, End, loop, IInv, Position, Counted, L
<1>2. Before(turn) = Names /\ Names # {}
  <2>1. turn - 1 = L
    BY <1>1
  <2> QED BY <1>1, <2>1 DEF Before, Names
<1>3. Shape' /\ Position' /\ Told' /\ Flushed' /\ Filed' /\ Failing'
  BY <1>1, AfterLoop
<1>4. exit' \in {"ok", "failed", "empty"} /\ (exit' = "ok" <=> failures = 0)
  BY <1>1, <1>2
<1>5. Planned' = Planned /\ Logged' = Logged
  BY <1>1 DEF Planned, Logged
<1>6. Counted'
  BY <1>1, <1>2, <1>4, <1>5 DEF Counted, Looping, ExitTells, AllZero, Names, L
<1> QED BY <1>3, <1>6 DEF IInv

LEMMA InitInv == Init => IInv
<1> SUFFICES ASSUME Init PROVE IInv
  OBVIOUS
<1>1. /\ args \in Args /\ turn = 1 /\ nr = 1 /\ stage = First /\ exit = "none" /\ failures = 0
      /\ rx = <<>> /\ captured = <<>> /\ boots = <<>> /\ sizes = {} /\ log = <<>>
      /\ about = [flushed |-> FALSE, before |-> 0, silent |-> FALSE]
  BY DEF Init
<1>2. /\ Len(boots) = 0 /\ Len(log) = 0 /\ L \in Nat /\ W \in Nat /\ W >= 1 /\ Iterations \in Nat
      /\ args.runs \in Nat /\ args.runs >= 1 /\ args.runner \in {"board", "command"}
  BY <1>1, Constants
<1>3. /\ board.boot = 0 /\ board.printed \in 0 .. 2 * Iterations + 2 /\ board.mode \in {"runs", "ended"}
      /\ board = [boot |-> board.boot, printed |-> board.printed, mode |-> board.mode]
      /\ Printing => board.printed < 2 * Iterations + 2
  <2>1. CASE \E n \in 0 .. 2 * Iterations + 1 : board = [boot |-> 0, printed |-> n, mode |-> "runs"]
    BY <1>2, <2>1
  <2>2. CASE board = [boot |-> 0, printed |-> 0, mode |-> "ended"]
    BY <1>2, <2>2 DEF Printing
  <2> QED BY <2>1, <2>2 DEF Init
<1>4. First \in {"build", "run"} /\ (First = "build" <=> args.runner = "board")
  BY <1>2 DEF First
<1>5. Planned = W * args.runs /\ Planned \in Nat
  BY <1>2 DEF Planned, W
<1>6. Logged = {}
  <2>1. 1 .. Len(log) = {}
    BY <1>2
  <2> QED BY <2>1 DEF Logged
<1>7. Shape
  BY <1>1, <1>2, <1>3, <1>4 DEF Shape
<1>8. Position
  BY <1>1, <1>2, <1>4, <1>5 DEF Position, Looping
<1>9. Counted
  BY <1>1, <1>2, <1>4, <1>5, <1>6 DEF Counted, Looping, AllZero, ExitTells
<1>10. Told /\ Filed /\ Flushed /\ Failing
  BY <1>1, <1>3, <1>4, <1>6, FromEmpty DEF Told, Filed, Flushed, Failing
<1> QED BY <1>7, <1>8, <1>9, <1>10 DEF IInv

(* The invariant holds of every run: the position of the loop says how     *)
(* many targets have come to an end and the failures are counted (main);   *)
(* what was read after a flush comes from the program flashed and the one  *)
(* it replaced; and of a silent board the lines read and still to be read  *)
(* are exactly those the new program printed (run_board_capture).          *)
THEOREM BenchmarkInvariant == Spec => []IInv
<1>1. IInv /\ [Next]_vars => IInv'
  <2> SUFFICES ASSUME IInv, [Next]_vars PROVE IInv'
    OBVIOUS
  <2>1. CASE Next
    BY <2>1, BoardInv, BuildInv, OpenInv, FlashInv, FailedInv, FlashTimesOutInv, ReadInv, RunCommandInv,
       CodeSizeInv, SummariseInv DEF Next, Host
  <2>2. CASE UNCHANGED vars
    <3>1. /\ UNCHANGED <<args, turn, nr, stage, exit, failures, rx, captured, board, boots, sizes, about, log>>
      BY <2>2 DEF vars, loop
    <3>2. Shape' /\ Position'
      BY <3>1 DEF IInv, Shape, Position, Looping, Planned, Printing
    <3>3. Counted'
      BY <3>1 DEF IInv, Counted, Looping, AllZero, Logged, Planned, ExitTells
    <3>4. Told' /\ Filed' /\ Failing'
      BY <3>1 DEF IInv, Told, Filed, Logged, Failing, App
    <3>5. Flushed'
      BY <3>1 DEF IInv, Flushed, Printed, Printing
    <3> QED BY <3>2, <3>3, <3>4, <3>5 DEF IInv
  <2> QED BY <2>1, <2>2
<1> QED BY <1>1, InitInv, PTL DEF Spec

(* The type invariant of the runner: the position of the loops, the board  *)
(* and the counters of main stay in range.                                 *)
THEOREM BenchmarkTypes == Spec => []TypeOK
<1>1. IInv => TypeOK
  <2> SUFFICES ASSUME IInv PROVE TypeOK
    OBVIOUS
  <2>1. Planned \in Nat /\ L \in Nat /\ failures \in 0 .. Planned + L
    <3>1. args.runs \in Nat /\ L \in Nat /\ W \in Nat
      BY Constants DEF IInv, Shape
    <3>2. Planned \in Nat
      BY <3>1 DEF Planned, W
    <3> QED BY <3>1, <3>2 DEF IInv, Counted
  <2>2. \A l \in Logged : l.got \subseteq UNION {Values(b) : b \in 0 .. Len(boots)}
    BY DEF IInv, Told, ValuesOf
  <2>3. /\ turn \in 1 .. W + L /\ nr \in 1 .. args.runs
        /\ stage = "size" => turn <= L + 1
        /\ stage \notin {"size", "end"} => turn <= W
        /\ Len(boots) <= Planned /\ Len(log) <= Planned
    BY Constants DEF IInv, Position, Looping
  <2>4. /\ stage \in {"build", "open", "flash", "program", "reset", "read", "run", "size", "end"}
        /\ exit \in {"none", "ok", "failed", "empty", "stopped", "traceback"}
        /\ (exit = "none") = (stage # "end")
    BY DEF IInv, Shape
  <2>5. /\ board.boot \in 0 .. Len(boots) /\ board.printed \in 0 .. 2 * Iterations + 2
        /\ board.mode \in {"runs", "ended", "stuck", "failing", "quit", "halted"}
    BY DEF IInv, Shape
  <2> QED BY <2>1, <2>2, <2>3, <2>4, <2>5 DEF TypeOK, L, W
<1> QED BY <1>1, BenchmarkInvariant, PTL

(* A counted capture of a flushed port holds only what the program of its  *)
(* target and its predecessor printed, and one whole execution when the    *)
(* board was silent: run_board_capture.                                    *)
THEOREM CapturesExact == Spec => []CaptureExact
<1>1. IInv => CaptureExact
  <2> SUFFICES ASSUME IInv PROVE CaptureExact
    OBVIOUS
  <2>1. 1 .. Len(boots) \subseteq Nat \ {0}
    OBVIOUS
  <2> QED BY <2>1 DEF IInv, Filed, CaptureExact
<1> QED BY <1>1, BenchmarkInvariant, PTL

(* The exit status is 0 exactly when all targets were captured and all     *)
(* code sizes measured, and the loops end early only after a failure with  *)
(* --fail-fast: main.                                                      *)
THEOREM ExitStatusTells == Spec => []ExitTells
<1>1. IInv => ExitTells
  BY DEF IInv, Counted
<1> QED BY <1>1, BenchmarkInvariant, PTL

-----------------------------------------------------------------------------
(* The script ends because every step, of the host or of the board, lowers *)
(* four naturals in their lexicographic order: the targets and code sizes  *)
(* to come, the stages of the present target, the lines not read, and      *)
(* those the board has not printed.                                        *)
Left ==
  IF stage = "end" THEN 0
  ELSE IF stage = "size" THEN L + 2 - turn
  ELSE (Planned - Len(log)) + L + 2

Stages ==
  CASE stage = "build"   -> 5
    [] stage = "open"    -> 4
    [] stage = "flash"   -> 3
    [] stage = "program" -> 2
    [] stage = "reset"   -> 1
    [] OTHER             -> 0

Unprinted ==
  CASE board.mode = "runs"    -> 2 * Iterations + 3 - board.printed
    [] board.mode = "failing" -> 1
    [] OTHER                  -> 0
Unread == Len(rx) + Unprinted

Nearer ==
  \/ Left' < Left
  \/ Left' = Left /\ Stages' < Stages
  \/ Left' = Left /\ Stages' = Stages /\ Unread' < Unread
  \/ Left' = Left /\ Stages' = Stages /\ Unread' = Unread /\ Unprinted' < Unprinted

ScriptShrinks ==
  /\ [](Left \in Nat /\ Stages \in Nat /\ Unread \in Nat /\ Unprinted \in Nat)
  /\ [][Nearer]_vars

(* What the measures are made of. *)
LEMMA MeasureParts ==
  ASSUME IInv
  PROVE  /\ L \in Nat /\ Planned \in Nat /\ Len(log) \in Nat /\ Len(log) <= Planned
         /\ turn \in Nat /\ turn >= 1 /\ (stage = "size" => turn <= L + 1)
         /\ Len(rx) \in Nat /\ Iterations \in Nat /\ board.printed \in Nat
         /\ Printing => board.printed < 2 * Iterations + 2
         /\ Unprinted \in Nat
<1>1. /\ L \in Nat /\ W \in Nat /\ args.runs \in Nat /\ turn \in 1 .. W + L
      /\ stage = "size" => turn \in 1 .. L + 1
      /\ Len(log) <= Planned /\ Iterations \in Nat
  BY Constants DEF IInv, Shape, Position
<1>2. /\ Len(log) \in Nat /\ Len(rx) \in Nat /\ board.printed \in 0 .. 2 * Iterations + 2
      /\ Printing => board.printed < 2 * Iterations + 2
  BY DEF IInv, Shape
<1>3. Planned \in Nat
  BY <1>1 DEF Planned, W
<1>4. board.printed \in Nat /\ Unprinted \in Nat
  <2>1. board.printed \in Nat /\ 2 * Iterations + 3 - board.printed \in Nat
    BY <1>1, <1>2
  <2> QED BY <2>1 DEF Unprinted
<1> QED BY <1>1, <1>2, <1>3, <1>4

LEMMA MeasuresNat ==
  ASSUME IInv
  PROVE  Left \in Nat /\ Stages \in Nat /\ Unread \in Nat /\ Unprinted \in Nat
<1>1. Left \in Nat
  <2>1. /\ L \in Nat /\ Planned \in Nat /\ Len(log) \in Nat /\ Len(log) <= Planned
        /\ turn \in Nat /\ (stage = "size" => turn <= L + 1)
    BY MeasureParts
  <2> QED BY <2>1 DEF Left
<1>2. Stages \in Nat
  BY DEF Stages
<1>3. Unread \in Nat /\ Unprinted \in Nat
  <2>1. Len(rx) \in Nat /\ Unprinted \in Nat
    BY MeasureParts
  <2> QED BY <2>1 DEF Unread
<1> QED BY <1>1, <1>2, <1>3

(* A step that leaves the stage, the loops and the log leaves what is to   *)
(* come, and the stages left when the stage is the same.                   *)
LEMMA LeftSame ==
  ASSUME Looping, Looping', UNCHANGED <<args, log>>
  PROVE  Left' = Left
BY DEF Left, Looping, Planned, W, L

LEMMA EndNearer == ASSUME IInv, Looping, stage' = "end" PROVE Left' < Left
<1>1. L \in Nat /\ Planned \in Nat /\ Len(log) \in Nat /\ Len(log) <= Planned
  BY MeasureParts
<1>2. Left' = 0 /\ Left = (Planned - Len(log)) + L + 2
  BY DEF Left, Looping
<1> QED BY <1>1, <1>2

(* The end of a target, successful or not.                                 *)
LEMMA ConcludeNearer ==
  ASSUME IInv, IInv', Looping, NEW b, NEW code, NEW lines, Conclude(b, code, lines)
  PROVE  Left' < Left
<1>1. /\ \E e : log' = Append(log, e)
      /\ args' = args /\ log \in Seq(Entries)
  BY DEF Conclude, Outcome, End, NextRun, loop, IInv, Shape
<1>2. Len(log') = Len(log) + 1
  BY <1>1
<1>3. Planned' = Planned
  BY <1>1 DEF Planned
<1>4. /\ L \in Nat /\ Planned \in Nat /\ Len(log) \in Nat /\ Len(log) <= Planned
      /\ turn' \in Nat /\ turn' >= 1 /\ L' = L
  <2>1. turn \in Nat /\ turn >= 1 /\ turn \in 1 .. W
    BY MeasureParts DEF IInv, Position
  <2>2. turn' \in {turn, turn + 1, 1}
    BY <1>1 DEF Conclude, End, NextRun, loop
  <2> QED BY <2>1, <2>2, MeasureParts DEF L
<1>5. Left = (Planned - Len(log)) + L + 2
  BY DEF Left, Looping
<1>6. Left' \in {0, L + 2 - turn', (Planned - (Len(log) + 1)) + L + 2}
  <2>1. L' = L /\ Len(log') = Len(log) + 1 /\ Planned' = Planned
    BY <1>2, <1>3, <1>4
  <2> QED BY <2>1 DEF Left
<1>7. (Planned - Len(log)) \in Nat
  BY <1>4
<1>8. CASE Left' = 0
  BY <1>4, <1>5, <1>7, <1>8
<1>9. CASE Left' = L + 2 - turn'
  BY <1>4, <1>5, <1>7, <1>9
<1>10. CASE Left' = (Planned - (Len(log) + 1)) + L + 2
  BY <1>4, <1>5, <1>10
<1> QED BY <1>6, <1>8, <1>9, <1>10

(* What the board prints was not printed, and is read later.               *)
LEMMA BoardNearer == ASSUME IInv, Board PROVE Nearer
<1>1. /\ Printing /\ stage' = stage /\ UNCHANGED <<args, turn, log>>
  BY DEF Board, PrintLine, FailAndHalt, ReturnEarly, GiveUp, SendDone, Say, Printing, loop
<1>2. Left' = Left /\ Stages' = Stages
  BY <1>1 DEF Left, Stages, Planned, L
<1>3. /\ rx \in Seq(Lines) /\ board = [boot |-> board.boot, printed |-> board.printed, mode |-> board.mode]
      /\ board.boot \in Nat
  <2>1. Len(boots) \in Nat /\ board.boot \in 0 .. Len(boots)
    BY DEF IInv, Shape
  <2> QED BY <2>1 DEF IInv, Shape
<1>4. /\ Len(rx) \in Nat /\ Iterations \in Nat /\ board.printed \in Nat
      /\ board.printed < 2 * Iterations + 2
  BY <1>1, MeasureParts
<1>5. ASSUME \E e : rx' = Append(rx, e), Unprinted \in Nat, Unprinted' \in Nat, Unprinted' < Unprinted
      PROVE  Nearer
  <2>1. Len(rx') = Len(rx) + 1
    BY <1>3, <1>5
  <2>2. Unread' <= Unread /\ Unread' \in Nat /\ Unread \in Nat
    BY <1>4, <1>5, <2>1 DEF Unread
  <2> QED BY <1>2, <1>5, <2>2 DEF Nearer
<1>6. CASE PrintLine
  <2> DEFINE n == board.printed + 1
  <2>1. /\ \E e : rx' = Append(rx, e)
        /\ board.mode = "runs"
        /\ board'.printed = n /\ board'.mode \in {"ended", "runs"}
    BY <1>3, <1>6 DEF PrintLine
  <2>2. Unprinted = 2 * Iterations + 3 - board.printed
    BY <2>1 DEF Unprinted
  <2>3. Unprinted' \in {0, 2 * Iterations + 3 - n}
    BY <2>1 DEF Unprinted
  <2>4. Unprinted \in Nat /\ Unprinted' \in Nat /\ Unprinted' < Unprinted
    <3>1. \A p, i \in Nat : p < 2 * i + 2 =>
            /\ 2 * i + 3 - p \in Nat /\ 0 < 2 * i + 3 - p
            /\ 2 * i + 3 - (p + 1) \in Nat /\ 2 * i + 3 - (p + 1) < 2 * i + 3 - p
      OBVIOUS
    <3>2. /\ Unprinted \in Nat /\ 0 < Unprinted
          /\ 2 * Iterations + 3 - n \in Nat /\ 2 * Iterations + 3 - n < Unprinted
      BY <1>4, <2>2, <3>1
    <3> HIDE DEF n
    <3> QED BY <2>3, <3>2
  <2> QED BY <1>5, <2>1, <2>4
<1>7. CASE FailAndHalt \/ ReturnEarly \/ GiveUp
  <2>1. /\ rx' = Append(rx, Reason) /\ board.mode = "runs" /\ board'.mode \in {"stuck", "failing"}
    BY <1>3, <1>7 DEF FailAndHalt, ReturnEarly, GiveUp, Say
  <2>2. Unprinted = 2 * Iterations + 3 - board.printed /\ Unprinted' \in {0, 1}
    BY <2>1 DEF Unprinted
  <2>3. Unprinted \in Nat /\ Unprinted' \in Nat /\ Unprinted' < Unprinted
    BY <1>4, <2>2
  <2> QED BY <1>5, <2>1, <2>3
<1>8. CASE SendDone
  <2>1. /\ rx' = Append(rx, Done) /\ board.mode = "failing" /\ board'.mode = "quit"
    <3>1. /\ rx' = Append(rx, Done) /\ board' = [board EXCEPT !.mode = "quit"]
          /\ board.mode = "failing"
      BY <1>8, Zenon DEF SendDone, Say
    <3> QED BY <3>1, <1>3
  <2>2. Unprinted = 1 /\ Unprinted' = 0
    BY <2>1 DEF Unprinted
  <2> QED BY <1>5, <2>1, <2>2
<1> QED BY <1>6, <1>7, <1>8 DEF Board

(* Building, opening and flashing go from stage to stage.                  *)
LEMMA StageNearer ==
  ASSUME IInv, IInv', Build \/ Open \/ OpenFails \/ FlashHalts \/ FlashResets \/ FlashExits \/ FlashFails
                        \/ FlashTimesOut \/ TimeOut
  PROVE  Nearer
<1>1. Looping
  BY DEF Build, Open, OpenFails, FlashHalts, FlashResets, FlashExits, FlashFails, FlashTimesOut,
         TimeOut, Flashing, Looping
<1>2. CASE \E b, code, lines : Conclude(b, code, lines)
  BY <1>1, <1>2, ConcludeNearer DEF Nearer
<1>3. CASE \/ stage = "build" /\ stage' = "open"
           \/ stage = "open" /\ stage' = "flash"
           \/ stage = "flash" /\ stage' = "program"
           \/ stage = "program" /\ stage' = "reset"
           \/ stage = "reset" /\ stage' = "read"
  <2>1. UNCHANGED <<args, log>> \/ \E b, code, lines : Conclude(b, code, lines)
    BY DEF Build, Open, OpenFails, FlashHalts, FlashResets, FlashExits, FlashFails, FlashTimesOut,
           TimeOut, loop, End
  <2>2. Looping' /\ Stages' < Stages
    BY <1>3 DEF Looping, Stages
  <2> QED BY <1>1, <1>2, <2>1, <2>2, LeftSame DEF Nearer
<1>4. CASE stage' = "end"
  BY <1>1, <1>4, EndNearer DEF Nearer
<1> QED BY <1>2, <1>3, <1>4 DEF Build, Open, OpenFails, FlashHalts, FlashResets, FlashExits, FlashFails,
           FlashTimesOut, TimeOut, End

LEMMA ReadNearer == ASSUME IInv, IInv', Read PROVE Nearer
<1>1. Looping /\ stage = "read" /\ rx # <<>> /\ rx' = Tail(rx) /\ board' = board
  BY DEF Read, Looping
<1>2. CASE Conclude(Len(boots), 0, captured')
  BY <1>1, <1>2, ConcludeNearer DEF Nearer
<1>3. CASE UNCHANGED <<loop, stage, exit, failures, log>>
  <2>1. Left' = Left /\ Stages' = Stages /\ Unprinted' = Unprinted
    BY <1>1, <1>3 DEF Left, Stages, Planned, L, Unprinted, Printing, loop
  <2>2. rx \in Seq(Lines) /\ Len(rx') = Len(rx) - 1 /\ Len(rx) \in Nat
    BY <1>1 DEF IInv, Shape
  <2> QED BY <2>1, <2>2, MeasureParts DEF Nearer, Unread
<1> QED BY <1>2, <1>3 DEF Read

LEMMA RunNearer == ASSUME IInv, IInv', RunCommand PROVE Nearer
<1>1. Looping
  BY DEF RunCommand, Looping
<1>2. CASE \E b, code, lines : Conclude(b, code, lines)
  BY <1>1, <1>2, ConcludeNearer DEF Nearer
<1>3. CASE stage' = "end"
  BY <1>1, <1>3, EndNearer DEF Nearer
<1> QED BY <1>2, <1>3 DEF RunCommand, End

(* The code sizes, one by one, and the summary.                            *)
LEMMA SizeNearer == ASSUME IInv, CodeSize \/ Summarise PROVE Nearer
<1>1. stage = "size" /\ Left = L + 2 - turn /\ L' = L
  BY DEF CodeSize, Summarise, Left, L
<1>2. L \in Nat /\ turn \in Nat /\ turn >= 1 /\ turn <= L + 1
  BY <1>1, MeasureParts
<1>3. \/ stage' = "end"
      \/ stage' = "size" /\ turn' = turn + 1
  BY <1>1 DEF CodeSize, Summarise, End
<1>4. Left' \in {0, L + 2 - (turn + 1)}
  BY <1>1, <1>3 DEF Left
<1> QED BY <1>1, <1>2, <1>4 DEF Nearer

(* Whatever the builds, OpenOCD and the boards do, benchmark_schemes.py    *)
(* takes finitely many steps: every wait of main is for one of finitely    *)
(* many targets, stages or lines.                                          *)
THEOREM ScriptEnds == Spec => ScriptShrinks
<1>1. IInv => Left \in Nat /\ Stages \in Nat /\ Unread \in Nat /\ Unprinted \in Nat
  BY MeasuresNat
<1>2. IInv /\ IInv' /\ [Next]_vars => [Nearer]_vars
  BY BoardNearer, StageNearer, ReadNearer, RunNearer, SizeNearer DEF Next, Host
<1> QED BY BenchmarkInvariant, <1>1, <1>2, PTL DEF Spec, ScriptShrinks

=============================================================================
