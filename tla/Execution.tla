----------------------------- MODULE Execution ------------------------------
(***************************************************************************)
(* Lines of source, compiled and run: the machine of module VM on the code *)
(* that module Compiler emits, beside a record of what has been typed and  *)
(* printed.  A session ends with the first line that fails, as a file does.*)
(***************************************************************************)
EXTENDS VM, SequencesExt

CONSTANTS
  Corpus,    \* the lines that may be typed, as module Evaluation has them
  Script,    \* the functions in the Library that the lines compile to
  Functions, \* what each function in the Library is compiled from
  NextLines(_), \* bound of the model: the lines that may follow those of a session
  Fuel       \* bound of the model: the calls and iterations of a line

VARIABLES
  session, \* the lines typed so far, by their numbers in the Corpus
  before,  \* the globals when the last was typed
  printed  \* by it

vars_ == <<vars, session, before, printed>>

(* A value, by what it was declared as when it is a function.              *)
Shown(v) ==
  CASE v.type = "NUMBER" -> <<"NUMBER", v.val>>
    [] v.type = "STRING" -> <<"STRING", v.val>>
    [] v.type = "BOOL" -> <<"BOOL", v.val = 1>>
    [] v.type = "NIL" -> <<"NIL">>
    [] v.type = "NATIVE_FUNCTION" -> <<"NATIVE">>
    [] v.type = "UNDEFINED" -> <<"UNDEFINED">>
    [] v.type = "CLOSURE" -> <<"CLOSURE", Functions[closures[v.val].function], << >>>>

ShownGlobals == [n \in Names |-> Shown(globals[n])]

Texts == Range(Corpus)

Meaning == INSTANCE Evaluation WITH
  Programs <- Texts,
  Plus <- LAMBDA x, y : Arith(OP_ADD, x, y),
  Minus <- LAMBDA x, y : Arith(OP_SUBTRACT, x, y),
  Times <- LAMBDA x, y : Arith(OP_MULTIPLY, x, y),
  Below <- Less,
  Minused <- Negate,
  MaxDepth <- FRAME_MAX,
  program <- IF session = << >> THEN << >> ELSE Corpus[session[Len(session)]],
  globals <- IF status = "RUNNING" THEN before ELSE ShownGlobals,
  printed <- IF status = "RUNNING" THEN << >> ELSE printed,
  result <- status

(* Only lines that have a meaning are typed.                               *)
Typed(l) ==
  /\ status \in {"NONE", "OK"}
  /\ Meaning!Means(Meaning!Run(Corpus[l], FALSE, << >>, Meaning!Start(ShownGlobals)))
  /\ Interpret(Script[l])
  /\ session' = Append(session, l)
  /\ before' = ShownGlobals
  /\ printed' = << >>

Ran ==
  /\ Step
  /\ printed' = IF Running(OP_PRINT) THEN Append(printed, Shown(Peek(0))) ELSE printed
  /\ UNCHANGED <<session, before>>

ExecutionInit == Init /\ session = << >> /\ before = ShownGlobals /\ printed = << >>
ExecutionNext == (\E l \in NextLines(session) : Typed(l)) \/ Ran
ExecutionSpec == ExecutionInit /\ [][ExecutionNext]_vars_ /\ WF_vars_(Ran)

(* The compiler and the machine together evaluate each line as module      *)
(* Evaluation does, in one step and without a stack: the same values are   *)
(* printed in the same order, the globals end up the same, functions of    *)
(* earlier lines are called with the same effect, and a line fails where   *)
(* its evaluation fails.                                                   *)
EvaluatesLines == Meaning!Spec

(* No line that has a meaning keeps the machine running forever.           *)
LinesEnd == status = "RUNNING" ~> status # "RUNNING"
=============================================================================
