--------------------------------- MODULE VM ---------------------------------
(***************************************************************************)
(* The bytecode virtual machine of src/vm.cpp, driven by the read-eval     *)
(* loop of src/mehh.cpp: one interpret() per line, one action per opcode   *)
(* handler.                                                                *)
(*                                                                         *)
(* The operand stack is a boost static_vector: `mem' is its storage, whose *)
(* cells keep their last content after a pop, and `sp' its size.  An       *)
(* upvalue is a raw pointer into that storage, so it is an index of mem    *)
(* here, and it may outlive the variable it was made for.  Frames and      *)
(* closures are static_vectors too; nothing ever removes a closure.        *)
(*                                                                         *)
(* Undefined behaviour (an underflow, an operand out of range) has no      *)
(* transition: module VMProofs shows that verified code never gets there.  *)
(***************************************************************************)
EXTENDS Bytecode

CONSTANTS
  Names,          \* the interned strings, names of globals among them
  ClockName,      \* the name "clock" that the constructor defines
  Numbers,        \* the doubles a program computes with
  Arith(_, _, _), \* IEEE arithmetic: Arith(op, a, b)
  Less(_, _),     \* IEEE a < b
  Negate(_),      \* IEEE -a
  ClockReadings,  \* the results the native clock() may return
  STACK_MAX,      \* vm.hpp: capacity of the stack and of the closures
  FRAME_MAX,      \* vm.hpp: capacity of the frames
  Library,        \* the Function objects that compile() makes of the session's lines
  Scripts         \* those of them that are a line's top-level function

ASSUME SizesAssumption ==
  STACK_MAX \in Nat \ {0} /\ FRAME_MAX \in Nat \ {0}

ASSUME NumbersAssumption ==
  /\ \A op \in ArithmeticOps \cup {OP_ADD}, a, b \in Numbers :
       Arith(op, a, b) \in Numbers
  /\ \A a, b \in Numbers : Less(a, b) \in BOOLEAN
  /\ \A a \in Numbers : Negate(a) \in Numbers
  /\ ClockReadings \subseteq Numbers

ASSUME NamesAssumption == ClockName \in Names

VARIABLES
  mem,       \* storage of the operand stack, indexed from 0
  sp,        \* stack.size()
  frames,    \* the call frames, innermost last
  closures,  \* the closures made so far
  globals,   \* name |-> value, Undefined when there is none
  status     \* what the last interpret() returned, or "RUNNING"

vars == <<mem, sp, frames, closures, globals, status>>

-----------------------------------------------------------------------------
(* Values.  Object pointers are told apart by what they point to; getType  *)
(* answers OBJ for all of them.                                            *)

Number(x) == [type |-> "NUMBER", val |-> x]
Bool(b) == [type |-> "BOOL", val |-> IF b THEN 1 ELSE 0]
Nil == [type |-> "NIL", val |-> 0]
FunctionObj(f) == [type |-> "FUNCTION", val |-> f]
ClosureObj(c) == [type |-> "CLOSURE", val |-> c]
NativeClock == [type |-> "NATIVE_FUNCTION", val |-> 0]
Undefined == [type |-> "UNDEFINED", val |-> 0]
Uninit == [type |-> "UNINIT", val |-> 0]

Value == [type : {"NUMBER"}, val : Numbers]
         \cup [type : {"BOOL"}, val : {0, 1}]
         \cup [type : {"STRING"}, val : Names]
         \cup [type : {"FUNCTION"}, val : DOMAIN Library]
         \cup [type : {"CLOSURE"}, val : DOMAIN closures]
         \cup {Nil, NativeClock}

GetType(v) == IF v.type \in {"NUMBER", "BOOL", "NIL"} THEN v.type ELSE "OBJ"
IsNumber(v) == GetType(v) = "NUMBER"

(* A mutant of IsFalsey to which false is true.                            *)
OnlyNilIsFalsey(v) == v.type = "NIL"

IsFalsey(v) == v.type = "NIL" \/ (v.type = "BOOL" /\ v.val = 0)

(* Scalars compare by content; any other pair is unequal, an object and    *)
(* itself included.  So are two strings: their arm takes string_views, and *)
(* a value is a pointer to one.                                            *)
ValuesEqual(a, b) ==
  /\ a.type = b.type
  /\ a.type \in {"NIL", "BOOL", "NUMBER"}
  /\ a.val = b.val

-----------------------------------------------------------------------------
(* The frame that runs, and its instruction.                               *)

frame == frames[Len(frames)]
Code == Library[frame.function]
Arg == Operand(Code, frame.ip)
Constant == ConstantAt(Code, frame.ip)

Peek(k) == mem[sp - 1 - k]

Running(op) == status = "RUNNING" /\ OpAt(Code, frame.ip) = op

Idle == status \in {"NONE", "OK", "COMPILE_ERROR", "RUNTIME_ERROR"}

(* The handler has read the n bytes of its instruction.                    *)
Advanced(n) == [frames EXCEPT ![Len(frames)].ip = @ + n]

Continue(n) == frames' = Advanced(n) /\ UNCHANGED status

(* What a frame's closure pointer is when it names no closure of the       *)
(* machine: the closure interpret() makes for the line, a local of its own,*)
(* and what is left of it once interpret() has returned.                   *)
ScriptClosure == 0
Dangling == -1

(* The traceback reads the closure of every frame: what a dangling one     *)
(* gives may end the process.                                              *)
Traceback ==
  IF \E i \in DOMAIN frames : frames[i].closure = Dangling
  THEN {"RUNTIME_ERROR", "TERMINATED"}
  ELSE {"RUNTIME_ERROR"}

(* runtimeError, and the return from interpret() that follows: the frames  *)
(* and the stack stay as they are.                                         *)
RuntimeError(n) ==
  /\ frames' = [i \in DOMAIN frames |->
                  [Advanced(n)[i] EXCEPT
                     !.closure = IF @ = ScriptClosure THEN Dangling ELSE @]]
  /\ status' \in Traceback

(* A push_back on a full static_vector throws bad_alloc, which leaves      *)
(* repl() and runFile(), both noexcept: the process ends.                  *)
Terminate == status' = "TERMINATED" /\ UNCHANGED <<mem, sp, frames>>

Push(v, n) ==
  IF sp < STACK_MAX
  THEN /\ mem' = [mem EXCEPT ![sp] = v]
       /\ sp' = sp + 1
       /\ Continue(n)
  ELSE Terminate

(* A mutant of Replace that pops one operand too few.                      *)
ReplaceFewer(k, v, n) ==
  /\ mem' = [mem EXCEPT ![sp - k + 1] = v]
  /\ sp' = sp - k + 2
  /\ Continue(n)

(* k values are popped, v is pushed.                                       *)
Replace(k, v, n) ==
  /\ mem' = [mem EXCEPT ![sp - k] = v]
  /\ sp' = sp - k + 1
  /\ Continue(n)

NewFrame(f, c, slots) ==
  [function |-> f, closure |-> c, slots |-> slots, ip |-> 0]

-----------------------------------------------------------------------------
Init ==
  /\ mem = [i \in 0 .. STACK_MAX - 1 |-> Uninit]
  /\ sp = 0
  /\ frames = << >>
  /\ closures = << >>
  /\ globals = [n \in Names |-> IF n = ClockName THEN NativeClock ELSE Undefined]
  /\ status = "NONE"

(* A line that compiles to the function f: push it, call its closure with  *)
(* no arguments, and run.  Frames and values an earlier failed line has    *)
(* left are still there.                                                   *)
Interpret(f) ==
  /\ Idle
  /\ IF sp < STACK_MAX
     THEN /\ mem' = [mem EXCEPT ![sp] = FunctionObj(f)]
          /\ sp' = sp + 1
          /\ IF Len(frames) < FRAME_MAX
             THEN /\ frames' = Append(frames, NewFrame(f, ScriptClosure, sp))
                  /\ status' = "RUNNING"
             ELSE status' \in Traceback /\ UNCHANGED frames
     ELSE Terminate
  /\ UNCHANGED <<closures, globals>>

(* A line that does not compile leaves the machine as it is.               *)
InterpretRejected ==
  /\ Idle
  /\ status' = "COMPILE_ERROR"
  /\ UNCHANGED <<mem, sp, frames, closures, globals>>

-----------------------------------------------------------------------------
(* The opcode handlers.                                                    *)

OpConstant ==
  /\ Running(OP_CONSTANT)
  /\ Push(Constant, 2)
  /\ UNCHANGED <<closures, globals>>

OpLiteral ==
  /\ \/ Running(OP_NIL) /\ Push(Nil, 1)
     \/ Running(OP_TRUE) /\ Push(Bool(TRUE), 1)
     \/ Running(OP_FALSE) /\ Push(Bool(FALSE), 1)
  /\ UNCHANGED <<closures, globals>>

OpPop ==
  /\ Running(OP_POP)
  /\ sp' = sp - 1
  /\ Continue(1)
  /\ UNCHANGED <<mem, closures, globals>>

(* Printing is not modelled; the value is popped.                          *)
OpPrint ==
  /\ Running(OP_PRINT)
  /\ sp' = sp - 1
  /\ Continue(1)
  /\ UNCHANGED <<mem, closures, globals>>

(* The three global instructions do nothing when their constant is not a   *)
(* name.                                                                   *)
Named == Constant.type = "STRING"

(* A mutant of IsDefined that trusts the lookup to have found the name.    *)
AlwaysDefined(n) == TRUE

IsDefined(n) == globals[n] # Undefined

OpGetGlobal ==
  /\ Running(OP_GET_GLOBAL)
  /\ IF Named /\ IsDefined(Constant.val)
     THEN Push(globals[Constant.val], 2)
     ELSE /\ IF Named THEN RuntimeError(2) ELSE Continue(2)
          /\ UNCHANGED <<mem, sp>>
  /\ UNCHANGED <<closures, globals>>

OpSetGlobal ==
  /\ Running(OP_SET_GLOBAL)
  /\ IF Named /\ IsDefined(Constant.val)
     THEN globals' = [globals EXCEPT ![Constant.val] = Peek(0)] /\ Continue(2)
     ELSE /\ IF Named THEN RuntimeError(2) ELSE Continue(2)
          /\ UNCHANGED globals
  /\ UNCHANGED <<mem, sp, closures>>

OpDefineGlobal ==
  /\ Running(OP_DEFINE_GLOBAL)
  /\ IF Named
     THEN globals' = [globals EXCEPT ![Constant.val] = Peek(0)] /\ sp' = sp - 1
     ELSE UNCHANGED <<globals, sp>>
  /\ Continue(2)
  /\ UNCHANGED <<mem, closures>>

OpGetLocal ==
  /\ Running(OP_GET_LOCAL)
  /\ Push(mem[frame.slots + Arg], 2)
  /\ UNCHANGED <<closures, globals>>

(* A mutant of OpSetLocal that counts slots from the bottom of the stack.  *)
SetLocalAbsolute ==
  /\ Running(OP_SET_LOCAL)
  /\ mem' = [mem EXCEPT ![Arg] = Peek(0)]
  /\ Continue(2)
  /\ UNCHANGED <<sp, closures, globals>>

OpSetLocal ==
  /\ Running(OP_SET_LOCAL)
  /\ mem' = [mem EXCEPT ![frame.slots + Arg] = Peek(0)]
  /\ Continue(2)
  /\ UNCHANGED <<sp, closures, globals>>

Upvalue == closures[frame.closure].upvalues[Arg + 1]

OpGetUpvalue ==
  /\ Running(OP_GET_UPVALUE)
  /\ Push(mem[Upvalue], 2)
  /\ UNCHANGED <<closures, globals>>

OpSetUpvalue ==
  /\ Running(OP_SET_UPVALUE)
  /\ mem' = [mem EXCEPT ![Upvalue] = Peek(0)]
  /\ Continue(2)
  /\ UNCHANGED <<sp, closures, globals>>

OpEqual ==
  /\ Running(OP_EQUAL)
  /\ Replace(2, Bool(ValuesEqual(Peek(0), Peek(1))), 1)
  /\ UNCHANGED <<closures, globals>>

(* op_less refuses its operands only when neither is a number.  A boxed    *)
(* value that is no number reads as a NaN, which is less than nothing.     *)
OpLess ==
  /\ Running(OP_LESS)
  /\ IF sp < 2 \/ (~IsNumber(Peek(0)) /\ ~IsNumber(Peek(1)))
     THEN RuntimeError(1) /\ UNCHANGED <<mem, sp>>
     ELSE Replace(2, Bool(/\ IsNumber(Peek(0)) /\ IsNumber(Peek(1))
                          /\ Less(Peek(1).val, Peek(0).val)), 1)
  /\ UNCHANGED <<closures, globals>>

(* op_add pops its operands before it looks at them.  getType never says   *)
(* STRING, so the arm that concatenates is never taken.                    *)
OpAdd ==
  /\ Running(OP_ADD)
  /\ IF sp < 2
     THEN RuntimeError(1) /\ UNCHANGED <<mem, sp>>
     ELSE IF IsNumber(Peek(0)) /\ IsNumber(Peek(1))
          THEN Replace(2, Number(Arith(OP_ADD, Peek(1).val, Peek(0).val)), 1)
          ELSE RuntimeError(1) /\ sp' = sp - 2 /\ UNCHANGED mem
  /\ UNCHANGED <<closures, globals>>

(* op_subtract, op_multiply, op_divide and op_greater.                     *)
OpArithmetic ==
  /\ \E op \in ArithmeticOps :
       /\ Running(op)
       /\ IF sp < 2 \/ ~IsNumber(Peek(0)) \/ ~IsNumber(Peek(1))
          THEN RuntimeError(1) /\ UNCHANGED <<mem, sp>>
          ELSE Replace(2, IF op = OP_GREATER
                          THEN Bool(Less(Peek(0).val, Peek(1).val))
                          ELSE Number(Arith(op, Peek(1).val, Peek(0).val)), 1)
  /\ UNCHANGED <<closures, globals>>

OpNot ==
  /\ Running(OP_NOT)
  /\ Replace(1, Bool(IsFalsey(Peek(0))), 1)
  /\ UNCHANGED <<closures, globals>>

OpNegate ==
  /\ Running(OP_NEGATE)
  /\ IF IsNumber(Peek(0))
     THEN Replace(1, Number(Negate(Peek(0).val)), 1)
     ELSE RuntimeError(1) /\ UNCHANGED <<mem, sp>>
  /\ UNCHANGED <<closures, globals>>

OpJump ==
  /\ Running(OP_JUMP)
  /\ Continue(3 + ShortOperand(Code, frame.ip))
  /\ UNCHANGED <<mem, sp, closures, globals>>

OpJumpIfFalse ==
  /\ Running(OP_JUMP_IF_FALSE)
  /\ IF IsFalsey(Peek(0))
     THEN Continue(3 + ShortOperand(Code, frame.ip))
     ELSE Continue(3)
  /\ UNCHANGED <<mem, sp, closures, globals>>

OpLoop ==
  /\ Running(OP_LOOP)
  /\ Continue(3 - ShortOperand(Code, frame.ip))
  /\ UNCHANGED <<mem, sp, closures, globals>>

-----------------------------------------------------------------------------
(* Calls.                                                                  *)

Callee == Peek(Arg)

(* A mutant of Window that begins with the first argument.                 *)
WindowWithoutCallee(argCount) == sp - argCount

(* The window of a call: the callee in slot 0, then the arguments.         *)
Window(argCount) == sp - argCount - 1

CallClosure ==
  LET c == Callee.val
      f == closures[c].function
  IN  /\ Running(OP_CALL)
      /\ Callee.type = "CLOSURE"
      /\ IF Arg = Library[f].arity /\ Len(frames) < FRAME_MAX
         THEN /\ frames' = Append(Advanced(2), NewFrame(f, c, Window(Arg)))
              /\ UNCHANGED status
         ELSE RuntimeError(2)
      /\ UNCHANGED <<mem, sp, closures, globals>>

(* A mutant of CallNative that resizes the stack for a result left in      *)
(* args[0], which is not there in a call without arguments.                *)
CallNativeInPlace ==
  /\ Running(OP_CALL)
  /\ Callee.type = "NATIVE_FUNCTION"
  /\ IF sp - Arg < STACK_MAX
     THEN sp' = sp - Arg + 1 /\ Continue(2) /\ UNCHANGED mem
     ELSE Terminate
  /\ UNCHANGED <<closures, globals>>

(* The arguments are erased and the result pushed; the callee stays.       *)
CallNative ==
  /\ Running(OP_CALL)
  /\ Callee.type = "NATIVE_FUNCTION"
  /\ \E t \in ClockReadings :
       IF Arg = 0 THEN Push(Number(t), 2) ELSE Replace(Arg, Number(t), 2)
  /\ UNCHANGED <<closures, globals>>

CallNonCallable ==
  /\ Running(OP_CALL)
  /\ Callee.type \notin {"CLOSURE", "NATIVE_FUNCTION"}
  /\ RuntimeError(2)
  /\ UNCHANGED <<mem, sp, closures, globals>>

OpCall == CallClosure \/ CallNative \/ CallNonCallable

(* A mutant of Captured that is one slot off for a local.                  *)
CapturedBelow(i) ==
  LET index == CaptureIndex(Code, frame.ip, i)
  IN  IF CapturesLocal(Code, frame.ip, i)
      THEN frame.slots + index - 1
      ELSE closures[frame.closure].upvalues[index + 1]

(* The pointers a new closure copies: a slot of this window, or one of the *)
(* running closure's own upvalues.                                         *)
Captured(i) ==
  LET index == CaptureIndex(Code, frame.ip, i)
  IN  IF CapturesLocal(Code, frame.ip, i)
      THEN frame.slots + index
      ELSE closures[frame.closure].upvalues[index + 1]

OpClosure ==
  LET f == Constant.val
      n == Library[f].upvalueCount
  IN  /\ Running(OP_CLOSURE)
      /\ IF Len(closures) < STACK_MAX /\ sp < STACK_MAX
         THEN /\ closures' = Append(closures,
                   [function |-> f, upvalues |-> [i \in 1 .. n |-> Captured(i)]])
              /\ Push(ClosureObj(Len(closures) + 1), 2 + 2 * n)
         ELSE Terminate /\ UNCHANGED closures
      /\ UNCHANGED globals

(* A mutant of OpReturn that erases from the slots of the caller: it reads *)
(* them after the frame is popped.                                         *)
ReturnFromCaller ==
  /\ Running(OP_RETURN)
  /\ frames' = SubSeq(frames, 1, Len(frames) - 1)
  /\ IF Len(frames) = 1
     THEN sp' = sp - 2 /\ status' = "OK" /\ UNCHANGED mem
     ELSE LET slots == frames[Len(frames) - 1].slots
          IN  /\ mem' = [mem EXCEPT ![slots] = Peek(0)]
              /\ sp' = slots + 1
              /\ UNCHANGED status
  /\ UNCHANGED <<closures, globals>>

(* The outermost frame ends the run and pops the script; any other frame   *)
(* erases its window and leaves the result in its place.                   *)
OpReturn ==
  /\ Running(OP_RETURN)
  /\ frames' = SubSeq(frames, 1, Len(frames) - 1)
  /\ IF Len(frames) = 1
     THEN sp' = sp - 2 /\ status' = "OK" /\ UNCHANGED mem
     ELSE /\ mem' = [mem EXCEPT ![frame.slots] = Peek(0)]
          /\ sp' = frame.slots + 1
          /\ UNCHANGED status
  /\ UNCHANGED <<closures, globals>>

-----------------------------------------------------------------------------
Step ==
  \/ OpConstant \/ OpLiteral \/ OpPop \/ OpPrint
  \/ OpGetGlobal \/ OpSetGlobal \/ OpDefineGlobal
  \/ OpGetLocal \/ OpSetLocal \/ OpGetUpvalue \/ OpSetUpvalue
  \/ OpEqual \/ OpLess \/ OpAdd \/ OpArithmetic \/ OpNot \/ OpNegate
  \/ OpJump \/ OpJumpIfFalse \/ OpLoop
  \/ OpCall \/ OpClosure \/ OpReturn

Next == (\E f \in Scripts : Interpret(f)) \/ InterpretRejected \/ Step

(* The machine runs on its own; whether another line is typed is up to the *)
(* user.                                                                   *)
Spec == Init /\ [][Next]_vars /\ WF_vars(Step)
=============================================================================
