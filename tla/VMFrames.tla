------------------------------ MODULE VMFrames ------------------------------
(***************************************************************************)
(* Proofs about the windows of the machine of module VMSafety: a function  *)
(* runs in its own window, and the windows of a session in which no line   *)
(* fails are exactly what the compiler counted on.                         *)
(*                                                                         *)
(* Both come from what module VMProofs shows of every state and from one   *)
(* account of the handlers: which cell each stores into, and how far it    *)
(* moves the top of the stack and the height its code counts on.           *)
(*                                                                         *)
(* Then about the pointers: while no closure that captured something       *)
(* leaves the call that made it, an upvalue of a running closure points to *)
(* a local of a call below it.  The height map of a function cannot show   *)
(* that: code that calls a closure from the cell the closure itself has    *)
(* captured would be verified too.  Its locals map (module Bytecode) tells *)
(* the captured part of a window from the part in which callees and        *)
(* arguments are built.                                                    *)
(***************************************************************************)
EXTENDS VMProofs

USE DEF Byte, OP_CONSTANT, OP_NIL, OP_TRUE, OP_FALSE, OP_POP, OP_GET_GLOBAL,
        OP_SET_GLOBAL, OP_GET_LOCAL, OP_SET_LOCAL, OP_GET_UPVALUE,
        OP_SET_UPVALUE, OP_DEFINE_GLOBAL, OP_EQUAL, OP_GREATER, OP_LESS,
        OP_ADD, OP_SUBTRACT, OP_MULTIPLY, OP_DIVIDE, OP_NOT, OP_NEGATE,
        OP_PRINT, OP_JUMP, OP_JUMP_IF_FALSE, OP_LOOP, OP_CALL, OP_CLOSURE,
        OP_RETURN, LiteralOps, BinaryOps, ArithmeticOps, NameOps, ByteOps, JumpOps

(* Nothing below the window of the running frame changes.                  *)
BelowKept == \A i \in 0 .. frame.slots - 1 : mem'[i] = mem[i]

(* The next instruction follows: the top of the stack moves by d, and so   *)
(* does the height the code counts on.                                     *)
Moves(n, d) ==
  /\ Continue(n) /\ sp' = sp + d
  /\ Flows(Heights[frame.function], frame.ip + n, Height(frame.ip) + d)

(* The run fails, or the process ends.                                     *)
Stops == status' \in {"RUNTIME_ERROR", "TERMINATED"} /\ Len(frames') = Len(frames)

Straight == Stops \/ \E n, d \in Int : Moves(n, d)

-----------------------------------------------------------------------------
(* The ways in which a handler ends.                                       *)

(* A store at or above the slots of the running frame.                     *)
LEMMA StoredAbove ==
  ASSUME IInv, status = "RUNNING", NEW k \in Int, k >= frame.slots, NEW v,
         mem' = [mem EXCEPT ![k] = v]
  PROVE  BelowKept
<1>1. /\ mem \in [0 .. STACK_MAX - 1 -> Value \cup {Uninit}]
      /\ frame.slots \in 0 .. STACK_MAX - 1 /\ STACK_MAX \in Nat
  BY HereSizes DEF IInv, TypeOK, MemoryOK
<1>2. ASSUME NEW i \in 0 .. frame.slots - 1
      PROVE  mem'[i] = mem[i]
  <2>1. i \in 0 .. STACK_MAX - 1 /\ i # k
    BY <1>1
  <2> QED BY <1>1, <2>1
<1> QED BY <1>2 DEF BelowKept

LEMMA PushAbove ==
  ASSUME IInv, status = "RUNNING", NEW n \in Int, NEW v, Push(v, n)
  PROVE  BelowKept /\ (Stops \/ (Continue(n) /\ sp' = sp + 1))
<1>1. sp \in Int /\ sp >= frame.slots
  BY HereSizes
<1>2. CASE sp < STACK_MAX
  BY <1>1, <1>2, StoredAbove DEF Push
<1>3. CASE ~(sp < STACK_MAX)
  BY <1>3 DEF Push, Terminate, BelowKept, Stops
<1> QED BY <1>2, <1>3

LEMMA PushMoves ==
  ASSUME IInv, status = "RUNNING", NEW n \in Int, NEW v, Push(v, n),
         Flows(Heights[frame.function], frame.ip + n, Height(frame.ip) + 1)
  PROVE  BelowKept /\ Straight
<1>1. 1 \in Int
  OBVIOUS
<1> QED BY <1>1, PushAbove DEF Straight, Moves

LEMMA ReplaceAbove ==
  ASSUME IInv, status = "RUNNING", NEW n \in Int, NEW k \in Nat \ {0}, NEW v,
         Replace(k, v, n), k + 1 <= Height(frame.ip)
  PROVE  BelowKept /\ Continue(n) /\ sp' = sp - k + 1
<1>1. sp - k \in Int /\ sp - k >= frame.slots
  BY HereSizes
<1>2. PICK j \in Int : j = sp - k
  BY <1>1
<1>3. mem' = [mem EXCEPT ![j] = v] /\ j >= frame.slots
  BY <1>1, <1>2 DEF Replace
<1> QED BY <1>3, StoredAbove DEF Replace

LEMMA ReplaceMoves ==
  ASSUME IInv, status = "RUNNING", NEW n \in Int, NEW k \in Nat \ {0}, NEW v,
         Replace(k, v, n), k + 1 <= Height(frame.ip),
         Flows(Heights[frame.function], frame.ip + n, Height(frame.ip) - k + 1)
  PROVE  BelowKept /\ Straight
<1>1. BelowKept /\ Continue(n) /\ sp' = sp - k + 1
  BY ReplaceAbove
<1>2. PICK d \in Int : d = 1 - k
  OBVIOUS
<1>3. sp - k + 1 = sp + d /\ Height(frame.ip) - k + 1 = Height(frame.ip) + d
  BY <1>2, HereSizes
<1>4. sp' = sp + d /\ Flows(Heights[frame.function], frame.ip + n, Height(frame.ip) + d)
  BY <1>1, <1>3
<1> QED BY <1>1, <1>4 DEF Straight, Moves

(* Some values are dropped.                                                *)
LEMMA DropMoves ==
  ASSUME IInv, status = "RUNNING", NEW n \in Int, NEW j \in Nat, Continue(n),
         mem' = mem, sp' = sp - j,
         Flows(Heights[frame.function], frame.ip + n, Height(frame.ip) - j)
  PROVE  BelowKept /\ Straight
<1>1. PICK d \in Int : d = 0 - j
  OBVIOUS
<1>2. sp - j = sp + d /\ Height(frame.ip) - j = Height(frame.ip) + d
  BY <1>1, HereSizes
<1> QED BY <1>2 DEF BelowKept, Straight, Moves

(* Neither the top nor the height moves.                                   *)
LEMMA StayMoves ==
  ASSUME IInv, status = "RUNNING", NEW n \in Int, Continue(n), sp' = sp,
         Flows(Heights[frame.function], frame.ip + n, Height(frame.ip))
  PROVE  Straight
<1>1. 0 \in Int /\ sp + 0 = sp /\ Height(frame.ip) + 0 = Height(frame.ip)
  BY HereSizes
<1> QED BY <1>1 DEF Straight, Moves

LEMMA FailStops ==
  ASSUME IInv, status = "RUNNING", NEW n \in Int, RuntimeError(n), mem' = mem,
         closures' = closures, frame.ip + n \in DOMAIN Heights[frame.function]
  PROVE  BelowKept /\ Straight
<1>1. frame.ip + n \in Nat
  BY Here, LibraryOffset DEF IInv
<1>2. Len(frames') = Len(frames)
  BY <1>1, MovedFrames, SameClosures DEF IInv
<1> QED BY <1>2 DEF RuntimeError, Traceback, BelowKept, Straight, Stops

-----------------------------------------------------------------------------
(* The handlers, one by one.                                               *)

LEMMA OpConstantMoves == IInv /\ OpConstant => BelowKept /\ Straight
<1> SUFFICES ASSUME IInv, OpConstant PROVE BelowKept /\ Straight
  OBVIOUS
<1>1. /\ status = "RUNNING" /\ OpAt(Code, frame.ip) = OP_CONSTANT
      /\ Push(Constant, 2)
  BY DEF OpConstant, Running
<1>2. Flows(Heights[frame.function], frame.ip + 2, Height(frame.ip) + 1)
  BY <1>1, Here DEF IInv, VerifiedAt, Height, InstructionLength
<1> QED BY <1>1, <1>2, PushMoves

LEMMA OpLiteralMoves == IInv /\ OpLiteral => BelowKept /\ Straight
<1> SUFFICES ASSUME IInv, NEW op \in LiteralOps, Running(op), NEW v, Push(v, 1)
             PROVE  BelowKept /\ Straight
  BY DEF OpLiteral
<1>1. status = "RUNNING"
  BY DEF Running
<1>2. Flows(Heights[frame.function], frame.ip + 1, Height(frame.ip) + 1)
  <2>1. CASE op = OP_NIL
    BY <2>1, Here DEF IInv, VerifiedAt, Height, InstructionLength, Running
  <2>2. CASE op = OP_TRUE
    BY <2>2, Here DEF IInv, VerifiedAt, Height, InstructionLength, Running
  <2>3. CASE op = OP_FALSE
    BY <2>3, Here DEF IInv, VerifiedAt, Height, InstructionLength, Running
  <2> QED BY <2>1, <2>2, <2>3
<1> QED BY <1>1, <1>2, PushMoves

LEMMA OpDropMoves == IInv /\ (OpPop \/ OpPrint) => BelowKept /\ Straight
<1> SUFFICES ASSUME IInv, NEW op \in {OP_POP, OP_PRINT}, Running(op), mem' = mem,
                    sp' = sp - 1, Continue(1)
             PROVE  BelowKept /\ Straight
  BY DEF OpPop, OpPrint
<1>1. status = "RUNNING"
  BY DEF Running
<1>2. Flows(Heights[frame.function], frame.ip + 1, Height(frame.ip) - 1)
  <2>1. CASE op = OP_POP
    BY <2>1, Here DEF IInv, VerifiedAt, Height, InstructionLength, Running
  <2>2. CASE op = OP_PRINT
    BY <2>2, Here DEF IInv, VerifiedAt, Height, InstructionLength, Running
  <2> QED BY <2>1, <2>2
<1> QED BY <1>1, <1>2, DropMoves

LEMMA OpGetGlobalMoves == IInv /\ OpGetGlobal => BelowKept /\ Straight
<1> SUFFICES ASSUME IInv, OpGetGlobal PROVE BelowKept /\ Straight
  OBVIOUS
<1>1. /\ status = "RUNNING" /\ OpAt(Code, frame.ip) = OP_GET_GLOBAL
      /\ closures' = closures
  BY DEF OpGetGlobal, Running
<1>2. Flows(Heights[frame.function], frame.ip + 2, Height(frame.ip) + 1)
  BY <1>1, Here DEF IInv, VerifiedAt, Height, InstructionLength
<1>3. Named
  BY <1>1, Here, LibraryConstant DEF IInv, Constant, Named
<1>4. CASE Push(globals[Constant.val], 2)
  BY <1>1, <1>2, <1>4, PushMoves
<1>5. CASE RuntimeError(2) /\ mem' = mem
  BY <1>1, <1>2, <1>5, FailStops DEF Flows
<1> QED BY <1>3, <1>4, <1>5 DEF OpGetGlobal

LEMMA OpSetGlobalMoves == IInv /\ OpSetGlobal => BelowKept /\ Straight
<1> SUFFICES ASSUME IInv, OpSetGlobal PROVE BelowKept /\ Straight
  OBVIOUS
<1>1. /\ status = "RUNNING" /\ OpAt(Code, frame.ip) = OP_SET_GLOBAL
      /\ mem' = mem /\ sp' = sp /\ closures' = closures
  BY DEF OpSetGlobal, Running
<1>2. Flows(Heights[frame.function], frame.ip + 2, Height(frame.ip))
  BY <1>1, Here DEF IInv, VerifiedAt, Height, InstructionLength
<1>3. CASE Continue(2)
  BY <1>1, <1>2, <1>3, StayMoves DEF BelowKept
<1>4. CASE RuntimeError(2)
  BY <1>1, <1>2, <1>4, FailStops DEF Flows
<1> QED BY <1>3, <1>4 DEF OpSetGlobal

LEMMA OpDefineGlobalMoves == IInv /\ OpDefineGlobal => BelowKept /\ Straight
<1> SUFFICES ASSUME IInv, OpDefineGlobal PROVE BelowKept /\ Straight
  OBVIOUS
<1>1. /\ status = "RUNNING" /\ OpAt(Code, frame.ip) = OP_DEFINE_GLOBAL
      /\ Continue(2) /\ mem' = mem
  BY DEF OpDefineGlobal, Running
<1>2. Flows(Heights[frame.function], frame.ip + 2, Height(frame.ip) - 1)
  BY <1>1, Here DEF IInv, VerifiedAt, Height, InstructionLength
<1>3. Named
  BY <1>1, Here, LibraryConstant DEF IInv, Constant, Named
<1>4. sp' = sp - 1
  BY <1>3 DEF OpDefineGlobal
<1> QED BY <1>1, <1>2, <1>4, DropMoves

LEMMA OpGetLocalMoves == IInv /\ OpGetLocal => BelowKept /\ Straight
<1> SUFFICES ASSUME IInv, OpGetLocal PROVE BelowKept /\ Straight
  OBVIOUS
<1>1. /\ status = "RUNNING" /\ OpAt(Code, frame.ip) = OP_GET_LOCAL
      /\ Push(mem[frame.slots + Arg], 2)
  BY DEF OpGetLocal, Running
<1>2. Flows(Heights[frame.function], frame.ip + 2, Height(frame.ip) + 1)
  BY <1>1, Here DEF IInv, VerifiedAt, Height, InstructionLength
<1> QED BY <1>1, <1>2, PushMoves

LEMMA OpSetLocalMoves == IInv /\ OpSetLocal => BelowKept /\ Straight
<1> SUFFICES ASSUME IInv, OpSetLocal PROVE BelowKept /\ Straight
  OBVIOUS
<1>1. /\ status = "RUNNING" /\ OpAt(Code, frame.ip) = OP_SET_LOCAL /\ Continue(2)
      /\ mem' = [mem EXCEPT ![frame.slots + Arg] = Peek(0)] /\ sp' = sp
  BY DEF OpSetLocal, Running
<1>2. Flows(Heights[frame.function], frame.ip + 2, Height(frame.ip))
  BY <1>1, Here DEF IInv, VerifiedAt, Height, InstructionLength
<1>3. PICK k \in Int : k = frame.slots + Arg /\ k >= frame.slots
  <2>1. Arg \in 0 .. 255
    BY <1>1, ArgHere
  <2> QED BY <1>1, <2>1, HereSizes
<1>4. BelowKept
  BY <1>1, <1>3, StoredAbove
<1> QED BY <1>1, <1>2, <1>4, StayMoves

LEMMA OpGetUpvalueMoves == IInv /\ OpGetUpvalue => BelowKept /\ Straight
<1> SUFFICES ASSUME IInv, OpGetUpvalue PROVE BelowKept /\ Straight
  OBVIOUS
<1>1. /\ status = "RUNNING" /\ OpAt(Code, frame.ip) = OP_GET_UPVALUE
      /\ Push(mem[Upvalue], 2)
  BY DEF OpGetUpvalue, Running
<1>2. Flows(Heights[frame.function], frame.ip + 2, Height(frame.ip) + 1)
  BY <1>1, Here DEF IInv, VerifiedAt, Height, InstructionLength
<1> QED BY <1>1, <1>2, PushMoves

(* The one store that may be anywhere: into the cell of an upvalue.        *)
LEMMA OpSetUpvalueMoves ==
  IInv /\ OpSetUpvalue =>
    /\ \A i \in 0 .. frame.slots - 1 : mem'[i] = mem[i] \/ i = Upvalue
    /\ Straight
<1> SUFFICES ASSUME IInv, OpSetUpvalue
             PROVE  /\ \A i \in 0 .. frame.slots - 1 : mem'[i] = mem[i] \/ i = Upvalue
                    /\ Straight
  OBVIOUS
<1>1. /\ status = "RUNNING" /\ OpAt(Code, frame.ip) = OP_SET_UPVALUE /\ Continue(2)
      /\ mem' = [mem EXCEPT ![Upvalue] = Peek(0)] /\ sp' = sp
  BY DEF OpSetUpvalue, Running
<1>2. Flows(Heights[frame.function], frame.ip + 2, Height(frame.ip))
  BY <1>1, Here DEF IInv, VerifiedAt, Height, InstructionLength
<1>3. /\ mem \in [0 .. STACK_MAX - 1 -> Value \cup {Uninit}]
      /\ frame.slots \in 0 .. STACK_MAX - 1 /\ STACK_MAX \in Nat
  BY <1>1, HereSizes DEF IInv, TypeOK, MemoryOK
<1>4. ASSUME NEW i \in 0 .. frame.slots - 1, i # Upvalue
      PROVE  mem'[i] = mem[i]
  <2>1. i \in 0 .. STACK_MAX - 1
    BY <1>3
  <2> QED BY <1>1, <1>3, <1>4, <2>1
<1> QED BY <1>1, <1>2, <1>4, StayMoves

(* Two operands give way to a value, or are refused.                       *)
LEMMA BinaryMoves ==
  ASSUME IInv, status = "RUNNING", OpAt(Code, frame.ip) \in BinaryOps,
         closures' = closures,
         (\E v : Replace(2, v, 1)) \/ (RuntimeError(1) /\ mem' = mem)
  PROVE  BelowKept /\ Straight
<1>1. /\ Flows(Heights[frame.function], frame.ip + 1, Height(frame.ip) - 1)
      /\ Height(frame.ip) >= 3
  BY BinaryHere
<1>2. Height(frame.ip) - 1 = Height(frame.ip) - 2 + 1 /\ 2 + 1 <= Height(frame.ip)
  BY <1>1, HereSizes
<1>3. Flows(Heights[frame.function], frame.ip + 1, Height(frame.ip) - 2 + 1)
  BY <1>1, <1>2
<1>4. 2 \in Nat \ {0} /\ 1 \in Int
  OBVIOUS
<1>5. ASSUME NEW v, Replace(2, v, 1) PROVE BelowKept /\ Straight
  BY <1>2, <1>3, <1>4, <1>5, ReplaceMoves, Zenon
<1>6. CASE RuntimeError(1) /\ mem' = mem
  BY <1>1, <1>6, FailStops DEF Flows
<1> QED BY <1>5, <1>6

LEMMA OpBinaryMoves ==
  IInv /\ (OpEqual \/ OpLess \/ OpAdd \/ OpArithmetic) => BelowKept /\ Straight
<1> SUFFICES ASSUME IInv, OpEqual \/ OpLess \/ OpAdd \/ OpArithmetic
             PROVE  BelowKept /\ Straight
  OBVIOUS
<1>1. /\ status = "RUNNING" /\ OpAt(Code, frame.ip) \in BinaryOps
      /\ closures' = closures
  BY DEF OpEqual, OpLess, OpAdd, OpArithmetic, Running
<1>2. (\E v : Replace(2, v, 1)) \/ (RuntimeError(1) /\ mem' = mem)
  BY DEF OpEqual, OpLess, OpAdd, OpArithmetic
<1> QED BY <1>1, <1>2, BinaryMoves

LEMMA OpUnaryMoves == IInv /\ (OpNot \/ OpNegate) => BelowKept /\ Straight
<1> SUFFICES ASSUME IInv, OpNot \/ OpNegate PROVE BelowKept /\ Straight
  OBVIOUS
<1>1. /\ status = "RUNNING" /\ OpAt(Code, frame.ip) \in {OP_NOT, OP_NEGATE}
      /\ closures' = closures
      /\ (\E v : Replace(1, v, 1)) \/ (RuntimeError(1) /\ mem' = mem)
  BY DEF OpNot, OpNegate, Running
<1>2. /\ Flows(Heights[frame.function], frame.ip + 1, Height(frame.ip))
      /\ Height(frame.ip) >= 2
  <2>1. CASE OpAt(Code, frame.ip) = OP_NOT
    BY <1>1, <2>1, Here DEF IInv, VerifiedAt, Height, InstructionLength
  <2>2. CASE OpAt(Code, frame.ip) = OP_NEGATE
    BY <1>1, <2>2, Here DEF IInv, VerifiedAt, Height, InstructionLength
  <2> QED BY <1>1, <2>1, <2>2
<1>3. Height(frame.ip) = Height(frame.ip) - 1 + 1 /\ 1 + 1 <= Height(frame.ip)
  BY <1>1, <1>2, HereSizes
<1>4. Flows(Heights[frame.function], frame.ip + 1, Height(frame.ip) - 1 + 1)
  BY <1>2, <1>3
<1>5. 1 \in Nat \ {0} /\ 1 \in Int
  OBVIOUS
<1>6. ASSUME NEW v, Replace(1, v, 1) PROVE BelowKept /\ Straight
  BY <1>1, <1>3, <1>4, <1>5, <1>6, ReplaceMoves, Zenon
<1>7. CASE RuntimeError(1) /\ mem' = mem
  BY <1>1, <1>2, <1>7, FailStops DEF Flows
<1> QED BY <1>1, <1>6, <1>7

LEMMA OpJumpMoves == IInv /\ (OpJump \/ OpLoop \/ OpJumpIfFalse) => BelowKept /\ Straight
<1> SUFFICES ASSUME IInv, OpJump \/ OpLoop \/ OpJumpIfFalse
             PROVE  BelowKept /\ Straight
  OBVIOUS
<1> DEFINE s == ShortOperand(Code, frame.ip)
<1>1. /\ status = "RUNNING" /\ OpAt(Code, frame.ip) \in JumpOps
      /\ mem' = mem /\ sp' = sp
  BY DEF OpJump, OpLoop, OpJumpIfFalse, Running
<1>2. frame.ip \in Nat /\ s \in Nat
  BY <1>1, Here, LibraryOperands DEF IInv
<1>3. \E n \in Int : /\ Continue(n)
                     /\ Flows(Heights[frame.function], frame.ip + n, Height(frame.ip))
  <2>1. CASE OpJump
    <3>1. /\ Continue(3 + s)
          /\ status = "RUNNING" /\ OpAt(Code, frame.ip) = OP_JUMP
      BY <2>1 DEF OpJump, Running
    <3>2. Flows(Heights[frame.function],
                frame.ip + 3 + ShortOperand(Code, frame.ip), Height(frame.ip))
      <4> HIDE DEF s
      <4> QED BY <3>1, Here DEF IInv, VerifiedAt, Height, InstructionLength
    <3>3. PICK n \in Int : n = 3 + s
      BY <1>2
    <3>4. frame.ip + 3 + s = frame.ip + n
      BY <1>2, <3>3
    <3> QED BY <3>1, <3>2, <3>3, <3>4
  <2>2. CASE OpLoop
    <3>1. /\ Continue(3 - s)
          /\ status = "RUNNING" /\ OpAt(Code, frame.ip) = OP_LOOP
      BY <2>2 DEF OpLoop, Running
    <3>2. Flows(Heights[frame.function],
                (frame.ip + 3) - ShortOperand(Code, frame.ip), Height(frame.ip))
      <4> HIDE DEF s
      <4> QED BY <3>1, Here DEF IInv, VerifiedAt, Height, InstructionLength
    <3>3. PICK n \in Int : n = 3 - s
      BY <1>2
    <3>4. (frame.ip + 3) - s = frame.ip + n
      BY <1>2, <3>3
    <3> QED BY <3>1, <3>2, <3>3, <3>4
  <2>3. CASE OpJumpIfFalse
    <3>1. /\ Continue(3 + s) \/ Continue(3)
          /\ status = "RUNNING" /\ OpAt(Code, frame.ip) = OP_JUMP_IF_FALSE
      BY <2>3 DEF OpJumpIfFalse, Running
    <3>2. /\ Flows(Heights[frame.function], frame.ip + 3, Height(frame.ip))
          /\ Flows(Heights[frame.function], frame.ip + 3 + ShortOperand(Code, frame.ip),
                   Height(frame.ip))
      <4> HIDE DEF s
      <4> QED BY <3>1, Here DEF IInv, VerifiedAt, Height, InstructionLength
    <3>3. PICK n \in Int : n = 3 + s
      BY <1>2
    <3>4. frame.ip + 3 + s = frame.ip + n
      BY <1>2, <3>3
    <3> QED BY <3>1, <3>2, <3>3, <3>4
  <2> QED BY <2>1, <2>2, <2>3
<1> QED BY <1>1, <1>3, StayMoves DEF BelowKept

LEMMA OpClosureMoves == IInv /\ OpClosure => BelowKept /\ Straight
<1> SUFFICES ASSUME IInv, OpClosure PROVE BelowKept /\ Straight
  OBVIOUS
<1> DEFINE m == Library[Constant.val].upvalueCount
           k == 2 + 2 * m
<1>1. status = "RUNNING" /\ OpAt(Code, frame.ip) = OP_CLOSURE
  BY DEF OpClosure, Running
<1>2. m \in Nat
  BY <1>1, Here, LibraryConstant, LibraryFunction DEF IInv, Constant
<1>3. Flows(Heights[frame.function], frame.ip + k, Height(frame.ip) + 1)
  <2>1. VerifiedAt(Library, Code, Heights[frame.function], frame.ip)
    BY <1>1, Here DEF IInv
  <2>2. OpAt(Code, frame.ip) \notin JumpOps
    BY <1>1
  <2>3. InstructionLength(Library, Code, frame.ip) = k
    BY <1>1, <2>2, Zenon DEF InstructionLength, Constant
  <2>4. Flows(Heights[frame.function],
              frame.ip + InstructionLength(Library, Code, frame.ip),
              Heights[frame.function][frame.ip] + 1)
    BY <1>1, <2>1, VerifiedClosure
  <2> QED BY <2>3, <2>4 DEF Height
<1>4. CASE Terminate
  BY <1>4 DEF Terminate, BelowKept, Straight, Stops
<1>5. ASSUME Push(ClosureObj(Len(closures) + 1), k)
      PROVE  BelowKept /\ Straight
  <2>1. PICK n \in Int : n = k
    BY <1>2
  <2>2. /\ Push(ClosureObj(Len(closures) + 1), n)
        /\ Flows(Heights[frame.function], frame.ip + n, Height(frame.ip) + 1)
    BY <1>3, <1>5, <2>1
  <2> HIDE DEF k, m
  <2> QED BY <1>1, <2>2, PushMoves
<1> QED BY <1>4, <1>5 DEF OpClosure

(* A native may leave the height of the code, but not its window.          *)
LEMMA CallNativeBelow ==
  IInv /\ CallNative => BelowKept /\ (Stops \/ Continue(2))
<1> SUFFICES ASSUME IInv, CallNative PROVE BelowKept /\ (Stops \/ Continue(2))
  OBVIOUS
<1>1. status = "RUNNING" /\ OpAt(Code, frame.ip) = OP_CALL
  BY DEF CallNative, Running
<1>2. PICK x \in ClockReadings :
        IF Arg = 0 THEN Push(Number(x), 2) ELSE Replace(Arg, Number(x), 2)
  BY DEF CallNative
<1>3. CASE Arg = 0
  BY <1>1, <1>2, <1>3, PushAbove
<1>4. CASE Arg # 0
  <2>1. Arg \in Nat \ {0} /\ Arg + 1 <= Height(frame.ip)
    BY <1>1, <1>4, CallHere, HereSizes
  <2> QED BY <1>1, <1>2, <1>4, <2>1, ReplaceAbove
<1> QED BY <1>3, <1>4

(* A call enters a frame whose window is the callee and the arguments, or  *)
(* fails.                                                                  *)
Enters(f, c) ==
  /\ frames' = Append(Advanced(2), NewFrame(f, c, Window(Arg)))
  /\ f \in DOMAIN Library /\ Library[f].arity = Arg
  /\ status' = status /\ sp' = sp

LEMMA CallClosureMoves ==
  IInv /\ CallClosure => BelowKept /\ (Stops \/ \E f, c : Enters(f, c))
<1> SUFFICES ASSUME IInv, CallClosure
             PROVE  BelowKept /\ (Stops \/ \E f, c : Enters(f, c))
  OBVIOUS
<1> DEFINE c == Callee.val
           f == closures[c].function
<1>1. /\ status = "RUNNING" /\ OpAt(Code, frame.ip) = OP_CALL
      /\ Callee.type = "CLOSURE"
      /\ mem' = mem /\ sp' = sp /\ closures' = closures
  BY DEF CallClosure, Running
<1>2. CASE RuntimeError(2)
  <2>1. Stops
    <3>1. frame.ip + 2 \in Nat
      BY <1>1, CallHere, Here, LibraryOffset DEF IInv
    <3>2. Len(frames') = Len(frames)
      BY <1>1, <1>2, <3>1, MovedFrames, SameClosures DEF IInv
    <3> QED BY <1>2, <3>2 DEF RuntimeError, Traceback, Stops
  <2> QED BY <1>1, <2>1 DEF BelowKept
<1>3. CASE /\ Arg = Library[f].arity /\ status' = status
           /\ frames' = Append(Advanced(2), NewFrame(f, c, Window(Arg)))
  <2>1. c \in DOMAIN closures
    BY <1>1, CallHere DEF Value, Nil, NativeClock
  <2>2. closures[c] \in ClosureRecord
    BY <2>1, LenProperties, ElementOfSeq DEF IInv, TypeOK, ClosuresOK
  <2>3. f \in DOMAIN Library
    BY <2>2 DEF ClosureRecord
  <2> QED BY <1>1, <1>3, <2>3 DEF BelowKept, Enters
<1> QED BY <1>2, <1>3 DEF CallClosure

LEMMA CallNonCallableStops == IInv /\ CallNonCallable => BelowKept /\ Straight
<1> SUFFICES ASSUME IInv, CallNonCallable PROVE BelowKept /\ Straight
  OBVIOUS
<1>1. /\ status = "RUNNING" /\ OpAt(Code, frame.ip) = OP_CALL /\ RuntimeError(2)
      /\ mem' = mem /\ closures' = closures
  BY DEF CallNonCallable, Running
<1> QED BY <1>1, CallHere, FailStops

(* A return leaves its result in the first cell of the window it gives up. *)
LEMMA OpReturnBelow ==
  IInv /\ OpReturn =>
    /\ BelowKept
    /\ Len(frames') = Len(frames) - 1
    /\ \A j \in 1 .. Len(frames) - 1 : frames'[j] = frames[j]
<1> SUFFICES ASSUME IInv, OpReturn
             PROVE  /\ BelowKept
                    /\ Len(frames') = Len(frames) - 1
                    /\ \A j \in 1 .. Len(frames) - 1 : frames'[j] = frames[j]
  OBVIOUS
<1> DEFINE N == Len(frames)
<1>1. /\ status = "RUNNING" /\ frames' = SubSeq(frames, 1, N - 1)
      /\ mem' = mem \/ mem' = [mem EXCEPT ![frame.slots] = Peek(0)]
  BY DEF OpReturn, Running
<1>2. BelowKept
  <2>1. frame.slots \in Int /\ frame.slots >= frame.slots
    BY <1>1, HereSizes
  <2>2. CASE mem' = mem
    BY <2>2 DEF BelowKept
  <2>3. CASE mem' = [mem EXCEPT ![frame.slots] = Peek(0)]
    BY <1>1, <2>1, <2>3, StoredAbove
  <2> QED BY <1>1, <2>2, <2>3
<1>3. /\ N \in Nat /\ N >= 1 /\ DOMAIN frames = 1 .. N /\ frames \in Seq(FrameRecord)
  BY <1>1, Here DEF IInv, TypeOK, FramesOK
<1>4. \A i \in 1 .. N - 1 : frames[i] \in FrameRecord
  BY <1>3, ElementOfSeq
<1>5. 1 \in Int /\ N - 1 \in Int
  BY <1>3
<1>6. /\ Len(frames') = IF 1 <= N - 1 THEN N - 1 - 1 + 1 ELSE 0
      /\ \A i \in 1 .. N - 1 - 1 + 1 : frames'[i] = frames[1 + i - 1]
  BY <1>1, <1>4, <1>5, SubSeqProperties
<1>7. Len(frames') = N - 1
  BY <1>3, <1>6, Shorter
<1>8. \A i \in 1 .. N - 1 : frames'[i] = frames[i]
  BY <1>3, <1>6, Shorter
<1> QED BY <1>2, <1>7, <1>8

-----------------------------------------------------------------------------
(* A function runs in its own window: what no step changes of the cells    *)
(* and of the frames below it.                                             *)

LEMMA IndexBelow == \A n \in Nat : \A j \in 1 .. n - 1 : j \in 1 .. n /\ j # n
OBVIOUS

(* The frames that wait are left alone by a handler that goes on.          *)
LEMMA AdvancedKeeps ==
  ASSUME IInv, status = "RUNNING", NEW n \in Int,
         frame.ip + n \in DOMAIN Heights[frame.function]
  PROVE  /\ Advanced(n) \in Seq(FrameRecord)
         /\ Len(Advanced(n)) = Len(frames)
         /\ \A j \in 1 .. Len(frames) - 1 : Advanced(n)[j] = frames[j]
<1>1. /\ Len(frames) \in Nat /\ DOMAIN frames = 1 .. Len(frames)
      /\ frame.ip + n \in Nat
  BY Here, LibraryOffset DEF IInv
<1>2. \A j \in 1 .. Len(frames) : j # Len(frames) => Advanced(n)[j] = frames[j]
  BY <1>1 DEF Advanced
<1>3. \A j \in 1 .. Len(frames) - 1 : j \in 1 .. Len(frames) /\ j # Len(frames)
  BY <1>1, IndexBelow, Zenon
<1> QED BY <1>1, <1>2, <1>3, AdvancedFrames DEF IInv

(* What a step does to the frames below the running one, and how many it   *)
(* leaves.                                                                 *)
FramesBelowKept ==
  /\ Len(frames') >= Len(frames) - 1
  /\ status' = "RUNNING" => \A j \in 1 .. Len(frames) - 1 : frames'[j] = frames[j]

LEMMA StraightKeeps ==
  ASSUME IInv, status = "RUNNING", Straight
  PROVE  FramesBelowKept
<1>1. Len(frames) \in Nat
  BY Here DEF IInv
<1>2. CASE Stops
  BY <1>1, <1>2 DEF Stops, FramesBelowKept
<1>3. ASSUME NEW n \in Int, NEW d \in Int, Moves(n, d)
      PROVE  FramesBelowKept
  <2>1. /\ frames' = Advanced(n)
        /\ frame.ip + n \in DOMAIN Heights[frame.function]
    BY <1>3 DEF Moves, Continue, Flows
  <2> QED BY <1>1, <2>1, AdvancedKeeps DEF FramesBelowKept
<1> QED BY <1>2, <1>3 DEF Straight

LEMMA CallKeeps ==
  ASSUME IInv, OpCall
  PROVE  BelowKept /\ FramesBelowKept
<1>1. status = "RUNNING" /\ OpAt(Code, frame.ip) = OP_CALL
  BY DEF OpCall, CallClosure, CallNative, CallNonCallable, Running
<1>2. /\ Len(frames) \in Nat /\ 2 \in Int
      /\ frame.ip + 2 \in DOMAIN Heights[frame.function]
  BY <1>1, CallHere, Here DEF IInv
<1>3. /\ Advanced(2) \in Seq(FrameRecord) /\ Len(Advanced(2)) = Len(frames)
      /\ \A j \in 1 .. Len(frames) - 1 : Advanced(2)[j] = frames[j]
  BY <1>1, <1>2, AdvancedKeeps
<1>4. Stops => FramesBelowKept
  BY <1>2 DEF Stops, FramesBelowKept
<1>5. CASE CallNative
  BY <1>2, <1>3, <1>4, <1>5, CallNativeBelow DEF Continue, FramesBelowKept
<1>6. CASE CallNonCallable
  BY <1>1, <1>6, CallNonCallableStops, StraightKeeps
<1>7. CASE CallClosure
  <2>1. ASSUME NEW f, NEW c, Enters(f, c)
        PROVE  FramesBelowKept
    <3> DEFINE r == NewFrame(f, c, Window(Arg))
               fs == Advanced(2)
    <3>1. frames' = Append(fs, r)
      BY <2>1 DEF Enters
    <3> HIDE DEF r, fs
    <3>2. fs \in Seq(FrameRecord \cup {r}) /\ r \in FrameRecord \cup {r}
      <4>1. fs \in [1 .. Len(fs) -> FrameRecord] /\ Len(fs) \in Nat
        BY <1>3, LenProperties DEF fs
      <4>2. fs \in [1 .. Len(fs) -> FrameRecord \cup {r}]
        BY <4>1
      <4> QED BY <4>1, <4>2, SeqDef
    <3>3. /\ Len(frames') = Len(fs) + 1
          /\ \A j \in 1 .. Len(fs) : frames'[j] = fs[j]
      BY <3>1, <3>2, AppendProperties
    <3>4. /\ Len(frames') >= Len(frames) - 1
          /\ \A j \in 1 .. Len(frames) - 1 : frames'[j] = frames[j]
      BY <1>2, <1>3, <3>3 DEF fs
    <3> QED BY <3>4 DEF FramesBelowKept
  <2> QED BY <1>4, <1>7, <2>1, CallClosureMoves
<1> QED BY <1>5, <1>6, <1>7 DEF OpCall

(* An instruction is executed only in a run.                               *)
LEMMA StepRuns == Step => status = "RUNNING"
BY Zenon DEF Step, OpConstant, OpLiteral, OpPop, OpPrint, OpGetGlobal,
   OpSetGlobal, OpDefineGlobal, OpGetLocal, OpSetLocal, OpGetUpvalue, OpSetUpvalue,
   OpEqual, OpLess, OpAdd, OpArithmetic, OpNot, OpNegate, OpJump, OpJumpIfFalse,
   OpLoop, OpCall, CallClosure, CallNative, CallNonCallable, OpClosure, OpReturn,
   Running

LEMMA StepIsLocal ==
  ASSUME IInv, Step
  PROVE  /\ \A i \in 0 .. frame.slots - 1 :
              mem'[i] = mem[i] \/ (Running(OP_SET_UPVALUE) /\ i = Upvalue)
         /\ FramesBelowKept
<1>1. status = "RUNNING"
  BY StepRuns
<1>2. CASE OpSetUpvalue
  BY <1>1, <1>2, OpSetUpvalueMoves, StraightKeeps DEF OpSetUpvalue
<1>3. CASE OpReturn
  <2>1. Len(frames) \in Nat
    BY <1>1, Here DEF IInv
  <2> QED BY <1>3, <2>1, OpReturnBelow DEF BelowKept, FramesBelowKept
<1>4. CASE OpCall
  BY <1>4, CallKeeps DEF BelowKept
<1>5. CASE ~OpSetUpvalue /\ ~OpReturn /\ ~OpCall
  <2>1. BelowKept /\ Straight
    BY <1>5, OpConstantMoves, OpLiteralMoves, OpDropMoves, OpGetGlobalMoves,
       OpSetGlobalMoves, OpDefineGlobalMoves, OpGetLocalMoves, OpSetLocalMoves,
       OpGetUpvalueMoves, OpBinaryMoves, OpUnaryMoves, OpJumpMoves, OpClosureMoves
       DEF Step
  <2> QED BY <1>1, <2>1, StraightKeeps DEF BelowKept
<1> QED BY <1>2, <1>3, <1>4, <1>5

(* A function runs in its own window: no step of any session changes a     *)
(* cell below the running frame, except the one an assignment to an        *)
(* upvalue names, or a frame that waits for it while the run goes on.      *)
THEOREM FramesAreIsolated == Spec => FrameIsolation
<1> DEFINE Isolated ==
             /\ \A i \in 0 .. frame.slots - 1 :
                  mem'[i] = mem[i] \/ (Running(OP_SET_UPVALUE) /\ i = Upvalue)
             /\ Len(frames') >= Len(frames) - 1
             /\ status' = "RUNNING" =>
                  \A j \in 1 .. Len(frames) - 1 : frames'[j] = frames[j]
<1>1. IInv /\ status = "RUNNING" /\ Next => Isolated
  <2>1. IInv /\ Step => Isolated
    BY StepIsLocal DEF FramesBelowKept
  <2>2. status = "RUNNING" /\ Next => Step
    BY DEF Next, Interpret, InterpretRejected, Idle
  <2> QED BY <2>1, <2>2
<1>2. IInv /\ [Next]_vars => [status = "RUNNING" => Isolated]_vars
  <2> HIDE DEF Isolated
  <2> QED BY <1>1
<1> QED BY <1>2, Invariant, PTL DEF Spec, FrameIsolation

-----------------------------------------------------------------------------
(* Clean sessions: no line fails, and no native is called.                 *)

CleanStep == ~CallNative /\ status' # "RUNTIME_ERROR"

(* The windows are exact; the outermost one is that of the line and begins *)
(* at the bottom of the stack; between two lines there is none.            *)
Exact ==
  /\ WindowsExact
  /\ status = "RUNNING" => frames[1].slots = 0 /\ frames[1].function \in Scripts
  /\ Idle => frames = << >>

(* The process has ended.                                                  *)
LEMMA EndedExact == ASSUME status' = "TERMINATED" PROVE Exact'
BY DEF Exact, WindowsExact, Idle

(* A handler that goes on: the top moves as far as the height.             *)
LEMMA MovedExact ==
  ASSUME IInv, Exact, status = "RUNNING", NEW n \in Int, NEW d \in Int, Moves(n, d)
  PROVE  Exact'
<1> DEFINE N == Len(frames)
<1>1. /\ N \in Nat /\ N >= 1 /\ DOMAIN frames = 1 .. N /\ 1 \in 1 .. N
      /\ frame.function \in DOMAIN Library /\ frame.slots \in Int
      /\ sp \in Int /\ Height(frame.ip) \in Int
  <2>1. N \in Nat /\ N >= 1 /\ DOMAIN frames = 1 .. N
        /\ frame.function \in DOMAIN Library
    BY Here DEF IInv
  <2> QED BY <2>1, HereSizes
<1>2. /\ status' = "RUNNING" /\ frames' = Advanced(n) /\ sp' = sp + d
      /\ frame.ip + n \in DOMAIN Heights[frame.function]
      /\ Height(frame.ip + n) = Height(frame.ip) + d
  BY DEF Moves, Continue, Flows, Height
<1>3. frame.ip + n \in Nat
  BY <1>1, <1>2, LibraryOffset
<1>4. /\ frames' \in Seq(FrameRecord) /\ Len(frames') = N
      /\ \A i \in 1 .. N :
           /\ frames'[i].function = frames[i].function
           /\ frames'[i].slots = frames[i].slots
           /\ frames'[i].ip = IF i = N THEN frame.ip + n ELSE frames[i].ip
  BY <1>2, <1>3, AdvancedFrames DEF IInv
<1>5. DOMAIN frames' = 1 .. N
  BY <1>4, LenProperties
<1>6. ASSUME NEW i \in 1 .. N
      PROVE  WindowEnd(i)' - frames'[i].slots + Pending(i)' = Expected(i)'
  <2>1. WindowEnd(i) - frames[i].slots + Pending(i) = Expected(i)
    BY <1>1 DEF Exact, WindowsExact
  <2>2. CASE i = N
    <3>1. /\ WindowEnd(i) = sp /\ Pending(i) = 0 /\ Expected(i) = Height(frame.ip)
          /\ frames[i].slots = frame.slots
      BY <2>2 DEF WindowEnd, Pending, Expected, Height, frame
    <3>2. /\ WindowEnd(i)' = sp + d /\ Pending(i)' = 0
          /\ Expected(i)' = Height(frame.ip + n) /\ frames'[i].slots = frame.slots
      BY <1>2, <1>4, <2>2, <3>1 DEF WindowEnd, Pending, Expected, Height, frame
    <3>3. \A x, y, h, e \in Int : x - y + 0 = h => (x + e) - y + 0 = h + e
      OBVIOUS
    <3>4. (sp + d) - frame.slots + 0 = Height(frame.ip) + d
      BY <1>1, <2>1, <3>1, <3>3
    <3>5. Height(frame.ip + n) = Height(frame.ip) + d
      BY <1>2
    <3> QED BY <3>2, <3>4, <3>5
  <2>3. CASE i # N
    <3>1. i + 1 \in 1 .. N
      BY <1>1, <2>3, NextIndex
    <3>2. /\ WindowEnd(i)' = WindowEnd(i) /\ Expected(i)' = Expected(i)
          /\ Pending(i)' = Pending(i) /\ frames'[i].slots = frames[i].slots
      BY <1>4, <2>3, <3>1 DEF WindowEnd, Expected, Pending
    <3> QED BY <2>1, <3>2
  <2> QED BY <2>2, <2>3
<1>7. WindowsExact'
  BY <1>2, <1>5, <1>6 DEF WindowsExact, Idle
<1>8. frames'[1].slots = 0 /\ frames'[1].function \in Scripts
  BY <1>1, <1>4 DEF Exact
<1> QED BY <1>2, <1>7, <1>8 DEF Exact, Idle

(* A call: the caller waits for a value, the callee's window is the callee *)
(* and the arguments.                                                      *)
LEMMA EnteredExact ==
  ASSUME IInv, Exact, status = "RUNNING", OpAt(Code, frame.ip) = OP_CALL,
         NEW f, NEW c, Enters(f, c)
  PROVE  Exact'
<1> DEFINE N == Len(frames)
           r == NewFrame(f, c, Window(Arg))
           fs == Advanced(2)
<1>1. /\ N \in Nat /\ N >= 1 /\ DOMAIN frames = 1 .. N /\ 1 \in 1 .. N
      /\ frame.slots \in Int /\ sp \in Int /\ Height(frame.ip) \in Int
      /\ Arg \in Nat
  <2>1. N \in Nat /\ N >= 1 /\ DOMAIN frames = 1 .. N /\ Arg \in Nat
    BY Here, CallHere DEF IInv
  <2> QED BY <2>1, HereSizes
<1>2. /\ status' = "RUNNING" /\ frames' = Append(fs, r) /\ sp' = sp
      /\ f \in DOMAIN Library /\ Library[f].arity = Arg
  BY DEF Enters
<1>3. /\ 2 \in Int /\ frame.ip + 2 \in Nat /\ Height(frame.ip + 2) = Height(frame.ip) - Arg
  BY CallHere, Here, LibraryOffset DEF IInv
<1>4. /\ fs \in Seq(FrameRecord) /\ Len(fs) = N
      /\ \A i \in 1 .. N :
           /\ fs[i].function = frames[i].function
           /\ fs[i].slots = frames[i].slots
           /\ fs[i].ip = IF i = N THEN frame.ip + 2 ELSE frames[i].ip
  BY <1>3, AdvancedFrames DEF IInv
<1>5. Heights[f][0] = Arg + 1
  BY <1>2, LibraryFunction DEF Verified, Flows
<1>6. PICK w \in Int : w = sp - Arg - 1
  BY <1>1
<1>7. /\ r.function = f /\ r.slots = w /\ r.ip = 0
  BY <1>6 DEF NewFrame, Window
<1> HIDE DEF r, fs
<1>8. fs \in Seq(FrameRecord \cup {r}) /\ r \in FrameRecord \cup {r}
  <2>1. fs \in [1 .. Len(fs) -> FrameRecord] /\ Len(fs) \in Nat
    BY <1>4, LenProperties
  <2>2. fs \in [1 .. Len(fs) -> FrameRecord \cup {r}]
    BY <2>1
  <2> QED BY <2>1, <2>2, SeqDef
<1>9. /\ Len(frames') = N + 1 /\ frames'[N + 1] = r
      /\ \A i \in 1 .. N : frames'[i] = fs[i]
      /\ frames' \in Seq(FrameRecord \cup {r})
  BY <1>2, <1>4, <1>8, AppendProperties
<1>10. DOMAIN frames' = 1 .. N + 1
  BY <1>9, LenProperties
<1>0. \A n \in Nat : \A i \in 1 .. n + 1 :
        /\ n # n + 1
        /\ i = n /\ n >= 1 => i \in 1 .. n
        /\ i # n + 1 /\ i # n => i \in 1 .. n /\ i + 1 \in 1 .. n
  OBVIOUS
<1>11. ASSUME NEW i \in 1 .. N + 1
       PROVE  WindowEnd(i)' - frames'[i].slots + Pending(i)' = Expected(i)'
  <2>1. CASE i = N + 1
    <3>1. /\ WindowEnd(i)' = sp /\ Pending(i)' = 0 /\ Expected(i)' = Arg + 1
          /\ frames'[i].slots = w
      BY <1>2, <1>5, <1>7, <1>9, <2>1 DEF WindowEnd, Pending, Expected
    <3>2. sp - w + 0 = Arg + 1
      BY <1>1, <1>6
    <3> QED BY <3>1, <3>2
  <2>2. CASE i = N
    <3>1. sp - frame.slots + 0 = Height(frame.ip)
      BY <1>1 DEF Exact, WindowsExact, WindowEnd, Pending, Expected, Height, frame
    <3>2. N # N + 1 /\ i \in 1 .. N
      BY <1>0, <1>1, <2>2, Zenon
    <3>3. /\ WindowEnd(i)' = w /\ Pending(i)' = 1
          /\ Expected(i)' = Height(frame.ip + 2) /\ frames'[i].slots = frame.slots
      BY <1>4, <1>7, <1>9, <2>2, <3>2 DEF WindowEnd, Pending, Expected, Height, frame
    <3>4. w - frame.slots + 1 = Height(frame.ip) - Arg
      BY <1>1, <1>6, <3>1
    <3> QED BY <1>3, <3>3, <3>4
  <2>3. CASE i # N + 1 /\ i # N
    <3>1. i \in 1 .. N /\ i + 1 \in 1 .. N
      BY <1>0, <1>1, <2>3, Zenon
    <3>2. WindowEnd(i) - frames[i].slots + Pending(i) = Expected(i)
      BY <1>1, <3>1 DEF Exact, WindowsExact
    <3>3. /\ WindowEnd(i)' = WindowEnd(i) /\ Expected(i)' = Expected(i)
          /\ Pending(i)' = Pending(i) /\ frames'[i].slots = frames[i].slots
      BY <1>4, <1>9, <2>3, <3>1 DEF WindowEnd, Expected, Pending
    <3> QED BY <3>2, <3>3
  <2> QED BY <2>1, <2>2, <2>3
<1>12. WindowsExact'
  BY <1>2, <1>10, <1>11 DEF WindowsExact, Idle
<1>13. frames'[1].slots = 0 /\ frames'[1].function \in Scripts
  BY <1>1, <1>4, <1>9 DEF Exact
<1> QED BY <1>2, <1>12, <1>13 DEF Exact, Idle

(* A return: its result is the value the caller waits for; the line's own  *)
(* return leaves the stack empty.                                          *)
LEMMA ReturnedExact ==
  ASSUME IInv, Exact, OpReturn
  PROVE  Exact'
<1> DEFINE N == Len(frames)
<1>1. /\ status = "RUNNING" /\ OpAt(Code, frame.ip) = OP_RETURN
      /\ frames' = SubSeq(frames, 1, N - 1)
  BY DEF OpReturn, Running
<1>2. /\ N \in Nat /\ N >= 1 /\ DOMAIN frames = 1 .. N
      /\ frame.slots \in Int /\ sp \in Int
      /\ Code = Library[frame.function]
      /\ frame.ip \in DOMAIN Heights[frame.function]
  <2>1. /\ N \in Nat /\ N >= 1 /\ DOMAIN frames = 1 .. N
        /\ Code = Library[frame.function]
        /\ frame.ip \in DOMAIN Heights[frame.function]
    BY <1>1, Here DEF IInv
  <2> QED BY <1>1, <2>1, HereSizes
<1>3. /\ Len(frames') = N - 1
      /\ \A j \in 1 .. N - 1 : frames'[j] = frames[j]
  BY OpReturnBelow
<1>4. frames' \in Seq(FrameRecord) /\ DOMAIN frames' = 1 .. N - 1
  <2>1. frames \in Seq(FrameRecord)
    BY DEF IInv, TypeOK, FramesOK
  <2>2. \A i \in 1 .. N - 1 : frames[i] \in FrameRecord
    BY <1>2, <2>1, IndexBelow, ElementOfSeq
  <2>3. 1 \in Int /\ N - 1 \in Int
    BY <1>2
  <2>4. frames' \in Seq(FrameRecord)
    BY <1>1, <2>2, <2>3, SubSeqProperties
  <2> QED BY <1>3, <2>4, LenProperties
<1>5. CASE N = 1
  <2>1. sp' = sp - 2 /\ status' = "OK"
    BY <1>5 DEF OpReturn
  <2>2. frame.slots = 0 /\ frame.function \in Scripts
    BY <1>1, <1>5 DEF Exact, frame
  <2>3. Height(frame.ip) = 2
    BY <1>1, <1>2, <2>2, LibraryAssumption DEF VerifiedScript, Height
  <2>4. sp - frame.slots + 0 = Height(frame.ip)
    BY <1>1, <1>2, <1>5 DEF Exact, WindowsExact, WindowEnd, Pending, Expected, Height, frame
  <2>5. sp - 2 = 0
    BY <1>2, <2>2, <2>3, <2>4
  <2>6. frames' = << >>
    <3>1. Len(frames') = 0
      BY <1>3, <1>5
    <3> QED BY <1>4, <3>1, EmptySeq
  <2>7. sp' = 0
    BY <2>1, <2>5
  <2> QED BY <1>4, <1>5, <2>1, <2>6, <2>7 DEF Exact, WindowsExact
<1>6. CASE N # 1
  <2>1. /\ sp' = frame.slots + 1 /\ status' = "RUNNING"
    BY <1>1, <1>6 DEF OpReturn
  <2>2. 1 \in 1 .. N - 1
    BY <1>2, <1>6
  <2>3. ASSUME NEW i \in 1 .. N - 1
        PROVE  WindowEnd(i)' - frames'[i].slots + Pending(i)' = Expected(i)'
    <3>1. i \in 1 .. N /\ i # N /\ i + 1 \in 1 .. N
      BY <1>2, Shorter
    <3>2. frames[i + 1].slots - frames[i].slots + 1 = Expected(i)
      BY <1>1, <1>2, <3>1 DEF Exact, WindowsExact, WindowEnd, Pending
    <3>3. Expected(i)' = Expected(i) /\ frames'[i].slots = frames[i].slots
      BY <1>3 DEF Expected
    <3>4. CASE i = N - 1
      <4>1. frames[i + 1].slots = frame.slots
        <5>1. i + 1 = N
          BY <1>2, <3>4
        <5> QED BY <5>1 DEF frame
      <4>2. WindowEnd(i)' = frame.slots + 1 /\ Pending(i)' = 0
        BY <1>3, <2>1, <3>4 DEF WindowEnd, Pending
      <4>3. frames[i].slots \in Int
        <5>1. frames[i] \in FrameRecord
          BY <1>2, <3>1, ElementOfSeq DEF IInv, TypeOK, FramesOK
        <5> QED BY <5>1 DEF FrameRecord
      <4>4. (frame.slots + 1) - frames[i].slots + 0 = frame.slots - frames[i].slots + 1
        BY <1>2, <4>3
      <4> QED BY <3>2, <3>3, <4>1, <4>2, <4>4
    <3>5. CASE i # N - 1
      <4>1. i + 1 \in 1 .. N - 1
        BY <1>2, <3>5, Shorter
      <4>2. WindowEnd(i)' = frames[i + 1].slots /\ Pending(i)' = 1
        BY <1>3, <3>5, <4>1 DEF WindowEnd, Pending
      <4> QED BY <3>2, <3>3, <4>2
    <3> QED BY <3>4, <3>5
  <2>4. WindowsExact'
    BY <1>4, <2>1, <2>3 DEF WindowsExact, Idle
  <2>5. frames'[1].slots = 0 /\ frames'[1].function \in Scripts
    BY <1>1, <1>3, <2>2 DEF Exact
  <2> QED BY <2>1, <2>4, <2>5 DEF Exact, Idle
<1> QED BY <1>5, <1>6

(* A line begins on an empty stack.                                        *)
LEMMA InterpretExact ==
  ASSUME IInv, Exact, NEW f \in Scripts, Interpret(f), status' # "RUNTIME_ERROR"
  PROVE  Exact'
<1> DEFINE r == NewFrame(f, ScriptClosure, 0)
<1>1. Idle /\ sp = 0 /\ frames = << >> /\ Len(frames) = 0
  BY EmptySeq DEF Interpret, Exact, WindowsExact
<1>2. CASE status' = "TERMINATED"
  BY <1>2, EndedExact
<1>3. CASE status' # "TERMINATED"
  <2>1. /\ sp' = sp + 1 /\ frames' = Append(frames, NewFrame(f, ScriptClosure, sp))
        /\ status' = "RUNNING"
    BY <1>3 DEF Interpret, Terminate, Traceback
  <2>2. sp' = 1 /\ frames' = <<r>>
    BY <1>1, <2>1
  <2>3. r.slots = 0 /\ r.function = f /\ r.ip = 0
    BY DEF NewFrame
  <2>4. Heights[f][0] = 1
    BY LibraryFunction, LibraryAssumption DEF Verified, VerifiedScript, Flows
  <2> HIDE DEF r
  <2>5. Len(frames') = 1 /\ DOMAIN frames' = {1} /\ frames'[1] = r
    BY <2>2
  <2>6. WindowEnd(1)' - frames'[1].slots + Pending(1)' = Expected(1)'
    <3>1. WindowEnd(1)' = 1 /\ Pending(1)' = 0 /\ Expected(1)' = 1
      BY <2>1, <2>2, <2>3, <2>4, <2>5 DEF WindowEnd, Pending, Expected
    <3> QED BY <2>3, <2>5, <3>1
  <2>7. WindowsExact'
    BY <2>1, <2>5, <2>6 DEF WindowsExact, Idle
  <2> QED BY <2>1, <2>3, <2>5, <2>7 DEF Exact, Idle
<1> QED BY <1>2, <1>3

LEMMA RejectedExact == ASSUME Exact, InterpretRejected PROVE Exact'
<1>1. /\ Idle /\ sp' = sp /\ frames' = frames /\ status' = "COMPILE_ERROR"
      /\ sp = 0 /\ frames = << >>
  BY DEF InterpretRejected, Exact, WindowsExact
<1> QED BY <1>1 DEF Exact, WindowsExact, Idle

LEMMA StepExact ==
  ASSUME IInv, Exact, Step, CleanStep
  PROVE  Exact'
<1>1. status = "RUNNING"
  BY StepRuns
<1>2. ASSUME Straight PROVE Exact'
  <2>1. CASE Stops
    BY <2>1, EndedExact DEF Stops, CleanStep
  <2> QED BY <1>1, <1>2, <2>1, MovedExact DEF Straight
<1>3. CASE OpReturn
  BY <1>3, ReturnedExact
<1>4. CASE CallClosure
  <2>1. OpAt(Code, frame.ip) = OP_CALL
    BY <1>4 DEF CallClosure, Running
  <2> QED BY <1>1, <1>2, <1>4, <2>1, CallClosureMoves, EnteredExact DEF Straight
<1>5. CASE CallNonCallable
  BY <1>2, <1>5, CallNonCallableStops
<1>6. CASE ~OpReturn /\ ~OpCall
  BY <1>2, <1>6, OpConstantMoves, OpLiteralMoves, OpDropMoves, OpGetGlobalMoves,
     OpSetGlobalMoves, OpDefineGlobalMoves, OpGetLocalMoves, OpSetLocalMoves,
     OpGetUpvalueMoves, OpSetUpvalueMoves, OpBinaryMoves, OpUnaryMoves, OpJumpMoves,
     OpClosureMoves DEF Step
<1> QED BY <1>3, <1>4, <1>5, <1>6 DEF OpCall, CleanStep

LEMMA NextExact == IInv /\ Exact /\ [Next]_vars /\ [CleanStep]_vars => Exact'
<1>1. ASSUME IInv, Exact, Next, CleanStep PROVE Exact'
  BY <1>1, StepExact, InterpretExact, RejectedExact DEF Next, CleanStep
<1>2. ASSUME Exact, UNCHANGED vars PROVE Exact'
  BY <1>2 DEF vars, Exact, WindowsExact, WindowEnd, Expected, Pending, Idle
<1> QED BY <1>1, <1>2

(* While no line fails and no native is called, every frame's window is    *)
(* exactly what its code counts on, so that each local is where the        *)
(* compiler put it, and nothing is left on the stack between two lines.    *)
THEOREM WindowsAreExact == Spec /\ [][CleanStep]_vars => []WindowsExact
<1>1. Init => Exact
  BY EmptySeq DEF Init, Exact, WindowsExact, Idle
<1>2. IInv /\ Exact /\ [Next]_vars /\ [CleanStep]_vars => Exact'
  BY NextExact
<1>3. Exact => WindowsExact
  BY DEF Exact
<1> QED BY <1>1, <1>2, <1>3, Invariant, PTL DEF Spec

-----------------------------------------------------------------------------
(* The cells that the upvalues of the c-th closure, and of the value v,    *)
(* point to.                                                               *)
Targets(cs, c) == {cs[c].upvalues[u] : u \in DOMAIN cs[c].upvalues}
Points(cs, v) == IF v.type = "CLOSURE" THEN Targets(cs, v.val) ELSE {}

(* A clean session in which a closure that captured something stays on the *)
(* stack, in the window of its call: it is never assigned to a variable,   *)
(* made a global or returned.                                              *)
EscapeOps == {OP_SET_GLOBAL, OP_DEFINE_GLOBAL, OP_SET_LOCAL, OP_SET_UPVALUE, OP_RETURN}

HomeStep ==
  /\ CleanStep
  /\ status = "RUNNING" /\ OpAt(Code, frame.ip) \in EscapeOps
       => Points(closures, Peek(0)) = {}

-----------------------------------------------------------------------------
(* The inductive invariant.                                                *)

(* The cell u is a local of the i-th frame, one that may be captured.      *)
LocalOf(u, i) ==
  /\ frames[i].slots < u
  /\ u < frames[i].slots + Locals[frames[i].function][frames[i].ip]
  /\ i # Len(frames) => u < frames[i + 1].slots

Housed(u, k) == \E i \in 1 .. k : LocalOf(u, i)

(* A closure on the stack points to nothing above itself, and to locals.   *)
CellOK(s) == \A u \in Points(closures, mem[s]) : u <= s /\ Housed(u, Len(frames))

(* A closure that runs points to nothing above its slot 0, and to locals   *)
(* of the calls below it.                                                  *)
FrameOK(j) ==
  frames[j].closure \in DOMAIN closures =>
    \A u \in Targets(closures, frames[j].closure) :
      u <= frames[j].slots /\ Housed(u, j - 1)

GlobalsFree == \A x \in Names : Points(closures, globals[x]) = {}

Nested ==
  /\ GlobalsFree
  /\ status = "RUNNING" => /\ \A s \in 0 .. sp - 1 : CellOK(s)
                           /\ \A j \in 1 .. Len(frames) : FrameOK(j)

-----------------------------------------------------------------------------
(* What the pointers are.                                                  *)

LEMMA TargetsTyped ==
  ASSUME TypeOK, NEW c \in DOMAIN closures
  PROVE  /\ Targets(closures, c) \subseteq 0 .. STACK_MAX - 1
         /\ \A i \in 1 .. Library[closures[c].function].upvalueCount :
              closures[c].upvalues[i] \in Targets(closures, c)
<1>1. /\ closures[c] \in ClosureRecord
      /\ Len(closures[c].upvalues) = Library[closures[c].function].upvalueCount
  BY LenProperties, ElementOfSeq DEF TypeOK, ClosuresOK
<1>2. closures[c].upvalues \in Seq(0 .. STACK_MAX - 1)
  BY <1>1 DEF ClosureRecord
<1>3. DOMAIN closures[c].upvalues = 1 .. Len(closures[c].upvalues)
  BY <1>2, LenProperties
<1>4. \A i \in DOMAIN closures[c].upvalues : closures[c].upvalues[i] \in 0 .. STACK_MAX - 1
  BY <1>2, <1>3, ElementOfSeq
<1> QED BY <1>1, <1>3, <1>4 DEF Targets

LEMMA PointsTyped ==
  ASSUME TypeOK, NEW v \in Value
  PROVE  Points(closures, v) \subseteq 0 .. STACK_MAX - 1
<1>1. v.type = "CLOSURE" => v.val \in DOMAIN closures
  BY DEF Value, Nil, NativeClock
<1> QED BY <1>1, TargetsTyped DEF Points

(* Closures are only ever added, so a value keeps its pointers.            *)
LEMMA PointsKept ==
  ASSUME TypeOK, ClosuresKept, NEW v \in Value
  PROVE  Points(closures', v) = Points(closures, v)
<1>1. v.type = "CLOSURE" => v.val \in 1 .. Len(closures)
  <2>1. DOMAIN closures = 1 .. Len(closures)
    BY LenProperties DEF TypeOK, ClosuresOK
  <2> QED BY <2>1 DEF Value, Nil, NativeClock
<1>2. v.type = "CLOSURE" => closures'[v.val] = closures[v.val]
  BY <1>1 DEF ClosuresKept
<1> QED BY <1>2 DEF Points, Targets

LEMMA ScalarPoints ==
  /\ \A cs, x : Points(cs, Number(x)) = {}
  /\ \A cs, b : Points(cs, Bool(b)) = {}
  /\ \A cs, f : Points(cs, FunctionObj(f)) = {}
  /\ \A cs : Points(cs, Nil) = {} /\ Points(cs, NativeClock) = {}
             /\ Points(cs, Undefined) = {}
BY DEF Points, Number, Bool, Nil, FunctionObj, NativeClock, Undefined

(* The window of the running frame, in a clean session.                    *)
LEMMA HereExact ==
  ASSUME IInv, Exact, status = "RUNNING"
  PROVE  sp = frame.slots + Height(frame.ip)
<1>1. sp - frame.slots + 0 = Height(frame.ip)
  BY Here DEF IInv, Exact, WindowsExact, WindowEnd, Pending, Expected, Height, frame
<1> QED BY <1>1, HereSizes

(* Slots and locals counts are numbers.                                    *)
LEMMA FrameSizes ==
  ASSUME IInv, NEW i \in 1 .. Len(frames)
  PROVE  /\ frames[i].slots \in Int
         /\ Locals[frames[i].function][frames[i].ip] \in Nat
<1>1. frames[i] \in FrameRecord /\ i \in DOMAIN frames
  BY LenProperties, ElementOfSeq DEF IInv, TypeOK, FramesOK
<1>2. frames[i].function \in DOMAIN Library /\ frames[i].slots \in 0 .. STACK_MAX - 1
  BY <1>1 DEF FrameRecord
<1>3. frames[i].ip \in DOMAIN Heights[frames[i].function]
  BY <1>1 DEF IInv, WindowsCover
<1>4. Locals[frames[i].function] \in [DOMAIN Heights[frames[i].function] -> Nat]
  BY <1>2, LocalsAssumption DEF KeepsLocals
<1> QED BY <1>2, <1>3, <1>4

-----------------------------------------------------------------------------
(* A handler that goes on.                                                 *)

(* A cell of the stack holds what it held, or what a cell below held, or a *)
(* value without pointers.                                                 *)
Origin(s) ==
  \/ Points(closures', mem'[s]) = {}
  \/ \E r \in 0 .. s : r < sp /\ mem'[s] = mem[r]

(* The locals the code counts on after n bytes.                            *)
LocalsFlow(n) ==
  LET l == Locals[frame.function]
  IN  /\ l[frame.ip + n] \in Nat
      /\ l[frame.ip + n] >= l[frame.ip] \/ l[frame.ip + n] >= Height(frame.ip + n)

LEMMA LocalsHere ==
  ASSUME IInv, status = "RUNNING"
  PROVE  /\ Locals[frame.function] \in [DOMAIN Heights[frame.function] -> Nat]
         /\ \A m \in Int : /\ frame.ip + m \in Successors(Library, Code, frame.ip)
                           /\ frame.ip + m \in DOMAIN Heights[frame.function]
                           => LocalsFlow(m)
         /\ OpAt(Code, frame.ip) = OP_CALL =>
              Locals[frame.function][frame.ip] < Height(frame.ip) - Arg
         /\ OpAt(Code, frame.ip) = OP_CLOSURE =>
              \A i \in 1 .. Library[Constant.val].upvalueCount :
                CapturesLocal(Code, frame.ip, i) =>
                  \A n \in Successors(Library, Code, frame.ip) :
                    CaptureIndex(Code, frame.ip, i)
                      \in 1 .. Locals[frame.function][n] - 1
<1> DEFINE h == Heights[frame.function]
           l == Locals[frame.function]
<1>1. /\ frame.function \in DOMAIN Library /\ frame.ip \in DOMAIN h
      /\ Code = Library[frame.function]
  BY Here DEF IInv
<1>2. KeepsLocals(Library, Code, h, l)
  BY <1>1, LocalsAssumption
<1> HIDE DEF h, l
<1>3. /\ l \in [DOMAIN h -> Nat]
      /\ \A n \in Successors(Library, Code, frame.ip) :
           l[n] >= l[frame.ip] \/ l[n] >= h[n]
      /\ OpAt(Code, frame.ip) = OP_CALL =>
           l[frame.ip] < h[frame.ip] - Operand(Code, frame.ip)
      /\ OpAt(Code, frame.ip) = OP_CLOSURE =>
           \A i \in 1 .. Library[ConstantAt(Code, frame.ip).val].upvalueCount :
             CapturesLocal(Code, frame.ip, i) =>
               \A n \in Successors(Library, Code, frame.ip) :
                 CaptureIndex(Code, frame.ip, i) \in 1 .. l[n] - 1
  BY <1>1, <1>2, Zenon DEF KeepsLocals, h
<1>4. \A m \in Int : /\ frame.ip + m \in Successors(Library, Code, frame.ip)
                     /\ frame.ip + m \in DOMAIN h
                     => LocalsFlow(m)
  <2> SUFFICES ASSUME NEW m \in Int, NEW n \in DOMAIN h, n = frame.ip + m,
                      n \in Successors(Library, Code, frame.ip)
               PROVE  LocalsFlow(m)
    OBVIOUS
  <2>1. l[n] \in Nat /\ (l[n] >= l[frame.ip] \/ l[n] >= h[n])
    BY <1>3
  <2> QED BY <2>1 DEF LocalsFlow, Height, h, l
<1> QED BY <1>3, <1>4, Zenon DEF Arg, Constant, Height, h, l

(* The frames below the running one house what they housed, and the        *)
(* running one all that is still on the stack.                             *)
LEMMA HousedStill ==
  ASSUME IInv, Exact, status = "RUNNING", NEW n \in Int, NEW d \in Int, Moves(n, d),
         LocalsFlow(n), NEW u \in Int
  PROVE  /\ \A k \in Nat : k < Len(frames) /\ Housed(u, k) => Housed(u, k)'
         /\ Housed(u, Len(frames)) /\ u < sp' => Housed(u, Len(frames))'
         /\ Len(frames') = Len(frames) /\ DOMAIN frames' = 1 .. Len(frames)
         /\ frames'[Len(frames)].slots = frame.slots
         /\ frames'[Len(frames)].function = frame.function
         /\ frames'[Len(frames)].ip = frame.ip + n
         /\ \A i \in 1 .. Len(frames) : /\ frames'[i].closure = frames[i].closure
                                        /\ frames'[i].slots = frames[i].slots
         /\ sp' = frame.slots + Height(frame.ip + n)
<1> DEFINE N == Len(frames)
<1>1. /\ N \in Nat /\ N >= 1 /\ N \in 1 .. N
      /\ frame.function \in DOMAIN Library /\ frame.slots \in Int
      /\ sp \in Int /\ Height(frame.ip) \in Int
      /\ sp = frame.slots + Height(frame.ip)
  <2>1. N \in Nat /\ N >= 1 /\ frame.function \in DOMAIN Library
    BY Here DEF IInv
  <2> QED BY <2>1, HereSizes, HereExact
<1>2. /\ status' = "RUNNING" /\ frames' = Advanced(n) /\ sp' = sp + d
      /\ frame.ip + n \in DOMAIN Heights[frame.function]
      /\ Height(frame.ip + n) = Height(frame.ip) + d
  BY DEF Moves, Continue, Flows, Height
<1>3. frame.ip + n \in Nat
  BY <1>1, <1>2, LibraryOffset
<1>4. /\ frames' \in Seq(FrameRecord) /\ Len(frames') = N
      /\ \A i \in 1 .. N :
           /\ frames'[i].function = frames[i].function
           /\ frames'[i].slots = frames[i].slots
           /\ frames'[i].closure = frames[i].closure
           /\ frames'[i].ip = IF i = N THEN frame.ip + n ELSE frames[i].ip
  BY <1>2, <1>3, AdvancedFrames DEF IInv
<1>5. DOMAIN frames' = 1 .. N
  BY <1>4, LenProperties
<1>6. sp' = frame.slots + Height(frame.ip + n)
  <2>1. \A a, b, c \in Int : (a + b) + c = a + (b + c)
    OBVIOUS
  <2> QED BY <1>1, <1>2, <2>1
<1>7. ASSUME NEW i \in 1 .. N, i # N, LocalOf(u, i)
      PROVE  LocalOf(u, i)'
  <2>1. i + 1 \in 1 .. N
    BY <1>1, <1>7, NextIndex
  <2>2. /\ frames'[i].slots = frames[i].slots /\ frames'[i].function = frames[i].function
        /\ frames'[i].ip = frames[i].ip /\ frames'[i + 1].slots = frames[i + 1].slots
    BY <1>4, <1>7, <2>1
  <2>3. /\ frames[i].slots < u /\ u < frames[i + 1].slots
        /\ u < frames[i].slots + Locals[frames[i].function][frames[i].ip]
    BY <1>7 DEF LocalOf
  <2> QED BY <2>2, <2>3 DEF LocalOf
<1>8. ASSUME NEW i \in 1 .. N, i = N, LocalOf(u, i), u < sp'
      PROVE  LocalOf(u, i)'
  <2> DEFINE l == Locals[frame.function]
             a == l[frame.ip]
             b == l[frame.ip + n]
  <2>1. frame.slots < u /\ u < frame.slots + a
    BY <1>8 DEF LocalOf, frame
  <2>2. /\ a \in Nat /\ b \in Nat
        /\ b >= a \/ b >= Height(frame.ip + n)
    BY <1>1, FrameSizes DEF LocalsFlow, frame
  <2>3. u < frame.slots + b
    <3>1. Height(frame.ip + n) \in Nat
      BY <1>1, <1>2, LibraryOffset DEF Height
    <3>2. u < frame.slots + Height(frame.ip + n)
      BY <1>6, <1>8
    <3> HIDE DEF a, b
    <3> QED BY <1>1, <2>1, <2>2, <3>1, <3>2
  <2>4. /\ frames'[i].slots = frame.slots /\ frames'[i].function = frame.function
        /\ frames'[i].ip = frame.ip + n /\ i = Len(frames')
    BY <1>1, <1>4, <1>8 DEF frame
  <2> QED BY <2>1, <2>3, <2>4 DEF LocalOf
<1>9. ASSUME NEW k \in Nat, k < N, Housed(u, k)
      PROVE  Housed(u, k)'
  <2>1. PICK i \in 1 .. k : LocalOf(u, i)
    BY <1>9 DEF Housed
  <2>2. i \in 1 .. N /\ i # N
    BY <1>1, <1>9
  <2>3. LocalOf(u, i)'
    BY <1>7, <2>1, <2>2
  <2> QED BY <2>3 DEF Housed
<1>10. ASSUME Housed(u, N), u < sp'
       PROVE  Housed(u, Len(frames))'
  <2>1. PICK i \in 1 .. N : LocalOf(u, i)
    BY <1>10 DEF Housed
  <2>2. LocalOf(u, i)'
    <3>1. CASE i = N
      BY <1>8, <1>10, <2>1, <3>1
    <3>2. CASE i # N
      BY <1>7, <2>1, <3>2
    <3> QED BY <3>1, <3>2
  <2> QED BY <1>4, <2>2 DEF Housed
<1> QED BY <1>1, <1>4, <1>5, <1>6, <1>9, <1>10 DEF frame

(* A frame runs a closure of the machine, if any, that was there before.   *)
LEMMA RunningClosures ==
  ASSUME IInv, ClosuresKept, DOMAIN closures' = 1 .. Len(closures'), NEW j \in 1 .. Len(frames)
  PROVE  frames[j].closure \in DOMAIN closures' =>
           /\ frames[j].closure \in DOMAIN closures
           /\ Targets(closures', frames[j].closure) = Targets(closures, frames[j].closure)
<1>1. frames[j] \in FrameRecord
  BY LenProperties, ElementOfSeq DEF IInv, TypeOK, FramesOK
<1>2. frames[j].closure \in -1 .. Len(closures)
  BY <1>1 DEF FrameRecord
<1>3. DOMAIN closures = 1 .. Len(closures) /\ Len(closures) \in Nat
  BY LenProperties DEF IInv, TypeOK, ClosuresOK
<1>4. frames[j].closure \in DOMAIN closures' => frames[j].closure \in 1 .. Len(closures)
  BY <1>2, <1>3
<1> QED BY <1>3, <1>4 DEF ClosuresKept, Targets

LEMMA MovedNested ==
  ASSUME IInv, Exact, Nested, status = "RUNNING", NEW n \in Int, NEW d \in Int,
         Moves(n, d), LocalsFlow(n), ClosuresKept, DOMAIN closures' = 1 .. Len(closures'),
         \A s \in 0 .. sp' - 1 : Origin(s) \/ CellOK(s)', GlobalsFree'
  PROVE  Nested'
<1> DEFINE N == Len(frames)
<1>1. /\ N \in Nat /\ N >= 1 /\ STACK_MAX \in Nat /\ sp \in 0 .. STACK_MAX
      /\ Len(frames') = N
      /\ \A i \in 1 .. N : /\ frames'[i].closure = frames[i].closure
                           /\ frames'[i].slots = frames[i].slots
  <2>1. N \in Nat /\ N >= 1 /\ 0 \in Int
    BY Here DEF IInv
  <2> QED BY <2>1, HereSizes, HousedStill
<1>2. ASSUME NEW s \in 0 .. sp' - 1
      PROVE  CellOK(s)'
  <2>1. CASE Points(closures', mem'[s]) = {}
    BY <2>1 DEF CellOK
  <2>2. ASSUME NEW r \in 0 .. s, r < sp, mem'[s] = mem[r]
        PROVE  CellOK(s)'
    <3>1. r \in 0 .. sp - 1
      BY <1>1, <2>2
    <3>2. mem[r] \in Value
      BY <3>1 DEF IInv, NoUninitRead, Written
    <3>3. Points(closures', mem'[s]) = Points(closures, mem[r])
      BY <2>2, <3>2, PointsKept DEF IInv
    <3>4. ASSUME NEW u \in Points(closures, mem[r])
          PROVE  u <= s /\ Housed(u, Len(frames))'
      <4>1. u \in Int
        BY <3>2, PointsTyped DEF IInv
      <4>2. u <= r /\ Housed(u, N)
        BY <3>1 DEF Nested, CellOK
      <4>3. PICK t \in Int : t = sp'
        BY <1>1 DEF Moves
      <4>4. u <= s /\ u < t
        <5>1. s \in 0 .. t - 1 /\ r \in 0 .. s
          BY <2>2, <4>3
        <5> QED BY <4>1, <4>2, <5>1
      <4> QED BY <4>1, <4>2, <4>3, <4>4, HousedStill
    <3> QED BY <3>3, <3>4 DEF CellOK
  <2> QED BY <1>2, <2>1, <2>2 DEF Origin
<1>3. ASSUME NEW j \in 1 .. N
      PROVE  FrameOK(j)'
  <2> SUFFICES ASSUME frames[j].closure \in DOMAIN closures',
                      NEW u \in Targets(closures', frames[j].closure)
               PROVE  u <= frames[j].slots /\ Housed(u, j - 1)'
    BY <1>1 DEF FrameOK
  <2>1. /\ frames[j].closure \in DOMAIN closures
        /\ u \in Targets(closures, frames[j].closure)
    BY RunningClosures
  <2>2. u \in Int
    BY <2>1, TargetsTyped DEF IInv
  <2>3. u <= frames[j].slots /\ Housed(u, j - 1)
    BY <2>1 DEF Nested, FrameOK
  <2>4. j - 1 \in Nat /\ j - 1 < N
    BY <1>1
  <2> QED BY <2>2, <2>3, <2>4, HousedStill
<1> QED BY <1>1, <1>2, <1>3 DEF Nested

-----------------------------------------------------------------------------
(* The handlers go on where the code says.                                 *)

Goes == \E m \in Int : Continue(m) /\ frame.ip + m \in Successors(Library, Code, frame.ip)

LEMMA NextSucceeds ==
  ASSUME NEW m, Continue(m), m = InstructionLength(Library, Code, frame.ip), m \in Int,
         OpAt(Code, frame.ip) \notin JumpOps \cup {OP_RETURN}
  PROVE  Goes
<1>1. Successors(Library, Code, frame.ip)
        = {frame.ip + InstructionLength(Library, Code, frame.ip)}
  BY Zenon DEF Successors, JumpOps
<1> QED BY <1>1 DEF Goes

LEMMA JumpGoes == IInv /\ (OpJump \/ OpLoop \/ OpJumpIfFalse) => Goes
<1> SUFFICES ASSUME IInv, OpJump \/ OpLoop \/ OpJumpIfFalse PROVE Goes
  OBVIOUS
<1> DEFINE s == ShortOperand(Code, frame.ip)
<1>1. /\ status = "RUNNING" /\ OpAt(Code, frame.ip) \in JumpOps
  BY DEF OpJump, OpLoop, OpJumpIfFalse, Running
<1>2. frame.ip \in Nat /\ s \in Nat
  BY <1>1, Here, LibraryOperands DEF IInv
<1>3. InstructionLength(Library, Code, frame.ip) = 3
  BY <1>1 DEF InstructionLength
<1>4. CASE OpJump
  <2>1. Successors(Library, Code, frame.ip) = {(frame.ip + 3) + s}
    BY <1>3, <1>4 DEF OpJump, Running, Successors
  <2>2. Continue(3 + s)
    BY <1>4 DEF OpJump
  <2> HIDE DEF s
  <2>3. 3 + s \in Int /\ frame.ip + (3 + s) = (frame.ip + 3) + s
    BY <1>2
  <2> QED BY <2>1, <2>2, <2>3 DEF Goes
<1>5. CASE OpLoop
  <2>1. Successors(Library, Code, frame.ip) = {(frame.ip + 3) - s}
    BY <1>3, <1>5 DEF OpLoop, Running, Successors
  <2>2. Continue(3 - s)
    BY <1>5 DEF OpLoop
  <2> HIDE DEF s
  <2>3. 3 - s \in Int /\ frame.ip + (3 - s) = (frame.ip + 3) - s
    BY <1>2
  <2> QED BY <2>1, <2>2, <2>3 DEF Goes
<1>6. CASE OpJumpIfFalse
  <2>1. Successors(Library, Code, frame.ip) = {frame.ip + 3, (frame.ip + 3) + s}
    BY <1>3, <1>6 DEF OpJumpIfFalse, Running, Successors
  <2>2. Continue(3 + s) \/ Continue(3)
    BY <1>6 DEF OpJumpIfFalse
  <2> HIDE DEF s
  <2>3. 3 + s \in Int /\ 3 \in Int /\ frame.ip + (3 + s) = (frame.ip + 3) + s
    BY <1>2
  <2> QED BY <2>1, <2>2, <2>3 DEF Goes
<1> QED BY <1>4, <1>5, <1>6

LEMMA ClosureGoes == IInv /\ OpClosure /\ status' = "RUNNING" => Goes
<1> SUFFICES ASSUME IInv, OpClosure, status' = "RUNNING" PROVE Goes
  OBVIOUS
<1> DEFINE m == Library[Constant.val].upvalueCount
           k == 2 + 2 * m
<1>1. status = "RUNNING" /\ OpAt(Code, frame.ip) = OP_CLOSURE
  BY DEF OpClosure, Running
<1>2. m \in Nat
  BY <1>1, Here, LibraryConstant, LibraryFunction DEF IInv, Constant
<1>3. OpAt(Code, frame.ip) \notin JumpOps \cup {OP_RETURN}
  BY <1>1
<1>4. InstructionLength(Library, Code, frame.ip) = k
  BY <1>1, <1>3, Zenon DEF InstructionLength, Constant
<1>5. Continue(k)
  BY DEF OpClosure, Push, Terminate
<1>6. k \in Int
  BY <1>2
<1> HIDE DEF k
<1> QED BY <1>3, <1>4, <1>5, <1>6, NextSucceeds

LEMMA PlainGoes ==
  ASSUME IInv, Step, status' = "RUNNING", ~OpReturn, ~OpCall, ~OpClosure,
         ~(OpJump \/ OpLoop \/ OpJumpIfFalse)
  PROVE  Goes
<1>1. ASSUME NEW op \in LiteralOps \cup BinaryOps
                        \cup {OP_POP, OP_PRINT, OP_NOT, OP_NEGATE},
             Running(op), Continue(1)
      PROVE  Goes
  <2>1. /\ InstructionLength(Library, Code, frame.ip) = 1
        /\ OpAt(Code, frame.ip) \notin JumpOps \cup {OP_RETURN}
    BY <1>1 DEF Running, InstructionLength
  <2> QED BY <1>1, <2>1, NextSucceeds
<1>2. ASSUME NEW op \in ByteOps, Running(op), Continue(2)
      PROVE  Goes
  <2>1. /\ InstructionLength(Library, Code, frame.ip) = 2
        /\ OpAt(Code, frame.ip) \notin JumpOps \cup {OP_RETURN}
    BY <1>2 DEF Running, InstructionLength
  <2> QED BY <1>2, <2>1, NextSucceeds
<1>3. CASE OpLiteral \/ OpPop \/ OpPrint
  BY <1>1, <1>3 DEF OpLiteral, OpPop, OpPrint, Push, Terminate
<1>4. CASE OpEqual \/ OpLess \/ OpAdd \/ OpArithmetic
  <2>1. PICK op \in BinaryOps : Running(op) /\ (Continue(1) \/ RuntimeError(1))
    BY <1>4 DEF OpEqual, OpLess, OpAdd, OpArithmetic, Replace
  <2> QED BY <1>1, <2>1 DEF RuntimeError, Traceback
<1>5. CASE OpNot \/ OpNegate
  <2>1. PICK op \in {OP_NOT, OP_NEGATE} : Running(op) /\ (Continue(1) \/ RuntimeError(1))
    BY <1>5 DEF OpNot, OpNegate, Replace
  <2> QED BY <1>1, <2>1 DEF RuntimeError, Traceback
<1>6. CASE OpConstant \/ OpGetLocal \/ OpSetLocal \/ OpGetUpvalue \/ OpSetUpvalue
  BY <1>2, <1>6 DEF OpConstant, OpGetLocal, OpSetLocal, OpGetUpvalue, OpSetUpvalue,
                    Push, Terminate
<1>7. CASE OpGetGlobal \/ OpSetGlobal \/ OpDefineGlobal
  <2>1. PICK op \in NameOps : Running(op) /\ (Continue(2) \/ RuntimeError(2) \/ Terminate)
    BY <1>7 DEF OpGetGlobal, OpSetGlobal, OpDefineGlobal, Push
  <2> QED BY <1>2, <2>1 DEF RuntimeError, Traceback, Terminate
<1> QED BY <1>3, <1>4, <1>5, <1>6, <1>7 DEF Step

(* What is known of a step that goes straight on.                          *)
LEMMA StraightOn ==
  ASSUME IInv, status = "RUNNING", status' = "RUNNING", Straight, Goes
  PROVE  \E n, d \in Int : Moves(n, d) /\ LocalsFlow(n)
                           /\ frame.ip + n \in Successors(Library, Code, frame.ip)
<1>1. PICK n \in Int, d \in Int : Moves(n, d)
  BY DEF Straight, Stops
<1>2. PICK m \in Int : Continue(m) /\ frame.ip + m \in Successors(Library, Code, frame.ip)
  BY DEF Goes
<1>3. Advanced(n) = Advanced(m)
  BY <1>1, <1>2 DEF Moves, Continue
<1>4. /\ Len(frames) \in DOMAIN frames /\ frame \in FrameRecord
      /\ frame.ip + n \in DOMAIN Heights[frame.function]
  <2>1. Len(frames) \in 1 .. Len(frames) /\ DOMAIN frames = 1 .. Len(frames)
    BY Here DEF IInv
  <2> QED BY <1>1, <2>1, ElementOfSeq DEF IInv, TypeOK, FramesOK, frame, Moves, Flows
<1>5. \A k \in Int : Advanced(k)[Len(frames)].ip = frame.ip + k
  <2>1. frame.ip \in Nat /\ \A k : [frame EXCEPT !.ip = frame.ip + k].ip = frame.ip + k
    BY <1>4 DEF FrameRecord
  <2> QED BY <1>4, <2>1 DEF Advanced, frame
<1>6. frame.ip + n = frame.ip + m
  BY <1>3, <1>5
<1> QED BY <1>1, <1>2, <1>4, <1>6, LocalsHere

-----------------------------------------------------------------------------
(* Where the handlers get the values they leave on the stack.              *)

Origins == \A s \in 0 .. sp' - 1 : Origin(s)

(* A value is stored, which has no pointers or comes from a cell below.    *)
LEMMA StoreOrigin ==
  ASSUME IInv, NEW k \in Int, NEW v, mem' = [mem EXCEPT ![k] = v],
         NEW t \in 0 .. STACK_MAX, sp' = t, t <= sp \/ (k = sp /\ t = sp + 1),
         Points(closures', v) = {} \/ \E r \in 0 .. k : r < sp /\ v = mem[r]
  PROVE  Origins
<1>1. /\ mem \in [0 .. STACK_MAX - 1 -> Value \cup {Uninit}]
      /\ sp \in 0 .. STACK_MAX /\ STACK_MAX \in Nat
  BY SizesAssumption DEF IInv, TypeOK, MemoryOK
<1>2. ASSUME NEW s \in 0 .. t - 1
      PROVE  Origin(s)
  <2>1. s \in 0 .. STACK_MAX - 1
    BY <1>1
  <2>2. CASE s = k
    <3>1. mem'[s] = v
      BY <1>1, <2>1, <2>2
    <3> QED BY <2>2, <3>1 DEF Origin
  <2>3. CASE s # k
    <3>1. mem'[s] = mem[s] /\ s < sp /\ s \in 0 .. s
      BY <1>1, <2>1, <2>3
    <3> QED BY <3>1 DEF Origin
  <2> QED BY <2>2, <2>3
<1> QED BY <1>2 DEF Origins

(* Nothing is stored.                                                      *)
LEMMA KeepOrigin ==
  ASSUME IInv, mem' = mem, NEW t \in Int, sp' = t, t <= sp
  PROVE  Origins
<1>1. sp \in Int
  BY DEF IInv, TypeOK, MemoryOK
<1>2. ASSUME NEW s \in 0 .. t - 1
      PROVE  s \in 0 .. s /\ s < sp
  BY <1>1
<1> QED BY <1>2 DEF Origins, Origin

LEMMA PushOrigin ==
  ASSUME IInv, NEW n, NEW v, Push(v, n), status = "RUNNING", status' = "RUNNING",
         Points(closures', v) = {} \/ \E r \in 0 .. sp - 1 : v = mem[r]
  PROVE  Origins
<1>1. sp < STACK_MAX /\ mem' = [mem EXCEPT ![sp] = v] /\ sp' = sp + 1
  BY DEF Push, Terminate
<1>2. sp \in Int /\ sp + 1 \in 0 .. STACK_MAX
  BY <1>1, HereSizes
<1>3. PICK t \in 0 .. STACK_MAX : t = sp + 1
  BY <1>2
<1>4. ASSUME NEW r \in 0 .. sp - 1
      PROVE  r \in 0 .. sp /\ r < sp
  BY <1>2
<1> QED BY <1>1, <1>2, <1>3, <1>4, StoreOrigin

LEMMA ReplaceOrigin ==
  ASSUME IInv, NEW n, NEW k \in Nat \ {0}, NEW v, Replace(k, v, n), status = "RUNNING",
         k + 1 <= Height(frame.ip), Points(closures', v) = {}
  PROVE  Origins
<1>1. PICK j \in Int, t \in Int : j = sp - k /\ t = sp - k + 1
  BY HereSizes
<1>2. t \in 0 .. STACK_MAX /\ t <= sp
  BY <1>1, HereSizes
<1>3. mem' = [mem EXCEPT ![j] = v] /\ sp' = t
  BY <1>1 DEF Replace
<1> QED BY <1>2, <1>3, StoreOrigin

(* A value without pointers is assigned.                                   *)
LEMMA AssignOrigin ==
  ASSUME IInv, status = "RUNNING", NEW k \in Int, NEW v, mem' = [mem EXCEPT ![k] = v],
         sp' = sp, Points(closures', v) = {}
  PROVE  Origins
<1>1. PICK t \in 0 .. STACK_MAX : t = sp /\ t <= sp
  BY HereSizes
<1> QED BY <1>1, StoreOrigin

(* The handlers that store the result of an operation.                     *)
LEMMA ResultOrigin ==
  ASSUME IInv, Step, status' = "RUNNING",
         OpEqual \/ OpLess \/ OpAdd \/ OpArithmetic \/ OpNot \/ OpNegate
  PROVE  Origins
<1>1. status = "RUNNING"
  BY StepRuns
<1>2. CASE OpEqual \/ OpLess \/ OpAdd \/ OpArithmetic
  <2>1. /\ OpAt(Code, frame.ip) \in BinaryOps
        /\ \E v : Replace(2, v, 1) /\ Points(closures', v) = {}
    BY <1>2, ScalarPoints
       DEF OpEqual, OpLess, OpAdd, OpArithmetic, Running, RuntimeError, Traceback
  <2>2. 2 + 1 <= Height(frame.ip) /\ 2 \in Nat \ {0}
    BY <1>1, <2>1, BinaryHere
  <2> QED BY <1>1, <2>1, <2>2, ReplaceOrigin
<1>3. CASE OpNot \/ OpNegate
  <2>1. /\ OpAt(Code, frame.ip) \in {OP_NOT, OP_NEGATE}
        /\ \E v : Replace(1, v, 1) /\ Points(closures', v) = {}
    BY <1>3, ScalarPoints DEF OpNot, OpNegate, Running, RuntimeError, Traceback
  <2>2. Height(frame.ip) >= 2
    <3>1. CASE OpAt(Code, frame.ip) = OP_NOT
      BY <1>1, <3>1, Here DEF IInv, VerifiedAt, Height, InstructionLength
    <3>2. CASE OpAt(Code, frame.ip) = OP_NEGATE
      BY <1>1, <3>2, Here DEF IInv, VerifiedAt, Height, InstructionLength
    <3> QED BY <2>1, <3>1, <3>2
  <2>3. 1 + 1 <= Height(frame.ip) /\ 1 \in Nat \ {0}
    BY <1>1, <2>2, HereSizes
  <2> QED BY <1>1, <2>1, <2>3, ReplaceOrigin
<1> QED BY <1>2, <1>3

(* There is always slot 0.                                                 *)
LEMMA SlotZero ==
  ASSUME IInv, status = "RUNNING"
  PROVE  Height(frame.ip) >= 1 /\ frame.slots < sp
<1>1. frame.function \in DOMAIN Library /\ frame.ip \in DOMAIN Heights[frame.function]
  BY Here DEF IInv
<1>2. Height(frame.ip) \in Nat \ {0}
  BY <1>1, LibraryFunction DEF Verified, Height
<1> QED BY <1>2, HereSizes

(* The pointers of the running closure.                                    *)
LEMMA OwnUpvalue ==
  ASSUME IInv, Nested, status = "RUNNING", NEW a \in Nat, a < Code.upvalueCount
  PROVE  LET u == closures[frame.closure].upvalues[a + 1]
         IN  u \in 0 .. STACK_MAX - 1 /\ u <= frame.slots /\ Housed(u, Len(frames) - 1)
<1>1. /\ frame.closure \in -1 .. Len(closures) /\ Len(frames) \in 1 .. Len(frames)
      /\ DOMAIN frames = 1 .. Len(frames) /\ frame.function \in DOMAIN Library
      /\ Code = Library[frame.function]
      /\ Len(closures) \in Nat /\ DOMAIN closures = 1 .. Len(closures)
  BY Here, LenProperties DEF IInv, TypeOK, ClosuresOK
<1>2. Code.upvalueCount \in Nat /\ Code.upvalueCount # 0
  BY <1>1, LibraryFunction
<1>3. /\ frame.closure \notin {ScriptClosure, Dangling}
      /\ closures[frame.closure].function = frame.function
  BY <1>1, <1>2 DEF IInv, TypeOK, FramesOK, frame
<1>4. frame.closure \in DOMAIN closures
  BY <1>1, <1>3 DEF ScriptClosure, Dangling
<1>5. a + 1 \in 1 .. Library[closures[frame.closure].function].upvalueCount
  BY <1>1, <1>2, <1>3
<1>6. closures[frame.closure].upvalues[a + 1] \in Targets(closures, frame.closure)
  BY <1>4, <1>5, TargetsTyped DEF IInv
<1>7. Targets(closures, frame.closure) \subseteq 0 .. STACK_MAX - 1
  BY <1>4, TargetsTyped DEF IInv
<1>8. FrameOK(Len(frames))
  BY <1>1 DEF Nested
<1> QED BY <1>4, <1>6, <1>7, <1>8 DEF FrameOK, frame

(* The handlers that read a variable: a global has no pointers, a local    *)
(* and the target of an upvalue are on the stack.                          *)
LEMMA ReadOrigin ==
  ASSUME IInv, Nested, status' = "RUNNING",
         OpConstant \/ OpLiteral \/ OpGetGlobal \/ OpGetLocal \/ OpGetUpvalue
  PROVE  Origins
<1>1. /\ status = "RUNNING" /\ closures' = closures
      /\ sp \in 0 .. STACK_MAX /\ STACK_MAX \in Nat /\ frame.slots \in 0 .. STACK_MAX - 1
      /\ Height(frame.ip) \in Nat /\ sp - frame.slots >= Height(frame.ip)
  <2>1. status = "RUNNING" /\ closures' = closures
    BY DEF OpConstant, OpLiteral, OpGetGlobal, OpGetLocal, OpGetUpvalue, Running
  <2> QED BY <2>1, HereSizes
<1>2. CASE OpConstant
  <2>1. OpAt(Code, frame.ip) = OP_CONSTANT /\ Push(Constant, 2)
    BY <1>2 DEF OpConstant, Running
  <2>2. Constant.type \in {"NUMBER", "STRING"}
    BY <1>1, <2>1, Here DEF IInv, VerifiedAt, Constant, ConstantAt
  <2>3. Points(closures', Constant) = {}
    BY <2>2 DEF Points
  <2> QED BY <1>1, <2>1, <2>3, PushOrigin
<1>3. CASE OpLiteral
  <2>1. \E v : Push(v, 1) /\ Points(closures', v) = {}
    BY <1>3, ScalarPoints DEF OpLiteral
  <2> QED BY <1>1, <2>1, PushOrigin
<1>4. CASE OpGetGlobal
  <2>1. OpAt(Code, frame.ip) = OP_GET_GLOBAL
    BY <1>4 DEF OpGetGlobal, Running
  <2>2. Named /\ Constant.val \in Names
    <3>1. /\ frame.function \in DOMAIN Library /\ Code = Library[frame.function]
          /\ frame.ip \in DOMAIN Heights[frame.function]
      BY <1>1, Here DEF IInv
    <3>2. Constant.type = "STRING" /\ Constant \in ConstantRecord
      BY <2>1, <3>1, LibraryConstant DEF Constant
    <3> QED BY <3>2 DEF Named, ConstantRecord
  <2>3. Push(globals[Constant.val], 2)
    BY <1>4, <2>2 DEF OpGetGlobal, RuntimeError, Traceback
  <2>4. Points(closures', globals[Constant.val]) = {}
    BY <1>1, <2>2 DEF Nested, GlobalsFree
  <2> QED BY <1>1, <2>3, <2>4, PushOrigin
<1>5. CASE OpGetLocal
  <2>1. OpAt(Code, frame.ip) = OP_GET_LOCAL /\ Push(mem[frame.slots + Arg], 2)
    BY <1>5 DEF OpGetLocal, Running
  <2>2. Arg < Height(frame.ip)
    BY <1>1, <2>1, Here DEF IInv, VerifiedAt, Height, Arg
  <2>3. Arg \in 0 .. 255
    BY <1>1, <2>1, ArgHere
  <2>4. frame.slots + Arg \in 0 .. sp - 1
    BY <1>1, <2>2, <2>3
  <2> QED BY <1>1, <2>1, <2>4, PushOrigin
<1>6. CASE OpGetUpvalue
  <2>1. OpAt(Code, frame.ip) = OP_GET_UPVALUE /\ Push(mem[Upvalue], 2)
    BY <1>6 DEF OpGetUpvalue, Running
  <2>2. Arg < Code.upvalueCount
    BY <1>1, <2>1, Here DEF IInv, VerifiedAt, Arg
  <2>3. Arg \in 0 .. 255
    BY <1>1, <2>1, ArgHere
  <2>4. Upvalue \in 0 .. STACK_MAX - 1 /\ Upvalue <= frame.slots
    BY <1>1, <2>2, <2>3, OwnUpvalue DEF Upvalue
  <2>5. frame.slots < sp
    BY <1>1, SlotZero
  <2>6. Upvalue \in 0 .. sp - 1
    BY <1>1, <2>4, <2>5
  <2> QED BY <1>1, <2>1, <2>6, PushOrigin
<1> QED BY <1>2, <1>3, <1>4, <1>5, <1>6

(* The handlers that write a variable or drop a value.                     *)
LEMMA WriteOrigin ==
  ASSUME IInv, HomeStep, Step, status' = "RUNNING",
         \/ OpPop \/ OpPrint \/ OpSetGlobal \/ OpDefineGlobal \/ OpSetLocal
         \/ OpSetUpvalue \/ OpJump \/ OpJumpIfFalse \/ OpLoop
  PROVE  Origins
<1>1. /\ status = "RUNNING" /\ closures' = closures
      /\ sp \in 0 .. STACK_MAX /\ frame.slots \in Int
  <2>1. status = "RUNNING"
    BY StepRuns
  <2>2. closures' = closures
    BY DEF OpPop, OpPrint, OpSetGlobal, OpDefineGlobal, OpSetLocal, OpSetUpvalue,
           OpJump, OpJumpIfFalse, OpLoop
  <2> QED BY <2>1, <2>2, HereSizes
<1>2. ASSUME mem' = mem, sp' = sp \/ sp' = sp - 1
      PROVE  Origins
  <2>1. PICK t \in Int : sp' = t /\ t <= sp
    BY <1>1, <1>2
  <2> QED BY <1>2, <2>1, KeepOrigin
<1>3. CASE \/ OpPop \/ OpPrint \/ OpSetGlobal \/ OpDefineGlobal \/ OpJump
           \/ OpJumpIfFalse \/ OpLoop
  BY <1>2, <1>3 DEF OpPop, OpPrint, OpSetGlobal, OpDefineGlobal, OpJump,
                    OpJumpIfFalse, OpLoop
<1>4. CASE OpSetLocal
  <2>1. /\ OpAt(Code, frame.ip) = OP_SET_LOCAL /\ sp' = sp
        /\ mem' = [mem EXCEPT ![frame.slots + Arg] = Peek(0)]
    BY <1>4 DEF OpSetLocal, Running
  <2>2. PICK k \in Int : k = frame.slots + Arg
    <3>1. Arg \in 0 .. 255
      BY <1>1, <2>1, ArgHere
    <3> QED BY <1>1, <3>1
  <2>3. Points(closures', Peek(0)) = {}
    BY <1>1, <2>1 DEF HomeStep, EscapeOps
  <2> QED BY <1>1, <2>1, <2>2, <2>3, AssignOrigin
<1>5. CASE OpSetUpvalue
  <2>1. /\ OpAt(Code, frame.ip) = OP_SET_UPVALUE /\ sp' = sp
        /\ mem' = [mem EXCEPT ![Upvalue] = Peek(0)]
    BY <1>5 DEF OpSetUpvalue, Running
  <2>2. Upvalue \in Int
    <3>1. Arg < Code.upvalueCount
      BY <1>1, <2>1, Here DEF IInv, VerifiedAt, Arg
    <3>2. Arg \in 0 .. 255
      BY <1>1, <2>1, ArgHere
    <3> QED BY <1>1, <3>1, <3>2, UpvalueHere DEF Upvalue
  <2>3. Points(closures', Peek(0)) = {}
    BY <1>1, <2>1 DEF HomeStep, EscapeOps
  <2> QED BY <1>1, <2>1, <2>2, <2>3, AssignOrigin
<1> QED BY <1>3, <1>4, <1>5

(* No closure that captured something becomes a global.                    *)
LEMMA GlobalsStayFree ==
  ASSUME IInv, Nested, HomeStep, Step, ~OpClosure
  PROVE  GlobalsFree'
<1>1. status = "RUNNING"
  BY StepRuns
<1>2. GlobalsFree
  BY DEF Nested
<1>3. /\ closures' = closures
      /\ \/ globals' = globals
         \/ /\ OpAt(Code, frame.ip) \in {OP_SET_GLOBAL, OP_DEFINE_GLOBAL}
            /\ globals' = [globals EXCEPT ![Constant.val] = Peek(0)]
  BY DEF Step, OpConstant, OpLiteral, OpPop, OpPrint, OpGetGlobal,
     OpSetGlobal, OpDefineGlobal, OpGetLocal, OpSetLocal, OpGetUpvalue, OpSetUpvalue,
     OpEqual, OpLess, OpAdd, OpArithmetic, OpNot, OpNegate, OpJump, OpJumpIfFalse,
     OpLoop, OpCall, CallClosure, CallNative, CallNonCallable, OpReturn, Running
<1>4. CASE globals' = globals
  BY <1>2, <1>3, <1>4 DEF GlobalsFree
<1>5. CASE globals' # globals
  <2>1. Points(closures, Peek(0)) = {}
    BY <1>1, <1>3, <1>5 DEF HomeStep, EscapeOps
  <2>2. DOMAIN globals = Names
    BY DEF IInv, TypeOK, GlobalsOK
  <2> QED BY <1>2, <1>3, <1>5, <2>1, <2>2 DEF GlobalsFree
<1> QED BY <1>4, <1>5

(* A handler that makes no frame and no closure.                           *)
LEMMA PlainNested ==
  ASSUME IInv, Exact, Nested, HomeStep, Step, status' = "RUNNING",
         ~OpReturn, ~OpCall, ~OpClosure
  PROVE  Nested'
<1>1. status = "RUNNING"
  BY StepRuns
<1>2. Straight
  BY OpConstantMoves, OpLiteralMoves, OpDropMoves, OpGetGlobalMoves,
     OpSetGlobalMoves, OpDefineGlobalMoves, OpGetLocalMoves, OpSetLocalMoves,
     OpGetUpvalueMoves, OpSetUpvalueMoves, OpBinaryMoves, OpUnaryMoves, OpJumpMoves
     DEF Step
<1>3. Goes
  BY PlainGoes, JumpGoes
<1>4. PICK n \in Int, d \in Int : Moves(n, d) /\ LocalsFlow(n)
  BY <1>1, <1>2, <1>3, StraightOn
<1>5. closures' = closures
  BY DEF Step, OpConstant, OpLiteral, OpPop, OpPrint, OpGetGlobal,
     OpSetGlobal, OpDefineGlobal, OpGetLocal, OpSetLocal, OpGetUpvalue, OpSetUpvalue,
     OpEqual, OpLess, OpAdd, OpArithmetic, OpNot, OpNegate, OpJump, OpJumpIfFalse,
     OpLoop
<1>6. ClosuresKept /\ DOMAIN closures' = 1 .. Len(closures')
  BY <1>5, SameClosures, LenProperties DEF IInv, TypeOK, ClosuresOK
<1>7. Origins
  BY ReadOrigin, WriteOrigin, ResultOrigin DEF Step
<1>8. GlobalsFree'
  BY GlobalsStayFree
<1> QED BY <1>1, <1>4, <1>6, <1>7, <1>8, MovedNested DEF Origins

-----------------------------------------------------------------------------
(* Closures are made, called and left.                                     *)

LEMMA ClosureMade ==
  ASSUME IInv, OpClosure, status' = "RUNNING"
  PROVE  /\ ClosuresKept /\ DOMAIN closures' = 1 .. Len(closures')
         /\ sp \in 0 .. STACK_MAX - 1 /\ sp' = sp + 1 /\ globals' = globals
         /\ mem' = [mem EXCEPT ![sp] = ClosureObj(Len(closures) + 1)]
         /\ Targets(closures', Len(closures) + 1)
              = {Captured(i) : i \in 1 .. Library[Constant.val].upvalueCount}
<1> DEFINE f == Constant.val
           n == Library[f].upvalueCount
           ups == [i \in 1 .. n |-> Captured(i)]
           r == [function |-> f, upvalues |-> ups]
           N == Len(closures)
<1>1. status = "RUNNING" /\ OpAt(Code, frame.ip) = OP_CLOSURE /\ globals' = globals
  BY DEF OpClosure, Running
<1>2. /\ sp < STACK_MAX /\ closures' = Append(closures, r)
      /\ Push(ClosureObj(N + 1), 2 + 2 * n)
  BY DEF OpClosure, Terminate
<1>3. sp' = sp + 1 /\ mem' = [mem EXCEPT ![sp] = ClosureObj(N + 1)]
  BY <1>2 DEF Push
<1>4. f \in DOMAIN Library
  BY <1>1, Here, LibraryConstant DEF IInv, Constant
<1>5. n \in Nat
  BY <1>4, LibraryFunction
<1>6. /\ closures \in Seq(ClosureRecord) /\ N \in Nat /\ DOMAIN closures = 1 .. N
      /\ sp \in 0 .. STACK_MAX - 1
  BY <1>1, <1>2, LenProperties, HereSizes DEF IInv, TypeOK, ClosuresOK
<1>7. \A i \in 1 .. n : Captured(i) \in 0 .. STACK_MAX - 1
  BY <1>1, <1>2, CapturedHere
<1> HIDE DEF f, n
<1>8. ups \in Seq(0 .. STACK_MAX - 1) /\ DOMAIN ups = 1 .. n
  BY <1>5, <1>7, SeqDef
<1>9. r \in ClosureRecord /\ r.upvalues = ups
  BY <1>4, <1>8 DEF ClosureRecord
<1>10. {ups[i] : i \in DOMAIN ups} = {Captured(i) : i \in 1 .. n}
  BY <1>8
<1> HIDE DEF ups, r
<1>11. /\ Len(closures') = N + 1 /\ DOMAIN closures' = 1 .. N + 1
       /\ \A c \in 1 .. N : closures'[c] = closures[c]
       /\ closures'[N + 1] = r
  BY <1>2, <1>6, <1>9, AppendProperties, LenProperties
<1>12. ClosuresKept /\ DOMAIN closures' = 1 .. Len(closures')
  BY <1>6, <1>11 DEF ClosuresKept
<1>13. Targets(closures', N + 1) = {Captured(i) : i \in 1 .. n}
  BY <1>9, <1>10, <1>11, Zenon DEF Targets
<1> QED BY <1>1, <1>3, <1>6, <1>12, <1>13 DEF f, n

(* What the captures of an OP_CLOSURE name.                                *)
LEMMA CaptureHere ==
  ASSUME IInv, status = "RUNNING", OpAt(Code, frame.ip) = OP_CLOSURE,
         NEW i \in 1 .. Library[Constant.val].upvalueCount
  PROVE  /\ CaptureIndex(Code, frame.ip, i) \in 0 .. 255
         /\ CapturesLocal(Code, frame.ip, i) =>
              CaptureIndex(Code, frame.ip, i) <= Height(frame.ip)
         /\ ~CapturesLocal(Code, frame.ip, i) =>
              CaptureIndex(Code, frame.ip, i) < Code.upvalueCount
<1>1. Library[Constant.val].upvalueCount
        = Library[Code.constants[Operand(Code, frame.ip) + 1].val].upvalueCount
  BY DEF Constant, ConstantAt
<1>2. VerifiedAt(Library, Code, Heights[frame.function], frame.ip)
  BY Here DEF IInv
<1>3. \A k \in 1 .. Library[Code.constants[Operand(Code, frame.ip) + 1].val].upvalueCount :
        /\ CaptureIndex(Code, frame.ip, k) \in Byte
        /\ IF CapturesLocal(Code, frame.ip, k)
           THEN CaptureIndex(Code, frame.ip, k) <= Heights[frame.function][frame.ip]
           ELSE CaptureIndex(Code, frame.ip, k) < Code.upvalueCount
  BY <1>2, VerifiedClosure
<1> QED BY <1>1, <1>3 DEF Height

LEMMA OpClosureNested ==
  ASSUME IInv, Exact, Nested, OpClosure, status' = "RUNNING"
  PROVE  Nested'
<1> DEFINE N == Len(frames)
           c == Len(closures) + 1
<1>1. status = "RUNNING" /\ OpAt(Code, frame.ip) = OP_CLOSURE
  BY DEF OpClosure, Running
<1>2. PICK n \in Int, d \in Int :
        Moves(n, d) /\ LocalsFlow(n) /\ frame.ip + n \in Successors(Library, Code, frame.ip)
  BY <1>1, OpClosureMoves, ClosureGoes, StraightOn
<1>3. /\ ClosuresKept /\ DOMAIN closures' = 1 .. Len(closures')
      /\ sp \in 0 .. STACK_MAX - 1 /\ sp' = sp + 1 /\ globals' = globals
      /\ mem' = [mem EXCEPT ![sp] = ClosureObj(c)]
      /\ Targets(closures', c)
           = {Captured(i) : i \in 1 .. Library[Constant.val].upvalueCount}
  BY ClosureMade
<1>4. /\ STACK_MAX \in Nat /\ mem \in [0 .. STACK_MAX - 1 -> Value \cup {Uninit}]
      /\ N \in Nat /\ N >= 1 /\ frame.slots \in Int /\ Height(frame.ip) \in Nat
      /\ sp = frame.slots + Height(frame.ip) /\ sp \in Int
  <2>1. N \in Nat /\ N >= 1
    BY <1>1, Here DEF IInv
  <2> QED BY <1>1, <2>1, HereSizes, HereExact DEF IInv, TypeOK, MemoryOK
<1>5. GlobalsFree'
  <2>1. ASSUME NEW x \in Names
        PROVE  Points(closures', globals'[x]) = {}
    <3>1. Points(closures, globals[x]) = {}
      BY DEF Nested, GlobalsFree
    <3>2. globals[x] \in Value \cup {Undefined}
      BY DEF IInv, TypeOK, GlobalsOK
    <3> QED BY <1>3, <3>1, <3>2, PointsKept, ScalarPoints DEF IInv
  <2> QED BY <2>1 DEF GlobalsFree
<1>6. /\ Len(frames') = N
      /\ frames'[N].slots = frame.slots /\ frames'[N].function = frame.function
      /\ frames'[N].ip = frame.ip + n
  BY <1>1, <1>2, HousedStill
<1>7. ASSUME NEW i \in 1 .. Library[Constant.val].upvalueCount, NEW u, u = Captured(i)
      PROVE  u <= sp /\ Housed(u, Len(frames))'
  <2>1. PICK x \in 0 .. 255 :
          /\ x = CaptureIndex(Code, frame.ip, i)
          /\ CapturesLocal(Code, frame.ip, i) => x <= Height(frame.ip)
          /\ ~CapturesLocal(Code, frame.ip, i) => x < Code.upvalueCount
    BY <1>1, CaptureHere
  <2>2. CASE CapturesLocal(Code, frame.ip, i)
    <3>1. u = frame.slots + x
      BY <1>7, <2>1, <2>2 DEF Captured
    <3>2. PICK l \in Nat : l = Locals[frame.function][frame.ip + n]
      BY <1>2 DEF LocalsFlow
    <3>3. x \in 1 .. l - 1
      BY <1>1, <1>2, <2>1, <2>2, <3>2, LocalsHere
    <3>4. /\ frame.slots < u /\ u < frame.slots + l /\ u <= sp
      BY <1>4, <2>1, <2>2, <3>1, <3>3
    <3>5. \E k \in 1 .. Len(frames') : k = Len(frames') /\ k = N
      BY <1>4, <1>6
    <3>6. ASSUME NEW k, k = Len(frames'), k = N
          PROVE  LocalOf(u, k)'
      BY <1>6, <3>2, <3>4, <3>6 DEF LocalOf
    <3> QED BY <3>4, <3>5, <3>6 DEF Housed
  <2>3. CASE ~CapturesLocal(Code, frame.ip, i)
    <3>1. u = closures[frame.closure].upvalues[x + 1] /\ x \in Nat /\ x < Code.upvalueCount
      BY <1>7, <2>1, <2>3 DEF Captured
    <3>2. u \in 0 .. STACK_MAX - 1 /\ u <= frame.slots /\ Housed(u, N - 1)
      BY <1>1, <3>1, OwnUpvalue
    <3>3. N - 1 \in Nat /\ N - 1 < N
      BY <1>4
    <3>4. PICK k \in Nat : k = N - 1 /\ k < N
      BY <3>3
    <3>5. u \in Int /\ u <= sp
      BY <1>4, <3>2
    <3>6. Housed(u, k)'
      BY <1>1, <1>2, <3>2, <3>4, <3>5, HousedStill
    <3>7. \A j \in 1 .. k : j \in 1 .. Len(frames')
      BY <1>4, <1>6, <3>4
    <3> QED BY <3>5, <3>6, <3>7 DEF Housed
  <2> QED BY <2>2, <2>3
<1>8. ASSUME NEW s \in 0 .. sp' - 1
      PROVE  Origin(s) \/ CellOK(s)'
  <2>1. s \in 0 .. sp
    BY <1>3, <1>4
  <2>2. CASE s = sp
    <3>1. mem'[s] = ClosureObj(c)
      BY <1>3, <1>4, <2>2
    <3>2. Points(closures', mem'[s])
            = {Captured(i) : i \in 1 .. Library[Constant.val].upvalueCount}
      BY <1>3, <3>1 DEF Points, ClosureObj
    <3> QED BY <1>7, <2>2, <3>2 DEF CellOK
  <2>3. CASE s # sp
    <3>1. s \in 0 .. STACK_MAX - 1 /\ s < sp /\ s \in 0 .. s
      BY <1>3, <1>4, <2>1, <2>3
    <3>2. mem'[s] = mem[s]
      BY <1>3, <1>4, <2>3, <3>1
    <3> QED BY <3>1, <3>2 DEF Origin
  <2> QED BY <2>2, <2>3
<1> QED BY <1>1, <1>2, <1>3, <1>5, <1>8, MovedNested

(* A callee lies above all that closures have captured of the window, so   *)
(* what its own closure points to is below its slot 0.                     *)
LEMMA CallClosureNested ==
  ASSUME IInv, Exact, Nested, CallClosure, status' = "RUNNING"
  PROVE  Nested'
<1> DEFINE N == Len(frames)
           c == Callee.val
           f == closures[c].function
           r == NewFrame(f, c, Window(Arg))
           fs == Advanced(2)
<1>1. /\ status = "RUNNING" /\ OpAt(Code, frame.ip) = OP_CALL
      /\ Callee.type = "CLOSURE"
      /\ mem' = mem /\ sp' = sp /\ closures' = closures /\ globals' = globals
      /\ frames' = Append(fs, r)
  BY DEF CallClosure, Running, RuntimeError, Traceback
<1>2. /\ N \in Nat /\ N >= 1 /\ DOMAIN frames = 1 .. N
      /\ frame.slots \in Int /\ sp \in Int /\ Height(frame.ip) \in Int
      /\ Arg \in Nat /\ Height(frame.ip) >= Arg + 2
      /\ sp = frame.slots + Height(frame.ip)
      /\ 2 \in Int /\ frame.ip + 2 \in Nat
      /\ frame.ip + 2 \in DOMAIN Heights[frame.function]
      /\ Height(frame.ip + 2) = Height(frame.ip) - Arg
  <2>1. /\ N \in Nat /\ N >= 1 /\ DOMAIN frames = 1 .. N /\ Arg \in Nat
        /\ Height(frame.ip) >= Arg + 2
        /\ frame.ip + 2 \in DOMAIN Heights[frame.function]
        /\ Height(frame.ip + 2) = Height(frame.ip) - Arg
        /\ frame.function \in DOMAIN Library
    BY <1>1, Here, CallHere DEF IInv
  <2>2. frame.ip + 2 \in Nat
    BY <2>1, LibraryOffset
  <2> QED BY <1>1, <2>1, <2>2, HereSizes, HereExact
<1>3. PICK w \in Int : w = sp - Arg - 1
  BY <1>2
<1>4. w \in 0 .. sp - 1 /\ Callee = mem[w]
  <2>1. sp - 1 - Arg = sp - Arg - 1
    BY <1>2
  <2>2. w \in 0 .. sp - 1
    <3>1. \A q, x, h, a \in Int : x >= 0 /\ a >= 0 /\ h >= a + 2 /\ q = x + h
                                 => q - a - 1 \in 0 .. q - 1
      OBVIOUS
    <3>2. frame.slots >= 0 /\ Arg >= 0 /\ Arg \in Int
      BY <1>1, <1>2, HereSizes
    <3> QED BY <1>2, <1>3, <3>1, <3>2
  <2> QED BY <1>3, <2>1, <2>2 DEF Callee, Peek
<1>5. c \in DOMAIN closures
  BY <1>1, CallHere DEF Value, Nil, NativeClock
<1>6. /\ fs \in Seq(FrameRecord) /\ Len(fs) = N
      /\ \A i \in 1 .. N :
           /\ fs[i].function = frames[i].function
           /\ fs[i].slots = frames[i].slots
           /\ fs[i].closure = frames[i].closure
           /\ fs[i].ip = IF i = N THEN frame.ip + 2 ELSE frames[i].ip
  BY <1>1, <1>2, AdvancedFrames DEF IInv
<1>7. r.slots = w /\ r.closure = c
  BY <1>3 DEF NewFrame, Window
<1> HIDE DEF r, fs, c
<1>8. fs \in Seq(FrameRecord \cup {r}) /\ r \in FrameRecord \cup {r}
  <2>1. fs \in [1 .. Len(fs) -> FrameRecord] /\ Len(fs) \in Nat
    BY <1>6, LenProperties
  <2>2. fs \in [1 .. Len(fs) -> FrameRecord \cup {r}]
    BY <2>1
  <2> QED BY <2>1, <2>2, SeqDef
<1>9. /\ Len(frames') = N + 1 /\ frames'[N + 1] = r
      /\ \A i \in 1 .. N : frames'[i] = fs[i]
  BY <1>1, <1>6, <1>8, AppendProperties
<1>10. ASSUME NEW u \in Int, NEW i \in 1 .. N, LocalOf(u, i)
       PROVE  LocalOf(u, i)'
  <2>1. i # N + 1 /\ i # Len(frames')
    BY <1>2, <1>9
  <2>2. CASE i # N
    <3>1. i + 1 \in 1 .. N
      BY <1>2, <2>2, NextIndex
    <3>2. /\ frames'[i].slots = frames[i].slots /\ frames'[i].function = frames[i].function
          /\ frames'[i].ip = frames[i].ip /\ frames'[i + 1].slots = frames[i + 1].slots
      BY <1>6, <1>9, <2>2, <3>1
    <3> QED BY <1>10, <2>2, <3>2 DEF LocalOf
  <2>3. CASE i = N
    <3>1. PICK l \in Nat, n \in Nat :
            /\ l = Locals[frame.function][frame.ip]
            /\ n = Locals[frame.function][frame.ip + 2]
      BY <1>1, <1>2, Here, LocalsHere DEF IInv
    <3>2. l < Height(frame.ip) - Arg /\ (n >= l \/ n >= Height(frame.ip) - Arg)
      <4>1. LocalsFlow(2)
        <5>1. Successors(Library, Code, frame.ip) = {frame.ip + 2}
          <6>1. InstructionLength(Library, Code, frame.ip) = 2
            BY <1>1 DEF InstructionLength
          <6> QED BY <1>1, <6>1 DEF Successors
        <5> QED BY <1>1, <1>2, <5>1, LocalsHere
      <4> QED BY <1>1, <1>2, <3>1, <4>1, LocalsHere DEF LocalsFlow
    <3>3. frame.slots < u /\ u < frame.slots + l
      BY <1>10, <2>3, <3>1 DEF LocalOf, frame
    <3>4. u < w /\ u < frame.slots + n
      <4>1. PICK x \in Int, h \in Int, a \in Int :
              x = frame.slots /\ h = Height(frame.ip) /\ a = Arg
        BY <1>2
      <4>2. w = (x + h) - a - 1
        BY <1>2, <1>3, <4>1
      <4>3. l < h - a /\ (n >= l \/ n >= h - a) /\ u < x + l
        BY <3>2, <3>3, <4>1
      <4>4. u < w /\ u < x + n
        BY <4>2, <4>3
      <4> QED BY <4>1, <4>4
    <3>5. /\ frames'[i].slots = frame.slots /\ frames'[i].function = frame.function
          /\ frames'[i].ip = frame.ip + 2 /\ frames'[i + 1].slots = w
      BY <1>6, <1>7, <1>9, <2>3 DEF frame
    <3> QED BY <3>1, <3>3, <3>4, <3>5 DEF LocalOf
  <2> QED BY <2>2, <2>3
<1>11. ASSUME NEW u \in Int, NEW k \in Nat, k <= N, Housed(u, k)
       PROVE  Housed(u, k)'
  <2>1. PICK i \in 1 .. k : LocalOf(u, i)
    BY <1>11 DEF Housed
  <2>2. i \in 1 .. N
    BY <1>2, <1>11
  <2>3. LocalOf(u, i)'
    BY <1>10, <2>1, <2>2
  <2> QED BY <2>3 DEF Housed
<1>12. ASSUME NEW s \in 0 .. sp - 1, NEW u \in Points(closures, mem[s])
       PROVE  u \in Int /\ u <= s /\ Housed(u, N) /\ Housed(u, Len(frames))'
  <2>1. mem[s] \in Value
    BY DEF IInv, NoUninitRead, Written
  <2>2. u \in Int
    BY <2>1, PointsTyped DEF IInv
  <2>3. u <= s /\ Housed(u, N)
    BY <1>1 DEF Nested, CellOK
  <2>4. PICK k \in Nat : k = N /\ k <= N
    <3>1. N \in Nat /\ N <= N
      BY <1>2
    <3> QED BY <3>1
  <2>5. Housed(u, k)'
    BY <1>11, <2>2, <2>3, <2>4
  <2>6. \A j \in 1 .. k : j \in 1 .. Len(frames')
    BY <1>2, <1>9, <2>4
  <2> QED BY <2>2, <2>3, <2>5, <2>6 DEF Housed
<1>13. ASSUME NEW s \in 0 .. sp' - 1
       PROVE  CellOK(s)'
  BY <1>1, <1>12 DEF CellOK
<1>14. ASSUME NEW j \in 1 .. N
       PROVE  FrameOK(j)'
  <2> SUFFICES ASSUME frames'[j].closure \in DOMAIN closures',
                      NEW u \in Targets(closures', frames'[j].closure)
               PROVE  u <= frames'[j].slots /\ Housed(u, j - 1)'
    BY DEF FrameOK
  <2>1. frames'[j].closure = frames[j].closure /\ frames'[j].slots = frames[j].slots
    BY <1>6, <1>9
  <2>2. /\ frames[j].closure \in DOMAIN closures
        /\ u \in Targets(closures, frames[j].closure)
    BY <1>1, <2>1
  <2>3. u \in Int
    BY <2>2, TargetsTyped DEF IInv
  <2>4. u <= frames[j].slots /\ Housed(u, j - 1)
    BY <1>1, <2>2 DEF Nested, FrameOK
  <2>5. j - 1 \in Nat /\ j - 1 <= N
    BY <1>2
  <2> QED BY <1>11, <2>1, <2>3, <2>4, <2>5
<1>15. ASSUME NEW j, j = N + 1
       PROVE  FrameOK(j)'
  <2>1. frames'[j].closure = c /\ frames'[j].slots = w
    BY <1>7, <1>9, <1>15
  <2>2. Targets(closures', c) = Points(closures, mem[w])
    BY <1>1, <1>4 DEF Points, c
  <2>3. j - 1 = N
    BY <1>2, <1>15
  <2>4. ASSUME NEW u \in Points(closures, mem[w])
        PROVE  u <= w /\ Housed(u, j - 1)'
    <3>1. u \in Int /\ u <= w /\ Housed(u, N)
      BY <1>4, <1>12, <2>4
    <3>2. PICK k \in Nat : k = j - 1 /\ k = N /\ k <= N
      <4>1. N \in Nat /\ N <= N /\ N = j - 1
        BY <1>2, <2>3
      <4> QED BY <4>1
    <3>3. Housed(u, k)'
      BY <1>11, <3>1, <3>2
    <3> QED BY <3>1, <3>2, <3>3
  <2> QED BY <2>1, <2>2, <2>4 DEF FrameOK
<1>16. \A j \in 1 .. N + 1 : j \in 1 .. N \/ j = N + 1
  BY <1>2
<1>17. GlobalsFree'
  BY <1>1 DEF Nested, GlobalsFree
<1> QED BY <1>9, <1>13, <1>14, <1>15, <1>16, <1>17 DEF Nested

(* A return gives up the locals of its window, and leaves nothing behind   *)
(* that points to them.                                                    *)
LEMMA OpReturnNested ==
  ASSUME IInv, Exact, Nested, HomeStep, OpReturn
  PROVE  Nested' /\ (status' # "RUNNING" => frames' = << >>)
<1> DEFINE N == Len(frames)
<1>1. /\ status = "RUNNING" /\ OpAt(Code, frame.ip) = OP_RETURN
      /\ closures' = closures /\ globals' = globals
  BY DEF OpReturn, Running
<1>2. /\ N \in Nat /\ N >= 1 /\ DOMAIN frames = 1 .. N
      /\ Len(frames') = N - 1 /\ \A j \in 1 .. N - 1 : frames'[j] = frames[j]
  BY <1>1, Here, OpReturnBelow DEF IInv
<1>3. GlobalsFree'
  BY <1>1 DEF Nested, GlobalsFree
<1>4. CASE N = 1
  <2>1. status' = "OK"
    BY <1>4 DEF OpReturn
  <2>2. frames' = << >>
    BY <2>1, ReturnedExact DEF Exact, Idle
  <2> QED BY <1>3, <2>1, <2>2 DEF Nested
<1>5. CASE N # 1
  <2>1. /\ mem' = [mem EXCEPT ![frame.slots] = Peek(0)]
        /\ sp' = frame.slots + 1 /\ status' = status
    BY <1>5 DEF OpReturn
  <2>2. /\ frame.slots \in 0 .. STACK_MAX - 1 /\ STACK_MAX \in Nat /\ frame.slots < sp
        /\ sp \in Int /\ mem \in [0 .. STACK_MAX - 1 -> Value \cup {Uninit}]
    BY <1>1, HereSizes, SlotZero DEF IInv, TypeOK, MemoryOK
  <2>3. Points(closures, Peek(0)) = {}
    BY <1>1 DEF HomeStep, EscapeOps
  <2>4. ASSUME NEW u, NEW i \in 1 .. N, i # N, LocalOf(u, i)
        PROVE  LocalOf(u, i)'
    <3>1. i \in 1 .. N - 1 /\ (i # N - 1 => i + 1 \in 1 .. N - 1)
      <4>1. \A n \in Nat : \A k \in 1 .. n :
              k # n => k \in 1 .. n - 1 /\ (k # n - 1 => k + 1 \in 1 .. n - 1)
        OBVIOUS
      <4> QED BY <1>2, <2>4, <4>1, Zenon
    <3> QED BY <1>2, <2>4, <3>1 DEF LocalOf
  <2>5. ASSUME NEW s \in 0 .. frame.slots
        PROVE  CellOK(s)'
    <3>1. s \in 0 .. STACK_MAX - 1 /\ s \in 0 .. sp - 1
      BY <2>2
    <3>2. CASE s = frame.slots
      <4>1. mem'[s] = Peek(0)
        BY <2>1, <2>2, <3>1, <3>2
      <4> QED BY <1>1, <2>3, <4>1 DEF CellOK
    <3>3. CASE s # frame.slots
      <4>1. mem'[s] = mem[s] /\ mem[s] \in Value
        BY <2>1, <2>2, <3>1, <3>3 DEF IInv, NoUninitRead, Written
      <4>2. ASSUME NEW u \in Points(closures, mem[s])
            PROVE  u <= s /\ Housed(u, Len(frames))'
        <5>1. u \in Int
          BY <4>1, PointsTyped DEF IInv
        <5>2. u <= s /\ Housed(u, N)
          BY <1>1, <3>1 DEF Nested, CellOK
        <5>3. PICK i \in 1 .. N : LocalOf(u, i)
          BY <5>2 DEF Housed
        <5>4. i # N
          <6>1. u < frame.slots
            BY <2>2, <3>3, <5>1, <5>2
          <6> QED BY <2>2, <5>1, <5>3, <6>1 DEF LocalOf, frame
        <5>5. LocalOf(u, i)'
          BY <2>4, <5>3, <5>4
        <5>6. i \in 1 .. Len(frames')
          <6>1. \A n \in Nat : \A k \in 1 .. n : k # n => k \in 1 .. n - 1
            OBVIOUS
          <6> QED BY <1>2, <5>4, <6>1, Zenon
        <5> QED BY <5>2, <5>5, <5>6 DEF Housed
      <4> QED BY <1>1, <4>1, <4>2 DEF CellOK
    <3> QED BY <3>2, <3>3
  <2>6. ASSUME NEW s \in 0 .. sp' - 1
        PROVE  CellOK(s)'
    <3>1. s \in 0 .. frame.slots
      BY <2>1, <2>2
    <3> QED BY <2>5, <3>1
  <2>7. ASSUME NEW j \in 1 .. Len(frames')
        PROVE  FrameOK(j)'
    <3>1. j \in 1 .. N - 1 /\ j \in 1 .. N /\ frames'[j] = frames[j]
      BY <1>2
    <3> SUFFICES ASSUME frames'[j].closure \in DOMAIN closures',
                        NEW u \in Targets(closures', frames'[j].closure)
                 PROVE  u <= frames'[j].slots /\ Housed(u, j - 1)'
      BY DEF FrameOK
    <3>2. u <= frames[j].slots /\ Housed(u, j - 1)
      <4>1. frames[j].closure \in DOMAIN closures /\ u \in Targets(closures, frames[j].closure)
        BY <1>1, <3>1
      <4> QED BY <1>1, <3>1, <4>1, Zenon DEF Nested, FrameOK
    <3>3. PICK i \in 1 .. j - 1 : LocalOf(u, i)
      BY <3>2 DEF Housed
    <3>4. i \in 1 .. N /\ i # N
      <4>1. \A n \in Nat : \A k \in 1 .. n : \A q \in 1 .. k - 1 : q \in 1 .. n /\ q # n
        OBVIOUS
      <4> QED BY <1>2, <3>1, <3>3, <4>1, Zenon
    <3>5. LocalOf(u, i)'
      BY <2>4, <3>3, <3>4
    <3> QED BY <3>1, <3>2, <3>5 DEF Housed
  <2> QED BY <1>1, <1>3, <2>1, <2>6, <2>7 DEF Nested
<1> QED BY <1>4, <1>5

(* A line begins on an empty stack, with a closure that is not the         *)
(* machine's.                                                              *)
LEMMA InterpretNested ==
  ASSUME IInv, Exact, Nested, NEW f \in Scripts, Interpret(f)
  PROVE  Nested' /\ (status' # "RUNNING" => frames' = << >>)
<1> DEFINE r == NewFrame(f, ScriptClosure, 0)
<1>1. /\ Idle /\ sp = 0 /\ frames = << >> /\ Len(frames) = 0
      /\ closures' = closures /\ globals' = globals
  BY EmptySeq DEF Interpret, Exact, WindowsExact
<1>2. GlobalsFree'
  BY <1>1 DEF Nested, GlobalsFree
<1>3. CASE status' # "RUNNING"
  <2>1. frames' = frames
    BY <1>3 DEF Interpret, Terminate
  <2> QED BY <1>1, <1>2, <1>3, <2>1 DEF Nested
<1>4. CASE status' = "RUNNING"
  <2>1. /\ sp' = 1 /\ frames' = <<r>> /\ mem' = [mem EXCEPT ![0] = FunctionObj(f)]
    BY <1>1, <1>4 DEF Interpret, Terminate, Traceback
  <2>2. r.closure = ScriptClosure
    BY DEF NewFrame
  <2> HIDE DEF r
  <2>3. Len(frames') = 1 /\ frames'[1] = r
    BY <2>1
  <2>4. mem'[0] = FunctionObj(f)
    <3>1. mem \in [0 .. STACK_MAX - 1 -> Value \cup {Uninit}] /\ STACK_MAX \in Nat \ {0}
      BY SizesAssumption DEF IInv, TypeOK, MemoryOK
    <3> QED BY <2>1, <3>1
  <2>5. ASSUME NEW s \in 0 .. sp' - 1
        PROVE  CellOK(s)'
    <3>1. s = 0
      BY <2>1
    <3> QED BY <2>4, <3>1, ScalarPoints DEF CellOK
  <2>6. ASSUME NEW j \in 1 .. Len(frames')
        PROVE  FrameOK(j)'
    <3>1. frames'[j].closure = ScriptClosure
      BY <2>2, <2>3
    <3>2. DOMAIN closures' = 1 .. Len(closures) /\ Len(closures) \in Nat
      BY <1>1, LenProperties DEF IInv, TypeOK, ClosuresOK
    <3>3. ScriptClosure \notin DOMAIN closures'
      BY <3>2 DEF ScriptClosure
    <3> QED BY <3>1, <3>3 DEF FrameOK
  <2> QED BY <1>2, <1>4, <2>5, <2>6 DEF Nested
<1> QED BY <1>3, <1>4

-----------------------------------------------------------------------------
(* The theorem.                                                            *)

LEMMA NestedIsOpen == IInv /\ Nested /\ status = "RUNNING" => UpvaluesOpen
<1> SUFFICES ASSUME IInv, Nested, status = "RUNNING",
                    NEW j \in DOMAIN frames, frames[j].closure \in DOMAIN closures,
                    NEW k \in DOMAIN closures[frames[j].closure].upvalues
             PROVE  \E i \in 1 .. j - 1 :
                      /\ frames[i].slots < closures[frames[j].closure].upvalues[k]
                      /\ closures[frames[j].closure].upvalues[k] < frames[i + 1].slots
  BY DEF UpvaluesOpen
<1> DEFINE u == closures[frames[j].closure].upvalues[k]
<1>1. u \in Targets(closures, frames[j].closure)
  BY DEF Targets
<1>2. Len(frames) \in Nat /\ j \in 1 .. Len(frames)
  BY Here DEF IInv
<1> HIDE DEF u
<1>3. Housed(u, j - 1)
  BY <1>1, <1>2 DEF Nested, FrameOK
<1>4. PICK i \in 1 .. j - 1 : LocalOf(u, i)
  BY <1>3 DEF Housed
<1>5. i # Len(frames)
  <2>1. \A n \in Nat : \A x \in 1 .. n : \A y \in 1 .. x - 1 : y # n
    OBVIOUS
  <2> QED BY <1>2, <2>1, Zenon
<1>6. frames[i].slots < u /\ u < frames[i + 1].slots
  BY <1>4, <1>5 DEF LocalOf
<1> QED BY <1>6 DEF u

LEMMA NextIsOpen == (IInv /\ Nested /\ status = "RUNNING" => UpvaluesOpen)'
BY NestedIsOpen, PTL

(* The process ends, or the run fails: the frames stay where they are.     *)
LEMMA EndedOpen ==
  ASSUME IInv, UpvaluesOpen, Step, ~OpReturn, status' # "RUNNING"
  PROVE  UpvaluesOpen'
<1>1. status = "RUNNING"
  BY StepRuns
<1>2. closures' = closures /\ (Terminate \/ \E n \in {1, 2} : RuntimeError(n))
  BY <1>1 DEF Step, OpConstant, OpLiteral, OpPop, OpPrint, OpGetGlobal,
     OpSetGlobal, OpDefineGlobal, OpGetLocal, OpSetLocal, OpGetUpvalue, OpSetUpvalue,
     OpEqual, OpLess, OpAdd, OpArithmetic, OpNot, OpNegate, OpJump, OpJumpIfFalse,
     OpLoop, OpCall, CallClosure, CallNative, CallNonCallable, OpClosure,
     Push, Replace, Continue
<1>3. CASE Terminate
  BY <1>2, <1>3 DEF Terminate, UpvaluesOpen
<1>4. ASSUME NEW n \in {1, 2}, RuntimeError(n)
      PROVE  UpvaluesOpen'
  <2>1. frame.ip + n \in Nat /\ n \in Int
    BY <1>1, Here DEF IInv
  <2>2. ClosuresKept
    BY <1>2, SameClosures DEF IInv
  <2>3. /\ frames' \in Seq(FrameRecord') /\ Len(frames') = Len(frames)
        /\ \A i \in 1 .. Len(frames) :
             /\ frames'[i].slots = frames[i].slots
             /\ frames'[i].closure = frames[i].closure \/ frames'[i].closure = Dangling
    BY <1>1, <1>4, <2>1, <2>2, MovedFrames DEF IInv
  <2>4. /\ DOMAIN frames = 1 .. Len(frames) /\ DOMAIN frames' = 1 .. Len(frames)
        /\ Len(frames) \in Nat
    BY <1>1, <2>3, Here, LenProperties DEF IInv
  <2>5. Dangling \notin DOMAIN closures
    <3>1. DOMAIN closures = 1 .. Len(closures) /\ Len(closures) \in Nat
      BY LenProperties DEF IInv, TypeOK, ClosuresOK
    <3> QED BY <3>1 DEF Dangling
  <2> SUFFICES ASSUME NEW j \in DOMAIN frames', frames'[j].closure \in DOMAIN closures',
                      NEW u \in DOMAIN closures'[frames'[j].closure].upvalues
               PROVE  \E i \in 1 .. j - 1 :
                        /\ frames'[i].slots < closures'[frames'[j].closure].upvalues[u]
                        /\ closures'[frames'[j].closure].upvalues[u] < frames'[i + 1].slots
    BY DEF UpvaluesOpen
  <2>6. j \in 1 .. Len(frames) /\ frames'[j].closure = frames[j].closure
    BY <1>2, <2>3, <2>4, <2>5
  <2>7. PICK i \in 1 .. j - 1 :
          /\ frames[i].slots < closures[frames[j].closure].upvalues[u]
          /\ closures[frames[j].closure].upvalues[u] < frames[i + 1].slots
    BY <1>2, <2>4, <2>6 DEF UpvaluesOpen
  <2>8. i \in 1 .. Len(frames) /\ i + 1 \in 1 .. Len(frames)
    <3>1. \A m \in Nat : \A x \in 1 .. m : \A y \in 1 .. x - 1 :
            y \in 1 .. m /\ y + 1 \in 1 .. m
      OBVIOUS
    <3> QED BY <2>4, <2>6, <3>1, Zenon
  <2>9. frames'[i].slots = frames[i].slots /\ frames'[i + 1].slots = frames[i + 1].slots
    BY <2>3, <2>8
  <2> QED BY <1>2, <2>6, <2>7, <2>9
<1> QED BY <1>2, <1>3, <1>4

LEMMA NextNested ==
  ASSUME IInv, IInv', Exact, Nested, UpvaluesOpen, [Next]_vars, [HomeStep]_vars
  PROVE  Nested' /\ UpvaluesOpen'
<1>1. IInv' /\ Nested' /\ status' = "RUNNING" => UpvaluesOpen'
  BY NextIsOpen
<1>2. frames' = << >> => UpvaluesOpen'
  BY DEF UpvaluesOpen
<1>3. CASE UNCHANGED vars
  BY <1>3 DEF vars, Nested, GlobalsFree, CellOK, FrameOK, Housed, LocalOf, UpvaluesOpen
<1>4. ASSUME Next, HomeStep
      PROVE  Nested' /\ UpvaluesOpen'
  <2>1. ASSUME NEW f \in Scripts, Interpret(f)
        PROVE  Nested' /\ UpvaluesOpen'
    BY <1>1, <1>2, <2>1, InterpretNested
  <2>2. CASE InterpretRejected
    <3>1. /\ closures' = closures /\ globals' = globals /\ frames' = frames
          /\ status' # "RUNNING" /\ frames = << >>
      BY <2>2 DEF InterpretRejected, Exact
    <3> QED BY <1>2, <3>1 DEF Nested, GlobalsFree
  <2>3. CASE OpReturn
    BY <1>1, <1>2, <1>4, <2>3, OpReturnNested
  <2>4. CASE Step /\ ~OpReturn
    <3>1. CASE status' = "RUNNING"
      <4>1. ~CallNative /\ ~CallNonCallable
        BY <1>4, <3>1 DEF HomeStep, CleanStep, CallNonCallable, RuntimeError, Traceback
      <4>2. Nested'
        BY <1>4, <2>4, <3>1, <4>1, PlainNested, OpClosureNested, CallClosureNested
           DEF OpCall
      <4> QED BY <1>1, <3>1, <4>2
    <3>2. CASE status' # "RUNNING"
      <4>1. GlobalsFree'
        <5>1. CASE ~OpClosure
          BY <1>4, <2>4, <5>1, GlobalsStayFree
        <5>2. CASE OpClosure
          BY <3>2, <5>2 DEF OpClosure, Push, Continue, Running, Terminate, Nested, GlobalsFree
        <5> QED BY <5>1, <5>2
      <4> QED BY <2>4, <3>2, <4>1, EndedOpen DEF Nested
    <3> QED BY <3>1, <3>2
  <2> QED BY <1>4, <2>1, <2>2, <2>3, <2>4 DEF Next
<1> QED BY <1>3, <1>4

(* While no line fails, no native is called and no closure that captured   *)
(* something leaves the call that made it, every upvalue of a running      *)
(* closure is a local of a call below it that has not returned.            *)
THEOREM UpvaluesStayOpen == Spec /\ [][HomeStep]_vars => []UpvaluesOpen
<1> DEFINE NInv == Exact /\ Nested /\ UpvaluesOpen
<1>1. Init => NInv
  <2>1. Init => Exact
    BY EmptySeq DEF Init, Exact, WindowsExact, Idle
  <2>2. Init => Nested
    BY ScalarPoints DEF Init, Nested, GlobalsFree
  <2>3. Init => UpvaluesOpen
    BY DEF Init, UpvaluesOpen
  <2> QED BY <2>1, <2>2, <2>3
<1>2. IInv /\ IInv' /\ NInv /\ [Next]_vars /\ [HomeStep]_vars => NInv'
  <2> SUFFICES ASSUME IInv, IInv', NInv, [Next]_vars, [HomeStep]_vars
               PROVE  NInv'
    OBVIOUS
  <2>1. [CleanStep]_vars
    BY DEF HomeStep
  <2> QED BY <2>1, NextExact, NextNested
<1>3. NInv => UpvaluesOpen
  OBVIOUS
<1> HIDE DEF NInv
<1> QED BY <1>1, <1>2, <1>3, Invariant, PTL DEF Spec
=============================================================================
