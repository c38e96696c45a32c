------------------------------ MODULE Bytecode ------------------------------
(***************************************************************************)
(* The instruction set: the opcodes of include/chunk.hpp as the bytes they *)
(* are, the layout of an instruction in a chunk, and what an instruction   *)
(* needs of the stack window it runs in.                                   *)
(*                                                                         *)
(* A function F is a record                                                *)
(*   [arity, upvalueCount, code, constants]                                *)
(* whose code is a sequence of bytes.  Offsets into it are counted from 0, *)
(* as in the C++ code; the byte at offset o is F.code[o + 1].  fns is the  *)
(* table of the functions a constant can name.                             *)
(***************************************************************************)
EXTENDS Integers, Sequences

CONSTANT UINT8_MAX \* 255; smaller, its limits are met by short lines

ASSUME UInt8Assumption == UINT8_MAX \in 1 .. 255

OP_CONSTANT == 0
OP_NIL == 1
OP_TRUE == 2
OP_FALSE == 3
OP_POP == 4
OP_GET_GLOBAL == 5
OP_SET_GLOBAL == 6
OP_GET_LOCAL == 7
OP_SET_LOCAL == 8
OP_GET_UPVALUE == 9
OP_SET_UPVALUE == 10
OP_DEFINE_GLOBAL == 11
OP_EQUAL == 12
OP_GREATER == 13
OP_LESS == 14
OP_ADD == 15
OP_SUBTRACT == 16
OP_MULTIPLY == 17
OP_DIVIDE == 18
OP_NOT == 19
OP_NEGATE == 20
OP_PRINT == 21
OP_JUMP == 22
OP_JUMP_IF_FALSE == 23
OP_LOOP == 24
OP_CALL == 25
OP_CLOSURE == 26
OP_RETURN == 27

Byte == 0 .. 255
UINT16_MAX == (UINT8_MAX + 1) * (UINT8_MAX + 1) - 1

LiteralOps == {OP_NIL, OP_TRUE, OP_FALSE}
ArithmeticOps == {OP_SUBTRACT, OP_MULTIPLY, OP_DIVIDE, OP_GREATER}
BinaryOps == ArithmeticOps \cup {OP_ADD, OP_LESS, OP_EQUAL}
NameOps == {OP_GET_GLOBAL, OP_SET_GLOBAL, OP_DEFINE_GLOBAL}
ByteOps == {OP_CONSTANT, OP_GET_LOCAL, OP_SET_LOCAL, OP_GET_UPVALUE,
            OP_SET_UPVALUE, OP_CALL} \cup NameOps
JumpOps == {OP_JUMP, OP_JUMP_IF_FALSE, OP_LOOP}

OpAt(F, o) == F.code[o + 1]

(* readByte and readShort, for the operand of the instruction at o. *)
Operand(F, o) == F.code[o + 2]
ShortOperand(F, o) == (UINT8_MAX + 1) * F.code[o + 2] + F.code[o + 3]

(* readConstant, for the operand of the instruction at o. *)
ConstantAt(F, o) == F.constants[Operand(F, o) + 1]

(* The (isLocal, index) pair of the i-th upvalue of the OP_CLOSURE at o. *)
CapturesLocal(F, o, i) == F.code[o + 2 * i + 1] # 0
CaptureIndex(F, o, i) == F.code[o + 2 * i + 2]

(* The bytes of the instruction at o: opcode and operands. *)
InstructionLength(fns, F, o) ==
  LET op == OpAt(F, o)
  IN  IF op \in JumpOps THEN 3
      ELSE IF op = OP_CLOSURE
           THEN 2 + 2 * fns[ConstantAt(F, o).val].upvalueCount
           ELSE IF op \in ByteOps THEN 2 ELSE 1

-----------------------------------------------------------------------------
(* Verified code.  A height map h of F gives, for every offset at which an *)
(* instruction starts, the size of F's stack window (slot 0 included) when *)
(* it is about to execute.                                                 *)

Flows(h, o, k) == o \in DOMAIN h /\ h[o] = k

(* The instruction at o is all there, finds its operands in the window,    *)
(* names a constant, local or upvalue that exists, and leaves the window   *)
(* at the height its successors expect.                                    *)
VerifiedAt(fns, F, h, o) ==
  LET op == OpAt(F, o)
      a == Operand(F, o)
      next == o + InstructionLength(fns, F, o)
      HasConstant(types) == /\ a + 1 \in DOMAIN F.constants
                            /\ F.constants[a + 1].type \in types
  IN  /\ next <= Len(F.code)
      /\ \/ op \in LiteralOps /\ Flows(h, next, h[o] + 1)
         \/ op = OP_CONSTANT /\ HasConstant({"NUMBER", "STRING"})
                             /\ Flows(h, next, h[o] + 1)
         \/ op = OP_GET_GLOBAL /\ HasConstant({"STRING"})
                               /\ Flows(h, next, h[o] + 1)
         \/ op = OP_SET_GLOBAL /\ HasConstant({"STRING"})
                               /\ h[o] >= 2 /\ Flows(h, next, h[o])
         \/ op = OP_DEFINE_GLOBAL /\ HasConstant({"STRING"})
                                  /\ h[o] >= 2 /\ Flows(h, next, h[o] - 1)
         \/ op = OP_GET_LOCAL /\ a < h[o] /\ Flows(h, next, h[o] + 1)
         \/ op = OP_SET_LOCAL /\ a < h[o] /\ h[o] >= 2 /\ Flows(h, next, h[o])
         \/ op = OP_GET_UPVALUE /\ a < F.upvalueCount
                                /\ Flows(h, next, h[o] + 1)
         \/ op = OP_SET_UPVALUE /\ a < F.upvalueCount
                                /\ h[o] >= 2 /\ Flows(h, next, h[o])
         \/ op \in {OP_POP, OP_PRINT} /\ h[o] >= 2 /\ Flows(h, next, h[o] - 1)
         \/ op \in {OP_NOT, OP_NEGATE} /\ h[o] >= 2 /\ Flows(h, next, h[o])
         \/ op \in BinaryOps /\ h[o] >= 3 /\ Flows(h, next, h[o] - 1)
         \/ op = OP_JUMP /\ Flows(h, next + ShortOperand(F, o), h[o])
         \/ op = OP_LOOP /\ Flows(h, next - ShortOperand(F, o), h[o])
         \/ op = OP_JUMP_IF_FALSE /\ h[o] >= 2
                                  /\ Flows(h, next, h[o])
                                  /\ Flows(h, next + ShortOperand(F, o), h[o])
         \/ op = OP_CALL /\ h[o] >= a + 2 /\ Flows(h, next, h[o] - a)
         \/ op = OP_RETURN /\ h[o] >= 2
         \/ /\ op = OP_CLOSURE
            /\ HasConstant({"FUNCTION"})
            /\ \A i \in 1 .. fns[F.constants[a + 1].val].upvalueCount :
                 /\ CaptureIndex(F, o, i) \in Byte
                 /\ IF CapturesLocal(F, o, i)
                    THEN CaptureIndex(F, o, i) <= h[o]
                    ELSE CaptureIndex(F, o, i) < F.upvalueCount
            /\ Flows(h, next, h[o] + 1)

(* h is a height map of F: a call enters at offset 0 with slot 0 and the   *)
(* arguments in the window, and every instruction is verified.             *)
Verified(fns, F, h) ==
  /\ DOMAIN h \subseteq 0 .. Len(F.code) - 1
  /\ \A o \in DOMAIN h : h[o] \in Nat \ {0}
  /\ Flows(h, 0, F.arity + 1)
  /\ \A o \in DOMAIN h : VerifiedAt(fns, F, h, o)

(* A line's top-level function takes no argument and captures nothing.  It *)
(* returns at its end only (the compiler refuses a return statement there),*)
(* when the window holds slot 0 and the nil to return.                     *)
VerifiedScript(F, h) ==
  /\ F.arity = 0 /\ F.upvalueCount = 0
  /\ \A o \in DOMAIN h : OpAt(F, o) = OP_RETURN => h[o] = 2

(* Where a run of F goes on after the instruction at o.                    *)
Successors(fns, F, o) ==
  LET op == OpAt(F, o)
      next == o + InstructionLength(fns, F, o)
      short == ShortOperand(F, o)
  IN  CASE op = OP_RETURN -> {}
        [] op = OP_JUMP -> {next + short}
        [] op = OP_LOOP -> {next - short}
        [] op = OP_JUMP_IF_FALSE -> {next, next + short}
        [] OTHER -> {next}

(* l is a locals map of F: all that closures may have captured of the      *)
(* window lies below slot l[o] when the instruction at o is to execute.    *)
(* What is captured is a local, what is called a temporary: a captured     *)
(* slot stays so until it is popped, slot 0 never is one, nor is a callee  *)
(* or an argument of a call.                                               *)
KeepsLocals(fns, F, h, l) ==
  /\ l \in [DOMAIN h -> Nat]
  /\ \A o \in DOMAIN h :
       /\ \A n \in Successors(fns, F, o) : l[n] >= l[o] \/ l[n] >= h[n]
       /\ OpAt(F, o) = OP_CALL => l[o] < h[o] - Operand(F, o)
       /\ OpAt(F, o) = OP_CLOSURE =>
            \A i \in 1 .. fns[ConstantAt(F, o).val].upvalueCount :
              CapturesLocal(F, o, i) =>
                \A n \in Successors(fns, F, o) : CaptureIndex(F, o, i) \in 1 .. l[n] - 1
=============================================================================
