------------------------------ MODULE VMProofs ------------------------------
(***************************************************************************)
(* Proofs about module VMSafety, for every verified library, every set of  *)
(* lines, every arithmetic and all sizes of the stacks.                    *)
(*                                                                         *)
(* The inductive invariant is the conjunction of three that need one       *)
(* another: the shape of the state, the windows that cover what the code   *)
(* counts on, and the storage that was written before it is read.          *)
(***************************************************************************)
EXTENDS VMSafety, SequenceTheorems, TLAPS

IInv == TypeOK /\ NoUninitRead /\ WindowsCover

USE DEF Byte, OP_CONSTANT, OP_NIL, OP_TRUE, OP_FALSE, OP_POP, OP_GET_GLOBAL,
        OP_SET_GLOBAL, OP_GET_LOCAL, OP_SET_LOCAL, OP_GET_UPVALUE,
        OP_SET_UPVALUE, OP_DEFINE_GLOBAL, OP_EQUAL, OP_GREATER, OP_LESS,
        OP_ADD, OP_SUBTRACT, OP_MULTIPLY, OP_DIVIDE, OP_NOT, OP_NEGATE,
        OP_PRINT, OP_JUMP, OP_JUMP_IF_FALSE, OP_LOOP, OP_CALL, OP_CLOSURE,
        OP_RETURN

(* Two facts about indices and lengths.                                    *)
LEMMA NextIndex == \A n \in Nat : \A i \in 1 .. n : i # n => i + 1 \in 1 .. n
OBVIOUS

LEMMA NotEmpty == ASSUME NEW q, NEW n \in Nat, Len(q) = n, n >= 1
                  PROVE  q # << >>
OBVIOUS

-----------------------------------------------------------------------------
(* The library.                                                            *)

(* What every function of the library is.                                  *)
LEMMA LibraryFunction ==
  ASSUME NEW f \in DOMAIN Library
  PROVE  /\ Library[f] \in FunctionRecord
         /\ Library[f].arity \in Nat
         /\ Library[f].upvalueCount \in Nat
         /\ Library[f].code \in Seq(Byte)
         /\ Library[f].constants \in Seq(ConstantRecord)
         /\ Verified(Library, Library[f], Heights[f])
<1>1. Library[f] \in FunctionRecord
  BY LibraryAssumption, LenProperties, ElementOfSeq
<1>2. Verified(Library, Library[f], Heights[f])
  BY LibraryAssumption
<1>3. /\ Library[f].arity \in Byte
      /\ Library[f].upvalueCount \in Nat
      /\ Library[f].code \in Seq(Byte)
      /\ Library[f].constants \in Seq(ConstantRecord)
  BY <1>1 DEF FunctionRecord
<1>4. \A n \in Byte : n \in Nat
  OBVIOUS
<1> QED BY <1>1, <1>2, <1>3, <1>4

(* What an offset with a height is.                                        *)
LEMMA LibraryOffset ==
  ASSUME NEW f \in DOMAIN Library, NEW o \in DOMAIN Heights[f]
  PROVE  /\ o \in Nat
         /\ o < Len(Library[f].code)
         /\ Heights[f][o] \in Nat
         /\ OpAt(Library[f], o) \in Byte
         /\ VerifiedAt(Library, Library[f], Heights[f], o)
<1>1. Verified(Library, Library[f], Heights[f]) /\ Library[f].code \in Seq(Byte)
  BY LibraryFunction
<1>2. o \in 0 .. Len(Library[f].code) - 1 /\ Len(Library[f].code) \in Nat
  BY <1>1, LenProperties DEF Verified
<1>3. o + 1 \in 1 .. Len(Library[f].code)
  BY <1>2
<1>4. Library[f].code[o + 1] \in Byte
  BY <1>1, <1>3, ElementOfSeq
<1> QED BY <1>1, <1>2, <1>4 DEF Verified, OpAt

(* The constant an instruction names is there, and of the type it needs.   *)
LEMMA LibraryConstant ==
  ASSUME NEW f \in DOMAIN Library, NEW o \in DOMAIN Heights[f],
         NEW c, c = ConstantAt(Library[f], o)
  PROVE  /\ OpAt(Library[f], o) \in {OP_CONSTANT, OP_CLOSURE} \cup NameOps
              => c \in ConstantRecord
         /\ OpAt(Library[f], o) = OP_CONSTANT => c.type \in {"NUMBER", "STRING"}
         /\ OpAt(Library[f], o) \in NameOps => c.type = "STRING"
         /\ OpAt(Library[f], o) = OP_CLOSURE
              => c.type = "FUNCTION" /\ c.val \in DOMAIN Library
<1> DEFINE F == Library[f]
           k == Operand(F, o) + 1
<1>1. /\ VerifiedAt(Library, F, Heights[f], o)
      /\ F.constants \in Seq(ConstantRecord)
      /\ Len(F.constants) \in Nat /\ DOMAIN F.constants = 1 .. Len(F.constants)
  BY LibraryOffset, LibraryFunction, LenProperties
<1>2. ASSUME OpAt(F, o) \in {OP_CONSTANT, OP_CLOSURE} \cup NameOps
      PROVE  /\ k \in DOMAIN F.constants
             /\ OpAt(F, o) = OP_CONSTANT
                  => F.constants[k].type \in {"NUMBER", "STRING"}
             /\ OpAt(F, o) \in NameOps => F.constants[k].type = "STRING"
             /\ OpAt(F, o) = OP_CLOSURE => F.constants[k].type = "FUNCTION"
  <2>1. CASE OpAt(F, o) = OP_CONSTANT
    BY <1>1, <2>1 DEF VerifiedAt, NameOps, LiteralOps, BinaryOps, ArithmeticOps
  <2>2. CASE OpAt(F, o) = OP_CLOSURE
    BY <1>1, <2>2 DEF VerifiedAt, NameOps, LiteralOps, BinaryOps, ArithmeticOps
  <2>3. CASE OpAt(F, o) \in NameOps
    <3>1. CASE OpAt(F, o) = OP_GET_GLOBAL
      BY <1>1, <3>1 DEF VerifiedAt, LiteralOps, BinaryOps, ArithmeticOps
    <3>2. CASE OpAt(F, o) = OP_SET_GLOBAL
      BY <1>1, <3>2 DEF VerifiedAt, LiteralOps, BinaryOps, ArithmeticOps
    <3>3. CASE OpAt(F, o) = OP_DEFINE_GLOBAL
      BY <1>1, <3>3 DEF VerifiedAt, LiteralOps, BinaryOps, ArithmeticOps
    <3> QED BY <2>3, <3>1, <3>2, <3>3 DEF NameOps
  <2> QED BY <1>2, <2>1, <2>2, <2>3
<1>3. ASSUME k \in DOMAIN F.constants
      PROVE  F.constants[k] \in ConstantRecord
  BY <1>1, <1>3, ElementOfSeq
<1>4. \A x \in ConstantRecord : x.type = "FUNCTION" => x.val \in DOMAIN Library
  BY DEF ConstantRecord
<1>5. c = F.constants[k]
  BY DEF ConstantAt
<1> QED BY <1>2, <1>3, <1>4, <1>5

(* Its operands are bytes and lie within the code.                         *)
LEMMA LibraryOperands ==
  ASSUME NEW f \in DOMAIN Library, NEW o \in DOMAIN Heights[f]
  PROVE  /\ OpAt(Library[f], o) \in ByteOps \cup {OP_CLOSURE}
              => Operand(Library[f], o) \in Byte
         /\ OpAt(Library[f], o) \in JumpOps
              => ShortOperand(Library[f], o) \in Nat
<1> DEFINE F == Library[f]
           next == o + InstructionLength(Library, F, o)
<1>1. /\ o \in Nat /\ VerifiedAt(Library, F, Heights[f], o)
      /\ F.code \in Seq(Byte) /\ Len(F.code) \in Nat
  BY LibraryOffset, LibraryFunction, LenProperties
<1>2. next <= Len(F.code)
  BY <1>1 DEF VerifiedAt
<1>3. ASSUME NEW k \in 1 .. 3, o + k <= Len(F.code)
      PROVE  F.code[o + k] \in Byte
  <2>1. o + k \in 1 .. Len(F.code)
    BY <1>1, <1>3
  <2> QED BY <1>1, <2>1, ElementOfSeq
<1>4. ASSUME OpAt(F, o) \in ByteOps \cup {OP_CLOSURE}
      PROVE  Operand(F, o) \in Byte
  <2>1. next \in Int /\ next >= o + 2
    <3>1. CASE OpAt(F, o) \in ByteOps
      BY <1>1, <3>1 DEF InstructionLength, ByteOps, NameOps, JumpOps
    <3>2. CASE OpAt(F, o) = OP_CLOSURE
      <4>1. Library[ConstantAt(F, o).val].upvalueCount \in Nat
        BY <1>1, <3>2, LibraryFunction, LibraryConstant
           DEF VerifiedAt, ConstantAt
      <4>2. next = o + (2 + 2 * Library[ConstantAt(F, o).val].upvalueCount)
        <5>1. OpAt(F, o) \notin JumpOps
          BY <3>2 DEF JumpOps
        <5> QED BY <3>2, <5>1, Zenon DEF InstructionLength
      <4>3. \A m \in Nat, n \in Nat : m + (2 + 2 * n) \in Int /\ m + (2 + 2 * n) >= m + 2
        OBVIOUS
      <4> QED BY <1>1, <4>1, <4>2, <4>3
    <3> QED BY <1>4, <3>1, <3>2
  <2>2. o + 2 <= Len(F.code)
    BY <1>1, <1>2, <2>1
  <2> QED BY <1>3, <2>2 DEF Operand
<1>5. ASSUME OpAt(F, o) \in JumpOps
      PROVE  ShortOperand(F, o) \in Nat
  <2>1. next = o + 3
    BY <1>5 DEF InstructionLength
  <2>2. F.code[o + 2] \in Byte /\ F.code[o + 3] \in Byte
    <3>1. o + 2 <= Len(F.code) /\ o + 3 <= Len(F.code) /\ 2 \in 1 .. 3 /\ 3 \in 1 .. 3
      BY <1>1, <1>2, <2>1
    <3> QED BY <1>3, <3>1, Zenon
  <2>3. \A b \in 1 .. 255 : \A x, y \in 0 .. 255 : (b + 1) * x + y \in Nat
    OBVIOUS
  <2> QED BY <2>2, <2>3, UInt8Assumption DEF ShortOperand
<1> QED BY <1>4, <1>5

-----------------------------------------------------------------------------
(* The frame that runs.                                                    *)

Height(o) == Heights[frame.function][o]

(* What the invariant says of it.                                          *)
LEMMA Here ==
  ASSUME TypeOK, WindowsCover, status = "RUNNING"
  PROVE  /\ Len(frames) \in Nat /\ Len(frames) >= 1
         /\ DOMAIN frames = 1 .. Len(frames)
         /\ frame.function \in DOMAIN Library
         /\ frame.closure \in -1 .. Len(closures)
         /\ frame.slots \in 0 .. STACK_MAX - 1
         /\ frame.ip \in DOMAIN Heights[frame.function]
         /\ frame.ip \in Nat
         /\ Code = Library[frame.function]
         /\ sp \in 0 .. STACK_MAX
         /\ Height(frame.ip) \in Nat
         /\ sp - frame.slots >= Height(frame.ip)
         /\ VerifiedAt(Library, Code, Heights[frame.function], frame.ip)
<1>1. /\ frames \in Seq(FrameRecord) /\ frames # << >>
     
      /\ sp \in 0 .. STACK_MAX
  BY DEF TypeOK, FramesOK, StatusOK, MemoryOK
<1>2. /\ Len(frames) \in Nat /\ Len(frames) >= 1
      /\ DOMAIN frames = 1 .. Len(frames)
      /\ frame \in FrameRecord
  <2>1. Len(frames) \in Nat \ {0} /\ DOMAIN frames = 1 .. Len(frames)
    BY <1>1, EmptySeq, LenProperties
  <2>2. Len(frames) \in 1 .. Len(frames)
    BY <2>1
  <2> QED BY <1>1, <2>1, <2>2, ElementOfSeq DEF frame
<1>3. /\ frame.function \in DOMAIN Library
      /\ frame.closure \in -1 .. Len(closures)
      /\ frame.slots \in 0 .. STACK_MAX - 1
      /\ frame.ip \in Nat
  BY <1>1, <1>2 DEF FrameRecord
<1>4. /\ frame.ip \in DOMAIN Heights[frame.function]
      /\ sp - frame.slots + 0 >= Height(frame.ip)
  BY <1>2 DEF WindowsCover, WindowEnd, Expected, Pending, frame, Height
<1>5. /\ Height(frame.ip) \in Nat
      /\ VerifiedAt(Library, Library[frame.function],
                    Heights[frame.function], frame.ip)
  BY <1>3, <1>4, LibraryOffset DEF Height
<1>6. Code = Library[frame.function]
  BY <1>1 DEF Code
<1>7. STACK_MAX \in Nat
  BY SizesAssumption
<1> QED BY <1>1, <1>2, <1>3, <1>4, <1>5, <1>6, <1>7

(* Closures are only ever added.                                           *)
ClosuresKept ==
  /\ Len(closures') \in Nat
  /\ Len(closures) <= Len(closures')
  /\ \A c \in 1 .. Len(closures) : closures'[c] = closures[c]

(* The frames, the running one past the n bytes of its instruction.        *)
LEMMA AdvancedFrames ==
  ASSUME TypeOK, status = "RUNNING", NEW n \in Int, frame.ip + n \in Nat
  PROVE  /\ Advanced(n) \in Seq(FrameRecord)
         /\ Len(Advanced(n)) = Len(frames)
         /\ \A i \in 1 .. Len(frames) :
              /\ Advanced(n)[i].function = frames[i].function
              /\ Advanced(n)[i].slots = frames[i].slots
              /\ Advanced(n)[i].closure = frames[i].closure
              /\ Advanced(n)[i].ip = IF i = Len(frames) THEN frame.ip + n
                                                        ELSE frames[i].ip
<1> DEFINE N == Len(frames)
<1>1. /\ frames \in Seq(FrameRecord) /\ frames # << >>
      /\ N \in Nat \ {0} /\ frames \in [1 .. N -> FrameRecord]
      /\ DOMAIN frames = 1 .. N
  BY EmptySeq, LenProperties DEF TypeOK, FramesOK, StatusOK
<1>2. N \in 1 .. N
  BY <1>1
<1>3. \A r \in FrameRecord : /\ [r EXCEPT !.ip = r.ip + n].function = r.function
                             /\ [r EXCEPT !.ip = r.ip + n].slots = r.slots
                             /\ [r EXCEPT !.ip = r.ip + n].closure = r.closure
                             /\ [r EXCEPT !.ip = r.ip + n].ip = r.ip + n
                             /\ r.ip + n \in Nat => [r EXCEPT !.ip = r.ip + n] \in FrameRecord
  BY DEF FrameRecord
<1>4. /\ Advanced(n) \in [1 .. N -> FrameRecord]
      /\ \A i \in 1 .. N :
           /\ Advanced(n)[i].function = frames[i].function
           /\ Advanced(n)[i].slots = frames[i].slots
           /\ Advanced(n)[i].closure = frames[i].closure
           /\ Advanced(n)[i].ip = IF i = N THEN frame.ip + n ELSE frames[i].ip
  BY <1>1, <1>2, <1>3 DEF Advanced, frame
<1>5. Advanced(n) \in Seq(FrameRecord)
  BY <1>1, <1>4, SeqDef
<1>6. Len(Advanced(n)) = N
  <2>1. DOMAIN Advanced(n) = 1 .. N
    BY <1>4
  <2> QED BY <1>1, <1>5, <2>1, LenProperties
<1> QED BY <1>4, <1>5, <1>6

(* The frames after a handler has read its instruction.                    *)
LEMMA MovedFrames ==
  ASSUME TypeOK, status = "RUNNING", NEW n \in Int, frame.ip + n \in Nat,
         Continue(n) \/ RuntimeError(n), ClosuresKept
  PROVE  /\ frames' \in Seq(FrameRecord')
         /\ Len(frames') = Len(frames)
         /\ \A i \in 1 .. Len(frames) :
              /\ frames'[i].function = frames[i].function
              /\ frames'[i].slots = frames[i].slots
              /\ \/ frames'[i].closure = frames[i].closure
                 \/ /\ frames[i].closure = ScriptClosure
                    /\ frames'[i].closure = Dangling
              /\ frames'[i].ip = IF i = Len(frames) THEN frame.ip + n
                                                   ELSE frames[i].ip
<1> DEFINE N == Len(frames)
           R == FrameRecord'
<1>1. /\ frames \in Seq(FrameRecord) /\ frames # << >>
      /\ N \in Nat \ {0} /\ frames \in [1 .. N -> FrameRecord]
      /\ DOMAIN frames = 1 .. N /\ N \in 1 .. N
      /\ Len(closures) \in Nat
  <2>1. frames \in Seq(FrameRecord) /\ frames # << >>
    BY DEF TypeOK, FramesOK, StatusOK
  <2>2. N \in Nat \ {0}
    BY <2>1, EmptySeq
  <2>3. frames \in [1 .. N -> FrameRecord] /\ DOMAIN frames = 1 .. N
    BY <2>1, LenProperties
  <2>4. Len(closures) \in Nat
    BY LenProperties DEF TypeOK, ClosuresOK
  <2> QED BY <2>1, <2>2, <2>3, <2>4
<1>2. FrameRecord \subseteq R
  BY <1>1 DEF FrameRecord, ClosuresKept
<1>4. /\ Advanced(n) \in [1 .. N -> FrameRecord]
      /\ \A i \in 1 .. N :
           /\ Advanced(n)[i].function = frames[i].function
           /\ Advanced(n)[i].slots = frames[i].slots
           /\ Advanced(n)[i].closure = frames[i].closure
           /\ Advanced(n)[i].ip = IF i = N THEN frame.ip + n ELSE frames[i].ip
  BY AdvancedFrames, LenProperties
<1>5. CASE Continue(n)
  <2>1. frames' \in [1 .. N -> R] /\ frames' = Advanced(n)
    BY <1>2, <1>4, <1>5 DEF Continue
  <2>2. frames' \in Seq(R) /\ Len(frames') = N
    BY <1>1, <2>1, SeqDef, LenProperties
  <2> QED BY <1>4, <2>1, <2>2
<1>6. CASE RuntimeError(n)
  <2> DEFINE D(r) == [r EXCEPT !.closure = IF @ = ScriptClosure THEN Dangling ELSE @]
  <2>1. \A r \in FrameRecord :
          /\ D(r) \in FrameRecord
          /\ D(r).function = r.function /\ D(r).slots = r.slots /\ D(r).ip = r.ip
          /\ D(r).closure = IF r.closure = ScriptClosure THEN Dangling
                                                         ELSE r.closure
    <3> SUFFICES ASSUME NEW r \in FrameRecord
                 PROVE  /\ D(r) \in FrameRecord
                        /\ D(r).function = r.function
                        /\ D(r).slots = r.slots /\ D(r).ip = r.ip
                        /\ D(r).closure = IF r.closure = ScriptClosure
                                          THEN Dangling ELSE r.closure
      OBVIOUS
    <3> DEFINE k == IF r.closure = ScriptClosure THEN Dangling ELSE r.closure
    <3>1. r.closure \in -1 .. Len(closures)
      BY DEF FrameRecord
    <3>2. k \in -1 .. Len(closures)
      BY <1>1, <3>1 DEF Dangling, ScriptClosure
    <3>3. D(r) = [r EXCEPT !.closure = k]
      OBVIOUS
    <3> HIDE DEF k, D
    <3>4. /\ [r EXCEPT !.closure = k] \in FrameRecord
          /\ [r EXCEPT !.closure = k].function = r.function
          /\ [r EXCEPT !.closure = k].slots = r.slots
          /\ [r EXCEPT !.closure = k].ip = r.ip
          /\ [r EXCEPT !.closure = k].closure = k
      BY <3>2 DEF FrameRecord
    <3> QED BY <3>3, <3>4 DEF k
  <2>2. frames' = [i \in 1 .. N |-> D(Advanced(n)[i])]
    BY <1>1, <1>6 DEF RuntimeError
  <2>3. /\ frames' \in [1 .. N -> R]
        /\ \A i \in 1 .. N : frames'[i] = D(Advanced(n)[i])
                            /\ Advanced(n)[i] \in FrameRecord
    <3> HIDE DEF D
    <3> QED BY <1>2, <1>4, <2>1, <2>2
  <2>4. frames' \in Seq(R) /\ Len(frames') = N
    BY <1>1, <2>3, SeqDef, LenProperties
  <2> HIDE DEF D
  <2>5. ASSUME NEW i \in 1 .. N
        PROVE  /\ frames'[i].function = frames[i].function
               /\ frames'[i].slots = frames[i].slots
               /\ frames'[i].ip = IF i = N THEN frame.ip + n ELSE frames[i].ip
               /\ frames'[i].closure = IF frames[i].closure = ScriptClosure
                                       THEN Dangling ELSE frames[i].closure
    BY <1>4, <2>1, <2>3
  <2> QED BY <2>4, <2>5
<1> QED BY <1>5, <1>6

(* A handler that reads its instruction and leaves at least what the code  *)
(* counts on next, one value less if it fails.                             *)
LEMMA Moved ==
  ASSUME TypeOK, WindowsCover, status = "RUNNING", NEW n \in Int,
         frame.ip + n \in DOMAIN Heights[frame.function],
         Continue(n) \/ RuntimeError(n), ClosuresKept,
         sp' \in 0 .. STACK_MAX,
         sp' - frame.slots + 1 >= Height(frame.ip + n),
         status' = "RUNNING" => sp' - frame.slots >= Height(frame.ip + n)
  PROVE  FramesOK' /\ WindowsCover' /\ StatusOK'
<1> DEFINE N == Len(frames)
<1>1. /\ N \in Nat /\ N >= 1 /\ DOMAIN frames = 1 .. N
      /\ frame.function \in DOMAIN Library
      /\ frame.slots \in 0 .. STACK_MAX - 1
  BY Here
<1>2. frame.ip + n \in Nat
  BY <1>1, LibraryOffset
<1>3. /\ frames' \in Seq(FrameRecord') /\ Len(frames') = N
      /\ \A i \in 1 .. N :
           /\ frames'[i].function = frames[i].function
           /\ frames'[i].slots = frames[i].slots
           /\ \/ frames'[i].closure = frames[i].closure
              \/ /\ frames[i].closure = ScriptClosure
                 /\ frames'[i].closure = Dangling
           /\ frames'[i].ip = IF i = N THEN frame.ip + n ELSE frames[i].ip
  BY <1>2, MovedFrames
<1>4. DOMAIN frames' = 1 .. N
  BY <1>3, LenProperties
<1>5. FramesOK'
  <2>1. ASSUME NEW i \in 1 .. N
        PROVE  (IF frames[i].closure \in {ScriptClosure, Dangling}
                THEN Library[frames[i].function].upvalueCount = 0
                ELSE closures[frames[i].closure].function = frames[i].function)'
    <3>1. /\ frames[i] \in FrameRecord
          /\ IF frames[i].closure \in {ScriptClosure, Dangling}
             THEN Library[frames[i].function].upvalueCount = 0
             ELSE closures[frames[i].closure].function = frames[i].function
      BY <1>1, ElementOfSeq DEF TypeOK, FramesOK
    <3>2. CASE frames[i].closure \in {ScriptClosure, Dangling}
      BY <1>3, <3>1, <3>2
    <3>3. CASE frames[i].closure \notin {ScriptClosure, Dangling}
      <4>1. frames[i].closure \in 1 .. Len(closures)
        <5>1. Len(closures) \in Nat
          BY LenProperties DEF TypeOK, ClosuresOK
        <5> QED BY <3>1, <3>3, <5>1 DEF FrameRecord, ScriptClosure, Dangling
      <4> QED BY <1>3, <3>1, <3>3, <4>1 DEF ClosuresKept
    <3> QED BY <3>2, <3>3
  <2>2. N <= FRAME_MAX
    BY DEF TypeOK, FramesOK
  <2> QED BY <1>3, <1>4, <2>1, <2>2 DEF FramesOK
<1>6. WindowsCover'
  <2> SUFFICES ASSUME NEW i \in 1 .. N
               PROVE    /\ frames'[i].ip \in DOMAIN Heights[frames'[i].function]
                        /\ WindowEnd(i)' - frames'[i].slots + Pending(i)'
                             >= Expected(i)'
    BY <1>4 DEF WindowsCover
  <2>2. /\ frames[i].ip \in DOMAIN Heights[frames[i].function]
        /\ WindowEnd(i) - frames[i].slots + Pending(i) >= Expected(i)
    BY <1>1 DEF WindowsCover
  <2>3. CASE i = N
    <3>1. frames'[i].ip = frame.ip + n /\ frames'[i].slots = frame.slots
          /\ frames'[i].function = frame.function
      BY <1>3, <2>3 DEF frame
    <3>2. /\ WindowEnd(i)' = sp' /\ Expected(i)' = Height(frame.ip + n)
          /\ Pending(i)' = IF status' = "RUNNING" THEN 0 ELSE 1
      BY <1>3, <2>3, <3>1 DEF WindowEnd, Expected, Pending, Height
    <3>3. Height(frame.ip + n) \in Nat
      BY <1>1, LibraryOffset DEF Height
    <3> QED BY <1>1, <3>1, <3>2, <3>3
  <2>4. CASE i # N
    <3>1. i + 1 \in 1 .. N
      BY <1>1, <2>4, NextIndex
    <3>2. /\ WindowEnd(i)' = WindowEnd(i) /\ Expected(i)' = Expected(i)
          /\ Pending(i)' = 1 /\ Pending(i) = 1
          /\ frames'[i].slots = frames[i].slots
          /\ frames'[i].ip = frames[i].ip
          /\ frames'[i].function = frames[i].function
      BY <1>3, <2>4, <3>1 DEF WindowEnd, Expected, Pending
    <3> QED BY <2>2, <3>2
  <2> QED BY <2>3, <2>4
<1>7. StatusOK'
  <2>1. frames' # << >>
    BY <1>1, <1>3, NotEmpty
  <2>2. status' \in {"RUNNING", "RUNTIME_ERROR", "TERMINATED"}
    BY DEF Continue, RuntimeError, Traceback
  <2> QED BY <2>1, <2>2 DEF StatusOK
<1> QED BY <1>5, <1>6, <1>7

-----------------------------------------------------------------------------
(* The storage.                                                            *)

(* Values stay values when closures are added.                             *)
LEMMA ValuesKept ==
  ASSUME TypeOK, ClosuresKept,
         DOMAIN closures' = 1 .. Len(closures')
  PROVE  Value \subseteq Value'
<1>1. DOMAIN closures = 1 .. Len(closures) /\ Len(closures) \in Nat
  BY LenProperties DEF TypeOK, ClosuresOK
<1>2. DOMAIN closures \subseteq DOMAIN closures'
  BY <1>1 DEF ClosuresKept
<1> QED BY <1>2 DEF Value, Nil, NativeClock

LEMMA WrittenStore ==
  ASSUME NEW V, NEW W, NEW M \in Nat, NEW m \in [0 .. M - 1 -> W],
         NEW s \in Nat, NEW t \in Nat, s <= M, t <= M, Written(m, s, V),
         NEW k \in 0 .. M - 1, NEW v \in V, t <= s \/ (k = s /\ t = s + 1)
  PROVE  Written([m EXCEPT ![k] = v], t, V)
<1> SUFFICES ASSUME NEW i \in 0 .. t - 1
             PROVE  [m EXCEPT ![k] = v][i] \in V
  BY DEF Written
<1>1. i \in 0 .. M - 1 /\ (i \in 0 .. s - 1 \/ i = k)
  OBVIOUS
<1> QED BY <1>1 DEF Written

LEMMA WrittenLess ==
  ASSUME NEW V, NEW m, NEW s \in Nat, NEW t \in Nat, t <= s, Written(m, s, V)
  PROVE  Written(m, t, V)
BY DEF Written

LEMMA UpvaluesWrittenStore ==
  ASSUME NEW V, NEW W, NEW M, NEW m \in [0 .. M - 1 -> W], NEW F,
         NEW cs \in Seq([function : F, upvalues : Seq(0 .. M - 1)]),
         UpvaluesWritten(cs, m, V), NEW k \in 0 .. M - 1, NEW v \in V
  PROVE  UpvaluesWritten(cs, [m EXCEPT ![k] = v], V)
<1> SUFFICES ASSUME NEW c \in DOMAIN cs, NEW i \in DOMAIN cs[c].upvalues
             PROVE  [m EXCEPT ![k] = v][cs[c].upvalues[i]] \in V
  BY DEF UpvaluesWritten
<1>1. cs[c] \in [function : F, upvalues : Seq(0 .. M - 1)]
  BY LenProperties, ElementOfSeq
<1>2. cs[c].upvalues[i] \in 0 .. M - 1
  <2>1. cs[c].upvalues \in Seq(0 .. M - 1)
    BY <1>1
  <2> QED BY <2>1, LenProperties, ElementOfSeq
<1> QED BY <1>2 DEF UpvaluesWritten

(* A value is written into cell k, and nothing above it is uncovered.      *)
LEMMA Stored ==
  ASSUME TypeOK, NoUninitRead, NEW k \in 0 .. STACK_MAX - 1, NEW v \in Value,
         mem' = [mem EXCEPT ![k] = v], sp' \in 0 .. STACK_MAX,
         sp' <= sp \/ (k = sp /\ sp' = sp + 1),
         closures' = closures
  PROVE  MemoryOK' /\ NoUninitRead'
<1>1. Value' = Value
  BY DEF Value
<1>2. /\ mem \in [0 .. STACK_MAX - 1 -> Value \cup {Uninit}]
      /\ sp \in 0 .. STACK_MAX
  BY DEF TypeOK, MemoryOK
<1>3. MemoryOK'
  BY <1>1, <1>2 DEF MemoryOK, Uninit
<1>4. Written(mem', sp', Value)
  <2>1. /\ sp \in Nat /\ sp' \in Nat /\ STACK_MAX \in Nat
        /\ sp <= STACK_MAX /\ sp' <= STACK_MAX
    BY <1>2, SizesAssumption
  <2> QED BY <1>2, <2>1, WrittenStore DEF NoUninitRead
<1>5. UpvaluesWritten(closures, mem', Value)
  BY <1>2, UpvaluesWrittenStore DEF TypeOK, NoUninitRead, ClosuresOK, ClosureRecord
<1> QED BY <1>1, <1>3, <1>4, <1>5 DEF NoUninitRead

(* Nothing is written, and nothing is uncovered.                           *)
LEMMA Untouched ==
  ASSUME TypeOK, NoUninitRead, mem' = mem, sp' \in 0 .. sp,
         closures' = closures
  PROVE  MemoryOK' /\ NoUninitRead'
<1>1. Value' = Value
  BY DEF Value
<1>2. sp \in 0 .. STACK_MAX /\ STACK_MAX \in Nat /\ sp \in Nat /\ sp' \in Nat
  BY SizesAssumption DEF TypeOK, MemoryOK
<1>3. MemoryOK'
  BY <1>1, <1>2 DEF TypeOK, MemoryOK, Uninit
<1>4. Written(mem', sp', Value)
  BY <1>2, WrittenLess DEF NoUninitRead
<1> QED BY <1>1, <1>3, <1>4 DEF NoUninitRead

-----------------------------------------------------------------------------
(* Whole steps of a handler that makes no frame and no closure.            *)

LEMMA SameClosures ==
  ASSUME TypeOK, closures' = closures
  PROVE  /\ ClosuresKept /\ ClosuresOK'
         /\ globals' = globals => GlobalsOK'
<1>1. Len(closures) \in Nat
  BY LenProperties DEF TypeOK, ClosuresOK
<1>2. Value' = Value /\ ClosureRecord' = ClosureRecord
  BY DEF Value, ClosureRecord
<1>3. ClosuresOK'
  BY <1>2 DEF TypeOK, ClosuresOK
<1>4. globals' = globals => GlobalsOK'
  BY <1>2 DEF TypeOK, GlobalsOK, Undefined
<1> QED BY <1>1, <1>3, <1>4 DEF TypeOK, ClosuresKept

(* A value is stored and the next instruction follows.                     *)
LEMMA StoreStep ==
  ASSUME IInv, status = "RUNNING", NEW n \in Int,
         frame.ip + n \in DOMAIN Heights[frame.function], Continue(n),
         NEW k \in 0 .. STACK_MAX - 1, NEW v \in Value,
         NEW t \in 0 .. STACK_MAX, t <= sp \/ (k = sp /\ t = sp + 1),
         t - frame.slots >= Height(frame.ip + n),
         mem' = [mem EXCEPT ![k] = v], sp' = t,
         UNCHANGED <<closures, globals>>
  PROVE  IInv'
<1>1. MemoryOK' /\ NoUninitRead'
  BY Stored DEF IInv
<1>2. t - frame.slots + 1 >= Height(frame.ip + n)
  <2>1. frame.function \in DOMAIN Library /\ frame.slots \in Int /\ t \in Int
    BY Here DEF IInv
  <2>2. Height(frame.ip + n) \in Int
    BY <2>1, LibraryOffset DEF Height
  <2>3. \A x, y \in Int, h \in Int : x - y >= h => x - y + 1 >= h
    OBVIOUS
  <2> QED BY <2>1, <2>2, <2>3
<1>3. FramesOK' /\ WindowsCover' /\ StatusOK'
  BY <1>2, Moved, SameClosures DEF IInv
<1> QED BY <1>1, <1>3, SameClosures DEF IInv, TypeOK

(* Nothing is stored, and the next instruction follows or the run fails.   *)
LEMMA KeepStep ==
  ASSUME IInv, status = "RUNNING", NEW n \in Int,
         frame.ip + n \in DOMAIN Heights[frame.function],
         Continue(n) \/ RuntimeError(n), mem' = mem,
         NEW t \in 0 .. sp, sp' = t,
         t - frame.slots + 1 >= Height(frame.ip + n),
         status' = "RUNNING" => t - frame.slots >= Height(frame.ip + n),
         UNCHANGED closures, GlobalsOK'
  PROVE  IInv'
<1>1. MemoryOK' /\ NoUninitRead'
  BY Untouched DEF IInv
<1>2. sp' \in 0 .. STACK_MAX
  BY <1>1 DEF MemoryOK
<1>3. FramesOK' /\ WindowsCover' /\ StatusOK'
  BY <1>2, Moved, SameClosures DEF IInv
<1> QED BY <1>1, <1>3, SameClosures DEF IInv, TypeOK

(* Only the status changes.                                                *)
LEMMA StatusStep ==
  ASSUME IInv, UNCHANGED <<mem, sp, frames, closures, globals>>,
         status' \in {"COMPILE_ERROR", "TERMINATED", "RUNTIME_ERROR"}
  PROVE  IInv'
<1>1. MemoryOK' /\ NoUninitRead'
  <2>1. sp' \in 0 .. sp
    BY DEF IInv, TypeOK, MemoryOK
  <2> QED BY <2>1, Untouched DEF IInv
<1>2. FramesOK'
  <2>1. FrameRecord' = FrameRecord
    BY DEF FrameRecord
  <2> QED BY <2>1 DEF IInv, TypeOK, FramesOK
<1>3. WindowsCover'
  <2> SUFFICES ASSUME NEW i \in DOMAIN frames
               PROVE  /\ frames[i].ip \in DOMAIN Heights[frames[i].function]
                      /\ WindowEnd(i)' - frames[i].slots + Pending(i)' >= Expected(i)'
    BY DEF WindowsCover
  <2>1. /\ frames[i].ip \in DOMAIN Heights[frames[i].function]
        /\ WindowEnd(i) - frames[i].slots + Pending(i) >= Expected(i)
    BY DEF IInv, WindowsCover
  <2>2. /\ WindowEnd(i)' = WindowEnd(i) /\ Expected(i)' = Expected(i)
        /\ Pending(i)' = 1 /\ Pending(i) \in {0, 1}
    BY DEF WindowEnd, Expected, Pending
  <2>3. frames[i] \in FrameRecord /\ DOMAIN frames = 1 .. Len(frames) /\ Len(frames) \in Nat
    BY LenProperties, ElementOfSeq DEF IInv, TypeOK, FramesOK
  <2>4. frames[i].function \in DOMAIN Library /\ frames[i].slots \in 0 .. STACK_MAX - 1
    BY <2>3 DEF FrameRecord, IInv, TypeOK
  <2>5. Expected(i) \in Nat
    BY <2>1, <2>4, LibraryOffset DEF Expected
  <2>6. WindowEnd(i) \in Int
    <3>1. CASE i = Len(frames)
      BY <3>1 DEF WindowEnd, IInv, TypeOK, MemoryOK
    <3>2. CASE i # Len(frames)
      <4>1. i + 1 \in 1 .. Len(frames)
        BY <2>3, <3>2, NextIndex
      <4>2. frames[i + 1] \in FrameRecord
        BY <4>1, ElementOfSeq DEF IInv, TypeOK, FramesOK
      <4> QED BY <3>2, <4>2 DEF WindowEnd, FrameRecord
    <3> QED BY <3>1, <3>2
  <2>7. \A w, l, p, e \in Int : w - l + p >= e /\ p \in {0, 1} => w - l + 1 >= e
    OBVIOUS
  <2> QED BY <2>1, <2>2, <2>4, <2>5, <2>6, <2>7
<1>4. StatusOK'
  BY DEF StatusOK
<1> QED BY <1>1, <1>2, <1>3, <1>4, SameClosures DEF IInv, TypeOK

-----------------------------------------------------------------------------
(* Steps that push, or pop some values and push.                           *)

LEMMA HereSizes ==
  ASSUME IInv, status = "RUNNING"
  PROVE  /\ sp \in 0 .. STACK_MAX /\ STACK_MAX \in Nat
         /\ frame.slots \in 0 .. STACK_MAX - 1
         /\ Height(frame.ip) \in Nat
         /\ sp - frame.slots >= Height(frame.ip)
BY Here, SizesAssumption DEF IInv

LEMMA ArgHere ==
  ASSUME IInv, status = "RUNNING", OpAt(Code, frame.ip) \in ByteOps \cup {OP_CLOSURE}
  PROVE  Arg \in 0 .. 255
<1>1. /\ frame.function \in DOMAIN Library /\ Code = Library[frame.function]
      /\ frame.ip \in DOMAIN Heights[frame.function]
  BY Here DEF IInv
<1>2. Operand(Library[frame.function], frame.ip) \in Byte
  BY <1>1, LibraryOperands
<1> QED BY <1>1, <1>2 DEF Arg

LEMMA PeekValue ==
  ASSUME IInv, status = "RUNNING", NEW k \in Nat, k + 1 <= Height(frame.ip)
  PROVE  Peek(k) \in Value
<1>1. sp - 1 - k \in 0 .. sp - 1
  BY Here DEF IInv
<1> QED BY <1>1 DEF Peek, IInv, NoUninitRead, Written

LEMMA Constructed ==
  /\ \A x \in Numbers : Number(x) \in Value
  /\ \A b \in BOOLEAN : Bool(b) \in Value
  /\ Nil \in Value
  /\ \A v \in Value : IsNumber(v) => v.val \in Numbers
<1>1. \A b \in BOOLEAN : Bool(b) \in [type : {"BOOL"}, val : {0, 1}]
  BY DEF Bool
<1>2. \A v \in Value : IsNumber(v) => v.val \in Numbers
  BY DEF Value, IsNumber, GetType, Nil, NativeClock
<1> QED BY <1>1, <1>2 DEF Value, Number, Nil

(* A push that leaves at least the height the next instruction counts on.  *)
LEMMA PushCovers ==
  ASSUME IInv, status = "RUNNING", NEW n \in Int, NEW v \in Value, Push(v, n),
         frame.ip + n \in DOMAIN Heights[frame.function],
         Height(frame.ip + n) <= Height(frame.ip) + 1,
         UNCHANGED <<closures, globals>>
  PROVE  IInv'
<1>1. /\ frame.ip + n \in DOMAIN Heights[frame.function]
      /\ Height(frame.ip + n) \in Nat
      /\ Height(frame.ip + n) <= Height(frame.ip) + 1
  BY Here, LibraryOffset DEF IInv, Height
<1>2. CASE sp < STACK_MAX
  <2>1. /\ mem' = [mem EXCEPT ![sp] = v] /\ sp' = sp + 1 /\ Continue(n)
    BY <1>2 DEF Push
  <2>2. /\ sp \in 0 .. STACK_MAX - 1 /\ sp + 1 \in 0 .. STACK_MAX
        /\ sp + 1 - frame.slots >= Height(frame.ip + n)
    BY <1>1, <1>2, HereSizes
  <2>3. ASSUME NEW t, t = sp + 1
        PROVE  IInv'
    <3>1. t \in 0 .. STACK_MAX /\ t - frame.slots >= Height(frame.ip + n)
      BY <2>2, <2>3, HereSizes
    <3>2. sp' = t
      BY <2>1, <2>3
    <3> QED BY <1>1, <2>1, <2>2, <2>3, <3>1, <3>2, StoreStep
  <2> QED BY <2>3
<1>3. CASE ~(sp < STACK_MAX)
  BY <1>3, StatusStep DEF Push, Terminate
<1> QED BY <1>2, <1>3

LEMMA PushStep ==
  ASSUME IInv, status = "RUNNING", NEW n \in Int, NEW v \in Value, Push(v, n),
         Flows(Heights[frame.function], frame.ip + n, Height(frame.ip) + 1),
         UNCHANGED <<closures, globals>>
  PROVE  IInv'
<1>1. /\ frame.ip + n \in DOMAIN Heights[frame.function]
      /\ Height(frame.ip + n) = Height(frame.ip) + 1
  BY DEF Flows, Height
<1>2. Height(frame.ip + n) <= Height(frame.ip) + 1
  BY <1>1, HereSizes
<1> QED BY <1>1, <1>2, PushCovers

LEMMA ReplaceStep ==
  ASSUME IInv, status = "RUNNING", NEW n \in Int, NEW k \in Nat \ {0},
         NEW v \in Value, Replace(k, v, n), k + 1 <= Height(frame.ip),
         frame.ip + n \in DOMAIN Heights[frame.function],
         Height(frame.ip + n) <= Height(frame.ip) - k + 1,
         UNCHANGED <<closures, globals>>
  PROVE  IInv'
<1>1. /\ mem' = [mem EXCEPT ![sp - k] = v] /\ sp' = sp - k + 1 /\ Continue(n)
  BY DEF Replace
<1>2. Height(frame.ip + n) \in Nat
  BY Here, LibraryOffset DEF IInv, Height
<1>3. /\ sp - k \in 0 .. STACK_MAX - 1 /\ sp - k + 1 \in 0 .. STACK_MAX
      /\ sp - k + 1 <= sp
      /\ sp - k + 1 - frame.slots >= Height(frame.ip + n)
  BY <1>2, HereSizes
<1>4. ASSUME NEW t, t = sp - k + 1, NEW j, j = sp - k
      PROVE  IInv'
  <2>1. /\ t \in 0 .. STACK_MAX /\ t <= sp
        /\ t - frame.slots >= Height(frame.ip + n)
        /\ j \in 0 .. STACK_MAX - 1
    BY <1>3, <1>4, HereSizes
  <2>2. sp' = t /\ mem' = [mem EXCEPT ![j] = v]
    BY <1>1, <1>4
  <2> QED BY <1>1, <2>1, <2>2, StoreStep
<1> QED BY <1>4

(* Nothing is stored and j values are dropped.                             *)
LEMMA DropStep ==
  ASSUME IInv, status = "RUNNING", NEW n \in Int, NEW j \in Nat, Continue(n),
         mem' = mem, sp' = sp - j, j <= Height(frame.ip),
         NEW h, Flows(Heights[frame.function], frame.ip + n, h),
         h <= Height(frame.ip) - j,
         UNCHANGED closures, GlobalsOK'
  PROVE  IInv'
<1>1. /\ frame.ip + n \in DOMAIN Heights[frame.function]
      /\ Height(frame.ip + n) \in Nat /\ Height(frame.ip + n) = h
  BY Here, LibraryOffset DEF IInv, Height, Flows
<1>2. ASSUME NEW t, t = sp - j
      PROVE  IInv'
  <2>1. /\ t \in 0 .. sp
        /\ t - frame.slots + 1 >= Height(frame.ip + n)
        /\ t - frame.slots >= Height(frame.ip + n)
    BY <1>1, <1>2, HereSizes
  <2>2. sp' = t
    BY <1>2
  <2> QED BY <1>1, <2>1, <2>2, KeepStep
<1> QED BY <1>2

(* A value is stored below the top.                                        *)
LEMMA AssignStep ==
  ASSUME IInv, status = "RUNNING", NEW n \in Int, Continue(n),
         NEW k \in 0 .. STACK_MAX - 1, NEW v \in Value,
         mem' = [mem EXCEPT ![k] = v], UNCHANGED <<sp, closures, globals>>,
         Flows(Heights[frame.function], frame.ip + n, Height(frame.ip))
  PROVE  IInv'
<1>1. /\ frame.ip + n \in DOMAIN Heights[frame.function]
      /\ Height(frame.ip + n) = Height(frame.ip)
  BY DEF Flows, Height
<1>2. ASSUME NEW t, t = sp
      PROVE  IInv'
  <2>1. t \in 0 .. STACK_MAX /\ t <= sp /\ t - frame.slots >= Height(frame.ip + n)
    BY <1>1, <1>2, HereSizes
  <2> QED BY <1>1, <1>2, <2>1, StoreStep
<1> QED BY <1>2

(* A handler refuses its operands, which stay where they are.              *)
LEMMA FailStep ==
  ASSUME IInv, status = "RUNNING", NEW n \in Int, RuntimeError(n),
         UNCHANGED <<mem, sp, closures, globals>>,
         NEW h, Flows(Heights[frame.function], frame.ip + n, h),
         h <= Height(frame.ip) + 1
  PROVE  IInv'
<1>1. /\ frame.ip + n \in DOMAIN Heights[frame.function]
      /\ Height(frame.ip + n) \in Nat /\ Height(frame.ip + n) = h
  BY Here, LibraryOffset DEF IInv, Height, Flows
<1>2. sp \in 0 .. sp /\ sp - frame.slots + 1 >= Height(frame.ip + n)
  BY <1>1, HereSizes
<1>3. status' # "RUNNING"
  BY DEF RuntimeError, Traceback
<1>4. GlobalsOK'
  BY SameClosures DEF IInv
<1> QED BY <1>1, <1>2, <1>3, <1>4, KeepStep

-----------------------------------------------------------------------------
(* The handlers.                                                           *)

USE DEF LiteralOps, BinaryOps, ArithmeticOps, NameOps, ByteOps, JumpOps

LEMMA OpConstantStep == IInv /\ OpConstant => IInv'
<1> SUFFICES ASSUME IInv, OpConstant PROVE IInv'
  OBVIOUS
<1>1. /\ status = "RUNNING" /\ OpAt(Code, frame.ip) = OP_CONSTANT
      /\ Push(Constant, 2) /\ UNCHANGED <<closures, globals>>
  BY DEF OpConstant, Running
<1>2. Flows(Heights[frame.function], frame.ip + 2, Height(frame.ip) + 1)
  BY <1>1, Here DEF IInv, VerifiedAt, Height, InstructionLength
<1>3. Constant \in Value
  <2>1. Constant \in ConstantRecord /\ Constant.type \in {"NUMBER", "STRING"}
    BY <1>1, Here, LibraryConstant DEF IInv, Constant
  <2> QED BY <2>1 DEF ConstantRecord, Value
<1> QED BY <1>1, <1>2, <1>3, PushStep

LEMMA OpLiteralStep == IInv /\ OpLiteral => IInv'
<1> SUFFICES ASSUME IInv, OpLiteral PROVE IInv'
  OBVIOUS
<1>1. ASSUME Running(OP_NIL) \/ Running(OP_TRUE) \/ Running(OP_FALSE)
      PROVE  /\ status = "RUNNING"
             /\ Flows(Heights[frame.function], frame.ip + 1, Height(frame.ip) + 1)
  <2>1. CASE Running(OP_NIL)
    BY <2>1, Here DEF IInv, VerifiedAt, Height, InstructionLength, Running
  <2>2. CASE Running(OP_TRUE)
    BY <2>2, Here DEF IInv, VerifiedAt, Height, InstructionLength, Running
  <2>3. CASE Running(OP_FALSE)
    BY <2>3, Here DEF IInv, VerifiedAt, Height, InstructionLength, Running
  <2> QED BY <1>1, <2>1, <2>2, <2>3
<1>2. UNCHANGED <<closures, globals>>
  BY DEF OpLiteral
<1>3. ASSUME NEW v \in Value, Push(v, 1),
             Running(OP_NIL) \/ Running(OP_TRUE) \/ Running(OP_FALSE)
      PROVE  IInv'
  BY <1>1, <1>2, <1>3, PushStep
<1> QED BY <1>3, Constructed DEF OpLiteral

LEMMA OpPopStep == IInv /\ OpPop => IInv'
<1> SUFFICES ASSUME IInv, OpPop PROVE IInv'
  OBVIOUS
<1>1. /\ status = "RUNNING" /\ OpAt(Code, frame.ip) = OP_POP /\ sp' = sp - 1
      /\ Continue(1) /\ UNCHANGED <<mem, closures, globals>>
  BY DEF OpPop, Running
<1>2. 1 <= Height(frame.ip) /\ Flows(Heights[frame.function], frame.ip + 1, Height(frame.ip) - 1)
  BY <1>1, Here DEF IInv, VerifiedAt, Height, InstructionLength
<1>3. GlobalsOK'
  BY <1>1, SameClosures DEF IInv
<1>4. /\ mem' = mem /\ UNCHANGED closures /\ Height(frame.ip) \in Nat
      /\ Height(frame.ip) - 1 <= Height(frame.ip) - 1
  BY <1>1, HereSizes
<1> QED BY <1>1, <1>2, <1>3, <1>4, DropStep

LEMMA OpPrintStep == IInv /\ OpPrint => IInv'
<1> SUFFICES ASSUME IInv, OpPrint PROVE IInv'
  OBVIOUS
<1>1. /\ status = "RUNNING" /\ OpAt(Code, frame.ip) = OP_PRINT /\ sp' = sp - 1
      /\ Continue(1) /\ UNCHANGED <<mem, closures, globals>>
  BY DEF OpPrint, Running
<1>2. 1 <= Height(frame.ip) /\ Flows(Heights[frame.function], frame.ip + 1, Height(frame.ip) - 1)
  BY <1>1, Here DEF IInv, VerifiedAt, Height, InstructionLength
<1>3. GlobalsOK'
  BY <1>1, SameClosures DEF IInv
<1>4. /\ mem' = mem /\ UNCHANGED closures /\ Height(frame.ip) \in Nat
      /\ Height(frame.ip) - 1 <= Height(frame.ip) - 1
  BY <1>1, HereSizes
<1> QED BY <1>1, <1>2, <1>3, <1>4, DropStep

LEMMA OpJumpStep == IInv /\ OpJump => IInv'
<1> SUFFICES ASSUME IInv, OpJump PROVE IInv'
  OBVIOUS
<1> DEFINE d == ShortOperand(Code, frame.ip)
<1>1. /\ status = "RUNNING" /\ OpAt(Code, frame.ip) = OP_JUMP
      /\ Continue(3 + d) /\ UNCHANGED <<mem, sp, closures, globals>>
  BY DEF OpJump, Running
<1>2. d \in Nat
  BY <1>1, Here, LibraryOperands DEF IInv
<1>3. Flows(Heights[frame.function], frame.ip + (3 + d), Height(frame.ip))
  <2>1. Flows(Heights[frame.function], (frame.ip + 3) + d, Height(frame.ip))
    BY <1>1, Here DEF IInv, VerifiedAt, Height, InstructionLength
  <2>2. frame.ip \in Nat
    BY <1>1, Here DEF IInv
  <2>3. (frame.ip + 3) + d = frame.ip + (3 + d)
    BY <1>2, <2>2
  <2> QED BY <2>1, <2>3
<1>4. GlobalsOK'
  BY <1>1, SameClosures DEF IInv
<1> HIDE DEF d
<1>5. Height(frame.ip) <= Height(frame.ip) - 0 /\ sp' = sp - 0 /\ 0 <= Height(frame.ip)
  BY <1>1, HereSizes
<1> QED BY <1>1, <1>2, <1>3, <1>4, <1>5, DropStep

LEMMA OpLoopStep == IInv /\ OpLoop => IInv'
<1> SUFFICES ASSUME IInv, OpLoop PROVE IInv'
  OBVIOUS
<1> DEFINE d == ShortOperand(Code, frame.ip)
<1>1. /\ status = "RUNNING" /\ OpAt(Code, frame.ip) = OP_LOOP
      /\ Continue(3 - d) /\ UNCHANGED <<mem, sp, closures, globals>>
  BY DEF OpLoop, Running
<1>2. d \in Nat
  BY <1>1, Here, LibraryOperands DEF IInv
<1>3. Flows(Heights[frame.function], frame.ip + (3 - d), Height(frame.ip))
  <2>1. Flows(Heights[frame.function], (frame.ip + 3) - d, Height(frame.ip))
    BY <1>1, Here DEF IInv, VerifiedAt, Height, InstructionLength
  <2>2. frame.ip \in Nat
    BY <1>1, Here DEF IInv
  <2>3. (frame.ip + 3) - d = frame.ip + (3 - d)
    BY <1>2, <2>2
  <2> QED BY <2>1, <2>3
<1>4. GlobalsOK'
  BY <1>1, SameClosures DEF IInv
<1> HIDE DEF d
<1>5. Height(frame.ip) <= Height(frame.ip) - 0 /\ sp' = sp - 0 /\ 0 <= Height(frame.ip)
  BY <1>1, HereSizes
<1> QED BY <1>1, <1>2, <1>3, <1>4, <1>5, DropStep

LEMMA OpGetGlobalStep == IInv /\ OpGetGlobal => IInv'
<1> SUFFICES ASSUME IInv, OpGetGlobal PROVE IInv'
  OBVIOUS
<1>1. /\ status = "RUNNING" /\ OpAt(Code, frame.ip) = OP_GET_GLOBAL
      /\ UNCHANGED <<closures, globals>>
  BY DEF OpGetGlobal, Running
<1>2. Flows(Heights[frame.function], frame.ip + 2, Height(frame.ip) + 1)
  BY <1>1, Here DEF IInv, VerifiedAt, Height, InstructionLength
<1>3. Named /\ Constant.val \in Names
  <2>1. Constant \in ConstantRecord /\ Constant.type = "STRING"
    BY <1>1, Here, LibraryConstant DEF IInv, Constant
  <2> QED BY <2>1 DEF ConstantRecord, Named
<1>4. CASE IsDefined(Constant.val)
  <2>1. globals[Constant.val] \in Value
    BY <1>3, <1>4 DEF IsDefined, IInv, TypeOK, GlobalsOK
  <2>2. Push(globals[Constant.val], 2)
    BY <1>3, <1>4 DEF OpGetGlobal
  <2> QED BY <1>1, <1>2, <2>1, <2>2, PushStep
<1>5. CASE ~IsDefined(Constant.val)
  <2>1. RuntimeError(2) /\ UNCHANGED <<mem, sp>>
    BY <1>3, <1>5 DEF OpGetGlobal
  <2>2. Height(frame.ip) + 1 <= Height(frame.ip) + 1
    BY <1>1, HereSizes
  <2> QED BY <1>1, <1>2, <2>1, <2>2, FailStep
<1> QED BY <1>4, <1>5

(* An assignment to a global keeps the globals values.                     *)
LEMMA GlobalStored ==
  ASSUME IInv, NEW x \in Names, NEW v \in Value,
         globals' = [globals EXCEPT ![x] = v], UNCHANGED closures
  PROVE  GlobalsOK'
<1>1. Value' = Value
  BY DEF Value
<1> QED BY <1>1 DEF IInv, TypeOK, GlobalsOK, Undefined

LEMMA OpSetGlobalStep == IInv /\ OpSetGlobal => IInv'
<1> SUFFICES ASSUME IInv, OpSetGlobal PROVE IInv'
  OBVIOUS
<1>1. /\ status = "RUNNING" /\ OpAt(Code, frame.ip) = OP_SET_GLOBAL
      /\ UNCHANGED <<mem, sp, closures>>
  BY DEF OpSetGlobal, Running
<1>2. /\ Flows(Heights[frame.function], frame.ip + 2, Height(frame.ip))
      /\ Height(frame.ip) >= 2
  BY <1>1, Here DEF IInv, VerifiedAt, Height, InstructionLength
<1>3. Named /\ Constant.val \in Names
  <2>1. Constant \in ConstantRecord /\ Constant.type = "STRING"
    BY <1>1, Here, LibraryConstant DEF IInv, Constant
  <2> QED BY <2>1 DEF ConstantRecord, Named
<1>4. /\ Height(frame.ip) <= Height(frame.ip) - 0 /\ sp' = sp - 0
      /\ 0 <= Height(frame.ip) /\ Height(frame.ip) <= Height(frame.ip) + 1
      /\ 0 + 1 <= Height(frame.ip)
  BY <1>1, <1>2, HereSizes
<1>5. CASE IsDefined(Constant.val)
  <2>1. /\ globals' = [globals EXCEPT ![Constant.val] = Peek(0)]
        /\ Continue(2)
    BY <1>3, <1>5 DEF OpSetGlobal
  <2>2. Peek(0) \in Value
    BY <1>1, <1>4, PeekValue
  <2>3. GlobalsOK'
    BY <1>1, <1>3, <2>1, <2>2, GlobalStored
  <2> QED BY <1>1, <1>2, <1>4, <2>1, <2>3, DropStep
<1>6. CASE ~IsDefined(Constant.val)
  <2>1. RuntimeError(2) /\ UNCHANGED globals
    BY <1>3, <1>6 DEF OpSetGlobal
  <2> QED BY <1>1, <1>2, <1>4, <2>1, FailStep
<1> QED BY <1>5, <1>6

LEMMA OpDefineGlobalStep == IInv /\ OpDefineGlobal => IInv'
<1> SUFFICES ASSUME IInv, OpDefineGlobal PROVE IInv'
  OBVIOUS
<1>1. /\ status = "RUNNING" /\ OpAt(Code, frame.ip) = OP_DEFINE_GLOBAL
      /\ Continue(2) /\ UNCHANGED <<mem, closures>>
  BY DEF OpDefineGlobal, Running
<1>2. /\ Flows(Heights[frame.function], frame.ip + 2, Height(frame.ip) - 1)
      /\ Height(frame.ip) >= 2
  BY <1>1, Here DEF IInv, VerifiedAt, Height, InstructionLength
<1>3. Named /\ Constant.val \in Names
  <2>1. Constant \in ConstantRecord /\ Constant.type = "STRING"
    BY <1>1, Here, LibraryConstant DEF IInv, Constant
  <2> QED BY <2>1 DEF ConstantRecord, Named
<1>4. globals' = [globals EXCEPT ![Constant.val] = Peek(0)] /\ sp' = sp - 1
  BY <1>3 DEF OpDefineGlobal
<1>5. /\ Height(frame.ip) - 1 <= Height(frame.ip) - 1
      /\ 1 <= Height(frame.ip) /\ 0 + 1 <= Height(frame.ip)
  BY <1>1, <1>2, HereSizes
<1>6. GlobalsOK'
  <2>1. Peek(0) \in Value
    BY <1>1, <1>5, PeekValue
  <2> QED BY <1>1, <1>3, <1>4, <2>1, GlobalStored
<1> QED BY <1>1, <1>2, <1>4, <1>5, <1>6, DropStep

LEMMA OpGetLocalStep == IInv /\ OpGetLocal => IInv'
<1> SUFFICES ASSUME IInv, OpGetLocal PROVE IInv'
  OBVIOUS
<1>1. /\ status = "RUNNING" /\ OpAt(Code, frame.ip) = OP_GET_LOCAL
      /\ Push(mem[frame.slots + Arg], 2) /\ UNCHANGED <<closures, globals>>
  BY DEF OpGetLocal, Running
<1>2. /\ Flows(Heights[frame.function], frame.ip + 2, Height(frame.ip) + 1)
      /\ Arg < Height(frame.ip)
  BY <1>1, Here DEF IInv, VerifiedAt, Height, InstructionLength, Arg
<1>3. Arg \in 0 .. 255
  BY <1>1, ArgHere DEF ByteOps
<1>4. frame.slots + Arg \in 0 .. sp - 1
  BY <1>1, <1>2, <1>3, HereSizes
<1>5. mem[frame.slots + Arg] \in Value
  BY <1>4 DEF IInv, NoUninitRead, Written
<1> QED BY <1>1, <1>2, <1>5, PushStep

LEMMA OpSetLocalStep == IInv /\ OpSetLocal => IInv'
<1> SUFFICES ASSUME IInv, OpSetLocal PROVE IInv'
  OBVIOUS
<1>1. /\ status = "RUNNING" /\ OpAt(Code, frame.ip) = OP_SET_LOCAL
      /\ Continue(2) /\ mem' = [mem EXCEPT ![frame.slots + Arg] = Peek(0)]
      /\ UNCHANGED <<sp, closures, globals>>
  BY DEF OpSetLocal, Running
<1>2. /\ Flows(Heights[frame.function], frame.ip + 2, Height(frame.ip))
      /\ Arg < Height(frame.ip) /\ Height(frame.ip) >= 2
  BY <1>1, Here DEF IInv, VerifiedAt, Height, InstructionLength, Arg
<1>3. Arg \in 0 .. 255
  BY <1>1, ArgHere DEF ByteOps
<1>4. frame.slots + Arg \in 0 .. STACK_MAX - 1 /\ 0 + 1 <= Height(frame.ip)
  BY <1>1, <1>2, <1>3, HereSizes
<1>5. Peek(0) \in Value
  BY <1>1, <1>4, PeekValue
<1>6. ASSUME NEW k, k = frame.slots + Arg
      PROVE  IInv'
  <2>1. k \in 0 .. STACK_MAX - 1
    BY <1>4, <1>6
  <2>2. mem' = [mem EXCEPT ![k] = Peek(0)]
    BY <1>1, <1>6
  <2>3. 2 \in Int
    OBVIOUS
  <2> QED BY <1>1, <1>2, <1>5, <2>1, <2>2, <2>3, AssignStep, Zenon
<1> QED BY <1>6

(* The pointers of the running closure.                                    *)
LEMMA UpvalueHere ==
  ASSUME IInv, status = "RUNNING", NEW a \in Nat, a < Code.upvalueCount
  PROVE  /\ closures[frame.closure].upvalues[a + 1] \in 0 .. STACK_MAX - 1
         /\ mem[closures[frame.closure].upvalues[a + 1]] \in Value
<1>1. /\ frame.closure \in -1 .. Len(closures) /\ Len(frames) \in 1 .. Len(frames)
      /\ DOMAIN frames = 1 .. Len(frames) /\ frame.function \in DOMAIN Library
      /\ Code = Library[frame.function]
      /\ Len(closures) \in Nat /\ DOMAIN closures = 1 .. Len(closures)
  BY Here, LenProperties DEF IInv, TypeOK, ClosuresOK
<1>2. Code.upvalueCount \in Nat /\ Code.upvalueCount # 0
  BY <1>1, LibraryFunction
<1>3. /\ frame.closure \notin {ScriptClosure, Dangling}
      /\ closures[frame.closure].function = frame.function
  BY <1>1, <1>2 DEF IInv, TypeOK, FramesOK, frame
<1>4. frame.closure \in DOMAIN closures
  BY <1>1, <1>3 DEF ScriptClosure, Dangling
<1>5. /\ closures[frame.closure] \in ClosureRecord
      /\ Len(closures[frame.closure].upvalues) = Code.upvalueCount
  <2>1. closures[frame.closure] \in ClosureRecord
    BY <1>1, <1>4, ElementOfSeq DEF IInv, TypeOK, ClosuresOK
  <2>2. Len(closures[frame.closure].upvalues)
          = Library[closures[frame.closure].function].upvalueCount
    BY <1>4 DEF IInv, TypeOK, ClosuresOK
  <2> QED BY <1>1, <1>3, <2>1, <2>2
<1> DEFINE u == closures[frame.closure].upvalues
<1>6. u \in Seq(0 .. STACK_MAX - 1)
  BY <1>5 DEF ClosureRecord
<1>7. a + 1 \in 1 .. Len(u) /\ DOMAIN u = 1 .. Len(u)
  BY <1>2, <1>5, <1>6, LenProperties
<1> QED BY <1>4, <1>6, <1>7, ElementOfSeq DEF IInv, NoUninitRead, UpvaluesWritten

LEMMA OpGetUpvalueStep == IInv /\ OpGetUpvalue => IInv'
<1> SUFFICES ASSUME IInv, OpGetUpvalue PROVE IInv'
  OBVIOUS
<1>1. /\ status = "RUNNING" /\ OpAt(Code, frame.ip) = OP_GET_UPVALUE
      /\ Push(mem[Upvalue], 2) /\ UNCHANGED <<closures, globals>>
  BY DEF OpGetUpvalue, Running
<1>2. /\ Flows(Heights[frame.function], frame.ip + 2, Height(frame.ip) + 1)
      /\ Arg < Code.upvalueCount
  BY <1>1, Here DEF IInv, VerifiedAt, Height, InstructionLength, Arg
<1>3. Arg \in Nat
  <2>1. Arg \in 0 .. 255
    BY <1>1, ArgHere DEF ByteOps
  <2> QED BY <2>1
<1>4. mem[Upvalue] \in Value
  BY <1>1, <1>2, <1>3, UpvalueHere DEF Upvalue
<1> QED BY <1>1, <1>2, <1>4, PushStep

LEMMA OpSetUpvalueStep == IInv /\ OpSetUpvalue => IInv'
<1> SUFFICES ASSUME IInv, OpSetUpvalue PROVE IInv'
  OBVIOUS
<1>1. /\ status = "RUNNING" /\ OpAt(Code, frame.ip) = OP_SET_UPVALUE
      /\ Continue(2) /\ mem' = [mem EXCEPT ![Upvalue] = Peek(0)]
      /\ UNCHANGED <<sp, closures, globals>>
  BY DEF OpSetUpvalue, Running
<1>2. /\ Flows(Heights[frame.function], frame.ip + 2, Height(frame.ip))
      /\ Arg < Code.upvalueCount /\ Height(frame.ip) >= 2
  BY <1>1, Here DEF IInv, VerifiedAt, Height, InstructionLength, Arg
<1>3. Arg \in Nat
  <2>1. Arg \in 0 .. 255
    BY <1>1, ArgHere DEF ByteOps
  <2> QED BY <2>1
<1>4. Upvalue \in 0 .. STACK_MAX - 1
  BY <1>1, <1>2, <1>3, UpvalueHere DEF Upvalue
<1>5. Peek(0) \in Value /\ 2 \in Int
  <2>1. 0 + 1 <= Height(frame.ip)
    BY <1>1, <1>2, HereSizes
  <2> QED BY <1>1, <2>1, PeekValue
<1> QED BY <1>1, <1>2, <1>4, <1>5, AssignStep, Zenon

(* The operands of a binary instruction.                                   *)
LEMMA BinaryHere ==
  ASSUME IInv, status = "RUNNING", OpAt(Code, frame.ip) \in BinaryOps
  PROVE  /\ Flows(Heights[frame.function], frame.ip + 1, Height(frame.ip) - 1)
         /\ Height(frame.ip) >= 3
         /\ Peek(0) \in Value /\ Peek(1) \in Value
<1>1. /\ Flows(Heights[frame.function], frame.ip + 1, Height(frame.ip) - 1)
      /\ Height(frame.ip) >= 3
  <2>1. CASE OpAt(Code, frame.ip) \in {OP_ADD, OP_LESS, OP_EQUAL}
    <3>1. CASE OpAt(Code, frame.ip) = OP_ADD
      BY <3>1, Here DEF IInv, VerifiedAt, Height, InstructionLength
    <3>2. CASE OpAt(Code, frame.ip) = OP_LESS
      BY <3>2, Here DEF IInv, VerifiedAt, Height, InstructionLength
    <3>3. CASE OpAt(Code, frame.ip) = OP_EQUAL
      BY <3>3, Here DEF IInv, VerifiedAt, Height, InstructionLength
    <3> QED BY <2>1, <3>1, <3>2, <3>3
  <2>2. CASE OpAt(Code, frame.ip) \in ArithmeticOps
    <3>1. CASE OpAt(Code, frame.ip) = OP_SUBTRACT
      BY <3>1, Here DEF IInv, VerifiedAt, Height, InstructionLength
    <3>2. CASE OpAt(Code, frame.ip) = OP_MULTIPLY
      BY <3>2, Here DEF IInv, VerifiedAt, Height, InstructionLength
    <3>3. CASE OpAt(Code, frame.ip) = OP_DIVIDE
      BY <3>3, Here DEF IInv, VerifiedAt, Height, InstructionLength
    <3>4. CASE OpAt(Code, frame.ip) = OP_GREATER
      BY <3>4, Here DEF IInv, VerifiedAt, Height, InstructionLength
    <3> QED BY <2>2, <3>1, <3>2, <3>3, <3>4
  <2> QED BY <2>1, <2>2
<1>2. 0 + 1 <= Height(frame.ip) /\ 1 + 1 <= Height(frame.ip)
  BY <1>1, HereSizes
<1> QED BY <1>1, <1>2, PeekValue

(* Two operands give way to a value.                                       *)
LEMMA BinaryStep ==
  ASSUME IInv, status = "RUNNING", OpAt(Code, frame.ip) \in BinaryOps,
         NEW v \in Value, Replace(2, v, 1), UNCHANGED <<closures, globals>>
  PROVE  IInv'
<1>1. /\ Flows(Heights[frame.function], frame.ip + 1, Height(frame.ip) - 1)
      /\ Height(frame.ip) >= 3
  BY BinaryHere
<1>2. /\ frame.ip + 1 \in DOMAIN Heights[frame.function]
      /\ Height(frame.ip + 1) <= Height(frame.ip) - 2 + 1
      /\ 2 + 1 <= Height(frame.ip)
  BY <1>1, HereSizes DEF Flows, Height
<1>3. 2 \in Nat \ {0} /\ 1 \in Int
  OBVIOUS
<1> QED BY <1>2, <1>3, ReplaceStep, Zenon

(* Two operands are refused.                                               *)
LEMMA BinaryFail ==
  ASSUME IInv, status = "RUNNING", OpAt(Code, frame.ip) \in BinaryOps,
         RuntimeError(1), UNCHANGED <<mem, sp, closures, globals>>
  PROVE  IInv'
<1>1. /\ Flows(Heights[frame.function], frame.ip + 1, Height(frame.ip) - 1)
      /\ Height(frame.ip) >= 3
  BY BinaryHere
<1>2. Height(frame.ip) - 1 <= Height(frame.ip) + 1
  BY HereSizes
<1> QED BY <1>1, <1>2, FailStep

LEMMA OpEqualStep == IInv /\ OpEqual => IInv'
<1> SUFFICES ASSUME IInv, OpEqual PROVE IInv'
  OBVIOUS
<1>1. /\ status = "RUNNING" /\ OpAt(Code, frame.ip) \in BinaryOps
      /\ UNCHANGED <<closures, globals>>
      /\ Replace(2, Bool(ValuesEqual(Peek(0), Peek(1))), 1)
  BY DEF OpEqual, Running
<1>2. Bool(ValuesEqual(Peek(0), Peek(1))) \in Value
  BY DEF Bool, Value
<1> QED BY <1>1, <1>2, BinaryStep

LEMMA OpLessStep == IInv /\ OpLess => IInv'
<1> SUFFICES ASSUME IInv, OpLess PROVE IInv'
  OBVIOUS
<1>1. /\ status = "RUNNING" /\ OpAt(Code, frame.ip) \in BinaryOps
      /\ UNCHANGED <<closures, globals>>
  BY DEF OpLess, Running
<1>2. CASE RuntimeError(1) /\ UNCHANGED <<mem, sp>>
  BY <1>1, <1>2, BinaryFail
<1>3. ASSUME NEW b \in BOOLEAN, Replace(2, Bool(b), 1)
      PROVE  IInv'
  BY <1>1, <1>3, Constructed, BinaryStep
<1>4. Peek(0) \in Value /\ Peek(1) \in Value
  BY <1>1, BinaryHere
<1>5. (/\ IsNumber(Peek(0)) /\ IsNumber(Peek(1))
       /\ Less(Peek(1).val, Peek(0).val)) \in BOOLEAN
  BY <1>4, Constructed, NumbersAssumption
<1> QED BY <1>2, <1>3, <1>5 DEF OpLess

LEMMA OpAddStep == IInv /\ OpAdd => IInv'
<1> SUFFICES ASSUME IInv, OpAdd PROVE IInv'
  OBVIOUS
<1>1. /\ status = "RUNNING" /\ OpAt(Code, frame.ip) \in BinaryOps
      /\ UNCHANGED <<closures, globals>>
  BY DEF OpAdd, Running
<1>2. CASE RuntimeError(1) /\ UNCHANGED <<mem, sp>>
  BY <1>1, <1>2, BinaryFail
<1>3. CASE /\ IsNumber(Peek(0)) /\ IsNumber(Peek(1))
           /\ Replace(2, Number(Arith(OP_ADD, Peek(1).val, Peek(0).val)), 1)
  <2>1. Peek(0).val \in Numbers /\ Peek(1).val \in Numbers
    BY <1>1, <1>3, BinaryHere, Constructed
  <2>2. Number(Arith(OP_ADD, Peek(1).val, Peek(0).val)) \in Value
    BY <2>1, NumbersAssumption, Constructed
  <2> QED BY <1>1, <1>3, <2>2, BinaryStep
<1>4. CASE RuntimeError(1) /\ sp' = sp - 2 /\ UNCHANGED mem
  <2>1. /\ Flows(Heights[frame.function], frame.ip + 1, Height(frame.ip) - 1)
        /\ Height(frame.ip) >= 3
    BY <1>1, BinaryHere
  <2>2. /\ frame.ip + 1 \in DOMAIN Heights[frame.function]
        /\ Height(frame.ip + 1) = Height(frame.ip) - 1
    BY <2>1 DEF Flows, Height
  <2>3. GlobalsOK'
    BY <1>1, SameClosures DEF IInv
  <2>4. ASSUME NEW t, t = sp - 2
        PROVE  IInv'
    <3>1. t \in 0 .. sp /\ t - frame.slots + 1 >= Height(frame.ip + 1)
      BY <1>1, <2>1, <2>2, <2>4, HereSizes
    <3>2. sp' = t /\ 1 \in Int
      BY <1>4, <2>4
    <3>3. status' # "RUNNING"
      BY <1>4 DEF RuntimeError, Traceback
    <3> QED BY <1>1, <1>4, <2>2, <2>3, <3>1, <3>2, <3>3, KeepStep
  <2> QED BY <2>4
<1> QED BY <1>2, <1>3, <1>4 DEF OpAdd

LEMMA OpArithmeticStep == IInv /\ OpArithmetic => IInv'
<1> SUFFICES ASSUME IInv, OpArithmetic PROVE IInv'
  OBVIOUS
<1>1. PICK op \in ArithmeticOps :
        /\ Running(op)
        /\ IF sp < 2 \/ ~IsNumber(Peek(0)) \/ ~IsNumber(Peek(1))
           THEN RuntimeError(1) /\ UNCHANGED <<mem, sp>>
           ELSE Replace(2, IF op = OP_GREATER
                           THEN Bool(Less(Peek(0).val, Peek(1).val))
                           ELSE Number(Arith(op, Peek(1).val, Peek(0).val)), 1)
  BY DEF OpArithmetic
<1>2. /\ status = "RUNNING" /\ OpAt(Code, frame.ip) \in BinaryOps
      /\ UNCHANGED <<closures, globals>>
  BY <1>1 DEF OpArithmetic, Running
<1>3. CASE RuntimeError(1) /\ UNCHANGED <<mem, sp>>
  BY <1>2, <1>3, BinaryFail
<1>4. CASE IsNumber(Peek(0)) /\ IsNumber(Peek(1))
  <2>1. Peek(0).val \in Numbers /\ Peek(1).val \in Numbers
    BY <1>2, <1>4, BinaryHere, Constructed
  <2>2. Bool(Less(Peek(0).val, Peek(1).val)) \in Value
    BY <2>1, NumbersAssumption, Constructed
  <2>3. Number(Arith(op, Peek(1).val, Peek(0).val)) \in Value
    BY <2>1, NumbersAssumption, Constructed
  <2> QED BY <1>1, <1>2, <1>3, <1>4, <2>2, <2>3, BinaryStep
<1> QED BY <1>1, <1>3, <1>4

(* A value takes the place of the top.                                     *)
LEMMA UnaryStep ==
  ASSUME IInv, status = "RUNNING", OpAt(Code, frame.ip) \in {OP_NOT, OP_NEGATE},
         NEW v \in Value, Replace(1, v, 1), UNCHANGED <<closures, globals>>
  PROVE  IInv'
<1>1. /\ Flows(Heights[frame.function], frame.ip + 1, Height(frame.ip))
      /\ Height(frame.ip) >= 2
  <2>1. CASE OpAt(Code, frame.ip) = OP_NOT
    BY <2>1, Here DEF IInv, VerifiedAt, Height, InstructionLength
  <2>2. CASE OpAt(Code, frame.ip) = OP_NEGATE
    BY <2>2, Here DEF IInv, VerifiedAt, Height, InstructionLength
  <2> QED BY <2>1, <2>2
<1>2. /\ frame.ip + 1 \in DOMAIN Heights[frame.function]
      /\ Height(frame.ip + 1) <= Height(frame.ip) - 1 + 1
      /\ 1 + 1 <= Height(frame.ip)
  BY <1>1, HereSizes DEF Flows, Height
<1>3. 1 \in Nat \ {0} /\ 1 \in Int
  OBVIOUS
<1> QED BY <1>2, <1>3, ReplaceStep, Zenon

LEMMA OpNotStep == IInv /\ OpNot => IInv'
<1> SUFFICES ASSUME IInv, OpNot PROVE IInv'
  OBVIOUS
<1>1. /\ status = "RUNNING" /\ OpAt(Code, frame.ip) \in {OP_NOT, OP_NEGATE}
      /\ Replace(1, Bool(IsFalsey(Peek(0))), 1)
      /\ UNCHANGED <<closures, globals>>
  BY DEF OpNot, Running
<1>2. Bool(IsFalsey(Peek(0))) \in Value
  BY DEF Bool, Value
<1> QED BY <1>1, <1>2, UnaryStep

LEMMA OpNegateStep == IInv /\ OpNegate => IInv'
<1> SUFFICES ASSUME IInv, OpNegate PROVE IInv'
  OBVIOUS
<1>1. /\ status = "RUNNING" /\ OpAt(Code, frame.ip) = OP_NEGATE
      /\ UNCHANGED <<closures, globals>>
  BY DEF OpNegate, Running
<1>2. /\ Flows(Heights[frame.function], frame.ip + 1, Height(frame.ip))
      /\ Height(frame.ip) >= 2
  BY <1>1, Here DEF IInv, VerifiedAt, Height, InstructionLength
<1>3. CASE IsNumber(Peek(0)) /\ Replace(1, Number(Negate(Peek(0).val)), 1)
  <2>1. 0 + 1 <= Height(frame.ip)
    BY <1>1, <1>2, HereSizes
  <2>2. Peek(0).val \in Numbers
    BY <1>1, <1>3, <2>1, PeekValue, Constructed
  <2>3. Number(Negate(Peek(0).val)) \in Value
    BY <2>2, NumbersAssumption, Constructed
  <2> QED BY <1>1, <1>3, <2>3, UnaryStep
<1>4. CASE RuntimeError(1) /\ UNCHANGED <<mem, sp>>
  <2>1. Height(frame.ip) <= Height(frame.ip) + 1
    BY <1>1, HereSizes
  <2> QED BY <1>1, <1>2, <1>4, <2>1, FailStep
<1> QED BY <1>3, <1>4 DEF OpNegate

LEMMA OpJumpIfFalseStep == IInv /\ OpJumpIfFalse => IInv'
<1> SUFFICES ASSUME IInv, OpJumpIfFalse PROVE IInv'
  OBVIOUS
<1> DEFINE far == 3 + ShortOperand(Code, frame.ip)
<1>1. /\ status = "RUNNING" /\ OpAt(Code, frame.ip) = OP_JUMP_IF_FALSE
      /\ Continue(far) \/ Continue(3)
      /\ UNCHANGED <<mem, sp, closures, globals>>
  BY DEF OpJumpIfFalse, Running
<1>2. ShortOperand(Code, frame.ip) \in Nat /\ frame.ip \in Nat
  BY <1>1, Here, LibraryOperands DEF IInv
<1>3. /\ Flows(Heights[frame.function], frame.ip + 3, Height(frame.ip))
      /\ Flows(Heights[frame.function], frame.ip + 3 + ShortOperand(Code, frame.ip),
               Height(frame.ip))
  BY <1>1, Here DEF IInv, VerifiedAt, Height, InstructionLength
<1>4. /\ far \in Int /\ frame.ip + far = frame.ip + 3 + ShortOperand(Code, frame.ip)
      /\ 3 \in Int /\ 0 \in Nat
  BY <1>2
<1>5. GlobalsOK'
  BY <1>1, SameClosures DEF IInv
<1>6. sp' = sp - 0 /\ 0 <= Height(frame.ip) /\ Height(frame.ip) <= Height(frame.ip) - 0
  BY <1>1, HereSizes
<1>7. CASE Continue(far)
  <2>1. Flows(Heights[frame.function], frame.ip + far, Height(frame.ip))
    BY <1>3, <1>4
  <2> HIDE DEF far
  <2> QED BY <1>1, <1>4, <1>5, <1>6, <1>7, <2>1, DropStep
<1>8. CASE Continue(3)
  BY <1>1, <1>3, <1>4, <1>5, <1>6, <1>8, DropStep
<1> QED BY <1>1, <1>7, <1>8

-----------------------------------------------------------------------------
(* Calls.                                                                  *)

(* What the window of the caller holds.                                    *)
LEMMA CallHere ==
  ASSUME IInv, status = "RUNNING", OpAt(Code, frame.ip) = OP_CALL
  PROVE  /\ Arg \in Nat /\ Height(frame.ip) >= Arg + 2
         /\ Flows(Heights[frame.function], frame.ip + 2, Height(frame.ip) - Arg)
         /\ frame.ip + 2 \in DOMAIN Heights[frame.function]
         /\ Height(frame.ip + 2) = Height(frame.ip) - Arg
         /\ Callee \in Value
<1>1. Arg \in Nat
  <2>1. Arg \in 0 .. 255
    BY ArgHere DEF ByteOps
  <2> QED BY <2>1
<1>2. /\ Flows(Heights[frame.function], frame.ip + 2, Height(frame.ip) - Arg)
      /\ Height(frame.ip) >= Arg + 2
  BY Here DEF IInv, VerifiedAt, Height, InstructionLength, Arg
<1>3. Arg + 1 <= Height(frame.ip)
  BY <1>1, <1>2, HereSizes
<1>4. Callee \in Value
  BY <1>1, <1>3, PeekValue DEF Callee
<1> QED BY <1>1, <1>2, <1>4 DEF Flows, Height

LEMMA CallNonCallableStep == IInv /\ CallNonCallable => IInv'
<1> SUFFICES ASSUME IInv, CallNonCallable PROVE IInv'
  OBVIOUS
<1>1. /\ status = "RUNNING" /\ OpAt(Code, frame.ip) = OP_CALL /\ RuntimeError(2)
      /\ UNCHANGED <<mem, sp, closures, globals>>
  BY DEF CallNonCallable, Running
<1>2. Height(frame.ip) - Arg <= Height(frame.ip) + 1 /\ 2 \in Int
  BY <1>1, CallHere, HereSizes
<1> QED BY <1>1, <1>2, CallHere, FailStep

LEMMA CallNativeStep == IInv /\ CallNative => IInv'
<1> SUFFICES ASSUME IInv, CallNative PROVE IInv'
  OBVIOUS
<1>1. /\ status = "RUNNING" /\ OpAt(Code, frame.ip) = OP_CALL
      /\ UNCHANGED <<closures, globals>>
  BY DEF CallNative, Running
<1>2. PICK x \in ClockReadings :
        IF Arg = 0 THEN Push(Number(x), 2) ELSE Replace(Arg, Number(x), 2)
  BY DEF CallNative
<1>3. Number(x) \in Value /\ 2 \in Int
  BY NumbersAssumption, Constructed
<1>4. /\ Arg \in Nat /\ Height(frame.ip) >= Arg + 2
      /\ frame.ip + 2 \in DOMAIN Heights[frame.function]
      /\ Height(frame.ip + 2) = Height(frame.ip) - Arg
  BY <1>1, CallHere
<1>5. CASE Arg # 0
  <2>1. /\ Arg \in Nat \ {0} /\ Arg + 1 <= Height(frame.ip)
        /\ Height(frame.ip + 2) <= Height(frame.ip) - Arg + 1
    BY <1>1, <1>4, <1>5, HereSizes
  <2> QED BY <1>1, <1>2, <1>3, <1>4, <1>5, <2>1, ReplaceStep
<1>6. CASE Arg = 0
  <2>1. Push(Number(x), 2)
    BY <1>2, <1>6
  <2>2. Height(frame.ip + 2) <= Height(frame.ip) + 1
    BY <1>1, <1>4, <1>6, HereSizes
  <2> QED BY <1>1, <1>3, <1>4, <2>1, <2>2, PushCovers
<1> QED BY <1>5, <1>6

(* A frame is added: the frames below wait for a value, the new one has    *)
(* what its function counts on at its first instruction.                   *)
LEMMA EnterStep ==
  ASSUME UNCHANGED closures,
         NEW fs \in Seq(FrameRecord), Len(fs) < FRAME_MAX, NEW r \in FrameRecord,
         \A i \in 1 .. Len(fs) :
           IF fs[i].closure \in {ScriptClosure, Dangling}
           THEN Library[fs[i].function].upvalueCount = 0
           ELSE closures[fs[i].closure].function = fs[i].function,
         IF r.closure \in {ScriptClosure, Dangling}
         THEN Library[r.function].upvalueCount = 0
         ELSE closures[r.closure].function = r.function,
         \A i \in 1 .. Len(fs) :
           /\ fs[i].ip \in DOMAIN Heights[fs[i].function]
           /\ (IF i = Len(fs) THEN r.slots ELSE fs[i + 1].slots) - fs[i].slots + 1
                >= Heights[fs[i].function][fs[i].ip],
         r.ip \in DOMAIN Heights[r.function],
         NEW t \in Int, sp' = t, t - r.slots >= Heights[r.function][r.ip],
         frames' = Append(fs, r), status' = "RUNNING"
  PROVE  FramesOK' /\ WindowsCover' /\ StatusOK'
<1> DEFINE N == Len(fs)
<1>1. N \in Nat /\ N + 1 \in Nat /\ N + 1 # N
  BY LenProperties
<1>2. /\ frames' \in Seq(FrameRecord) /\ Len(frames') = N + 1
      /\ DOMAIN frames' = 1 .. N + 1
      /\ \A i \in 1 .. N : frames'[i] = fs[i]
      /\ frames'[N + 1] = r
  BY AppendProperties, LenProperties
<1>3. FrameRecord' = FrameRecord
  BY DEF FrameRecord
<1>4. N + 1 <= FRAME_MAX
  BY <1>1, SizesAssumption
<1>5. \A i \in 1 .. N + 1 : i \in 1 .. N \/ i = N + 1
  BY <1>1
<1>6. FramesOK'
  BY <1>2, <1>3, <1>4, <1>5 DEF FramesOK
<1>7. WindowsCover'
  <2> SUFFICES ASSUME NEW i \in 1 .. N + 1
               PROVE    /\ frames'[i].ip \in DOMAIN Heights[frames'[i].function]
                        /\ WindowEnd(i)' - frames'[i].slots + Pending(i)'
                             >= Expected(i)'
    BY <1>2 DEF WindowsCover
  <2>1. CASE i = N + 1
    <3>1. WindowEnd(i)' = t /\ Pending(i)' = 0
      BY <1>2, <2>1 DEF WindowEnd, Pending
    <3>2. Expected(i)' = Heights[r.function][r.ip] /\ frames'[i] = r
      BY <1>2, <2>1 DEF Expected
    <3>3. r.slots \in Int
      BY DEF FrameRecord
    <3>4. t - r.slots + 0 = t - r.slots
      BY <3>3
    <3> QED BY <3>1, <3>2, <3>4
  <2>2. CASE i \in 1 .. N
    <3>1. i # N + 1 /\ Pending(i)' = 1
      BY <1>1, <1>2, <2>2 DEF Pending
    <3>2. i = N \/ i + 1 \in 1 .. N
      BY <1>1, <2>2
    <3>3. WindowEnd(i)' = IF i = N THEN r.slots ELSE fs[i + 1].slots
      BY <1>2, <3>1, <3>2 DEF WindowEnd
    <3>4. Expected(i)' = Heights[fs[i].function][fs[i].ip] /\ frames'[i] = fs[i]
      BY <1>2, <2>2 DEF Expected
    <3> QED BY <2>2, <3>1, <3>3, <3>4
  <2> QED BY <1>5, <2>1, <2>2
<1>8. StatusOK'
  BY <1>1, <1>2, NotEmpty DEF StatusOK
<1> QED BY <1>6, <1>7, <1>8

LEMMA CallClosureStep == IInv /\ CallClosure => IInv'
<1> SUFFICES ASSUME IInv, CallClosure PROVE IInv'
  OBVIOUS
<1> DEFINE c == Callee.val
           f == closures[c].function
           r == NewFrame(f, c, Window(Arg))
           fs == Advanced(2)
           N == Len(frames)
<1>1. /\ status = "RUNNING" /\ OpAt(Code, frame.ip) = OP_CALL
      /\ Callee.type = "CLOSURE"
      /\ UNCHANGED <<mem, sp, closures, globals>>
  BY DEF CallClosure, Running
<1>2. /\ Arg \in Nat /\ Height(frame.ip) >= Arg + 2
      /\ frame.ip + 2 \in DOMAIN Heights[frame.function]
      /\ Height(frame.ip + 2) = Height(frame.ip) - Arg
  BY <1>1, CallHere
<1>3. CASE RuntimeError(2)
  <2>1. Height(frame.ip) - Arg <= Height(frame.ip) + 1 /\ 2 \in Int
    BY <1>1, CallHere, HereSizes
  <2> QED BY <1>1, <1>3, <2>1, CallHere, FailStep
<1>4. CASE /\ Arg = Library[f].arity /\ N < FRAME_MAX
           /\ frames' = Append(fs, r) /\ status' = status
  <2>1. c \in 1 .. Len(closures) /\ DOMAIN closures = 1 .. Len(closures)
    <3>1. DOMAIN closures = 1 .. Len(closures)
      BY LenProperties DEF IInv, TypeOK, ClosuresOK
    <3>2. c \in DOMAIN closures
      BY <1>1, CallHere DEF Value, Nil, NativeClock
    <3> QED BY <3>1, <3>2
  <2>2. f \in DOMAIN Library
    <3>1. closures \in Seq(ClosureRecord)
      BY DEF IInv, TypeOK, ClosuresOK
    <3>2. closures[c] \in ClosureRecord
      BY <2>1, <3>1, ElementOfSeq
    <3> QED BY <3>1, <3>2 DEF ClosureRecord
  <2>3. /\ 0 \in DOMAIN Heights[f] /\ Heights[f][0] = Arg + 1
    BY <1>4, <2>2, LibraryFunction DEF Verified, Flows
  <2>4. /\ r.function = f /\ r.closure = c /\ r.slots = Window(Arg) /\ r.ip = 0
    BY DEF NewFrame
  <2>5. /\ Window(Arg) = sp - Arg - 1 /\ Window(Arg) \in 0 .. STACK_MAX - 1
        /\ Window(Arg) - frame.slots + 1 >= Height(frame.ip + 2)
        /\ sp - Window(Arg) = Arg + 1
    BY <1>1, <1>2, HereSizes DEF Window
  <2>6. c \in -1 .. Len(closures) /\ c \notin {ScriptClosure, Dangling}
    <3>1. Len(closures) \in Nat
      BY LenProperties DEF IInv, TypeOK, ClosuresOK
    <3> QED BY <2>1, <3>1 DEF ScriptClosure, Dangling
  <2>7. r \in FrameRecord
    BY <2>2, <2>5, <2>6 DEF FrameRecord, NewFrame
  <2>8. frame.ip + 2 \in Nat /\ 2 \in Int
    BY <1>1, Here DEF IInv
  <2>9. /\ fs \in Seq(FrameRecord) /\ Len(fs) = N
        /\ \A i \in 1 .. N :
             /\ fs[i].function = frames[i].function
             /\ fs[i].slots = frames[i].slots
             /\ fs[i].closure = frames[i].closure
             /\ fs[i].ip = IF i = N THEN frame.ip + 2 ELSE frames[i].ip
    BY <1>1, <2>8, AdvancedFrames DEF IInv
  <2>10. DOMAIN frames = 1 .. N /\ N \in Nat
    BY <1>1, Here DEF IInv
  <2> HIDE DEF fs, r, c, f
  <2>11. \A i \in 1 .. N :
           IF fs[i].closure \in {ScriptClosure, Dangling}
           THEN Library[fs[i].function].upvalueCount = 0
           ELSE closures[fs[i].closure].function = fs[i].function
    BY <2>9, <2>10 DEF IInv, TypeOK, FramesOK
  <2>12. ASSUME NEW i \in 1 .. N
         PROVE  /\ fs[i].ip \in DOMAIN Heights[fs[i].function]
                /\ (IF i = N THEN r.slots ELSE fs[i + 1].slots) - fs[i].slots + 1
                     >= Heights[fs[i].function][fs[i].ip]
    <3>1. /\ frames[i].ip \in DOMAIN Heights[frames[i].function]
          /\ WindowEnd(i) - frames[i].slots + Pending(i) >= Expected(i)
      BY <2>10 DEF IInv, WindowsCover
    <3>2. CASE i = N
      <4>1. /\ fs[i].ip = frame.ip + 2 /\ fs[i].function = frame.function
            /\ fs[i].slots = frame.slots
        BY <2>9, <3>2 DEF frame
      <4> QED BY <1>2, <2>4, <2>5, <3>2, <4>1 DEF Height
    <3>3. CASE i # N
      <4>1. i + 1 \in 1 .. N
        BY <2>10, <3>3, NextIndex
      <4>2. /\ WindowEnd(i) = fs[i + 1].slots /\ Pending(i) = 1
            /\ Expected(i) = Heights[fs[i].function][fs[i].ip]
            /\ fs[i].slots = frames[i].slots /\ fs[i].ip = frames[i].ip
            /\ fs[i].function = frames[i].function
        BY <2>9, <3>3, <4>1 DEF WindowEnd, Pending, Expected
      <4> QED BY <3>1, <3>3, <4>2
    <3> QED BY <3>2, <3>3
  <2>13. closures[r.closure].function = r.function
    BY <2>4 DEF f
  <2>14. /\ r.ip \in DOMAIN Heights[r.function] /\ sp \in Int
         /\ sp - r.slots >= Heights[r.function][r.ip]
    BY <1>1, <1>2, <2>3, <2>4, <2>5, HereSizes
  <2>15. FramesOK' /\ WindowsCover' /\ StatusOK'
    <3>1. UNCHANGED closures
      BY <1>1, <2>2
    <3>2. fs \in Seq(FrameRecord) /\ Len(fs) < FRAME_MAX /\ Len(fs) = N
      BY <1>4, <2>9
    <3>3. IF r.closure \in {ScriptClosure, Dangling}
          THEN Library[r.function].upvalueCount = 0
          ELSE closures[r.closure].function = r.function
      BY <2>4, <2>6, <2>13
    <3>4. frames' = Append(fs, r) /\ status' = "RUNNING"
      BY <1>1, <1>4
    <3>5. \A i \in 1 .. Len(fs) :
            IF fs[i].closure \in {ScriptClosure, Dangling}
            THEN Library[fs[i].function].upvalueCount = 0
            ELSE closures[fs[i].closure].function = fs[i].function
      BY <2>11, <3>2
    <3>6. \A i \in 1 .. Len(fs) :
            /\ fs[i].ip \in DOMAIN Heights[fs[i].function]
            /\ (IF i = Len(fs) THEN r.slots ELSE fs[i + 1].slots) - fs[i].slots + 1
                 >= Heights[fs[i].function][fs[i].ip]
      BY <2>12, <3>2
    <3>7. sp' = sp
      BY <1>1
    <3> QED BY <2>7, <2>14, <3>1, <3>2, <3>3, <3>4, <3>5, <3>6, <3>7, EnterStep
  <2>16. MemoryOK' /\ NoUninitRead'
    <3>1. sp' \in 0 .. sp
      BY <1>1, HereSizes
    <3> QED BY <1>1, <3>1, Untouched DEF IInv
  <2> QED BY <1>1, <2>15, <2>16, SameClosures DEF IInv, TypeOK
<1> QED BY <1>3, <1>4 DEF CallClosure

LEMMA OpCallStep == IInv /\ OpCall => IInv'
BY CallClosureStep, CallNativeStep, CallNonCallableStep DEF OpCall

-----------------------------------------------------------------------------
(* Lines.                                                                  *)

(* A line's frame is entered, or the line fails or ends the process.       *)
LEMMA InterpretStep == IInv /\ (\E f \in Scripts : Interpret(f)) => IInv'
<1> SUFFICES ASSUME IInv, NEW f \in Scripts, Interpret(f) PROVE IInv'
  OBVIOUS
<1> DEFINE r == NewFrame(f, ScriptClosure, sp)
           N == Len(frames)
<1>1. /\ Idle /\ UNCHANGED <<closures, globals>>
      /\ sp \in 0 .. STACK_MAX /\ STACK_MAX \in Nat
      /\ f \in DOMAIN Library
  BY SizesAssumption, LibraryAssumption DEF Interpret, IInv, TypeOK, MemoryOK
<1>2. CASE sp = STACK_MAX
  <2>1. ~(sp < STACK_MAX)
    BY <1>1, <1>2
  <2> QED BY <1>1, <2>1, StatusStep DEF Interpret, Terminate
<1>3. CASE sp < STACK_MAX
  <2>1. /\ mem' = [mem EXCEPT ![sp] = FunctionObj(f)] /\ sp' = sp + 1
        /\ \/ /\ N < FRAME_MAX /\ frames' = Append(frames, r)
              /\ status' = "RUNNING"
           \/ status' \in {"RUNTIME_ERROR", "TERMINATED"} /\ UNCHANGED frames
    BY <1>3 DEF Interpret, Traceback
  <2>2. FunctionObj(f) \in Value
    BY <1>1 DEF FunctionObj, Value
  <2>3. /\ frames \in Seq(FrameRecord) /\ N \in Nat /\ DOMAIN frames = 1 .. N
        /\ N <= FRAME_MAX
    BY LenProperties DEF IInv, TypeOK, FramesOK
  <2>4. ASSUME NEW k, k = sp, NEW t, t = sp + 1
        PROVE  IInv'
    <3>1. /\ k \in 0 .. STACK_MAX - 1 /\ t \in 0 .. STACK_MAX /\ t \in Int
          /\ t - k = 1 /\ t - sp = 1
      BY <1>1, <1>3, <2>4
    <3>2. mem' = [mem EXCEPT ![k] = FunctionObj(f)] /\ sp' = t
      BY <2>1, <2>4
    <3>3. MemoryOK' /\ NoUninitRead'
      BY <1>1, <2>2, <2>4, <3>1, <3>2, Stored DEF IInv
    <3>4. ASSUME NEW i \in 1 .. N
          PROVE  /\ frames[i].ip \in DOMAIN Heights[frames[i].function]
                 /\ (IF i = N THEN k ELSE frames[i + 1].slots) - frames[i].slots + 1
                      >= Heights[frames[i].function][frames[i].ip]
      <4>1. Pending(i) = 1
        BY <1>1 DEF Pending, Idle
      <4> QED BY <2>3, <2>4, <4>1 DEF IInv, WindowsCover, WindowEnd, Expected
    <3>5. CASE N < FRAME_MAX /\ frames' = Append(frames, r) /\ status' = "RUNNING"
      <4>1. 0 \in DOMAIN Heights[f] /\ Heights[f][0] = 1
        BY LibraryFunction, LibraryAssumption DEF Verified, VerifiedScript, Flows
      <4>2. r.function = f /\ r.closure = ScriptClosure /\ r.slots = k /\ r.ip = 0
        BY <2>4 DEF NewFrame
      <4>3. Len(closures) \in Nat
        BY LenProperties DEF IInv, TypeOK, ClosuresOK
      <4>4. ScriptClosure \in -1 .. Len(closures)
        BY <4>3 DEF ScriptClosure
      <4>5. r \in FrameRecord
        BY <1>1, <2>4, <3>1, <4>4 DEF FrameRecord, NewFrame
      <4>6. Library[f].upvalueCount = 0
        BY <1>1, LibraryAssumption DEF VerifiedScript
      <4> HIDE DEF r
      <4>7. \A i \in 1 .. N :
              IF frames[i].closure \in {ScriptClosure, Dangling}
              THEN Library[frames[i].function].upvalueCount = 0
              ELSE closures[frames[i].closure].function = frames[i].function
        BY <2>3 DEF IInv, TypeOK, FramesOK
      <4>8. r.ip \in DOMAIN Heights[r.function]
            /\ t - r.slots >= Heights[r.function][r.ip]
        BY <3>1, <4>1, <4>2
      <4>9. FramesOK' /\ WindowsCover' /\ StatusOK'
        BY <1>1, <2>3, <3>1, <3>2, <3>4, <3>5, <4>2, <4>5, <4>6, <4>7, <4>8, EnterStep
      <4> QED BY <1>1, <3>3, <4>9, SameClosures DEF IInv, TypeOK
    <3>6. CASE status' \in {"RUNTIME_ERROR", "TERMINATED"} /\ UNCHANGED frames
      <4>1. FramesOK'
        <5>1. FrameRecord' = FrameRecord
          BY <1>1 DEF FrameRecord
        <5> QED BY <1>1, <3>6, <5>1 DEF IInv, TypeOK, FramesOK
      <4>2. WindowsCover'
        <5> SUFFICES ASSUME NEW i \in 1 .. N
                     PROVE  /\ frames[i].ip \in DOMAIN Heights[frames[i].function]
                            /\ WindowEnd(i)' - frames[i].slots + Pending(i)'
                                 >= Expected(i)'
          BY <2>3, <3>6 DEF WindowsCover
        <5>1. /\ frames[i].ip \in DOMAIN Heights[frames[i].function]
              /\ (IF i = N THEN k ELSE frames[i + 1].slots) - frames[i].slots + 1
                   >= Heights[frames[i].function][frames[i].ip]
          BY <3>4
        <5>2. /\ WindowEnd(i)' = IF i = N THEN t ELSE frames[i + 1].slots
              /\ Pending(i)' = 1
              /\ Expected(i)' = Heights[frames[i].function][frames[i].ip]
          BY <3>2, <3>6 DEF WindowEnd, Pending, Expected
        <5>3. frames[i] \in FrameRecord
          BY <2>3, ElementOfSeq
        <5>4. /\ frames[i].slots \in Int /\ frames[i].function \in DOMAIN Library
              /\ frames[i].ip \in Nat
          BY <1>1, <5>3 DEF FrameRecord
        <5>5. Heights[frames[i].function][frames[i].ip] \in Nat
          BY <5>1, <5>4, LibraryOffset
        <5>6. CASE i = N
          BY <2>4, <1>1, <3>1, <5>1, <5>2, <5>4, <5>5, <5>6
        <5>7. CASE i # N
          BY <5>1, <5>2, <5>7
        <5> QED BY <5>6, <5>7
      <4>3. StatusOK'
        BY <3>6 DEF StatusOK
      <4> QED BY <1>1, <3>3, <4>1, <4>2, <4>3, SameClosures DEF IInv, TypeOK
    <3> QED BY <2>1, <3>5, <3>6
  <2> QED BY <2>4
<1> QED BY <1>1, <1>2, <1>3

LEMMA InterpretRejectedStep == IInv /\ InterpretRejected => IInv'
BY StatusStep DEF InterpretRejected

-----------------------------------------------------------------------------
(* Returns and closures.                                                   *)

(* The indices of a sequence that loses its last element.                  *)
LEMMA Shorter ==
  \A n \in Nat : n >= 1 =>
    /\ (IF 1 <= n - 1 THEN n - 1 - 1 + 1 ELSE 0) = n - 1
    /\ n - 1 - 1 + 1 = n - 1
    /\ \A i \in 1 .. n - 1 :
         /\ i \in 1 .. n /\ i # n /\ i + 1 \in 1 .. n /\ 1 + i - 1 = i
         /\ i # n - 1 => i + 1 \in 1 .. n - 1
OBVIOUS

LEMMA OpReturnStep == IInv /\ OpReturn => IInv'
<1> SUFFICES ASSUME IInv, OpReturn PROVE IInv'
  OBVIOUS
<1> DEFINE N == Len(frames)
<1>1. /\ status = "RUNNING" /\ OpAt(Code, frame.ip) = OP_RETURN
      /\ frames' = SubSeq(frames, 1, N - 1)
      /\ UNCHANGED <<closures, globals>>
  BY DEF OpReturn, Running
<1>2. Height(frame.ip) >= 2
  BY <1>1, Here DEF IInv, VerifiedAt, Height, InstructionLength
<1>3. /\ N \in Nat /\ N >= 1 /\ DOMAIN frames = 1 .. N /\ frames \in Seq(FrameRecord)
      /\ frame.function \in DOMAIN Library /\ N <= FRAME_MAX
  BY <1>1, Here DEF IInv, TypeOK, FramesOK
<1>4. FrameRecord' = FrameRecord
  BY <1>1 DEF FrameRecord
<1>5. /\ frames' \in Seq(FrameRecord) /\ Len(frames') = N - 1
      /\ DOMAIN frames' = 1 .. N - 1
      /\ \A i \in 1 .. N - 1 : frames'[i] = frames[i]
  <2>1. \A i \in 1 .. N - 1 : frames[i] \in FrameRecord
    BY <1>3, ElementOfSeq
  <2>2. 1 \in Int /\ N - 1 \in Int
    BY <1>3
  <2>3. /\ frames' \in Seq(FrameRecord)
        /\ Len(frames') = IF 1 <= N - 1 THEN N - 1 - 1 + 1 ELSE 0
        /\ \A i \in 1 .. N - 1 - 1 + 1 : frames'[i] = frames[1 + i - 1]
    BY <1>1, <2>1, <2>2, SubSeqProperties
  <2>4. Len(frames') = N - 1
    BY <1>3, <2>3, Shorter
  <2>5. \A i \in 1 .. N - 1 : frames'[i] = frames[i]
    BY <1>3, <2>3, Shorter
  <2>6. DOMAIN frames' = 1 .. N - 1
    BY <2>3, <2>4, LenProperties
  <2> QED BY <2>3, <2>4, <2>5, <2>6
<1>6. FramesOK'
  <2>1. N - 1 <= FRAME_MAX
    BY <1>3, SizesAssumption
  <2>2. \A i \in 1 .. N - 1 : i \in 1 .. N
    BY <1>3
  <2> QED BY <1>1, <1>3, <1>4, <1>5, <2>1, <2>2 DEF FramesOK, IInv, TypeOK
<1>7. CASE N = 1
  <2>1. sp' = sp - 2 /\ status' = "OK" /\ mem' = mem
    BY <1>7 DEF OpReturn
  <2>2. sp' \in 0 .. sp
    <3>1. ASSUME NEW t, t = sp - 2
          PROVE  t \in 0 .. sp
      BY <1>1, <1>2, <3>1, HereSizes
    <3> QED BY <2>1, <3>1
  <2>3. MemoryOK' /\ NoUninitRead'
    BY <1>1, <2>1, <2>2, Untouched DEF IInv
  <2>4. DOMAIN frames' = {}
    BY <1>5, <1>7
  <2>5. WindowsCover' /\ StatusOK'
    BY <2>1, <2>4 DEF WindowsCover, StatusOK
  <2> QED BY <1>1, <1>6, <2>3, <2>5, SameClosures DEF IInv, TypeOK
<1>8. CASE N # 1
  <2>1. /\ mem' = [mem EXCEPT ![frame.slots] = Peek(0)]
        /\ sp' = frame.slots + 1 /\ status' = status
    BY <1>8 DEF OpReturn
  <2>2. Peek(0) \in Value
    <3>1. 0 + 1 <= Height(frame.ip)
      BY <1>1, <1>2, HereSizes
    <3> QED BY <1>1, <3>1, PeekValue
  <2>3. ASSUME NEW k, k = frame.slots, NEW t, t = frame.slots + 1
        PROVE  IInv'
    <3>1. /\ k \in 0 .. STACK_MAX - 1 /\ t \in 0 .. STACK_MAX /\ t <= sp
          /\ t = k + 1
      BY <1>1, <1>2, <2>3, HereSizes
    <3>2. mem' = [mem EXCEPT ![k] = Peek(0)] /\ sp' = t
      BY <2>1, <2>3
    <3>3. MemoryOK' /\ NoUninitRead'
      BY <1>1, <2>2, <3>1, <3>2, Stored DEF IInv
    <3>4. WindowsCover'
      <4> SUFFICES ASSUME NEW i \in 1 .. N - 1
                   PROVE  /\ frames'[i].ip \in DOMAIN Heights[frames'[i].function]
                          /\ WindowEnd(i)' - frames'[i].slots + Pending(i)'
                               >= Expected(i)'
        BY <1>5 DEF WindowsCover
      <4>1. i \in 1 .. N /\ i # N /\ i + 1 \in 1 .. N
        BY <1>3, Shorter
      <4>2. /\ frames[i].ip \in DOMAIN Heights[frames[i].function]
            /\ WindowEnd(i) - frames[i].slots + Pending(i) >= Expected(i)
        BY <1>3, <4>1 DEF IInv, WindowsCover
      <4>3. /\ WindowEnd(i) = frames[i + 1].slots /\ Pending(i) = 1
            /\ Expected(i)' = Expected(i) /\ frames'[i] = frames[i]
        BY <1>5, <4>1 DEF WindowEnd, Pending, Expected
      <4>4. frames[i] \in FrameRecord
        BY <1>3, <4>1, ElementOfSeq
      <4>5. frames[i].slots \in Int
        BY <4>4 DEF FrameRecord
      <4>6. CASE i = N - 1
        <5>1. frames[i + 1].slots = k
          BY <1>3, <2>3, <4>6 DEF frame
        <5>2. WindowEnd(i)' = t /\ Pending(i)' = 0
          BY <1>1, <1>5, <2>1, <3>2, <4>6 DEF WindowEnd, Pending
        <5>3. t - frames[i].slots + 0 = k - frames[i].slots + 1
          BY <3>1, <4>5
        <5> QED BY <4>2, <4>3, <5>1, <5>2, <5>3
      <4>7. CASE i # N - 1
        <5>1. i + 1 \in 1 .. N - 1
          BY <1>3, <4>7, Shorter
        <5>2. WindowEnd(i)' = frames[i + 1].slots /\ Pending(i)' = 1
          BY <1>5, <4>7, <5>1 DEF WindowEnd, Pending
        <5> QED BY <4>2, <4>3, <5>2
      <4> QED BY <4>6, <4>7
    <3>5. StatusOK'
      <4>1. frames' # << >>
        <5>1. N - 1 \in Nat /\ N - 1 >= 1
          BY <1>3, <1>8
        <5> QED BY <1>5, <5>1, NotEmpty
      <4> QED BY <1>1, <2>1, <4>1 DEF StatusOK
    <3> QED BY <1>1, <1>6, <3>3, <3>4, <3>5, SameClosures DEF IInv, TypeOK
  <2> QED BY <2>3
<1> QED BY <1>7, <1>8

(* What verified code says of an OP_CLOSURE.                               *)
LEMMA VerifiedClosure ==
  ASSUME NEW F, NEW h, NEW o, OpAt(F, o) = OP_CLOSURE, VerifiedAt(Library, F, h, o)
  PROVE  /\ \A i \in 1 .. Library[F.constants[Operand(F, o) + 1].val].upvalueCount :
              /\ CaptureIndex(F, o, i) \in Byte
              /\ IF CapturesLocal(F, o, i)
                 THEN CaptureIndex(F, o, i) <= h[o]
                 ELSE CaptureIndex(F, o, i) < F.upvalueCount
         /\ Flows(h, o + InstructionLength(Library, F, o), h[o] + 1)
BY DEF VerifiedAt

(* What a new closure captures is a cell of the storage that is written, or *)
(* the one that the closure itself is about to be written to.               *)
LEMMA CapturedHere ==
  ASSUME IInv, status = "RUNNING", OpAt(Code, frame.ip) = OP_CLOSURE, sp < STACK_MAX,
         NEW i \in 1 .. Library[Constant.val].upvalueCount
  PROVE  /\ Captured(i) \in 0 .. STACK_MAX - 1
         /\ mem[Captured(i)] \in Value \/ Captured(i) = sp
<1> DEFINE index == CaptureIndex(Code, frame.ip, i)
<1>1. /\ index \in 0 .. 255
      /\ IF CapturesLocal(Code, frame.ip, i) THEN index <= Height(frame.ip)
                                             ELSE index < Code.upvalueCount
  <2>1. Library[Constant.val].upvalueCount
          = Library[Code.constants[Operand(Code, frame.ip) + 1].val].upvalueCount
    BY DEF Constant, ConstantAt, IInv, TypeOK
  <2>2. /\ VerifiedAt(Library, Code, Heights[frame.function], frame.ip)
       
    BY Here DEF IInv, TypeOK
  <2>3. \A k \in 1 .. Library[Code.constants[Operand(Code, frame.ip) + 1].val].upvalueCount :
          /\ CaptureIndex(Code, frame.ip, k) \in Byte
          /\ IF CapturesLocal(Code, frame.ip, k)
             THEN CaptureIndex(Code, frame.ip, k) <= Heights[frame.function][frame.ip]
             ELSE CaptureIndex(Code, frame.ip, k) < Code.upvalueCount
    BY <2>2, VerifiedClosure
  <2> QED BY <2>1, <2>3 DEF Height, Byte
<1>2. CASE CapturesLocal(Code, frame.ip, i)
  <2>1. Captured(i) = frame.slots + index
    BY <1>2 DEF Captured
  <2> HIDE DEF index
  <2>2. frame.slots + index \in 0 .. sp
    BY <1>1, <1>2, HereSizes
  <2>3. frame.slots + index \in 0 .. STACK_MAX - 1
        /\ (frame.slots + index \in 0 .. sp - 1 \/ frame.slots + index = sp)
    BY <2>2, HereSizes
  <2> QED BY <2>1, <2>3 DEF IInv, NoUninitRead, Written
<1>3. CASE ~CapturesLocal(Code, frame.ip, i)
  <2>1. Captured(i) = closures[frame.closure].upvalues[index + 1]
    BY <1>3 DEF Captured
  <2>2. index \in Nat /\ index < Code.upvalueCount
    BY <1>1, <1>3
  <2> HIDE DEF index
  <2> QED BY <2>1, <2>2, UpvalueHere
<1> QED BY <1>2, <1>3

LEMMA OpClosureStep == IInv /\ OpClosure => IInv'
<1> SUFFICES ASSUME IInv, OpClosure PROVE IInv'
  OBVIOUS
<1> DEFINE f == Constant.val
           n == Library[f].upvalueCount
           ups == [i \in 1 .. n |-> Captured(i)]
           r == [function |-> f, upvalues |-> ups]
           N == Len(closures)
<1>1. /\ status = "RUNNING" /\ OpAt(Code, frame.ip) = OP_CLOSURE
      /\ UNCHANGED globals
  BY DEF OpClosure, Running, IInv, TypeOK
<1>2. CASE Terminate /\ UNCHANGED closures
  BY <1>1, <1>2, StatusStep DEF Terminate
<1>3. CASE /\ N < STACK_MAX /\ sp < STACK_MAX
           /\ closures' = Append(closures, r)
           /\ Push(ClosureObj(N + 1), 2 + 2 * n)
  <2>1. f \in DOMAIN Library
    BY <1>1, Here, LibraryConstant DEF IInv, Constant
  <2>2. n \in Nat
    BY <1>1, <2>1, LibraryFunction
  <2>3. Flows(Heights[frame.function], frame.ip + (2 + 2 * n), Height(frame.ip) + 1)
    <3>1. n = Library[ConstantAt(Code, frame.ip).val].upvalueCount
      BY <1>1 DEF Constant
    <3>2. VerifiedAt(Library, Code, Heights[frame.function], frame.ip)
      BY <1>1, Here DEF IInv
    <3>3. InstructionLength(Library, Code, frame.ip) = 2 + 2 * n
      <4>1. OpAt(Code, frame.ip) \notin JumpOps
        BY <1>1 DEF JumpOps
      <4> QED BY <1>1, <3>1, <4>1, Zenon DEF InstructionLength
    <3>4. Flows(Heights[frame.function],
                frame.ip + InstructionLength(Library, Code, frame.ip),
                Heights[frame.function][frame.ip] + 1)
      BY <1>1, <3>2, VerifiedClosure
    <3> QED BY <3>3, <3>4 DEF Height
  <2>4. /\ closures \in Seq(ClosureRecord) /\ N \in Nat /\ DOMAIN closures = 1 .. N
        /\ sp \in 0 .. STACK_MAX - 1 /\ STACK_MAX \in Nat
    BY <1>1, <1>3, LenProperties, HereSizes DEF IInv, TypeOK, ClosuresOK
  <2>5. \A i \in 1 .. n : /\ Captured(i) \in 0 .. STACK_MAX - 1
                          /\ mem[Captured(i)] \in Value \/ Captured(i) = sp
    BY <1>1, <1>3, CapturedHere
  <2> HIDE DEF f, n
  <2>6. ups \in Seq(0 .. STACK_MAX - 1) /\ DOMAIN ups = 1 .. n
    BY <2>2, <2>5, SeqDef
  <2>7. Len(ups) = n
    BY <2>2, <2>6, LenProperties
  <2>8. r \in ClosureRecord /\ r.upvalues = ups /\ r.function = f
    BY <1>1, <2>1, <2>6 DEF ClosureRecord
  <2>9. \A i \in 1 .. n : ups[i] = Captured(i)
    OBVIOUS
  <2> HIDE DEF ups, r
  <2>10. /\ closures' \in Seq(ClosureRecord) /\ Len(closures') = N + 1
         /\ DOMAIN closures' = 1 .. N + 1
         /\ \A c \in 1 .. N : closures'[c] = closures[c]
         /\ closures'[N + 1] = r
    BY <1>3, <2>4, <2>8, AppendProperties, LenProperties
  <2>11. /\ ClosuresKept /\ DOMAIN closures' = 1 .. Len(closures')
         /\ \A c \in DOMAIN closures' : c \in 1 .. N \/ c = N + 1
    BY <2>4, <2>10 DEF ClosuresKept
  <2>12. Value \subseteq Value'
    BY <1>1, <2>11, ValuesKept DEF IInv
  <2>13. ClosuresOK'
    <3>1. ClosureRecord' = ClosureRecord
      BY <1>1 DEF ClosureRecord
    <3>2. N + 1 <= STACK_MAX
      BY <1>3, <2>4
    <3>3. ASSUME NEW c \in DOMAIN closures'
          PROVE  Len(closures'[c].upvalues) = Library[closures'[c].function].upvalueCount
      <4>1. CASE c \in 1 .. N
        BY <2>4, <2>10, <4>1 DEF IInv, TypeOK, ClosuresOK
      <4>2. CASE c = N + 1
        BY <2>7, <2>8, <2>10, <4>2 DEF n
      <4> QED BY <2>11, <4>1, <4>2
    <3> QED BY <1>1, <2>10, <3>1, <3>2, <3>3 DEF ClosuresOK
  <2>14. GlobalsOK'
    BY <1>1, <2>12 DEF GlobalsOK, IInv, TypeOK
  <2>15. ClosureObj(N + 1) \in Value'
    BY <2>4, <2>10 DEF ClosureObj, Value
  <2>16. /\ mem' = [mem EXCEPT ![sp] = ClosureObj(N + 1)] /\ sp' = sp + 1
         /\ Continue(2 + 2 * n)
    BY <1>3 DEF Push
  <2>17. ASSUME NEW k, k = sp, NEW t, t = sp + 1, NEW v, v = ClosureObj(N + 1)
         PROVE  IInv'
    <3>1. /\ k \in 0 .. STACK_MAX - 1 /\ t \in 0 .. STACK_MAX
          /\ \A i \in 0 .. t - 1 : i \in 0 .. STACK_MAX - 1 /\ (i \in 0 .. sp - 1 \/ i = k)
      BY <2>4, <2>17
    <3>2. mem' = [mem EXCEPT ![k] = v] /\ sp' = t /\ v \in Value'
      BY <2>15, <2>16, <2>17
    <3>3. mem \in [0 .. STACK_MAX - 1 -> Value \cup {Uninit}]
      BY DEF IInv, TypeOK, MemoryOK
    <3>4. \A i \in 0 .. STACK_MAX - 1 : mem[i] \in Value \/ i = k => mem'[i] \in Value'
      BY <2>12, <3>2, <3>3
    <3>5. MemoryOK'
      <4>1. mem' \in [0 .. STACK_MAX - 1 -> Value' \cup {Uninit}]
        BY <2>12, <3>1, <3>2, <3>3
      <4> QED BY <3>1, <3>2, <4>1 DEF MemoryOK, Uninit
    <3>6. Written(mem, sp, Value) /\ UpvaluesWritten(closures, mem, Value)
      BY DEF IInv, NoUninitRead
    <3>7. \A i \in 0 .. t - 1 : mem'[i] \in Value'
      BY <3>1, <3>4, <3>6 DEF Written
    <3>8. ASSUME NEW c \in DOMAIN closures', NEW i \in DOMAIN closures'[c].upvalues
          PROVE  mem'[closures'[c].upvalues[i]] \in Value'
      <4>1. CASE c \in 1 .. N
        <5>1. closures[c] \in ClosureRecord /\ closures'[c] = closures[c]
          BY <2>4, <2>10, <4>1, ElementOfSeq
        <5>2. closures[c].upvalues \in Seq(0 .. STACK_MAX - 1)
          BY <5>1 DEF ClosureRecord
        <5>3. closures[c].upvalues[i] \in 0 .. STACK_MAX - 1
          BY <5>1, <5>2, LenProperties, ElementOfSeq
        <5>4. mem[closures[c].upvalues[i]] \in Value
          BY <2>4, <3>6, <4>1, <5>1 DEF UpvaluesWritten
        <5> QED BY <3>4, <5>1, <5>3, <5>4
      <4>2. CASE c = N + 1
        <5>1. closures'[c].upvalues = ups /\ i \in 1 .. n
          BY <2>6, <2>8, <2>10, <4>2
        <5> QED BY <2>5, <2>9, <2>17, <3>4, <5>1
      <4> QED BY <2>11, <4>1, <4>2
    <3>9. NoUninitRead'
      BY <3>2, <3>7, <3>8 DEF NoUninitRead, Written, UpvaluesWritten
    <3>10. FramesOK' /\ WindowsCover' /\ StatusOK'
      <4>1. /\ 2 + 2 * n \in Int
            /\ frame.ip + (2 + 2 * n) \in DOMAIN Heights[frame.function]
            /\ Height(frame.ip + (2 + 2 * n)) = Height(frame.ip) + 1
        BY <2>2, <2>3 DEF Flows, Height
      <4>2. /\ t - frame.slots >= Height(frame.ip + (2 + 2 * n))
            /\ t - frame.slots + 1 >= Height(frame.ip + (2 + 2 * n))
        <5>1. /\ t \in Int /\ frame.slots \in Int /\ t = sp + 1
              /\ Height(frame.ip) \in Int /\ sp \in Int
              /\ sp - frame.slots >= Height(frame.ip)
          BY <1>1, <2>17, HereSizes
        <5>2. \A x, y, z \in Int : x - y >= z => /\ x + 1 - y >= z + 1
                                                /\ x + 1 - y + 1 >= z + 1
          OBVIOUS
        <5> QED BY <4>1, <5>1, <5>2
      <4> DEFINE m == 2 + 2 * n
      <4> HIDE DEF m
      <4>3. /\ m \in Int /\ frame.ip + m \in DOMAIN Heights[frame.function]
            /\ Continue(m) /\ t - frame.slots >= Height(frame.ip + m)
            /\ t - frame.slots + 1 >= Height(frame.ip + m)
        BY <2>16, <4>1, <4>2 DEF m
      <4>4. /\ sp' - frame.slots >= Height(frame.ip + m)
            /\ sp' - frame.slots + 1 >= Height(frame.ip + m)
            /\ sp' \in 0 .. STACK_MAX
        BY <3>1, <3>2, <4>3, Zenon
      <4> QED BY <1>1, <2>11, <4>3, <4>4, Moved DEF IInv
    <3> QED BY <1>1, <2>13, <2>14, <3>5, <3>9, <3>10 DEF IInv, TypeOK
  <2> QED BY <2>17
<1> QED BY <1>2, <1>3 DEF OpClosure

-----------------------------------------------------------------------------
(* The specification.                                                      *)

(* Every instruction keeps the invariant.                                  *)
LEMMA StepKeeps == IInv /\ Step => IInv'
BY OpConstantStep, OpLiteralStep, OpPopStep, OpPrintStep, OpGetGlobalStep,
   OpSetGlobalStep, OpDefineGlobalStep, OpGetLocalStep, OpSetLocalStep,
   OpGetUpvalueStep, OpSetUpvalueStep, OpEqualStep, OpLessStep, OpAddStep,
   OpArithmeticStep, OpNotStep, OpNegateStep, OpJumpStep, OpJumpIfFalseStep,
   OpLoopStep, OpCallStep, OpClosureStep, OpReturnStep DEF Step

LEMMA InitHolds == Init => IInv
<1> SUFFICES ASSUME Init PROVE IInv
  OBVIOUS
<1>1. /\ sp = 0 /\ frames = << >> /\ closures = << >>
      /\ status = "NONE"
      /\ mem = [i \in 0 .. STACK_MAX - 1 |-> Uninit]
      /\ globals = [x \in Names |-> IF x = ClockName THEN NativeClock ELSE Undefined]
  BY DEF Init
<1>2. /\ frames \in Seq(FrameRecord) /\ Len(frames) = 0 /\ DOMAIN frames = {}
      /\ closures \in Seq(ClosureRecord) /\ Len(closures) = 0 /\ DOMAIN closures = {}
  BY <1>1, EmptySeq
<1>3. MemoryOK
  BY <1>1, SizesAssumption DEF MemoryOK
<1>4. GlobalsOK
  <2>1. NativeClock \in Value
    BY DEF Value
  <2> QED BY <1>1, <2>1 DEF GlobalsOK
<1>5. FramesOK /\ ClosuresOK /\ StatusOK
  BY <1>1, <1>2, SizesAssumption DEF FramesOK, ClosuresOK, StatusOK
<1>6. NoUninitRead
  BY <1>1, <1>2 DEF NoUninitRead, Written, UpvaluesWritten
<1>7. WindowsCover
  BY <1>2 DEF WindowsCover
<1> QED BY <1>1, <1>3, <1>4, <1>5, <1>6, <1>7 DEF IInv, TypeOK

LEMMA StutterKeeps == IInv /\ UNCHANGED vars => IInv'
BY DEF vars, IInv, TypeOK, MemoryOK, GlobalsOK, FramesOK, ClosuresOK, StatusOK,
       NoUninitRead, Written, UpvaluesWritten, WindowsCover, WindowEnd, Expected,
       Pending, Value, FrameRecord, ClosureRecord

LEMMA NextKeeps == IInv /\ [Next]_vars => IInv'
BY InterpretStep, InterpretRejectedStep, StepKeeps, StutterKeeps DEF Next

(* The inductive invariant holds at every point of every session.          *)
THEOREM Invariant == Spec => []IInv
<1>1. Init => IInv
  BY InitHolds
<1>2. IInv /\ [Next]_vars => IInv'
  BY NextKeeps
<1> QED BY <1>1, <1>2, PTL DEF Spec

(* The shape of the state: values, frames and closures are well formed and *)
(* the stack, the frames and the closures stay within their capacity.      *)
THEOREM TypeCorrect == Spec => []TypeOK
<1>1. IInv => TypeOK
  BY DEF IInv
<1> QED BY <1>1, Invariant, PTL

(* No handler, push and pop, local and upvalue reads included, reads a     *)
(* cell of the stack's storage that was never written.                     *)
THEOREM NeverReadsUninit == Spec => []NoUninitRead
<1>1. IInv => NoUninitRead
  BY DEF IInv
<1> QED BY <1>1, Invariant, PTL

(* Each frame's window holds what its code counts on: verified code never  *)
(* underflows, also after lines that failed.                               *)
THEOREM NeverUnderflows == Spec => []WindowsCover
<1>1. IInv => WindowsCover
  BY DEF IInv
<1> QED BY <1>1, Invariant, PTL
=============================================================================
