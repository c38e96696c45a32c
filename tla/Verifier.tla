------------------------------ MODULE Verifier ------------------------------
(***************************************************************************)
(* Finds the height maps that module Bytecode speaks of.                   *)
(***************************************************************************)
EXTENDS Bytecode, SequencesExt

(* The height map of the function F, found by one pass over its code: the  *)
(* compiler emits every forward jump before its target, and the code after *)
(* a return or a jump is where one of them lands, or is dead.              *)
RECURSIVE HeightsFrom(_, _, _, _, _, _)
HeightsFrom(fns, F, o, h, known, H) ==
  IF o >= Len(F.code) THEN H
  ELSE LET op == OpAt(F, o)
           here == IF o \in DOMAIN known THEN known[o] ELSE h
           len == InstructionLength(fns, F, o)
           up == CASE op \in LiteralOps \cup {OP_CONSTANT, OP_GET_GLOBAL,
                        OP_GET_LOCAL, OP_GET_UPVALUE, OP_CLOSURE} -> 1
                   [] op \in BinaryOps \cup {OP_POP, OP_PRINT,
                        OP_DEFINE_GLOBAL, OP_RETURN} -> -1
                   [] op = OP_CALL -> -Operand(F, o)
                   [] OTHER -> 0
           jump == IF op \in {OP_JUMP, OP_JUMP_IF_FALSE}
                   THEN (o + len + ShortOperand(F, o)) :> here
                   ELSE << >>
       IN  HeightsFrom(fns, F, o + len, here + up, known @@ jump, H @@ (o :> here))

HeightsOf(fns) ==
  [f \in DOMAIN fns |-> HeightsFrom(fns, fns[f], 0, fns[f].arity + 1, << >>, << >>)]

(* The least locals map of the function F with the height map h: one pass  *)
(* over its code from the offset o on, and as many as its loops ask for.   *)
Required(fns, F, h, l, o, n) ==
  Max({l[n], Min({l[o], h[n]})}
      \cup IF OpAt(F, o) = OP_CLOSURE
           THEN {CaptureIndex(F, o, i) + 1 :
                   i \in {i \in 1 .. fns[ConstantAt(F, o).val].upvalueCount :
                            CapturesLocal(F, o, i)}}
           ELSE {})

RECURSIVE LocalsPass(_, _, _, _, _)
LocalsPass(fns, F, h, l, o) ==
  IF o >= Len(F.code) THEN l
  ELSE LET raised == [n \in DOMAIN h |-> IF o \in DOMAIN h /\ n \in Successors(fns, F, o)
                                         THEN Required(fns, F, h, l, o, n) ELSE l[n]]
           next == o + InstructionLength(fns, F, o)
       IN  IF raised = l THEN LocalsPass(fns, F, h, l, next)
                         ELSE LocalsPass(fns, F, h, raised, next)

RECURSIVE LocalsFrom(_, _, _, _)
LocalsFrom(fns, F, h, l) ==
  LET pass == LocalsPass(fns, F, h, l, 0)
  IN  IF pass = l THEN l ELSE LocalsFrom(fns, F, h, pass)

LocalsOf(fns, heights) ==
  [f \in DOMAIN fns |-> LocalsFrom(fns, fns[f], heights[f], [o \in DOMAIN heights[f] |-> 0])]
=============================================================================
