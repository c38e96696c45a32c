--------------------------- MODULE CompilerProofs ---------------------------
(***************************************************************************)
(* Proofs about the compiler of module Compilation: whatever the line, the *)
(* code of one that it accepts is verified, while the bytes that count     *)
(* locals and scopes do not wrap.                                          *)
(*                                                                         *)
(* Module CompilerTasks has what most tasks do to the functions being      *)
(* compiled.  Here are the tasks that need several functions, resolving a  *)
(* name and closing a function, then the functions that contain the one    *)
(* being compiled, the whole compiler from one step to the next, and the   *)
(* tokens it asks for.                                                     *)
(***************************************************************************)
EXTENDS CompilerTasks

USE DEF Byte, OP_CONSTANT, OP_NIL, OP_TRUE, OP_FALSE, OP_POP, OP_GET_GLOBAL,
        OP_SET_GLOBAL, OP_GET_LOCAL, OP_SET_LOCAL, OP_GET_UPVALUE,
        OP_SET_UPVALUE, OP_DEFINE_GLOBAL, OP_EQUAL, OP_GREATER, OP_LESS,
        OP_ADD, OP_SUBTRACT, OP_MULTIPLY, OP_DIVIDE, OP_NOT, OP_NEGATE,
        OP_PRINT, OP_JUMP, OP_JUMP_IF_FALSE, OP_LOOP, OP_CALL, OP_CLOSURE,
        OP_RETURN, LiteralOps, BinaryOps, ArithmeticOps, NameOps, ByteOps, JumpOps

-----------------------------------------------------------------------------
(* The tasks that resolve names, and those of a function's parameters and  *)
(* of the closure it becomes.                                              *)

(* Variables are resolved.                                                 *)
LEMMA GreatestIn ==
  ASSUME NEW n \in Nat, NEW S \in SUBSET (1 .. n), S # {}
  PROVE  Max(S) \in S
<1> DEFINE T == {n - x : x \in S}
<1>1. T \in SUBSET Nat /\ T # {}
  <2>1. \A x \in S : n - x \in Nat
    OBVIOUS
  <2>2. PICK x : x \in S
    OBVIOUS
  <2>3. n - x \in T
    BY <2>2
  <2> QED BY <2>1, <2>3
<1> HIDE DEF T
<1>2. PICK m \in T : \A y \in T : m <= y
  BY <1>1, LeastElement
<1>3. PICK x \in S : m = n - x
  BY <1>2 DEF T
<1>4. \A y \in S : x >= y
  <2> SUFFICES ASSUME NEW y \in S
               PROVE  x >= y
    OBVIOUS
  <2>1. n - y \in T
    BY DEF T
  <2>2. m <= n - y
    BY <1>2, <2>1
  <2>3. x \in Nat /\ y \in Nat
    OBVIOUS
  <2> QED BY <1>3, <2>2, <2>3
<1> QED BY <1>3, <1>4 DEF Max

LEMMA LeastIn ==
  ASSUME NEW n \in Nat, NEW S \in SUBSET (1 .. n), S # {}
  PROVE  Min(S) \in S
<1>1. S \in SUBSET Nat
  OBVIOUS
<1>2. PICK m \in S : \A y \in S : m <= y
  BY <1>1, LeastElement
<1> QED BY <1>2 DEF Min

IsName(x) == x # ""

(* A local that is found, and has its value, is not the first.             *)
Resolved(d, e, fc, a) ==
  /\ Same(d, e) /\ a \in 0 .. UINT8_MAX
  /\ ~e.hadError /\ a # UINT8_MAX => a \in 1 .. Live(fc) - 1

LEMMA ResolveFacts ==
  ASSUME NEW d, NEW k, NEW name, NEW fc, NEW a, NEW e, IsCompiler(d), fc = d.compilers[k],
         IsFunctionCompiler(fc), LocalsSound(fc), Len(fc.locals) <= UINT8_MAX + 1, IsName(name),
         a = ResolveLocal(d, k, name), e = CheckLocal(d, k, name)
  PROVE  Resolved(d, e, fc, a)
<1> DEFINE S == Matching(d, k, name)
           n == Len(fc.locals)
           j == Max(S)
<1>1. n \in Nat /\ n >= 1 /\ DOMAIN fc.locals = 1 .. n
  BY LiveFacts
<1>2. UINT8_MAX \in Nat
  BY ONLY UInt8Assumption
<1>3. S = {i \in 1 .. n : fc.locals[i].name = name}
  BY <1>1 DEF Matching
<1>4. Same(d, e)
  <2>1. Same(d, Error(d)) /\ Same(d, d)
    BY ErrorSame DEF Same
  <2>2. e \in {d, Error(d)}
    BY DEF CheckLocal
  <2> QED BY <2>1, <2>2
<1>5. CASE S = {}
  <2>1. a = UINT8_MAX
    BY <1>5 DEF ResolveLocal
  <2>2. a \in 0 .. UINT8_MAX
    BY <1>2, <2>1
  <2> HIDE DEF S, n, j
  <2> QED BY <1>4, <2>1, <2>2 DEF Resolved
<1>6. CASE S # {}
  <2>1. S \in SUBSET (1 .. n)
    BY <1>3
  <2>2. a = Byte8(j - 1)
    BY <1>6 DEF ResolveLocal
  <2>3. e = IF fc.locals[j].depth = UINT8_MAX THEN Error(d) ELSE d
    BY <1>6 DEF CheckLocal
  <2>10. n <= UINT8_MAX + 1
    OBVIOUS
  <2> HIDE DEF S, n
  <2>4. j \in S
    BY <1>1, <1>6, <2>1, GreatestIn
  <2> HIDE DEF j
  <2>5. j \in 1 .. n /\ fc.locals[j].name = name
    BY <1>3, <2>4
  <2>6. j # 1
    <3>1. fc.locals[1] = [name |-> "", depth |-> 0]
      BY DEF LocalsSound
    <3>2. fc.locals[1].name = [name |-> "", depth |-> 0].name
      BY ONLY <3>1
    <3>3. [name |-> "", depth |-> 0].name = ""
      BY ONLY TRUE
    <3> QED BY <2>5, <3>2, <3>3 DEF IsName
  <2>7. j - 1 \in 0 .. UINT8_MAX
    BY <1>1, <1>2, <2>5, <2>10
  <2>8. a = j - 1
    BY <2>2, <2>7, Byte8OfByte
  <2>9. ~e.hadError => j - 1 \in 1 .. Live(fc) - 1
    <3> SUFFICES ASSUME ~e.hadError
                 PROVE  j - 1 \in 1 .. Live(fc) - 1
      OBVIOUS
    <3>1. Error(d).hadError
      BY ErrorSame
    <3>2. fc.locals[j].depth # UINT8_MAX
      BY <2>3, <3>1
    <3>3. Live(fc) = n \/ (Live(fc) = n - 1 /\ fc.locals[n].depth = UINT8_MAX)
      BY LiveFacts DEF n
    <3>4. j <= Live(fc) /\ Live(fc) \in Nat
      <4>1. j = n => fc.locals[n].depth # UINT8_MAX
        BY <3>2
      <4>2. j \in Nat /\ j <= n
        BY <1>1, <2>5
      <4> QED BY <1>1, <3>3, <4>1, <4>2
    <3>5. j \in Nat /\ j >= 2
      BY <1>1, <2>5, <2>6
    <3> QED BY <3>4, <3>5
  <2> QED BY <1>4, <2>7, <2>8, <2>9 DEF Resolved
<1> QED BY <1>5, <1>6

LEMMA VariableArrives ==
  ASSUME NEW d, NEW t, NEW w, NEW in, NEW out, Turn(d, t, w, in, out), t.do = "Variable",
         Previous(d).type = "IDENTIFIER", IsName(Previous(d).lexeme),
         Len(Inner(d).locals) <= UINT8_MAX + 1
  PROVE  Arrives(d, t, w, Variable(d))
<1> DEFINE k == Len(d.compilers)
           name == Previous(d).lexeme
           a == ResolveLocal(d, k, name)
           e == CheckLocal(d, k, name)
           fc == Inner(d)
           u == Task("ResolveUpvalue", <<k>>)
<1>1. Runs(d, t, w, d, {}, in, out) /\ Quiet(d, t, w, d) /\ in \in Situations /\ out \in Situations /\ ~d.hadError
      /\ Standing(fc, w, in) /\ Working(d) /\ Inward(d, d)
  <2>1. AwaitedBy(t) = {}
    BY DEF AwaitedBy
  <2>2. Runs(d, t, w, d, AwaitedBy(t), in, out)
    BY TurnFacts, Zenon
  <2>3. /\ Quiet(d, t, w, d) /\ in \in Situations /\ out \in Situations /\ ~d.hadError
        /\ Standing(fc, w, in) /\ Working(d) /\ Inward(d, d)
    BY TurnFacts, Zenon
  <2> QED BY <2>1, <2>2, <2>3
<1>2. JumpHere(t) = 0
  BY DEF JumpHere
<1>3. Values(in, 0) /\ out = Grown(in, 1)
  BY DEF Turn, Fits
<1>16. out.depth <= in.depth
  BY DEF Turn
<1>4. in.kind = "exact" /\ in.height \in Nat /\ in.height + 1 \in Nat
  BY <1>1, <1>3, SituationFacts DEF Values
<1>5. out = To(in, in.height + 1)
  BY <1>1, <1>3, <1>4, ToGrown
<1>6. fc = d.compilers[k] /\ k \in Nat \ {0}
  BY <1>1, InnerLast
<1>7. IsFunctionCompiler(fc) /\ LocalsSound(fc) /\ in.live = Live(fc) /\ Live(fc) \in Nat
  BY <1>1, <1>4 DEF Standing
<1>8. IsCompiler(d)
  BY <1>1 DEF Working
<1>9. Resolved(d, e, fc, a)
  <2> HIDE DEF fc
  <2> QED BY <1>6, <1>7, <1>8, ResolveFacts DEF fc
<1>10. Variable(d) = IF a # UINT8_MAX THEN Access(e, OP_GET_LOCAL, OP_SET_LOCAL, a) ELSE Then(e, <<u>>)
  BY DEF Variable
<1>11. Previous(e) = Previous(d) /\ e.compilers = d.compilers
  <2>1. e \in {d, Error(d)}
    BY DEF CheckLocal
  <2>2. Same(d, Error(d)) /\ Error(d).previous = d.previous
    BY <1>8, ErrorSame
  <2> QED BY <2>1, <2>2 DEF Previous, TokenAt, Same
<1> HIDE DEF e, a, fc
<1>12. Same(d, e)
  BY <1>9 DEF Resolved
<1>13. Runs(d, t, w, e, {}, in, out) /\ Quiet(d, t, w, e) /\ (~e.hadError => Inner(e) = Inner(d))
  <2>1. Runs(d, t, w, e, {}, in, out)
    BY <1>1, <1>12, RunsSame
  <2>2. Quiet(d, t, w, e)
    BY <1>1, <1>12, RunsSame
  <2>3. Inner(e) = Inner(d)
    BY <1>11 DEF Inner
  <2> QED BY <2>1, <2>2, <2>3
<1>14. CASE a # UINT8_MAX
  <2>1. ~e.hadError => Accessible(Inner(e), in, OP_GET_LOCAL, OP_SET_LOCAL, a)
    <3>1. ~e.hadError => a \in 1 .. Live(fc) - 1
      BY <1>9, <1>14 DEF Resolved
    <3>3. \A x \in 1 .. Live(fc) - 1 : x \in 0 .. in.live - 1
      BY <1>7
    <3>2. ~e.hadError => a \in 0 .. in.live - 1
      BY <3>1, <3>3
    <3> QED BY <3>2 DEF Accessible
  <2>2. Runs(d, t, w, e, {}, in, To(in, in.height + 1))
    BY <1>5, <1>13
  <2>3. Arrives(d, t, w, Access(e, OP_GET_LOCAL, OP_SET_LOCAL, a))
    BY <1>2, <1>3, <1>1, <1>13, <2>1, <2>2, AccessArrives
  <2> QED BY <1>10, <1>14, <2>3
<1>15. CASE a = UINT8_MAX
  <2>1. u.do = "ResolveUpvalue" /\ u.args[1] = k
    BY DEF Task
  <2>2. u.do \notin Bottom /\ AwaitedBy(u) = {}
    BY <2>1 DEF Bottom, AwaitedBy
  <2>3. Fits(u, in, out)
    BY <1>3, <2>1 DEF Fits
  <2>4. Finds(Inner(e), Window(d, t, w, e), u, in, out)
    BY <2>1 DEF Finds
  <2>5. ~e.hadError => NextFinds(Then(e, <<u>>))
    <3> SUFFICES ASSUME ~e.hadError
                 PROVE  NextFinds(Then(e, <<u>>))
      OBVIOUS
    <3>1. Working(e)
      BY <1>13, RunsWorking
    <3>2. IsFunctionCompiler(Inner(e))
      BY <1>7, <1>13 DEF fc
    <3>3. /\ Last(Inner(Then(e, <<u>>)).todo) = u /\ Previous(Then(e, <<u>>)) = Previous(e)
          /\ Len(Then(e, <<u>>).compilers) = Len(e.compilers)
      BY <3>1, <3>2, NextPushed
    <3> HIDE DEF u
    <3>5. Len(Then(e, <<u>>).compilers) = k
      BY <1>11, <3>3
    <3>6. Previous(Then(e, <<u>>)).type = "IDENTIFIER"
      BY <1>11, <3>3
    <3>4. Previous(Then(e, <<u>>)).type = "IDENTIFIER" /\ k \in 1 .. Len(Then(e, <<u>>).compilers)
      BY <1>6, <3>5, <3>6
    <3> QED BY <2>1, <3>3, <3>4 DEF NextFinds
  <2> HIDE DEF u
  <2>6. Arrives(d, t, w, Then(e, <<u>>))
    BY <1>13, <1>16, <2>2, <2>3, <2>4, <2>5, RunsImmediate
  <2> QED BY <1>10, <1>15, <2>6
<1> QED BY <1>14, <1>15

(* What is done when the name is not a local of the k-th compiler.         *)
LEMMA ResolveUpvalueArrives ==
  ASSUME NEW d, NEW t, NEW w, NEW in, NEW out, NEW k, NEW name, NEW fc,
         Turn(d, t, w, in, out), t.do = "ResolveUpvalue",
         k \in 1 .. Len(d.compilers), Previous(d).type = "IDENTIFIER", name = Previous(d).lexeme,
         IsName(name), fc = d.compilers[k - 1],
         k # 1 => /\ IsFunctionCompiler(fc) /\ LocalsSound(fc) /\ Len(fc.locals) <= UINT8_MAX + 1
                  /\ ResolveLocal(d, k - 1, name) = UINT8_MAX
  PROVE  Arrives(d, t, w, ResolveUpvalue(d, k))
<1> DEFINE a == ResolveLocal(d, k - 1, name)
           e == CheckLocal(d, k - 1, name)
           u == Task("ResolveUpvalue", <<k - 1>>)
<1>1. Runs(d, t, w, d, {}, in, out) /\ Quiet(d, t, w, d) /\ in \in Situations /\ out \in Situations /\ ~d.hadError
      /\ Standing(Inner(d), w, in) /\ Working(d) /\ Inward(d, d)
  <2>1. AwaitedBy(t) = {}
    BY DEF AwaitedBy
  <2>2. Turn(d, t, w, in, out)
    OBVIOUS
  <2> HIDE DEF a, e, u
  <2> QED BY ONLY <2>1, <2>2, TurnFacts
<1>2. JumpHere(t) = 0
  BY DEF JumpHere
<1>3. Values(in, 0) /\ out = Grown(in, 1)
  BY DEF Turn, Fits
<1>16. out.depth <= in.depth
  BY DEF Turn
<1>4. in.kind = "exact" /\ in.height \in Nat /\ in.height + 1 \in Nat
  BY <1>1, <1>3, SituationFacts DEF Values
<1>5. out = To(in, in.height + 1)
  BY <1>1, <1>3, <1>4, ToGrown
<1>6. Len(d.compilers) \in Nat \ {0} /\ k \in Nat
  BY <1>1, InnerLast
<1>8. IsCompiler(d)
  BY <1>1 DEF Working
<1>10. ResolveUpvalue(d, k) = IF k = 1 THEN Global(d)
                              ELSE IF a # UINT8_MAX THEN CaptureIn(e, k, NewUpvalue(a, TRUE))
                              ELSE Then(e, <<u>>)
  BY DEF ResolveUpvalue
<1>11. Previous(e) = Previous(d) /\ e.compilers = d.compilers
  <2>1. e \in {d, Error(d)}
    BY DEF CheckLocal
  <2>2. Same(d, Error(d)) /\ Error(d).previous = d.previous
    BY <1>8, ErrorSame
  <2> QED BY <2>1, <2>2 DEF Previous, TokenAt, Same
<1>12. Same(d, e)
  <2>1. e \in {d, Error(d)}
    BY DEF CheckLocal
  <2>2. Same(d, Error(d)) /\ Same(d, d)
    BY <1>8, ErrorSame DEF Same
  <2> QED BY <2>1, <2>2
<1> HIDE DEF e, a
<1>13. Runs(d, t, w, e, {}, in, out)
  BY <1>1, <1>12, RunsSame
<1>14. CASE k = 1
  <2>1. Runs(d, t, w, d, {}, in, To(in, in.height + 1))
    BY <1>1, <1>5
  <2>2. Arrives(d, t, w, Global(d))
    BY <1>1, <1>2, <1>3, <2>1, GlobalArrives
  <2> QED BY <1>10, <1>14, <2>2
<1>15. CASE k # 1
  <2>1. u.do = "ResolveUpvalue" /\ u.args[1] = k - 1
    BY DEF Task
  <2>2. u.do \notin Bottom /\ AwaitedBy(u) = {}
    BY <2>1 DEF Bottom, AwaitedBy
  <2>3. Fits(u, in, out)
    BY <1>3, <2>1 DEF Fits
  <2>4. Finds(Inner(e), Window(d, t, w, e), u, in, out)
    BY <2>1 DEF Finds
  <2>5. ~e.hadError => NextFinds(Then(e, <<u>>))
    <3> SUFFICES ASSUME ~e.hadError
                 PROVE  NextFinds(Then(e, <<u>>))
      OBVIOUS
    <3>1. Working(e)
      BY <1>13, RunsWorking
    <3>2. IsFunctionCompiler(Inner(e))
      BY <1>13, RunsWorking
    <3>3. /\ Last(Inner(Then(e, <<u>>)).todo) = u /\ Previous(Then(e, <<u>>)) = Previous(e)
          /\ Len(Then(e, <<u>>).compilers) = Len(e.compilers)
      BY <3>1, <3>2, NextPushed
    <3> HIDE DEF u
    <3>5. Len(Then(e, <<u>>).compilers) = Len(d.compilers)
      BY <1>11, <3>3
    <3>6. Previous(Then(e, <<u>>)).type = "IDENTIFIER"
      BY <1>11, <3>3
    <3>7. k - 1 \in 1 .. Len(d.compilers)
      BY <1>6, <1>15
    <3>4. Previous(Then(e, <<u>>)).type = "IDENTIFIER" /\ k - 1 \in 1 .. Len(Then(e, <<u>>).compilers)
      BY <3>5, <3>6, <3>7
    <3> QED BY <2>1, <3>3, <3>4 DEF NextFinds
  <2> HIDE DEF u
  <2>6. Arrives(d, t, w, Then(e, <<u>>))
    BY <1>13, <1>16, <2>2, <2>3, <2>4, <2>5, RunsImmediate
  <2>7. a = UINT8_MAX
    BY <1>15 DEF a
  <2> QED BY <1>10, <1>15, <2>6, <2>7
<1> QED BY <1>14, <1>15

(* It is a global, or the innermost function has captured it.              *)
LEMMA CaptureUpvalueArrives ==
  ASSUME NEW d, NEW t, NEW w, NEW in, NEW out, NEW k, NEW upvalue,
         Turn(d, t, w, in, out), t.do = "CaptureUpvalue",
         upvalue = UINT8_MAX \/ k = Len(d.compilers) + 1,
         upvalue # UINT8_MAX => /\ upvalue \in 0 .. UINT8_MAX
                                /\ upvalue < Len(d.compilers[k - 1].upvalues)
  PROVE  Arrives(d, t, w, CaptureUpvalue(d, k, upvalue))
<1>1. Runs(d, t, w, d, {}, in, out) /\ Quiet(d, t, w, d) /\ in \in Situations /\ out \in Situations /\ ~d.hadError
      /\ Standing(Inner(d), w, in) /\ Working(d) /\ Inward(d, d)
  <2>1. AwaitedBy(t) = {}
    BY DEF AwaitedBy
  <2>2. Runs(d, t, w, d, AwaitedBy(t), in, out)
    BY TurnFacts, Zenon
  <2>3. /\ Quiet(d, t, w, d) /\ in \in Situations /\ out \in Situations /\ ~d.hadError
        /\ Standing(Inner(d), w, in) /\ Working(d) /\ Inward(d, d)
    BY TurnFacts, Zenon
  <2> QED BY <2>1, <2>2, <2>3
<1>2. JumpHere(t) = 0
  BY DEF JumpHere
<1>3. Values(in, 0) /\ out = Grown(in, 1)
  BY DEF Turn, Fits
<1>4. in.kind = "exact" /\ in.height \in Nat /\ in.height + 1 \in Nat
  BY <1>1, <1>3, SituationFacts DEF Values
<1>5. out = To(in, in.height + 1)
  BY <1>1, <1>3, <1>4, ToGrown
<1>6. Len(d.compilers) \in Nat \ {0} /\ Inner(d) = d.compilers[Len(d.compilers)]
  BY <1>1, InnerLast
<1>7. Runs(d, t, w, d, {}, in, To(in, in.height + 1))
  BY <1>1, <1>5
<1>8. CASE upvalue = UINT8_MAX
  <2>2. Arrives(d, t, w, Global(d))
    BY <1>1, <1>2, <1>3, <1>7, GlobalArrives
  <2> QED BY <1>8, <2>2 DEF CaptureUpvalue
<1>9. CASE upvalue # UINT8_MAX
  <2>1. k > Len(d.compilers) /\ d.compilers[k - 1] = Inner(d)
    BY <1>6, <1>9
  <2>2. CaptureUpvalue(d, k, upvalue) = Access(d, OP_GET_UPVALUE, OP_SET_UPVALUE, upvalue)
    BY <1>9, <2>1 DEF CaptureUpvalue
  <2>3. Len(Inner(d).upvalues) \in Nat
    BY <1>1 DEF Standing
  <2>4. UINT8_MAX \in Nat
    BY ONLY UInt8Assumption
  <2>5. upvalue \in 0 .. Len(Inner(d).upvalues) - 1
    BY <1>9, <2>1, <2>3, <2>4
  <2>6. Accessible(Inner(d), in, OP_GET_UPVALUE, OP_SET_UPVALUE, upvalue)
    BY <2>5 DEF Accessible
  <2>7. Arrives(d, t, w, Access(d, OP_GET_UPVALUE, OP_SET_UPVALUE, upvalue))
    BY <1>1, <1>2, <1>3, <1>7, <2>6, AccessArrives
  <2> QED BY <2>2, <2>7
<1> QED BY <1>8, <1>9

(* Parameters.                                                             *)
SameButArity(fc, g, arity) ==
  /\ IsFunctionCompiler(g) /\ g.type = fc.type /\ g.code = fc.code /\ g.todo = fc.todo
  /\ g.locals = fc.locals /\ g.upvalues = fc.upvalues /\ g.constants = fc.constants
  /\ g.scopeDepth = fc.scopeDepth /\ g.lines = fc.lines /\ g.arity = arity

LEMMA AritySet ==
  ASSUME NEW fc, NEW n \in Nat, IsFunctionCompiler(fc)
  PROVE  SameButArity(fc, [fc EXCEPT !.arity = n], n)
<1> DEFINE g == [fc EXCEPT !.arity = n]
<1>1. g = [type |-> fc.type, arity |-> n, code |-> fc.code, lines |-> fc.lines,
           constants |-> fc.constants, locals |-> fc.locals, upvalues |-> fc.upvalues,
           scopeDepth |-> fc.scopeDepth, todo |-> fc.todo]
  BY DEF IsFunctionCompiler
<1>2. /\ g.type = fc.type /\ g.code = fc.code /\ g.todo = fc.todo
      /\ g.locals = fc.locals /\ g.upvalues = fc.upvalues /\ g.constants = fc.constants
      /\ g.scopeDepth = fc.scopeDepth /\ g.lines = fc.lines /\ g.arity = n
  BY <1>1
<1>3. g = [type |-> g.type, arity |-> g.arity, code |-> g.code, lines |-> g.lines,
           constants |-> g.constants, locals |-> g.locals, upvalues |-> g.upvalues,
           scopeDepth |-> g.scopeDepth, todo |-> g.todo]
  BY <1>1, <1>2
<1> HIDE DEF g
<1>4. IsFunctionCompiler(g)
  BY <1>2, <1>3 DEF IsFunctionCompiler
<1> QED BY <1>2, <1>4 DEF SameButArity, g

FunctionTasks == {"Consume", "Block", "EndCompiler"}

LEMMA FunctionTaskFinds ==
  ASSUME NEW fc, NEW w, NEW g, NEW v, NEW t, NEW in, NEW out,
         t.do \in FunctionTasks, g.type = fc.type, Finds(fc, w, t, in, out)
  PROVE  Finds(g, v, t, in, out)
<1>1. CASE t.do = "Consume"
  BY <1>1 DEF Finds
<1>2. CASE t.do = "Block"
  BY <1>2 DEF Finds
<1>3. CASE t.do = "EndCompiler"
  BY <1>3 DEF Finds
<1> QED BY <1>1, <1>2, <1>3 DEF FunctionTasks

(* A function has one more parameter, and as many values in its window; it *)
(* has no code yet.                                                        *)
OneMore(fns, fc, w, g, v, X, n, out) ==
  /\ Running(fns, g, v, X, Exact(1, n + 1, n, n), out)
  /\ n \in Nat /\ w.now = n /\ n = fc.arity + 1 /\ fc.arity \in Nat /\ v.now = fc.arity + 2

LEMMA RunningParameter ==
  ASSUME NEW fns, NEW fc, NEW w, NEW X, NEW out, NEW g, NEW v, NEW n,
         Running(fns, fc, w, X, Loose(1), out), fc.code = << >>,
         \A i \in DOMAIN fc.todo : fc.todo[i].do \in FunctionTasks,
         SameButArity(fc, g, fc.arity + 1), v = [w EXCEPT !.now = w.now + 1], n = Len(fc.locals)
  PROVE  OneMore(fns, fc, w, g, v, X, n, out)
<1> DEFINE s == Exact(1, n + 1, n, n)
           E == Awaited(fc.todo) \cup X
<1>1. Standing(fc, w, Loose(1)) /\ Windowed(fc, w)
  BY RunningStands
<1>2. IsFunctionCompiler(fc) /\ LocalsSound(fc) /\ IsWindow(fc, w) /\ fc.arity \in Nat
  BY <1>1 DEF Standing, IsFunctionCompiler
<1>3. n \in Nat /\ n + 1 \in Nat
  BY <1>2, LiveFacts
<1>4. Ready(fns, fc, w, E, out) /\ At(fc, w.now, Loose(1)) /\ out \in Situations
  BY DEF Running
<1>5. w.now = n /\ Live(fc) = n /\ Scoped(fc) /\ fc.scopeDepth = 1
  <2>1. Loose(1).kind = "loose" /\ Loose(1).depth = 1
    BY SituationFacts
  <2> QED BY <1>4, <2>1 DEF At
<1>6. w = [heights |-> w.heights, locals |-> w.locals, now |-> w.now]
  BY <1>2 DEF IsWindow
<1>7. v.heights = w.heights /\ v.locals = w.locals /\ v.now = w.now + 1
  BY <1>6
<1>8. Len(fc.code) = 0 /\ Len(g.code) = 0 /\ g.code = << >>
  BY DEF SameButArity
<1>9. DOMAIN w.heights = {}
  <2>1. DOMAIN w.heights \subseteq 0 .. Len(fc.code) - 1 /\ DOMAIN w.locals = DOMAIN w.heights
    BY <1>2 DEF IsWindow
  <2>2. 0 .. Len(fc.code) - 1 = {}
    BY <1>8
  <2> QED BY <2>1, <2>2
<1>10. Heights(fc, w)[0] = w.now /\ 0 \in DOMAIN Heights(fc, w)
  BY <1>8 DEF Heights, Noted
<1>11. ChunkSound(fns, Finished(fc), Heights(fc, w), Covered(fc, w), E)
  BY <1>4 DEF Ready
<1>12. w.now = fc.arity + 1
  BY <1>10, <1>11, FinishedFields DEF ChunkSound, Flows
<1>13. FunctionsKnown(fns, Finished(g))
  <2>1. FunctionsKnown(fns, Finished(fc))
    BY <1>11 DEF ChunkSound
  <2>2. Finished(g).constants = Finished(fc).constants
    BY FinishedFields DEF SameButArity
  <2> QED BY <2>1, <2>2 DEF FunctionsKnown
<1>14. Live(g) = n /\ LocalsSound(g) /\ Scoped(g)
  <2>1. Live(g) = n
    BY <1>5 DEF Live, SameButArity
  <2>2. LocalsSound(g)
    BY <1>2 DEF LocalsSound, SameButArity
  <2>3. Scoped(g)
    BY <1>5, <2>1 DEF Scoped, SameButArity
  <2> QED BY <2>1, <2>2, <2>3
<1> DEFINE H == Heights(g, v)
           L == Covered(g, v)
<1>15. /\ DOMAIN H = {0} /\ DOMAIN L = {0} /\ H[0] = n + 1 /\ L[0] = Lesser(n, n + 1)
       /\ H = [o \in {0} |-> H[o]] /\ L = [o \in {0} |-> L[o]]
  <2>1. H = [o \in {0} |-> n + 1]
    <3>1. H = [o \in DOMAIN w.heights \cup {0} |-> IF o = 0 THEN n + 1 ELSE w.heights[o]]
      BY <1>5, <1>7, <1>8 DEF Heights, Noted
    <3> QED BY <1>9, <3>1
  <2>2. L = [o \in {0} |-> Lesser(n, n + 1)]
    <3>1. DOMAIN w.locals = {}
      BY <1>2, <1>9 DEF IsWindow
    <3>2. L = [o \in DOMAIN w.locals \cup {0} |-> IF o = 0 THEN Lesser(n, n + 1) ELSE w.locals[o]]
      BY <1>5, <1>7, <1>8, <1>14 DEF Covered, Noted
    <3> QED BY <3>1, <3>2
  <2> QED BY <2>1, <2>2
<1>16. ChunkSound(fns, Finished(g), H, L, E)
  <2> HIDE DEF H, L, E
  <2>1. Lesser(n, n + 1) \in Nat
    BY <1>3, LesserFacts
  <2>2. Len(Finished(g).code) = 0 /\ Finished(g).arity = fc.arity + 1
    BY <1>8, FinishedFields DEF SameButArity
  <2>3. Starts(Finished(g), H) = {}
    BY <1>15, <2>2 DEF Starts
  <2>4. Flows(H, 0, Finished(g).arity + 1)
    BY <1>2, <1>5, <1>12, <1>15, <2>2 DEF Flows
  <2>5. H \in [DOMAIN H -> Nat \ {0}]
    BY <1>3, <1>15
  <2>6. L \in [DOMAIN H -> Nat]
    BY <1>15, <2>1
  <2>7. Len(Finished(g).code) \in DOMAIN H /\ DOMAIN H \subseteq 0 .. Len(Finished(g).code)
    BY <1>15, <2>2
  <2> QED BY <1>13, <2>3, <2>4, <2>5, <2>6, <2>7 DEF ChunkSound
<1>17. IsWindow(g, v)
  <2>1. v = [heights |-> v.heights, locals |-> v.locals, now |-> v.now]
    BY <1>6, <1>7
  <2>2. DOMAIN v.heights \subseteq 0 .. Len(g.code) - 1 /\ DOMAIN v.locals = DOMAIN v.heights
    BY <1>2, <1>7, <1>9 DEF IsWindow
  <2> QED BY <1>7, <1>9, <2>1, <2>2 DEF IsWindow
<1>18. Planned(g, v, out)
  <2>1. PICK plan \in [0 .. Len(fc.todo) -> Situations] :
           IsPlan(fc, w, plan) /\ plan[Len(fc.todo)] = out
    BY <1>4 DEF Ready, Planned
  <2>2. g.todo = fc.todo /\ g.type = fc.type
    BY DEF SameButArity
  <2>3. ASSUME NEW i \in DOMAIN fc.todo
        PROVE  fc.todo[i].do \notin Immediate /\ Placed(g, v, fc.todo[i], i, plan[i], plan[i - 1])
    <3>1. fc.todo[i].do \notin Immediate /\ Placed(fc, w, fc.todo[i], i, plan[i], plan[i - 1])
      BY <2>1, <2>3 DEF IsPlan
    <3>2. Finds(g, v, fc.todo[i], plan[i], plan[i - 1])
      BY <2>2, <2>3, <3>1, FunctionTaskFinds DEF Placed
    <3> QED BY <3>1, <3>2 DEF Placed
  <2>4. IsPlan(g, v, plan)
    BY <2>1, <2>2, <2>3 DEF IsPlan
  <2> QED BY <2>1, <2>2, <2>4 DEF Planned
<1>19. s \in Situations /\ s.kind = "exact" /\ s.depth = 1 /\ s.height = n + 1 /\ s.live = n /\ s.locals = n
  <2> DEFINE k == n + 1
  <2> HIDE DEF k
  <2>1. k \in Nat
    BY <1>3 DEF k
  <2>2. Exact(1, k, n, n) \in Situations
    BY <1>3, <2>1, SituationFacts
  <2>3. LET e2 == Exact(1, k, n, n)
        IN  e2.kind = "exact" /\ e2.depth = 1 /\ e2.height = k /\ e2.live = n /\ e2.locals = n
    BY SituationFacts
  <2> QED BY <2>2, <2>3 DEF k
<1>20. At(g, v.now, s)
  <2>1. g.scopeDepth = 1 /\ Len(g.locals) = n
    BY <1>5 DEF SameButArity
  <2> HIDE DEF s
  <2> QED BY <1>5, <1>7, <1>14, <1>19, <2>1 DEF At
<1>21. Ready(fns, g, v, E, out)
  <2>1. IsFunctionCompiler(g)
    BY DEF SameButArity
  <2> HIDE DEF E, H, L
  <2> QED BY <1>14, <1>16, <1>17, <1>18, <2>1 DEF Ready, H, L
<1>22. Running(fns, g, v, X, s, out)
  <2>1. g.todo = fc.todo
    BY DEF SameButArity
  <2> HIDE DEF s
  <2> QED BY <1>4, <1>19, <1>20, <1>21, <2>1 DEF Running
<1>23. v.now = fc.arity + 2
  BY <1>2, <1>7, <1>12
<1>24. n = fc.arity + 1
  BY <1>5, <1>12
<1> HIDE DEF s
<1>25. OneMore(fns, fc, w, g, v, X, n, out)
  BY <1>2, <1>3, <1>5, <1>22, <1>23, <1>24 DEF s, OneMore
<1> QED BY <1>25

(* A local is declared, and nothing done about the tasks.                  *)
MoreLocals(fc, g, n) ==
  /\ IsFunctionCompiler(g) /\ g.todo = fc.todo /\ g.scopeDepth = fc.scopeDepth
  /\ Len(fc.locals) \in Nat /\ Len(g.locals) = Len(fc.locals) + n

LEMMA DeclaresLocal ==
  ASSUME NEW m, NEW f, Working(m), IsFunctionCompiler(Inner(m)), Inner(m).scopeDepth # 0,
         Inner(m).scopeDepth \in Nat, f = ParseVariable(m)
  PROVE  MoreLocals(Inner(m), Inner(f), 1)
<1> DEFINE e == Consume(m, "IDENTIFIER")
           fc == Inner(m)
           name == Previous(e).lexeme
           l == Append(fc.locals, NewLocal(name))
           g == [fc EXCEPT !.locals = l]
<1>1. Working(e) /\ Inner(e) = fc
  BY ConsumeInward
<1>2. IsSequence(fc.locals)
  BY DEF IsFunctionCompiler
<1>3. IsSequence(l) /\ Len(l) = Len(fc.locals) + 1 /\ Len(fc.locals) \in Nat
  BY <1>2, SequenceAppend, SequenceFacts
<1>4. SameButScope(fc, g, l, fc.scopeDepth)
  BY <1>3, ScopeSet
<1> HIDE DEF e
<1>5. PICK p : DeclareVariable(e) = With(p, g) /\ p \in {e, Error(e)}
  <2>1. PICK p : DeclareVariable(e) = With(p, [fc EXCEPT !.locals = Append(@, [name |-> name, depth |-> UINT8_MAX])])
                 /\ p \in {e, Error(e)}
    BY <1>1 DEF DeclareVariable
  <2> QED BY <2>1 DEF NewLocal
<1>6. Working(p)
  BY <1>1, <1>5, ErrorInward
<1>7. Inner(With(p, g)) = g
  BY <1>6, WithFacts
<1>8. g.scopeDepth = fc.scopeDepth /\ g.locals = l /\ g.todo = fc.todo /\ IsFunctionCompiler(g)
  BY <1>4 DEF SameButScope
<1>9. f = DeclareVariable(e)
  <2>1. Inner(DeclareVariable(e)).scopeDepth = fc.scopeDepth
    BY <1>5, <1>7, <1>8
  <2>2. fc.scopeDepth # 0
    OBVIOUS
  <2> DEFINE z == DeclareVariable(e)
  <2>3. f = IF Inner(z).scopeDepth > 0 THEN z ELSE MakeConstant(z, StringConstant(Previous(z).lexeme))
    BY DEF ParseVariable, e
  <2> HIDE DEF z
  <2> QED BY <2>1, <2>2, <2>3 DEF z
<1> HIDE DEF g, l
<1> QED BY <1>3, <1>5, <1>7, <1>8, <1>9 DEF MoreLocals

LEMMA DefinesLocal ==
  ASSUME NEW m, NEW k, NEW f, Working(m), IsFunctionCompiler(Inner(m)), Inner(m).scopeDepth # 0,
         Inner(m).scopeDepth \in Nat, f = DefineVariable(m, k)
  PROVE  MoreLocals(Inner(m), Inner(f), 0)
<1> DEFINE fc == Inner(m)
           n == Len(fc.locals)
           l == [fc.locals EXCEPT ![n] = [fc.locals[n] EXCEPT !.depth = fc.scopeDepth]]
           g == [fc EXCEPT !.locals = l]
<1>1. IsSequence(fc.locals)
  BY DEF IsFunctionCompiler
<1>2. n \in Nat
  BY <1>1, SequenceFacts
<1>3. IsSequence(l) /\ Len(l) = n
  <2> DEFINE s == fc.locals
             x == [fc.locals[n] EXCEPT !.depth = fc.scopeDepth]
  <2>1. l = [s EXCEPT ![n] = x] /\ IsSequence(s)
    BY <1>1
  <2> HIDE DEF s, x
  <2>2. IsSequence([s EXCEPT ![n] = x])
    BY ONLY <2>1, SequenceExcept
  <2>3. Len([s EXCEPT ![n] = x]) = Len(s)
    BY ONLY <2>1, SequenceExcept
  <2> HIDE DEF l
  <2> QED BY <2>1, <2>2, <2>3 DEF s
<1>4. SameButScope(fc, g, l, fc.scopeDepth)
  BY <1>3, ScopeSet
<1>5. f = With(m, g)
  BY DEF DefineVariable, MarkInitialized
<1>6. Inner(With(m, g)) = g
  BY WithFacts
<1> HIDE DEF g
<1>7. g.scopeDepth = fc.scopeDepth /\ g.locals = l /\ g.todo = fc.todo /\ IsFunctionCompiler(g)
  BY <1>4 DEF SameButScope
<1> HIDE DEF l
<1> QED BY <1>2, <1>3, <1>5, <1>6, <1>7 DEF MoreLocals

LEMMA ParameterArrives ==
  ASSUME NEW d, NEW t, NEW w, Runs(d, t, w, d, {}, Loose(1), Loose(1)), Quiet(d, t, w, d), ~d.hadError,
         JumpHere(t) = 0, 1 < UINT8_MAX, Inner(d).type # "SCRIPT", Inner(d).code = << >>,
         \A i \in DOMAIN Inner(d).todo : Inner(d).todo[i].do \in FunctionTasks,
         ~Parameter(d).hadError => Len(Inner(Parameter(d)).locals) <= UINT8_MAX + 1
  PROVE  Arrives(d, t, w, Parameter(d))
<1> DEFINE fc == Inner(d)
           n == Len(fc.locals)
           g == [fc EXCEPT !.arity = fc.arity + 1]
           v == [w EXCEPT !.now = w.now + 1]
           d2 == With(d, [fc EXCEPT !.arity = Byte8(fc.arity + 1)])
           f == ParseVariable(d2)
           h == DefineVariable(f, 0)
           u == Task("MoreParameters", << >>)
           s == Exact(1, n + 1, n, n)
           r == Declared(s)
<1>1. Working(d) /\ Inward(d, Parameter(d))
  BY RunsWorking, FunctionInward
<1>2. Parameter(d) = Then(h, <<u>>)
  BY DEF Parameter
<1>3. CASE Parameter(d).hadError
  BY <1>1, <1>3 DEF Arrives
<1>4. CASE ~Parameter(d).hadError
  <2>1. Window(d, t, w, d) = w /\ fc.todo # << >>
    BY DEF Quiet, Runs
  <2>2. Running(d.functions, fc, w, {}, Loose(1), Loose(1))
    BY <2>1 DEF Runs
  <2>3. IsFunctionCompiler(fc) /\ fc.arity \in Nat /\ fc.scopeDepth = 1
    <3>1. Standing(fc, w, Loose(1))
      BY <2>2, RunningStands
    <3>2. Loose(1).depth = 1
      BY SituationFacts
    <3> QED BY <3>1, <3>2 DEF Standing, IsFunctionCompiler
  <2>4. SameButArity(fc, g, fc.arity + 1)
    BY <2>3, AritySet
  <2>5. /\ Running(d.functions, g, v, {}, s, Loose(1))
        /\ n \in Nat /\ w.now = n /\ n = fc.arity + 1 /\ v.now = fc.arity + 2
    <3> DEFINE k == fc.arity + 1
    <3>1. /\ Running(d.functions, fc, w, {}, Loose(1), Loose(1)) /\ SameButArity(fc, g, fc.arity + 1)
          /\ v = [w EXCEPT !.now = w.now + 1] /\ n = Len(fc.locals) /\ fc.code = << >>
          /\ \A i \in DOMAIN fc.todo : fc.todo[i].do \in FunctionTasks
      BY <2>2, <2>4
    <3> HIDE DEF fc, g, v, n
    <3>2. OneMore(d.functions, fc, w, g, v, {}, n, Loose(1))
      BY <3>1, RunningParameter
    <3> QED BY <3>2 DEF OneMore
  <2>6. UINT8_MAX \in Nat
    BY ONLY UInt8Assumption
  <2>7. Byte8(fc.arity + 1) \in Nat
    BY <2>3, Byte8OfByte
  <2>8. SameButArity(fc, [fc EXCEPT !.arity = Byte8(fc.arity + 1)], Byte8(fc.arity + 1))
    BY <2>3, <2>7, AritySet
  <2>9. Inner(d2) = [fc EXCEPT !.arity = Byte8(fc.arity + 1)] /\ Inward(d, d2) /\ Working(d2)
    BY <1>1, WithFacts DEF Inward
  <2>10. Inner(d2).scopeDepth = 1 /\ IsFunctionCompiler(Inner(d2)) /\ Inner(d2).locals = fc.locals
         /\ Inner(d2).todo = fc.todo
    BY <2>3, <2>8, <2>9 DEF SameButArity
  <2> HIDE DEF d2
  <2>11. MoreLocals(Inner(d2), Inner(f), 1)
    <3>1. Inner(d2).scopeDepth # 0 /\ Inner(d2).scopeDepth \in Nat /\ f = ParseVariable(d2)
      BY <2>10
    <3> HIDE DEF f
    <3> QED BY <2>9, <2>10, <3>1, DeclaresLocal
  <2>12. Working(f) /\ Inward(d2, f)
    BY <2>9, ParseVariableInward
  <2> HIDE DEF f
  <2>13. MoreLocals(Inner(f), Inner(h), 0)
    <3>1. IsFunctionCompiler(Inner(f)) /\ Inner(f).scopeDepth = 1
      BY <2>10, <2>11 DEF MoreLocals
    <3> QED BY <2>12, <3>1, DefinesLocal
  <2>14. Working(h) /\ Inward(f, h)
    BY <2>12, DefineVariableInward
  <2> HIDE DEF h
  <2>15. Len(Inner(h).locals) = n + 1 /\ IsFunctionCompiler(Inner(h)) /\ Inner(h).todo = fc.todo
    BY <2>10, <2>11, <2>13 DEF MoreLocals
  <2>16. SameButTodo(Inner(h), Inner(Then(h, <<u>>)))
    BY <2>14, <2>15, NextPushed
  <2>17. Len(Inner(Parameter(d)).locals) = n + 1
    BY <1>2, <2>15, <2>16 DEF SameButTodo
  <2>18. fc.arity + 1 <= UINT8_MAX
    BY <1>4, <2>3, <2>5, <2>6, <2>17
  <2>19. Inner(d2) = g
    <3>1. Byte8(fc.arity + 1) = fc.arity + 1
      BY <2>3, <2>6, <2>18, Byte8OfByte
    <3> QED BY <2>9, <3>1
  <2> HIDE DEF g
  <2>20. g.code = << >> /\ g.type = fc.type /\ g.todo = fc.todo /\ g.upvalues = fc.upvalues
         /\ g.arity = fc.arity + 1 /\ IsFunctionCompiler(g) /\ g.locals = fc.locals
    BY <2>4 DEF SameButArity
  <2>21. w = [heights |-> w.heights, locals |-> w.locals, now |-> w.now]
    <3>1. Standing(fc, w, Loose(1))
      BY <2>2, RunningStands
    <3> QED BY <3>1 DEF Standing, IsWindow
  <2>22. \A a : [v EXCEPT !.now = a] = [w EXCEPT !.now = a]
    BY <2>21
  <2>23. v = [v EXCEPT !.now = v.now]
    BY <2>21
  <2>24. Window(d2, t, v, d2) = v
    <3>1. Window(d2, t, v, d2) = [v EXCEPT !.now = g.arity + 1]
      BY <2>19, <2>20 DEF Window, Recorded
    <3>2. g.arity + 1 = v.now
      BY <2>3, <2>5, <2>20
    <3> QED BY <2>23, <3>1, <3>2
  <2>25. d2.functions = d.functions
    BY <2>9 DEF Inward
  <2> HIDE DEF v
  <2>26. Runs(d2, t, v, d2, {}, s, Loose(1)) /\ Quiet(d2, t, v, d2)
    <3>1. Inward(d2, d2)
      BY <2>9, InwardSelf
    <3>2. Running(d2.functions, Inner(d2), v, {}, s, Loose(1))
      BY <2>5, <2>19, <2>25
    <3>3. Inner(d2).todo # << >>
      BY <2>1, <2>10
    <3> HIDE DEF s
    <3> QED BY <2>9, <2>24, <3>1, <3>2, <3>3 DEF Runs, Quiet
  <2>27. s \in Situations /\ s.kind = "exact" /\ s.depth = 1 /\ s.height = n + 1 /\ s.live = n /\ s.locals = n
    <3> DEFINE k == n + 1
    <3> HIDE DEF k, n
    <3>1. k \in Nat
      BY <2>5 DEF k
    <3>2. Exact(1, k, n, n) \in Situations
      BY <2>5, <3>1, SituationFacts
    <3>3. LET e2 == Exact(1, k, n, n)
          IN  e2.kind = "exact" /\ e2.depth = 1 /\ e2.height = k /\ e2.live = n /\ e2.locals = n
      BY SituationFacts
    <3> QED BY <3>2, <3>3 DEF k
  <2> HIDE DEF s, n
  <2>28. Loose(1).depth = 1 /\ Loose(1).kind = "loose" /\ Loose(1) \in Situations
    BY SituationFacts
  <2>29. Loose(1).depth <= s.depth /\ s.depth < UINT8_MAX
    BY <2>6, <2>27, <2>28
  <2>30. ParsedWell(d2, t, v, d2, f, s, Loose(1))
    <3>1. f = ParseVariable(d2) /\ s.live = s.locals
      BY <2>27 DEF f
    <3> QED BY <2>26, <2>27, <2>29, <3>1, ParseVariableRuns
  <2>31. /\ r \in Situations /\ r.kind = "exact" /\ r.depth = 1
         /\ r.height = n + 1 /\ r.live = n /\ r.locals = n + 1
    BY <2>27, DeclaredFacts
  <2>32. Runs(d2, t, v, f, {}, r, Loose(1)) /\ Quiet(d2, t, v, f)
    BY <2>26, <2>30 DEF ParsedWell
  <2>33. ~f.hadError => Named(Inner(f), s, ConstantIndex(f)) /\ Inner(f).code = Inner(d2).code
    BY <2>30 DEF ParsedWell
  <2> HIDE DEF r
  <2>34. DefinedWell(d2, t, v, f, h, r, Loose(1))
    <3>1. Definable(r) /\ r.depth < UINT8_MAX /\ Loose(1).depth <= r.depth
      BY <2>6, <2>28, <2>31 DEF Definable
    <3>2. ~f.hadError => IF r.depth = 0 THEN IsString(Inner(f), 0)
                         ELSE r.locals \notin Base(Inner(f), r.depth)
      BY <2>27, <2>31, <2>33 DEF Named
    <3>3. h = DefineVariable(f, 0)
      BY DEF h
    <3> QED BY <2>31, <2>32, <3>1, <3>2, <3>3, DefineRuns
  <2>35. Runs(d2, t, v, h, {}, Loose(1), Loose(1)) /\ ~h.hadError
    <3>1. Runs(d2, t, v, h, {}, Loose(r.depth), Loose(1))
      BY <2>34 DEF DefinedWell
    <3>2. Then(h, <<u>>).hadError = h.hadError
      BY <2>14, ThenInward
    <3> QED BY <1>2, <1>4, <2>31, <3>1, <3>2
  <2>36. Inner(h).code = << >> /\ Inner(h).type = fc.type
    <3>1. ~f.hadError
      BY <2>14, <2>35 DEF Inward
    <3>2. Inner(f).code = << >>
      BY <2>19, <2>20, <2>33, <3>1
    <3>3. Inner(h).code = Inner(f).code
      BY <2>31, <2>34, <2>35 DEF DefinedWell
    <3>4. Inner(h).type = Inner(d2).type
      BY <2>35 DEF Runs
    <3> QED BY <2>19, <2>20, <3>2, <3>3, <3>4
  <2>37. u.do = "MoreParameters"
    BY DEF Task
  <2>38. u.do \notin Bottom /\ AwaitedBy(u) = {}
    BY <2>37 DEF Bottom, AwaitedBy
  <2>39. Fits(u, Loose(1), Loose(1))
    BY <2>37 DEF Fits
  <2>40. Finds(Inner(h), Window(d2, t, v, h), u, Loose(1), Loose(1))
    BY <2>15, <2>36, <2>37 DEF Finds, FunctionTasks
  <2>41. NextFinds(Then(h, <<u>>))
    <3>1. Last(Inner(Then(h, <<u>>)).todo) = u
      BY <2>14, <2>15, NextPushed
    <3> HIDE DEF u
    <3> QED BY <2>37, <3>1 DEF NextFinds
  <2>42. Loose(1).depth <= Loose(1).depth
    BY <2>28
  <2> HIDE DEF u
  <2> DEFINE e == Then(h, <<u>>)
  <2>43. Arrives(d2, t, v, e)
    BY <2>35, <2>38, <2>39, <2>40, <2>41, <2>42, RunsImmediate
  <2>44. Inner(e).code = << >>
    BY <2>16, <2>36 DEF SameButTodo, u
  <2>45. e = Parameter(d)
    BY <1>2 DEF u
  <2> HIDE DEF e
  <2>46. /\ Inner(e).type = fc.type /\ Inner(e).upvalues = fc.upvalues
         /\ Level(d.functions, Inner(e), Window(d2, t, v, e)) /\ NextFinds(e)
    BY <1>4, <2>19, <2>20, <2>25, <2>43, <2>45 DEF Arrives
  <2>47. Window(d2, t, v, e) = Window(d, t, w, e)
    BY <2>22, <2>44 DEF Window, Recorded
  <2>48. Level(d.functions, Inner(e), Window(d, t, w, e))
    BY <2>46, <2>47
  <2> QED BY <1>1, <2>45, <2>46, <2>48 DEF Arrives
<1> QED BY <1>3, <1>4

LEMMA ParametersArrive ==
  ASSUME NEW d, NEW t, NEW w, NEW in, NEW out, NEW e, Turn(d, t, w, in, out), in.depth < UINT8_MAX,
         \/ t.do = "ParameterList" /\ e = ParameterList(d)
         \/ t.do = "Parameter" /\ e = Parameter(d)
         \/ t.do = "MoreParameters" /\ e = MoreParameters(d),
         ~e.hadError => Len(Inner(e).locals) <= UINT8_MAX + 1
  PROVE  Arrives(d, t, w, e)
<1>1. /\ Runs(d, t, w, d, {}, in, out) /\ Quiet(d, t, w, d) /\ ~d.hadError /\ in = Loose(1) /\ out = in
  <2>1. AwaitedBy(t) = {}
    BY DEF AwaitedBy
  <2>2. in = Loose(1) /\ out = in
    BY DEF Turn, Fits
  <2> QED BY <2>1, <2>2, TurnFacts
<1>2. /\ Inner(d).type # "SCRIPT" /\ Inner(d).code = << >>
      /\ \A i \in DOMAIN Inner(d).todo : Inner(d).todo[i].do \in FunctionTasks
  BY DEF Turn, Finds, FunctionTasks
<1>3. JumpHere(t) = 0
  BY DEF JumpHere
<1>4. Loose(1).depth = 1 /\ Loose(1).kind = "loose" /\ Loose(1) \in Situations
  BY SituationFacts
<1>5. CASE e = Parameter(d)
  <2>1. 1 < UINT8_MAX
    BY <1>1, <1>4
  <2>2. ~Parameter(d).hadError => Len(Inner(Parameter(d)).locals) <= UINT8_MAX + 1
    BY <1>5
  <2> QED BY <1>1, <1>2, <1>3, <1>5, <2>1, <2>2, ParameterArrives
<1>6. Arrives(d, t, w, d)
  BY <1>1, RunsArrives
<1>7. CASE e = d
  BY <1>6, <1>7
<1>8. Arrives(d, t, w, MoreParameters(d))
  <2> DEFINE f == Advance(d)
             u == Task("Parameter", << >>)
  <2>1. MoreParameters(d) = IF Check(d, "COMMA") THEN Then(f, <<u>>) ELSE d
    BY DEF MoreParameters
  <2>2. Runs(d, t, w, f, {}, in, in)
    BY <1>1, RunsAdvance
  <2>3. ~f.hadError => Inner(f) = Inner(d)
    BY <1>1, RunsAdvance
  <2> HIDE DEF f
  <2>4. u.do = "Parameter"
    BY DEF Task
  <2>5. u.do \notin Bottom /\ AwaitedBy(u) = {}
    BY <2>4 DEF Bottom, AwaitedBy
  <2>6. Fits(u, in, in)
    BY <1>1, <2>4 DEF Fits
  <2>7. ~f.hadError => Finds(Inner(f), Window(d, t, w, f), u, in, in)
    BY <1>2, <2>3, <2>4 DEF Finds, FunctionTasks
  <2>8. ~f.hadError => NextFinds(Then(f, <<u>>))
    <3> SUFFICES ASSUME ~f.hadError
                 PROVE  NextFinds(Then(f, <<u>>))
      OBVIOUS
    <3>1. Working(f) /\ IsFunctionCompiler(Inner(f))
      BY <2>2, RunsWorking
    <3>2. Last(Inner(Then(f, <<u>>)).todo) = u
      BY <3>1, NextPushed
    <3> HIDE DEF u
    <3> QED BY <2>4, <3>2 DEF NextFinds
  <2>9. in.depth <= in.depth
    BY <1>1, <1>4
  <2> HIDE DEF u
  <2>10. Arrives(d, t, w, Then(f, <<u>>))
    BY <2>2, <2>5, <2>6, <2>7, <2>8, <2>9, RunsImmediate
  <2> QED BY <1>6, <2>1, <2>10
<1>9. e = MoreParameters(d) \/ e = Parameter(d) \/ e = d
  BY DEF ParameterList
<1> QED BY <1>5, <1>7, <1>8, <1>9

(* Closures.                                                               *)

LEMMA CapturesFacts ==
  ASSUME NEW ups, NEW s, IsSequence(ups), s = Captures(ups)
  PROVE  /\ IsSequence(s) /\ Len(s) = 2 * Len(ups)
         /\ \A i \in 1 .. Len(ups) : /\ s[2 * i - 1] = (IF ups[i].isLocal THEN 1 ELSE 0)
                                     /\ s[2 * i] = Byte8(ups[i].index)
<1>1. Len(ups) \in Nat
  BY SequenceFacts
<1> DEFINE n == 2 * Len(ups)
<1>2. n \in Nat
  BY <1>1
<1>3. s = [i \in 1 .. n |-> IF i % 2 = 0 THEN Byte8(ups[(i + 1) \div 2].index)
                            ELSE IF ups[(i + 1) \div 2].isLocal THEN 1 ELSE 0]
  BY DEF Captures
<1>4. s = [i \in 1 .. n |-> s[i]]
  BY <1>3
<1>5. IsSequence(s) /\ Len(s) = n
  BY <1>2, <1>4, SequenceOfRange
<1>6. ASSUME NEW i \in 1 .. Len(ups)
      PROVE  /\ s[2 * i - 1] = (IF ups[i].isLocal THEN 1 ELSE 0)
             /\ s[2 * i] = Byte8(ups[i].index)
  <2>1. /\ 2 * i - 1 \in 1 .. n /\ 2 * i \in 1 .. n /\ (2 * i) % 2 = 0 /\ (2 * i - 1) % 2 # 0
        /\ (2 * i + 1) \div 2 = i /\ (2 * i - 1 + 1) \div 2 = i
    BY <1>1
  <2> HIDE DEF n
  <2>2. s[2 * i] = Byte8(ups[(2 * i + 1) \div 2].index)
    BY <1>3, <2>1
  <2>3. s[2 * i - 1] = IF ups[(2 * i - 1 + 1) \div 2].isLocal THEN 1 ELSE 0
    BY <1>3, <2>1
  <2> QED BY <2>1, <2>2, <2>3
<1> QED BY <1>5, <1>6

(* The closure of the function that was finished last.                     *)
ClosureBytes(k, ups) == <<OP_CLOSURE, k>> \o Captures(ups)

LEMMA ClosureBytesFacts ==
  ASSUME NEW ups, NEW k, NEW bytes, IsSequence(ups), bytes = ClosureBytes(k, ups)
  PROVE  /\ IsSequence(bytes) /\ Len(bytes) = 2 + 2 * Len(ups) /\ bytes # << >>
         /\ bytes[1] = OP_CLOSURE /\ bytes[2] = k
         /\ \A i \in 1 .. Len(ups) : /\ bytes[2 * i + 1] = (IF ups[i].isLocal THEN 1 ELSE 0)
                                     /\ bytes[2 * i + 2] = Byte8(ups[i].index)
<1> DEFINE s == Captures(ups)
           r == <<OP_CLOSURE, k>>
<1>1. /\ IsSequence(s) /\ Len(s) = 2 * Len(ups)
      /\ \A i \in 1 .. Len(ups) : /\ s[2 * i - 1] = (IF ups[i].isLocal THEN 1 ELSE 0)
                                  /\ s[2 * i] = Byte8(ups[i].index)
  BY CapturesFacts
<1>2. IsSequence(r) /\ Len(r) = 2 /\ r[1] = OP_CLOSURE /\ r[2] = k
  BY ShortSequences
<1>3. bytes = r \o s
  BY DEF ClosureBytes
<1>4. Len(ups) \in Nat
  BY SequenceFacts
<1> HIDE DEF s, r
<1>5. /\ IsSequence(bytes) /\ Len(bytes) = 2 + Len(s)
      /\ \A i \in 1 .. 2 : bytes[i] = r[i]
      /\ \A i \in 1 .. Len(s) : bytes[2 + i] = s[i]
  <2>1. /\ IsSequence(r \o s) /\ Len(r \o s) = Len(r) + Len(s)
        /\ \A i \in 1 .. Len(r) : (r \o s)[i] = r[i]
        /\ \A i \in 1 .. Len(s) : (r \o s)[Len(r) + i] = s[i]
    <3>1. IsSequence(r) /\ IsSequence(s)
      BY <1>1, <1>2
    <3> QED BY ONLY <3>1, SequenceConcat
  <2>2. Len(r) = 2
    BY <1>2
  <2> QED BY ONLY <1>3, <2>1, <2>2
<1>6. bytes # << >>
  <2>1. Len(bytes) >= 1
    BY <1>1, <1>4, <1>5
  <2> QED BY <2>1, <1>5, SequenceFacts
<1>7. ASSUME NEW i \in 1 .. Len(ups)
      PROVE  bytes[2 * i + 1] = s[2 * i - 1] /\ bytes[2 * i + 2] = s[2 * i]
  <2>1. /\ 2 * i - 1 \in 1 .. Len(s) /\ 2 * i \in 1 .. Len(s)
        /\ 2 + (2 * i - 1) = 2 * i + 1 /\ 2 + 2 * i = 2 * i + 2
    BY <1>1, <1>4
  <2>2. bytes[2 + (2 * i - 1)] = s[2 * i - 1] /\ bytes[2 + 2 * i] = s[2 * i]
    BY <1>5, <2>1
  <2> QED BY <2>1, <2>2
<1>8. bytes[1] = OP_CLOSURE /\ bytes[2] = k
  BY <1>2, <1>5
<1> QED BY <1>1, <1>5, <1>6, <1>7, <1>8

(* A closure is emitted.                                                   *)
LEMMA RunningCloses ==
  ASSUME NEW fns, NEW fc, NEW w, NEW X, NEW in, NEW out, NEW fc2, NEW k, NEW ups, NEW g, NEW h,
         Running(fns, fc, w, X, in, out), SameButCode(fc, fc2), in.kind = "exact",
         fc2.code = fc.code \o ClosureBytes(k, ups), IsSequence(ups), UpvaluesSound(ups, fc),
         in.height \in {in.live - 1, in.live}, h = w.now + 1,
         k + 1 \in DOMAIN fc.constants, fc.constants[k + 1] = FunctionConstant(g),
         fns[g].upvalueCount = Len(ups)
  PROVE  Running(fns, fc2, After(fc, w, h), X, [in EXCEPT !.height = h], out)
<1> DEFINE bytes == ClosureBytes(k, ups)
           n == Len(fc.code)
           m == Len(ups)
           F == Finished(fc2)
           H == Heights(fc2, After(fc, w, h))
           L == Covered(fc2, After(fc, w, h))
<1>1. /\ IsSequence(bytes) /\ Len(bytes) = 2 + 2 * m /\ bytes # << >>
      /\ bytes[1] = OP_CLOSURE /\ bytes[2] = k
      /\ \A i \in 1 .. m : /\ bytes[2 * i + 1] = (IF ups[i].isLocal THEN 1 ELSE 0)
                           /\ bytes[2 * i + 2] = Byte8(ups[i].index)
  BY ClosureBytesFacts
<1>2. /\ Standing(fc, w, in) /\ n \in Nat /\ w.now \in Nat \ {0} /\ Live(fc) \in Nat
      /\ in.height = w.now /\ in.live = Live(fc) /\ Len(fc.upvalues) \in Nat
  BY RunningStands DEF Standing
<1>3. h \in Nat \ {0} /\ m \in Nat
  BY <1>2, SequenceFacts
<1>4. fc2.code = fc.code \o bytes
  OBVIOUS
<1>5. /\ F.code = fc2.code /\ F.constants = fc.constants /\ F.upvalueCount = Len(fc.upvalues)
  BY FinishedFields DEF SameButCode
<1> HIDE DEF bytes
<1>6. Emitted(fc, w, fc2, bytes, h)
  BY <1>1, <1>3, <1>4, RunningEmitted
<1> HIDE DEF m, n, F, H, L
<1>7. /\ Len(fc2.code) = n + (2 + 2 * m) /\ H[n] = w.now /\ H[n + (2 + 2 * m)] = h
      /\ n + (2 + 2 * m) \in DOMAIN H
      /\ L[n] = Lesser(Live(fc), w.now) /\ L[n + (2 + 2 * m)] = Lesser(Live(fc), h)
      /\ L[n] \in Nat
      /\ \A i \in 1 .. 2 + 2 * m : fc2.code[n + i] = bytes[i]
  BY <1>1, <1>6 DEF Emitted, H, L, n, m
<1>14. n \in Nat /\ m \in Nat
  BY <1>2, <1>3 DEF n
<1>8. n + (2 + 2 * m) = n + 2 + 2 * m /\ 1 \in 1 .. 2 + 2 * m /\ 2 \in 1 .. 2 + 2 * m
  BY ONLY <1>14
<1>9. OpAt(F, n) = OP_CLOSURE /\ Operand(F, n) = k
  BY <1>1, <1>5, <1>7, <1>8 DEF OpAt, Operand
<1>10. Flows(H, n + 2 + 2 * m, H[n] + 1) /\ H[n] \in Nat /\ L[n] \in Nat
       /\ n + 2 + 2 * m <= Len(F.code)
  <2>1. n + 2 + 2 * m <= n + 2 + 2 * m
    BY <1>2, <1>3 DEF n
  <2> QED BY <1>2, <1>5, <1>7, <1>8, <2>1 DEF Flows
<1>11. L[n + 2 + 2 * m] = Live(fc) /\ L[n + 2 + 2 * m] >= L[n]
  <2>1. Live(fc) <= h
    BY <1>2
  <2>2. Lesser(Live(fc), h) = Live(fc)
    BY <1>2, <1>3, <2>1 DEF Lesser
  <2>3. Lesser(Live(fc), w.now) <= Live(fc)
    BY <1>2, LesserFacts
  <2> QED BY <1>7, <1>8, <2>2, <2>3
<1>12. ASSUME NEW i \in 1 .. m
       PROVE  /\ CaptureIndex(F, n, i) \in Byte
              /\ IF CapturesLocal(F, n, i)
                 THEN /\ CaptureIndex(F, n, i) <= H[n]
                      /\ CaptureIndex(F, n, i) \in 1 .. L[n + 2 + 2 * m] - 1
                 ELSE CaptureIndex(F, n, i) < F.upvalueCount
  <2>1. i \in Nat /\ 2 * i + 1 \in 1 .. 2 + 2 * m /\ 2 * i + 2 \in 1 .. 2 + 2 * m
    BY <1>3
  <2>2. n + (2 * i + 1) = n + 2 * i + 1 /\ n + (2 * i + 2) = n + 2 * i + 2
    BY <1>14, <2>1
  <2>3. fc2.code[n + 2 * i + 1] = bytes[2 * i + 1] /\ fc2.code[n + 2 * i + 2] = bytes[2 * i + 2]
    <3>1. /\ fc2.code[n + (2 * i + 1)] = bytes[2 * i + 1]
          /\ fc2.code[n + (2 * i + 2)] = bytes[2 * i + 2]
      BY <1>7, <2>1
    <3> QED BY ONLY <2>2, <3>1
  <2>4. /\ ups[i].index \in 0 .. UINT8_MAX
        /\ IF ups[i].isLocal THEN ups[i].index \in 1 .. Live(fc) - 1
                             ELSE ups[i].index \in 0 .. Len(fc.upvalues) - 1
    <3>1. DOMAIN ups = 1 .. m
      BY SequenceFacts DEF m
    <3> QED BY <3>1 DEF UpvaluesSound
  <2>5. Byte8(ups[i].index) = ups[i].index
    BY <2>4, Byte8OfByte
  <2>6. bytes[2 * i + 1] = (IF ups[i].isLocal THEN 1 ELSE 0) /\ bytes[2 * i + 2] = Byte8(ups[i].index)
    BY <1>1
  <2>7. CaptureIndex(F, n, i) = ups[i].index
    BY <1>5, <2>3, <2>5, <2>6 DEF CaptureIndex
  <2>8. CapturesLocal(F, n, i) <=> ups[i].isLocal
    <3>1. CapturesLocal(F, n, i) <=> bytes[2 * i + 1] # 0
      BY <1>5, <2>3 DEF CapturesLocal
    <3> QED BY <2>6, <3>1
  <2>9. CaptureIndex(F, n, i) \in Byte
    <3>1. ups[i].index \in Byte
      <4>1. ups[i].index \in 0 .. UINT8_MAX
        BY <2>4
      <4>2. UINT8_MAX \in 1 .. 255
        BY ONLY UInt8Assumption
      <4> QED BY ONLY <4>1, <4>2 DEF Byte
    <3> QED BY ONLY <2>7, <3>1
  <2>10. CASE ups[i].isLocal
    <3>1. ups[i].index \in 1 .. Live(fc) - 1
      BY <2>4, <2>10
    <3>2. ups[i].index <= w.now
      BY <1>2, <3>1
    <3> QED BY <1>7, <1>11, <2>7, <2>8, <2>9, <2>10, <3>1, <3>2
  <2>11. CASE ~ups[i].isLocal
    <3>1. ups[i].index \in 0 .. Len(fc.upvalues) - 1
      BY <2>4, <2>11
    <3>2. ups[i].index < Len(fc.upvalues)
      BY <1>2, <3>1
    <3> QED BY <1>5, <2>7, <2>8, <2>9, <2>11, <3>2
  <2> QED BY <2>10, <2>11
<1>13. k + 1 \in DOMAIN F.constants /\ F.constants[k + 1] = FunctionConstant(g) /\ fns[g].upvalueCount = m
  BY <1>5 DEF m
<1>15. Finishes(fns, F, H, L, n) /\ InstructionLength(fns, F, n) = 2 + 2 * m
  <2>1. /\ n \in Nat /\ m \in Nat
        /\ OpAt(F, n) = OP_CLOSURE /\ Operand(F, n) = k
        /\ k + 1 \in DOMAIN F.constants /\ F.constants[k + 1] = FunctionConstant(g)
        /\ fns[g].upvalueCount = m /\ n + 2 + 2 * m <= Len(F.code)
        /\ Flows(H, n + 2 + 2 * m, H[n] + 1) /\ H[n] \in Nat /\ L[n] \in Nat
        /\ L[n + 2 + 2 * m] >= L[n]
    BY <1>9, <1>10, <1>11, <1>13, <1>14
  <2>2. \A i \in 1 .. m :
          /\ CaptureIndex(F, n, i) \in Byte
          /\ IF CapturesLocal(F, n, i)
             THEN CaptureIndex(F, n, i) <= H[n] /\ CaptureIndex(F, n, i) \in 1 .. L[n + 2 + 2 * m] - 1
             ELSE CaptureIndex(F, n, i) < F.upvalueCount
    BY <1>12
  <2>3. Finishes(fns, F, H, L, n)
    BY ONLY <2>1, <2>2, ClosureFinishes
  <2>4. InstructionLength(fns, F, n) = 2 + 2 * m
    <3>1. ConstantAt(F, n).val = g
      BY <2>1 DEF ConstantAt, FunctionConstant
    <3> QED BY <2>1, <3>1 DEF InstructionLength
  <2> QED BY <2>3, <2>4
<1>16. bytes[1] # OP_RETURN /\ Len(bytes) = 2 + 2 * m
  BY <1>1 DEF m
<1> QED BY <1>1, <1>3, <1>4, <1>15, <1>16, RunningEmits DEF F, H, L, n

LEMMA ClosureArrives ==
  ASSUME NEW d, NEW t, NEW w, NEW in, NEW out, NEW ups, Turn(d, t, w, in, out), t.do = "Closure",
         IsSequence(d.functions), d.functions # << >>, ups = Last(d.functions).upvalues,
         IsSequence(ups), UpvaluesSound(ups, Inner(d)), Last(d.functions).upvalueCount = Len(ups)
  PROVE  Arrives(d, t, w, Closure(d))
<1> DEFINE g == Len(d.functions)
           v == FunctionConstant(g)
           m == MakeConstant(d, v)
           k == ConstantIndex(m)
           e == Emit(m, ClosureBytes(k, ups))
           h == in.height + 1
<1>1. /\ in \in Situations /\ out \in Situations /\ in.kind = "exact" /\ in.live = in.locals
      /\ in.height \in {in.live - 1, in.live} /\ out = Grown(in, 1)
      /\ AwaitedBy(t) = {} /\ JumpHere(t) = 0
      /\ Runs(d, t, w, d, AwaitedBy(t), in, out) /\ Quiet(d, t, w, d) /\ ~d.hadError
  BY DEF Turn, Fits, AwaitedBy, JumpHere
<1>2. Closure(d) = e
  BY DEF Closure, ClosureBytes
<1>3. /\ g \in DOMAIN d.functions /\ Last(d.functions) = d.functions[g] /\ g \in Nat
  BY SequenceFacts DEF Last
<1>4. v.type = "FUNCTION" /\ v.val = g
  BY DEF FunctionConstant
<1>5. Len(ups) \in Nat
  BY SequenceFacts
<1>6. v.val \in DOMAIN d.functions /\ d.functions[v.val].upvalueCount \in Nat
  BY <1>3, <1>4, <1>5
<1> HIDE DEF v
<1>7. /\ Runs(d, t, w, m, {}, in, out) /\ Quiet(d, t, w, m)
      /\ ~m.hadError => /\ Has(m, k, v) /\ Inner(m).locals = Inner(d).locals
                        /\ Inner(m).upvalues = Inner(d).upvalues
  BY <1>1, <1>6, RunsConstant
<1> HIDE DEF m, k
<1> DEFINE bytes == ClosureBytes(k, ups)
<1>8. IsSequence(bytes) /\ bytes # << >> /\ bytes[1] = OP_CLOSURE
  BY ClosureBytesFacts
<1> HIDE DEF bytes
<1>9. Emission(d, t, w, m, {}, in, out, bytes, Emit(m, bytes))
  BY <1>7, <1>8, RunsEmission
<1>10. Emission(d, t, w, m, {}, in, out, bytes, e)
  BY <1>9 DEF bytes
<1> HIDE DEF e
<1>11. CASE e.hadError
  <2>1. Runs(d, t, w, e, {}, out, out)
    BY <1>7, <1>10, <1>11 DEF Emission, Runs
  <2> QED BY <1>2, <2>1, RunsArrives
<1>12. CASE ~e.hadError
  <2>1. /\ SameButCode(Inner(m), Inner(e)) /\ Inner(e).code = Inner(m).code \o bytes
        /\ Running(d.functions, Inner(m), w, {}, in, out) /\ ~m.hadError
        /\ Standing(Inner(m), w, in)
    BY <1>10, <1>12 DEF Emission
  <2>2. PICK b : Window(d, t, w, e) = After(Inner(m), w, NextHeight(w, t, bytes[1], b))
    BY <1>10, <1>12 DEF Emission
  <2>3. in.height = w.now /\ w.now \in Nat
    BY <1>1, <2>1 DEF Standing
  <2>4. Growth(OP_CLOSURE, b) = 1
    BY OpFacts
  <2>5. Window(d, t, w, e) = After(Inner(m), w, h) /\ h = w.now + 1
    BY <1>1, <1>8, <2>2, <2>3, <2>4 DEF NextHeight
  <2>6. UpvaluesSound(ups, Inner(m))
    BY <1>7, <2>1 DEF UpvaluesSound, Live
  <2>7. Has(m, k, v)
    BY <1>7, <2>1
  <2>8. k + 1 \in DOMAIN Inner(m).constants /\ Inner(m).constants[k + 1] = FunctionConstant(g)
    BY <2>7 DEF Has, v
  <2>9. Inner(e).code = Inner(m).code \o ClosureBytes(k, ups)
    BY <2>1 DEF bytes
  <2>10. d.functions[g].upvalueCount = Len(ups)
    BY <1>3
  <2> HIDE DEF g, h
  <2>11. Running(d.functions, Inner(e), After(Inner(m), w, h), {}, [in EXCEPT !.height = h], out)
    BY <1>1, <2>1, <2>5, <2>6, <2>8, <2>9, <2>10, RunningCloses
  <2>12. out = [in EXCEPT !.height = h]
    BY <1>1 DEF Grown, h
  <2>13. Runs(d, t, w, e, {}, out, out)
    BY <1>10, <1>12, <2>5, <2>11, <2>12 DEF Emission
  <2> QED BY <1>2, <2>13, RunsArrives
<1> QED BY <1>11, <1>12

-----------------------------------------------------------------------------
(* The tasks that are lowest, of a function that begins or ends.           *)

(* Nothing has been emitted.                                               *)
LEMMA RecordedSame ==
  ASSUME NEW fns, NEW fc, NEW w, NEW X, NEW in, NEW out, NEW t,
         Running(fns, fc, w, X, in, out)
  PROVE  Recorded(w, fc, t, fc.code, fc.arity) = w
<1>1. CASE fc.code # << >>
  BY <1>1 DEF Recorded
<1>2. CASE fc.code = << >>
  <2>1. Windowed(fc, w) /\ IsWindow(fc, w)
    BY RunningStands DEF Standing
  <2>2. Len(fc.code) = 0
    BY <1>2
  <2>3. Heights(fc, w)[0] = w.now
    BY <2>1, <2>2 DEF Windowed
  <2>4. Flows(Heights(fc, w), 0, fc.arity + 1)
    BY FinishedFields DEF Running, Ready, ChunkSound
  <2>5. w.now = fc.arity + 1
    BY <2>3, <2>4 DEF Flows
  <2>6. w = [heights |-> w.heights, locals |-> w.locals, now |-> w.now]
    BY <2>1 DEF IsWindow
  <2>7. [w EXCEPT !.now = w.now] = w
    BY <2>6
  <2> QED BY <1>2, <2>5, <2>7 DEF Recorded
<1> QED BY <1>1, <1>2

(* The lowest task of a FunctionCompiler is put there.                     *)
LEMMA PushedFirst ==
  ASSUME NEW fns, NEW fc, NEW w, NEW X, NEW in, NEW out, NEW t, NEW mid,
         Running(fns, fc, w, X, in, out), fc.todo = << >>, t.do \in Bottom,
         Waiting(fc, w, t, mid, out)
  PROVE  Pushed(fns, fc, w, X \ AwaitedBy(t), in, Append(<< >>, t), mid)
<1> DEFINE todo == Append(<< >>, t)
           fc2 == [fc EXCEPT !.todo = todo]
<1>1. IsFunctionCompiler(fc)
  BY RunningStands DEF Standing
<1>2. IsSequence(todo) /\ todo # << >>
  BY ShortSequences, SequenceAppend
<1>3. todo = Append(fc.todo, t)
  OBVIOUS
<1> HIDE DEF todo
<1>4. IsFunctionCompiler(fc2) /\ SameButTodo(fc, fc2) /\ fc2.todo = todo
  BY <1>1, <1>2, TodoSet
<1> HIDE DEF fc2
<1>5. Running(fns, fc2, w, X \ AwaitedBy(t), in, mid)
  BY <1>3, <1>4, RunningPushes
<1> QED BY <1>2, <1>5 DEF Pushed, todo, fc2

AllDo(todo, S) == IsSequence(todo) /\ \A i \in DOMAIN todo : todo[i].do \in S

LEMMA AllDoAppend ==
  ASSUME NEW todo, NEW S, NEW t, AllDo(todo, S), t.do \in S
  PROVE  AllDo(Append(todo, t), S)
<1> DEFINE r == Append(todo, t)
           n == Len(todo)
<1>1. IsSequence(todo) /\ \A i \in DOMAIN todo : todo[i].do \in S
  BY DEF AllDo
<1>2. /\ IsSequence(r) /\ Len(r) = n + 1 /\ \A i \in 1 .. n : r[i] = todo[i]
      /\ r[n + 1] = t
  BY <1>1, SequenceAppend
<1>3. DOMAIN todo = 1 .. n /\ n \in Nat
  BY <1>1, SequenceFacts
<1> HIDE DEF r
<1>4. DOMAIN r = 1 .. n + 1
  BY <1>2, SequenceFacts
<1> HIDE DEF n
<1>5. \A i \in 1 .. n + 1 : i \in 1 .. n \/ i = n + 1
  BY <1>3
<1> QED BY <1>1, <1>2, <1>3, <1>4, <1>5 DEF AllDo, r

LEMMA FunctionArrives ==
  ASSUME NEW d, NEW t, NEW w, NEW in, NEW out, Working(d), Inner(d).todo = << >>,
         t.do = "Function", Running(d.functions, Inner(d), w, {}, in, out),
         Fits(t, in, out), Finds(Inner(d), w, t, in, out)
  PROVE  Arrives(d, t, w, Function(d))
<1> DEFINE fc == Inner(d)
           m == Consume(d, "LEFT_PAREN")
           E == Task("EndCompiler", << >>)
           B == Task("Block", << >>)
           C2 == Consuming("LEFT_BRACE")
           C1 == Consuming("RIGHT_PAREN")
           P == Task("ParameterList", << >>)
           s == Loose(1)
           todo4 == Append(Append(Append(Append(<< >>, E), B), C2), C1)
           e == Function(d)
<1>1. /\ Inward(d, m) /\ Working(m) /\ Inner(m) = fc
  BY ConsumeInward
<1>2. /\ Inward(m, e) /\ e.hadError = m.hadError
      /\ Inner(e) = [fc EXCEPT !.todo = Append(todo4, P)]
  <2>1. Reverse(<<P, C1, C2, B, E>>) = <<E, B, C2, C1, P>>
    BY ReversedTasks
  <2>2. << >> \o <<E, B, C2, C1, P>> = Append(todo4, P)
    BY ShortSequences, PushedTasks
  <2>3. e = With(m, [Inner(m) EXCEPT !.todo = @ \o Reverse(<<P, C1, C2, B, E>>)])
    BY DEF Function, Then
  <2>4. e = With(m, [fc EXCEPT !.todo = Append(todo4, P)])
    BY <1>1, <2>1, <2>2, <2>3
  <2> HIDE DEF todo4, e
  <2> QED BY <1>1, <2>4, WithFacts
<1>3. Inward(d, e)
  BY <1>1, <1>2, InwardChain
<1>4. /\ in = s /\ out = s /\ s \in Situations /\ s.kind = "loose" /\ s.depth = 1
      /\ fc.type # "SCRIPT" /\ fc.code = << >>
  BY SituationFacts DEF Fits, Finds
<1>5. IsFunctionCompiler(fc)
  BY RunningStands DEF Standing
<1>6. /\ E.do = "EndCompiler" /\ B.do = "Block" /\ C2.do = "Consume" /\ C1.do = "Consume"
      /\ P.do = "ParameterList"
  BY DEF Task, Consuming
<1>7. /\ Waiting(fc, w, E, s, s) /\ Waiting(fc, w, B, s, s)
      /\ Waiting(fc, w, C2, s, s) /\ Waiting(fc, w, C1, s, s)
  BY <1>4, <1>6 DEF Waiting, Fits, Finds, Immediate
<1>8. /\ AwaitedBy(E) = {} /\ AwaitedBy(B) = {} /\ AwaitedBy(C2) = {} /\ AwaitedBy(C1) = {}
      /\ AwaitedBy(P) = {}
  BY <1>6 DEF AwaitedBy
<1> HIDE DEF E, B, C2, C1, P, s, m, e
<1>9. Pushed(d.functions, fc, w, {} \ AwaitedBy(E), s, Append(<< >>, E), s)
  BY <1>4, <1>6, <1>7, PushedFirst DEF Bottom
<1>10. Pushed(d.functions, fc, w, {}, s, Append(<< >>, E), s)
  BY <1>8, <1>9
<1>11. Pushed(d.functions, fc, w, {} \ AwaitedBy(B), s, Append(Append(<< >>, E), B), s)
  BY <1>5, <1>6, <1>7, <1>10, PushedOne DEF Bottom
<1>12. Pushed(d.functions, fc, w, {}, s, Append(Append(<< >>, E), B), s)
  BY <1>8, <1>11
<1>13. Pushed(d.functions, fc, w, {} \ AwaitedBy(C2), s, Append(Append(Append(<< >>, E), B), C2), s)
  BY <1>5, <1>6, <1>7, <1>12, PushedOne DEF Bottom
<1>14. Pushed(d.functions, fc, w, {}, s, Append(Append(Append(<< >>, E), B), C2), s)
  BY <1>8, <1>13
<1>15. Pushed(d.functions, fc, w, {} \ AwaitedBy(C1), s, todo4, s)
  BY <1>5, <1>6, <1>7, <1>14, PushedOne DEF Bottom
<1>16. Pushed(d.functions, fc, w, {}, s, todo4, s)
  BY <1>8, <1>15
<1>17. \A i \in DOMAIN todo4 : todo4[i].do \in {"Consume", "Block", "EndCompiler"}
  <2> DEFINE S == {"Consume", "Block", "EndCompiler"}
  <2>1. AllDo(<< >>, S)
    BY ShortSequences DEF AllDo
  <2>2. E.do \in S /\ B.do \in S /\ C2.do \in S /\ C1.do \in S
    BY <1>6
  <2> HIDE DEF S, todo4
  <2>3. AllDo(Append(<< >>, E), S)
    BY <2>1, <2>2, AllDoAppend
  <2>4. AllDo(Append(Append(<< >>, E), B), S)
    BY <2>2, <2>3, AllDoAppend
  <2>5. AllDo(Append(Append(Append(<< >>, E), B), C2), S)
    BY <2>2, <2>4, AllDoAppend
  <2>6. AllDo(todo4, S)
    BY <2>2, <2>5, AllDoAppend DEF todo4
  <2> QED BY <2>6 DEF AllDo, S
<1> DEFINE g == [fc EXCEPT !.todo = todo4]
<1>18. IsSequence(todo4) /\ todo4 # << >> /\ Running(d.functions, g, w, {}, s, s)
  BY <1>16 DEF Pushed
<1> HIDE DEF todo4
<1>19. /\ IsFunctionCompiler(g) /\ SameButTodo(fc, g) /\ g.todo = todo4 /\ g.lines = fc.lines
  BY <1>5, <1>18, TodoSet
<1>20. IsSequence(Append(todo4, P)) /\ Append(todo4, P) # << >>
  BY <1>18, SequenceAppend
<1>21. /\ IsFunctionCompiler(Inner(e)) /\ SameButTodo(fc, Inner(e)) /\ Inner(e).todo = Append(todo4, P)
       /\ Inner(e).lines = fc.lines
  <2> DEFINE x == Append(todo4, P)
             y == [fc EXCEPT !.todo = x]
  <2>1. IsSequence(x) /\ Inner(e) = y
    BY <1>2, <1>20
  <2> HIDE DEF x
  <2>2. IsFunctionCompiler(y) /\ SameButTodo(fc, y) /\ y.todo = x
    BY <1>5, <2>1, TodoSet
  <2>3. y.lines = fc.lines
    BY <1>5 DEF IsFunctionCompiler
  <2> HIDE DEF y
  <2> QED BY <2>1, <2>2, <2>3 DEF x
<1> HIDE DEF g
<1>22. SameButTodo(g, Inner(e)) /\ Inner(e).lines = g.lines /\ Inner(e).todo = Append(g.todo, P)
  BY <1>19, <1>21 DEF SameButTodo
<1>23. Finds(g, w, P, s, s) /\ Fits(P, s, s)
  <2>1. g.type # "SCRIPT" /\ g.code = << >> /\ g.todo = todo4
    BY <1>4, <1>19 DEF SameButTodo
  <2> QED BY <1>4, <1>6, <1>17, <2>1 DEF Finds, Fits, s
<1>24. P.do \notin Bottom /\ g.todo # << >> /\ s.depth <= s.depth
  BY <1>4, <1>6, <1>18, <1>19 DEF Bottom
<1>25. Level(d.functions, Inner(e), w) /\ Last(Inner(e).todo) = P
  <2> DEFINE g2 == Inner(e)
  <2>1. Running(d.functions, g, w, {}, s, s)
    BY <1>18
  <2>2. IsFunctionCompiler(g2) /\ SameButTodo(g, g2) /\ g2.lines = g.lines
        /\ g2.todo = Append(g.todo, P) /\ (P.do \in Bottom <=> g.todo = << >>)
        /\ AwaitedBy(P) = {} /\ s.depth <= s.depth /\ Fits(P, s, s) /\ Finds(g, w, P, s, s)
    BY <1>8, <1>21, <1>22, <1>23, <1>24
  <2> HIDE DEF g2
  <2>3. Level(d.functions, g2, w)
    BY ONLY <2>1, <2>2, LevelOfImmediate
  <2>4. Last(g2.todo) = P
    BY <1>18, <1>19, <2>2, AppendEnds
  <2> QED BY <2>3, <2>4 DEF g2
<1>26. Window(d, t, w, e) = w
  <2>1. Inner(e).code = fc.code /\ Inner(e).arity = fc.arity
    BY <1>21 DEF SameButTodo
  <2>2. Recorded(w, fc, t, fc.code, fc.arity) = w
    <3>1. Running(d.functions, fc, w, {}, in, out)
      OBVIOUS
    <3> HIDE DEF fc
    <3> QED BY ONLY <3>1, RecordedSame
  <2> QED BY <2>1, <2>2 DEF Window
<1>27. NextFinds(e)
  BY <1>6, <1>25 DEF NextFinds
<1> QED BY <1>3, <1>21, <1>25, <1>26, <1>27 DEF Arrives, SameButTodo, e

LEMMA RecordedOp ==
  ASSUME NEW fc, NEW w, NEW t, NEW op, NEW arity, NEW code,
         IsSequence(fc.code), code = fc.code \o <<op>>
  PROVE  Recorded(w, fc, t, code, arity)
           = After(fc, w, NextHeight(w, t, op, code[Len(fc.code) + 2]))
<1> DEFINE n == Len(fc.code)
           bytes == <<op>>
<1>1. IsSequence(bytes) /\ Len(bytes) = 1 /\ bytes[1] = op
  BY ShortSequences
<1>2. n \in Nat
  BY SequenceFacts
<1>3. /\ IsSequence(code) /\ Len(code) = n + 1 /\ code[n + 1] = op
  <2>1. code = fc.code \o bytes
    OBVIOUS
  <2> HIDE DEF bytes
  <2>2. /\ IsSequence(code) /\ Len(code) = n + Len(bytes)
        /\ \A i \in 1 .. Len(bytes) : code[n + i] = bytes[i]
    <3> DEFINE k == fc.code
               r == k \o bytes
    <3>1. IsSequence(k) /\ IsSequence(bytes)
      BY <1>1
    <3>2. code = r /\ n = Len(k)
      BY <2>1
    <3> HIDE DEF k, r, n
    <3>3. IsSequence(r)
      BY <3>1, SequenceConcat DEF r
    <3>4. Len(r) = Len(k) + Len(bytes)
      BY <3>1, SequenceConcat DEF r
    <3>5. \A i \in 1 .. Len(bytes) : r[Len(k) + i] = bytes[i]
      BY <3>1, SequenceConcat DEF r
    <3> QED BY <3>2, <3>3, <3>4, <3>5
  <2>3. 1 \in 1 .. Len(bytes)
    BY <1>1
  <2> QED BY <1>1, <2>2, <2>3
<1> HIDE DEF n
<1>4. Len(code) # n /\ code # << >>
  BY <1>2, <1>3, ShortSequences
<1>5. Recorded(w, fc, t, code, arity)
        = [heights |-> Noted(w.heights, n, w.now),
           locals |-> Noted(w.locals, n, Lesser(Live(fc), w.now)),
           now |-> NextHeight(w, t, op, code[n + 2])]
  BY <1>3, <1>4 DEF Recorded, NextHeight, n
<1> QED BY <1>5 DEF After, Heights, Covered, n

LEMMA EndCompilerArrives ==
  ASSUME NEW d, NEW t, NEW w, NEW in, NEW out, Working(d), Inner(d).todo = << >>,
         t.do = "EndCompiler", Running(d.functions, Inner(d), w, {}, in, out),
         Fits(t, in, out), Finds(Inner(d), w, t, in, out), out.depth <= in.depth
  PROVE  Arrives(d, t, w, EndCompiler(d))
<1> DEFINE fc == Inner(d)
           fns == d.functions
           m == Emit(d, <<OP_NIL>>)
           g == Inner(m)
           T == Task("Finish", << >>)
           e == EndCompiler(d)
           h == w.now + 1
           w2 == After(fc, w, h)
<1>1. /\ IsFunctionCompiler(fc) /\ w.now \in Nat /\ Running(fns, fc, w, {}, in, out)
      /\ Rest(in) /\ in \in Situations /\ out \in Situations
      /\ fc.type = "SCRIPT" => in.depth = 0
  BY RunningStands DEF Standing, Fits, Finds, Running, Rest
<1>2. /\ Inward(d, m) /\ Working(m) /\ m.hadError = d.hadError
  BY EmitInward
<1>3. SameButCode(fc, g) /\ g.code = fc.code \o <<OP_NIL>>
  <2>1. IsSequence(<<OP_NIL>>)
    BY ShortSequences, Zenon
  <2> QED BY <1>1, <2>1, EmitFields, Zenon
<1>4. /\ Inward(m, e) /\ e.hadError = m.hadError
      /\ Inner(e) = [g EXCEPT !.todo = Append(<< >>, T)]
  <2>1. Reverse(<<T>>) = <<T>>
    BY ReversedTasks
  <2>2. << >> \o <<T>> = Append(<< >>, T)
    BY ShortSequences, PushedTasks
  <2>3. e = With(m, [g EXCEPT !.todo = @ \o Reverse(<<T>>)])
    BY DEF EndCompiler, Then
  <2>4. g.todo = << >>
    BY <1>3 DEF SameButCode
  <2>5. e = With(m, [g EXCEPT !.todo = Append(<< >>, T)])
    BY <2>1, <2>2, <2>3, <2>4
  <2> HIDE DEF e
  <2> QED BY <1>2, <2>5, WithFacts
<1>5. Inward(d, e)
  BY <1>2, <1>4, InwardChain
<1> HIDE DEF m, e, g, T
<1>6. PICK in2 \in Situations : /\ Settled(in2) /\ in2.depth = in.depth /\ in2.height >= 1
                                /\ Running(fns, fc, w, {}, in2, out)
  BY <1>1, RunningExact
<1>7. /\ OP_NIL \in EmittedOps \ SetOps /\ Values(in2, Taken(OP_NIL)) /\ Growth(OP_NIL, 0) = 1
      /\ \A a : Growth(OP_NIL, a) = 1
  BY <1>6, OpFacts, SettledFacts
<1> DEFINE s == Grown(in2, 1)
<1>8. Running(fns, g, w2, {}, s, out)
  <2>1. Running(fns, g, After(fc, w, w.now + Growth(OP_NIL, 0)), {}, Grown(in2, Growth(OP_NIL, 0)), out)
    BY <1>3, <1>6, <1>7, RunningEmitsOp
  <2> QED BY <1>7, <2>1
<1>9. /\ s \in Situations /\ s.kind = "exact" /\ s.depth = in2.depth /\ s.height = in2.height + 1
      /\ s.live = in2.live /\ s.locals = in2.locals /\ in2.height = in2.locals /\ in2.live = in2.locals
  <2>1. in2.kind = "exact" /\ in2.height = in2.live /\ in2.live = in2.locals /\ in2.height \in Nat
    BY <1>6, SettledFacts
  <2>2. 1 \in Int /\ in2.height + 1 \in Nat
    BY <2>1
  <2> QED BY <2>1, <2>2, GrownFacts
<1> HIDE DEF s, w2
<1>10. T.do = "Finish" /\ AwaitedBy(T) = {}
  BY DEF T, Task, AwaitedBy
<1>11. g.type = "SCRIPT" => s.depth = 0
  BY <1>1, <1>3, <1>6, <1>9 DEF SameButCode
<1>12. Waiting(g, w2, T, s, out)
  <2>1. Fits(T, s, out)
    BY <1>9, <1>10 DEF Fits
  <2>2. Finds(g, w2, T, s, out)
    BY <1>10, <1>11 DEF Finds
  <2>3. out.depth <= s.depth
    BY <1>6, <1>9
  <2> QED BY <1>9, <1>10, <2>1, <2>2, <2>3 DEF Waiting, Immediate
<1>13. g.todo = << >> /\ IsFunctionCompiler(g)
  BY <1>3 DEF SameButCode
<1>14. Pushed(fns, g, w2, {} \ AwaitedBy(T), s, Append(<< >>, T), s)
  BY <1>8, <1>10, <1>12, <1>13, PushedFirst DEF Bottom
<1>15. /\ Running(fns, Inner(e), w2, {}, s, s) /\ IsSequence(Append(<< >>, T))
  BY <1>4, <1>10, <1>14 DEF Pushed
<1>16. SameButTodo(g, Inner(e)) /\ Inner(e).todo = Append(<< >>, T)
  <2> DEFINE x == Append(<< >>, T)
             y == [g EXCEPT !.todo = x]
  <2>1. IsSequence(x) /\ Inner(e) = y
    BY <1>4, <1>15
  <2> HIDE DEF x
  <2>2. SameButTodo(g, y) /\ y.todo = x
    BY <1>13, <2>1, TodoSet
  <2> HIDE DEF y
  <2> QED BY <2>1, <2>2 DEF x
<1>17. Inner(e).todo # << >> /\ Last(Inner(e).todo) = T
  <2>1. IsSequence(<< >>)
    BY ShortSequences
  <2> DEFINE z == << >>
  <2>2. IsSequence(z)
    BY <2>1
  <2>3. Inner(e).todo = Append(z, T)
    BY <1>16
  <2> HIDE DEF z
  <2>4. Append(z, T) # << >>
    BY <2>2, SequenceAppend
  <2>5. Last(Append(z, T)) = T
    BY <2>2, AppendEnds
  <2> QED BY <2>3, <2>4, <2>5
<1>18. Level(fns, Inner(e), w2)
  <2>1. Running(fns, Inner(e), w2, {}, s, s) /\ Inner(e).todo # << >>
    BY <1>15, <1>17
  <2> DEFINE f == Inner(e)
  <2> HIDE DEF f
  <2>2. Level(fns, f, w2)
    BY <2>1, LevelOfRunning DEF f
  <2> QED BY <2>2 DEF f
<1>19. Window(d, t, w, e) = w2
  <2>1. Inner(e).code = fc.code \o <<OP_NIL>> /\ Inner(e).arity = fc.arity
    BY <1>3, <1>16 DEF SameButCode, SameButTodo
  <2> DEFINE code == fc.code \o <<OP_NIL>>
  <2>2. IsSequence(fc.code) /\ IsSequence(<<OP_NIL>>) /\ <<OP_NIL>> # << >> /\ <<OP_NIL>>[1] = OP_NIL
    BY <1>1, ShortSequences DEF IsFunctionCompiler
  <2>3. Recorded(w, fc, t, code, fc.arity)
          = After(fc, w, NextHeight(w, t, OP_NIL, code[Len(fc.code) + 2]))
    BY <2>2, RecordedOp, Zenon
  <2> HIDE DEF code
  <2>4. NextHeight(w, t, OP_NIL, code[Len(fc.code) + 2]) = h
    BY <1>7 DEF NextHeight, JumpHere
  <2> QED BY <2>1, <2>3, <2>4 DEF Window, w2, code
<1>20. NextFinds(e)
  BY <1>10, <1>17 DEF NextFinds
<1> QED BY <1>3, <1>5, <1>16, <1>18, <1>19, <1>20 DEF Arrives, SameButTodo, SameButCode, e

(* A FunctionCompiler that is new has slot 0 in its window, and no code.    *)
IsNew(fc, depth) ==
  /\ IsFunctionCompiler(fc) /\ fc.code = << >> /\ fc.todo = << >> /\ fc.arity = 0
  /\ fc.locals = <<[name |-> "", depth |-> 0]>> /\ fc.constants = << >> /\ fc.upvalues = << >>
  /\ fc.scopeDepth = depth

LEMMA EmptyFunction ==
  DOMAIN << >> = {}
<1>1. IsSequence(<< >>) /\ Len(<< >>) = 0
  BY ShortSequences
<1> DEFINE z == << >>
<1>2. IsSequence(z) /\ Len(z) = 0
  BY <1>1
<1> HIDE DEF z
<1>3. DOMAIN z = 1 .. 0
  BY <1>2, SequenceFacts
<1> QED BY <1>3 DEF z

LEMMA FirstLocal ==
  ASSUME NEW fc, NEW depth \in {0, 1}, IsNew(fc, depth)
  PROVE  /\ LocalsSound(fc) /\ Live(fc) = 1 /\ Len(fc.locals) = 1 /\ Scoped(fc)
<1> DEFINE r == [name |-> "", depth |-> 0]
<1>1. r.depth = 0
  OBVIOUS
<1>2. r = [name |-> r.name, depth |-> r.depth]
  OBVIOUS
<1>3. fc.locals = <<r>> /\ fc.scopeDepth = depth
  BY DEF IsNew
<1>4. fc.locals[1] = [name |-> "", depth |-> 0]
  BY <1>3, ShortSequences
<1> HIDE DEF r
<1>5. Len(fc.locals) = 1 /\ fc.locals[1] = r /\ IsSequence(fc.locals) /\ DOMAIN fc.locals = 1 .. 1
      /\ fc.locals # << >> /\ Last(fc.locals) = r
  <2>1. IsSequence(fc.locals) /\ Len(fc.locals) = 1 /\ fc.locals[1] = r
    BY <1>3, ShortSequences
  <2>2. DOMAIN fc.locals = 1 .. 1 /\ fc.locals # << >>
    BY <2>1, SequenceFacts
  <2> QED BY <2>1, <2>2 DEF Last
<1>6. 0 # UINT8_MAX /\ 0 \in 0 .. UINT8_MAX
  BY UInt8Assumption
<1>7. Live(fc) = 1
  BY <1>1, <1>5, <1>6 DEF Live
<1>8. Scoped(fc)
  <2>1. \A i \in 1 .. 1 : i = 1
    OBVIOUS
  <2> QED BY <1>1, <1>3, <1>5, <1>7, <2>1 DEF Scoped
<1>9. ASSUME NEW i \in DOMAIN fc.locals
      PROVE  /\ fc.locals[i] = [name |-> fc.locals[i].name, depth |-> fc.locals[i].depth]
             /\ fc.locals[i].depth \in 0 .. UINT8_MAX
             /\ i > 1 => fc.locals[i].depth >= 1
             /\ i < Len(fc.locals) => fc.locals[i].depth # UINT8_MAX
             /\ \A j \in i .. Len(fc.locals) : fc.locals[i].depth <= fc.locals[j].depth
  <2>1. i = 1 /\ ~(i > 1) /\ ~(i < Len(fc.locals)) /\ \A j \in i .. Len(fc.locals) : j = 1
    BY <1>5
  <2> QED BY <1>1, <1>2, <1>5, <1>6, <2>1
<1>10. LocalsSound(fc)
  BY <1>4, <1>5, <1>9 DEF LocalsSound
<1> QED BY <1>5, <1>7, <1>8, <1>10

LEMMA NewRunning ==
  ASSUME NEW fns, NEW fc, NEW depth \in {0, 1}, IsNew(fc, depth)
  PROVE  Running(fns, fc, NewWindow, {}, Loose(depth), Loose(depth))
<1> DEFINE w == NewWindow
           s == Loose(depth)
           F == Finished(fc)
           H == Heights(fc, w)
           L == Covered(fc, w)
<1>1. /\ IsFunctionCompiler(fc) /\ fc.code = << >> /\ fc.todo = << >> /\ fc.arity = 0
      /\ fc.constants = << >> /\ Len(fc.code) = 0 /\ Len(fc.todo) = 0
  BY ShortSequences DEF IsNew
<1>2. /\ LocalsSound(fc) /\ Live(fc) = 1 /\ Len(fc.locals) = 1 /\ Scoped(fc)
      /\ fc.scopeDepth = depth
  BY FirstLocal DEF IsNew
<1>3. /\ w.heights = << >> /\ w.locals = << >> /\ w.now = 1
      /\ w = [heights |-> w.heights, locals |-> w.locals, now |-> w.now]
  BY DEF NewWindow
<1>4. /\ F.code = fc.code /\ F.constants = fc.constants /\ F.arity = fc.arity
  BY FinishedFields
<1>5. s \in Situations /\ s.kind = "loose" /\ s.depth = depth
  BY SituationFacts
<1> HIDE DEF w, s, F
<1>6. DOMAIN w.heights = {} /\ DOMAIN w.locals = {}
  BY <1>3, EmptyFunction
<1>7. IsWindow(fc, w)
  BY <1>3, <1>6 DEF IsWindow
<1>8. Lesser(Live(fc), w.now) = 1
  BY <1>2, <1>3 DEF Lesser
<1>9. H = [n \in {0} |-> 1] /\ L = [n \in {0} |-> 1]
  BY <1>1, <1>3, <1>6, <1>8 DEF Heights, Covered, Noted
<1> HIDE DEF H, L
<1>10. DOMAIN H = {0} /\ H[0] = 1 /\ DOMAIN L = {0} /\ L[0] = 1
  BY <1>9
<1>11. ChunkSound(fns, F, H, L, {})
  <2>1. Starts(F, H) = {}
    BY <1>1, <1>4, <1>10 DEF Starts
  <2>2. FunctionsKnown(fns, F)
    BY <1>1, <1>4, EmptyFunction DEF FunctionsKnown
  <2>3. Flows(H, 0, F.arity + 1)
    BY <1>1, <1>4, <1>10 DEF Flows
  <2>4. Len(F.code) \in DOMAIN H /\ DOMAIN H \subseteq 0 .. Len(F.code)
    BY <1>1, <1>4, <1>10
  <2>5. H \in [DOMAIN H -> Nat \ {0}] /\ L \in [DOMAIN H -> Nat]
    BY <1>9, <1>10
  <2> QED BY <2>1, <2>2, <2>3, <2>4, <2>5 DEF ChunkSound
<1>12. Planned(fc, w, s)
  <2> DEFINE plan == [i \in 0 .. Len(fc.todo) |-> s]
  <2>1. plan \in [0 .. Len(fc.todo) -> Situations] /\ plan[Len(fc.todo)] = s
    BY <1>1, <1>5
  <2>2. DOMAIN fc.todo = {}
    BY <1>1, EmptyFunction
  <2>3. \A i, j \in DOMAIN plan : i <= j => plan[i].depth <= plan[j].depth
    BY <1>5
  <2>4. IsPlan(fc, w, plan)
    BY <2>2, <2>3 DEF IsPlan
  <2> QED BY <2>1, <2>4 DEF Planned
<1>13. Awaited(fc.todo) \cup {} = {}
  BY <1>1, EmptyFunction DEF Awaited
<1>14. At(fc, w.now, s)
  BY <1>2, <1>3, <1>5 DEF At
<1>15. Ready(fns, fc, w, {}, s)
  BY <1>1, <1>2, <1>7, <1>11, <1>12 DEF Ready, F, H, L
<1> QED BY <1>5, <1>13, <1>14, <1>15 DEF Running, w, s

-----------------------------------------------------------------------------
(* Functions within functions.                                             *)
LEMMA CompilersExcept ==
  ASSUME NEW d, NEW cs, IsCompiler(d)
  PROVE  [d EXCEPT !.compilers = cs] =
          [source |-> d.source, previous |-> d.previous, current |-> d.current,
           hadError |-> d.hadError, panicMode |-> d.panicMode, canAssign |-> d.canAssign,
           compilers |-> cs, functions |-> d.functions, hangs |-> d.hangs]
<1>1. d = [source |-> d.source, previous |-> d.previous, current |-> d.current,
           hadError |-> d.hadError, panicMode |-> d.panicMode, canAssign |-> d.canAssign,
           compilers |-> d.compilers, functions |-> d.functions, hangs |-> d.hangs]
  BY DEF IsCompiler
<1> QED BY <1>1

(* Only the FunctionCompilers change.                                      *)
SameBut(d, e, cs) ==
  /\ IsCompiler(e) /\ e.compilers = cs /\ e.hadError = d.hadError /\ e.functions = d.functions
  /\ e.source = d.source /\ e.previous = d.previous /\ e.current = d.current
  /\ e.panicMode = d.panicMode /\ e.canAssign = d.canAssign

LEMMA CompilersSet ==
  ASSUME NEW d, NEW cs, IsCompiler(d), IsSequence(cs)
  PROVE  SameBut(d, [d EXCEPT !.compilers = cs], cs)
<1> DEFINE e == [d EXCEPT !.compilers = cs]
<1>1. e = [source |-> d.source, previous |-> d.previous, current |-> d.current,
           hadError |-> d.hadError, panicMode |-> d.panicMode, canAssign |-> d.canAssign,
           compilers |-> cs, functions |-> d.functions, hangs |-> d.hangs]
  BY CompilersExcept
<1>2. d.panicMode => d.hadError
  BY DEF IsCompiler
<1> HIDE DEF e
<1>3. /\ e.compilers = cs /\ e.hadError = d.hadError /\ e.functions = d.functions
      /\ e.source = d.source /\ e.previous = d.previous /\ e.current = d.current
      /\ e.panicMode = d.panicMode /\ e.canAssign = d.canAssign /\ e.hangs = d.hangs
  BY <1>1
<1>4. e = [source |-> e.source, previous |-> e.previous, current |-> e.current,
           hadError |-> e.hadError, panicMode |-> e.panicMode, canAssign |-> e.canAssign,
           compilers |-> e.compilers, functions |-> e.functions, hangs |-> e.hangs]
  BY <1>1, <1>3
<1> QED BY <1>2, <1>3, <1>4 DEF SameBut, IsCompiler, e

LEMMA FunctionsSet ==
  ASSUME NEW d, NEW cs, NEW fns, IsCompiler(d), IsSequence(cs)
  PROVE  SameBut([d EXCEPT !.functions = fns], [d EXCEPT !.functions = fns, !.compilers = cs], cs)
         /\ [d EXCEPT !.functions = fns].source = d.source
         /\ [d EXCEPT !.functions = fns].functions = fns
         /\ [d EXCEPT !.functions = fns].hadError = d.hadError
         /\ [d EXCEPT !.functions = fns].previous = d.previous
<1> DEFINE b == [d EXCEPT !.functions = fns]
<1>1. d = [source |-> d.source, previous |-> d.previous, current |-> d.current,
           hadError |-> d.hadError, panicMode |-> d.panicMode, canAssign |-> d.canAssign,
           compilers |-> d.compilers, functions |-> d.functions, hangs |-> d.hangs]
      /\ IsSequence(d.compilers) /\ (d.panicMode => d.hadError)
  BY DEF IsCompiler
<1>2. b = [source |-> d.source, previous |-> d.previous, current |-> d.current,
           hadError |-> d.hadError, panicMode |-> d.panicMode, canAssign |-> d.canAssign,
           compilers |-> d.compilers, functions |-> fns, hangs |-> d.hangs]
  BY <1>1
<1>3. [d EXCEPT !.functions = fns, !.compilers = cs] = [b EXCEPT !.compilers = cs]
  OBVIOUS
<1> HIDE DEF b
<1>4. /\ b.source = d.source /\ b.previous = d.previous /\ b.current = d.current
      /\ b.hadError = d.hadError /\ b.panicMode = d.panicMode /\ b.canAssign = d.canAssign
      /\ b.compilers = d.compilers /\ b.functions = fns /\ b.hangs = d.hangs
  BY <1>2
<1>5. b = [source |-> b.source, previous |-> b.previous, current |-> b.current,
           hadError |-> b.hadError, panicMode |-> b.panicMode, canAssign |-> b.canAssign,
           compilers |-> b.compilers, functions |-> b.functions, hangs |-> b.hangs]
  BY <1>2, <1>4
<1>6. IsCompiler(b)
  BY <1>1, <1>4, <1>5 DEF IsCompiler
<1>7. SameBut(b, [b EXCEPT !.compilers = cs], cs)
  BY <1>6, CompilersSet
<1> QED BY <1>3, <1>4, <1>7 DEF b

LEMMA ImmediateLevel ==
  ASSUME NEW fns, NEW fc, NEW w, NEW in, NEW out, NEW t, NEW fc2, NEW X,
         Running(fns, fc, w, X, in, out), X = {}, IsFunctionCompiler(fc2), SameButTodo(fc, fc2),
         fc2.lines = fc.lines, fc2.todo = Append(fc.todo, t), t.do \in Bottom <=> fc.todo = << >>,
         AwaitedBy(t) = {}, out.depth <= in.depth, Fits(t, in, out), Finds(fc, w, t, in, out)
  PROVE  Level(fns, fc2, w)
BY LevelOfImmediate

(* The FunctionCompiler that a function is given.                          *)
NewFields(fc, type, todo) ==
  /\ fc = [type |-> fc.type, arity |-> fc.arity, code |-> fc.code, lines |-> fc.lines,
           constants |-> fc.constants, locals |-> fc.locals, upvalues |-> fc.upvalues,
           scopeDepth |-> fc.scopeDepth, todo |-> fc.todo]
  /\ fc.type = type /\ fc.todo = todo /\ fc.code = << >> /\ fc.arity = 0 /\ fc.upvalues = << >>
  /\ fc.constants = << >> /\ fc.scopeDepth = 0 /\ fc.locals = <<[name |-> "", depth |-> 0]>>

LEMMA NewCompilerFields ==
  ASSUME NEW type, NEW todo
  PROVE  NewFields(NewCompiler(type, todo), type, todo)
<1> DEFINE l == <<[name |-> "", depth |-> 0]>>
           z == << >>
           N == [type |-> type, arity |-> 0, code |-> z, lines |-> z, constants |-> z,
                 locals |-> l, upvalues |-> z, scopeDepth |-> 0, todo |-> todo]
<1>1. NewCompiler(type, todo) = N
  BY DEF NewCompiler
<1> HIDE DEF l, z
<1>2. /\ N.type = type /\ N.todo = todo /\ N.code = z /\ N.arity = 0 /\ N.upvalues = z
      /\ N.constants = z /\ N.scopeDepth = 0 /\ N.locals = l /\ N.lines = z
  OBVIOUS
<1>3. N = [type |-> N.type, arity |-> N.arity, code |-> N.code, lines |-> N.lines,
           constants |-> N.constants, locals |-> N.locals, upvalues |-> N.upvalues,
           scopeDepth |-> N.scopeDepth, todo |-> N.todo]
  OBVIOUS
<1> HIDE DEF N
<1> QED BY <1>1, <1>2, <1>3 DEF NewFields, l, z

LEMMA NewIsFunctionCompiler ==
  ASSUME NEW fc, NEW type, NEW todo, NewFields(fc, type, todo), IsSequence(todo)
  PROVE  IsFunctionCompiler(fc)
<1>1. IsSequence(fc.code) /\ IsSequence(fc.constants) /\ IsSequence(fc.upvalues)
  BY ShortSequences DEF NewFields
<1>2. IsSequence(fc.locals)
  <2>1. \A x : IsSequence(<<x>>)
    BY ShortSequences
  <2> QED BY <2>1 DEF NewFields
<1>3. IsSequence(fc.todo) /\ fc.arity \in Nat
  <2>1. fc.todo = todo /\ fc.arity = 0
    BY DEF NewFields
  <2>2. 0 \in Nat
    OBVIOUS
  <2> QED BY <2>1, <2>2
<1>4. fc = [type |-> fc.type, arity |-> fc.arity, code |-> fc.code, lines |-> fc.lines,
           constants |-> fc.constants, locals |-> fc.locals, upvalues |-> fc.upvalues,
           scopeDepth |-> fc.scopeDepth, todo |-> fc.todo]
  BY DEF NewFields
<1> QED BY <1>1, <1>2, <1>3, <1>4 DEF IsFunctionCompiler

(* A function begins.                                                      *)
Begins(fns, g) ==
  /\ g.type = "FUNCTION" /\ g.upvalues = << >> /\ IsFunctionCompiler(g)
  /\ Level(fns, g, NewWindow) /\ Last(g.todo).do = "Function"

LEMMA NewLevel ==
  ASSUME NEW fns, NEW N, NEW g, NewFields(N, "FUNCTION", <<Task("Function", << >>)>>),
         g = [N EXCEPT !.scopeDepth = Byte8(N.scopeDepth + 1)]
  PROVE  Begins(fns, g)
<1> DEFINE T == Task("Function", << >>)
           todo == <<T>>
           z == << >>
           x == [g EXCEPT !.todo = z]
<1>1. IsSequence(todo) /\ IsSequence(z) /\ todo = Append(z, T) /\ z = << >>
  <2>1. \A y : IsSequence(<<y>>)
    BY ShortSequences
  <2>2. IsSequence(z)
    BY ShortSequences
  <2>3. z \o <<T>> = Append(z, T)
    BY <2>2, PushedTasks
  <2>4. z \o <<T>> = <<T>>
    OBVIOUS
  <2> QED BY <2>1, <2>2, <2>3, <2>4
<1>2. IsFunctionCompiler(N)
  <2>1. NewFields(N, "FUNCTION", todo)
    OBVIOUS
  <2> HIDE DEF todo
  <2> QED BY <1>1, <2>1, NewIsFunctionCompiler
<1>3. /\ N.type = "FUNCTION" /\ N.todo = todo /\ N.code = z /\ N.arity = 0 /\ N.upvalues = z
      /\ N.constants = z /\ N.scopeDepth = 0
  BY DEF NewFields
<1> HIDE DEF todo, z
<1>4. Byte8(N.scopeDepth + 1) = 1
  <2>1. 1 \in 0 .. UINT8_MAX
    BY ONLY UInt8Assumption
  <2>2. N.scopeDepth + 1 = 1
    BY ONLY <1>3
  <2> QED BY <2>1, <2>2, Byte8OfByte
<1>5. SameButScope(N, g, N.locals, 1)
  <2>1. g = [N EXCEPT !.scopeDepth = 1]
    BY <1>4
  <2>2. IsSequence(N.locals)
    BY <1>2 DEF IsFunctionCompiler
  <2> QED BY <1>2, <2>1, <2>2, ScopeSet
<1> HIDE DEF x
<1>6. IsFunctionCompiler(g) /\ g.todo = Append(z, T)
  BY <1>1, <1>3, <1>5 DEF SameButScope
<1>7. /\ IsFunctionCompiler(x) /\ SameButTodo(g, x) /\ x.todo = z
  BY <1>1, <1>6, TodoSet DEF x
<1>8. IsNew(x, 1)
  <2>1. x.locals = <<[name |-> "", depth |-> 0]>>
    BY <1>5, <1>7 DEF NewFields, SameButScope, SameButTodo
  <2> QED BY <1>1, <1>3, <1>5, <1>7, <2>1 DEF IsNew, SameButScope, SameButTodo
<1> DEFINE s == Loose(1)
<1>9. Running(fns, x, NewWindow, {}, s, s)
  <2>1. 1 \in {0, 1}
    OBVIOUS
  <2> QED BY <1>8, <2>1, NewRunning
<1>10. s.depth = 1
  BY SituationFacts
<1>11. T.do = "Function"
  BY DEF Task
<1>12. AwaitedBy(T) = {} /\ T.do \in Bottom
  BY <1>11 DEF AwaitedBy, Bottom
<1>13. Fits(T, s, s)
  BY <1>11 DEF Fits
<1>14. Finds(x, NewWindow, T, s, s)
  <2>1. x.type = "FUNCTION" /\ x.code = << >> /\ x.todo = << >>
    BY <1>1, <1>3, <1>5, <1>7 DEF SameButScope, SameButTodo
  <2>2. DOMAIN x.todo = {}
    BY <2>1, EmptyFunction
  <2> QED BY <1>11, <2>1, <2>2 DEF Finds
<1>15. SameButTodo(x, g) /\ g.lines = x.lines
  BY <1>6, <1>7 DEF SameButTodo, x, IsFunctionCompiler
<1> HIDE DEF T, s
<1>16. s.depth <= s.depth
  BY <1>10
<1>17. T.do \in Bottom <=> x.todo = << >>
  BY <1>1, <1>7, <1>12
<1>18. g.todo = Append(x.todo, T)
  BY <1>6, <1>7
<1>19. Level(fns, g, NewWindow) /\ Last(g.todo) = T
  <2> DEFINE W == NewWindow
             X == {}
  <2>1. /\ Running(fns, x, W, X, s, s) /\ X = {} /\ IsFunctionCompiler(g) /\ SameButTodo(x, g)
        /\ g.lines = x.lines /\ g.todo = Append(x.todo, T) /\ (T.do \in Bottom <=> x.todo = << >>)
        /\ AwaitedBy(T) = {} /\ s.depth <= s.depth /\ Fits(T, s, s) /\ Finds(x, W, T, s, s)
    BY <1>6, <1>9, <1>12, <1>13, <1>14, <1>15, <1>16, <1>17, <1>18
  <2> HIDE DEF W, X
  <2>2. Level(fns, g, W)
    BY ONLY <2>1, ImmediateLevel
  <2>3. Last(Append(z, T)) = T
    BY <1>1, AppendEnds
  <2> QED BY <1>6, <2>2, <2>3 DEF W
<1>20. g.type = "FUNCTION" /\ g.upvalues = << >>
  BY <1>1, <1>3, <1>5 DEF SameButScope
<1> QED BY <1>6, <1>11, <1>19, <1>20 DEF Begins

(* The function is declared, and its name has been marked; its closure and *)
(* its definition are to be emitted when it has been compiled.             *)
Marks(d, t, w, m, q, q2, out, k) ==
  /\ Runs(d, t, w, m, {}, q, out)
  /\ ~m.hadError => /\ Window(d, t, w, m) = w
                    /\ q \in Situations /\ q.kind = "exact" /\ q2 \in Situations
                    /\ q.live = q.locals /\ q.height \in {q.live - 1, q.live} /\ q2 = Grown(q, 1)
                    /\ q2.depth = q.depth
                    /\ Ahead(d, t, w, m, Task("DefineVariable", <<k>>), q2, out)

LEMMA FunctionDeclared ==
  ASSUME NEW d, NEW t, NEW w, NEW in, NEW out, Turn(d, t, w, in, out), t.do = "FunDeclaration",
         in.depth < UINT8_MAX, NEW f, NEW m, f = ParseVariable(d), m = MarkInitialized(f)
  PROVE  \E q, q2 : Marks(d, t, w, m, q, q2, out, ConstantIndex(f))
<1>1. Runs(d, t, w, d, {}, in, out) /\ in \in Situations /\ ~d.hadError /\ Quiet(d, t, w, d)
      /\ Window(d, t, w, d) = w
  <2>1. AwaitedBy(t) = {}
    BY DEF AwaitedBy
  <2> QED BY <2>1, TurnFacts
<1>2. in.kind = "loose" /\ out = in /\ Rest(in) /\ in = Loose(in.depth)
  BY <1>1, SituationFacts DEF Turn, Fits, Rest
<1>3. PICK s \in Situations : /\ Settled(s) /\ s.depth = in.depth /\ s.height >= 1
                              /\ Runs(d, t, w, d, {}, s, out)
  BY <1>1, <1>2, RunsExact
<1>4. s.kind = "exact" /\ s.height = s.live /\ s.live = s.locals /\ s.height \in Nat /\ s.depth \in Nat
  BY <1>3, SettledFacts
<1> DEFINE r == Declared(s)
           q == Marked(r)
           q2 == To(q, q.height + 1)
           k == ConstantIndex(f)
<1>5. /\ r \in Situations /\ r.kind = "exact" /\ r.depth = s.depth
      /\ r.height = s.height /\ r.live = s.live
      /\ r.locals = IF s.depth = 0 THEN s.locals ELSE s.locals + 1
  BY <1>3, <1>4, DeclaredFacts
<1>6. s.depth < UINT8_MAX /\ out.depth <= s.depth
  BY <1>2, <1>3, <1>4
<1>7. ParsedWell(d, t, w, d, f, s, out)
  BY <1>3, <1>4, <1>6, ParseVariableRuns
<1>8. /\ Runs(d, t, w, f, {}, r, out) /\ Quiet(d, t, w, f)
      /\ ~f.hadError => Named(Inner(f), s, k) /\ Inner(f).code = Inner(d).code
  BY <1>1, <1>7 DEF ParsedWell
<1> HIDE DEF r, k
<1>9. ~f.hadError => (r.depth # 0 => r.locals \notin Base(Inner(f), r.depth))
  BY <1>4, <1>5, <1>8 DEF Named
<1>10. MarkedWell(d, t, w, f, m, r, out)
  BY <1>5, <1>6, <1>8, <1>9, MarkRuns
<1>11. /\ q \in Situations /\ q.kind = "exact" /\ q.depth = r.depth
       /\ q.height = r.height /\ q.locals = r.locals
       /\ q.live = IF r.depth = 0 THEN r.live ELSE r.locals
  BY <1>5, MarkedFacts
<1>12. Runs(d, t, w, m, {}, q, out)
  BY <1>10 DEF MarkedWell
<1> HIDE DEF q
<1>13. q.height + 1 \in Nat /\ q.live = q.locals /\ q.height \in {q.live - 1, q.live}
  BY <1>4, <1>5, <1>11
<1>14. /\ q2 \in Situations /\ q2.kind = "exact" /\ q2.depth = q.depth /\ q2.height = q.height + 1
       /\ q2.live = q.live /\ q2.locals = q.locals
  BY <1>11, <1>13, ToFacts
<1>15. q2 = Grown(q, 1)
  BY <1>11, <1>13, ToGrown
<1> HIDE DEF q2
<1>16. ASSUME ~m.hadError
       PROVE  Window(d, t, w, m) = w /\ Ahead(d, t, w, m, Task("DefineVariable", <<k>>), q2, out)
  <2>1. /\ ~f.hadError /\ Inner(m).code = Inner(f).code /\ Inner(m).constants = Inner(f).constants
        /\ \A b \in 0 .. r.depth : Base(Inner(m), b) = Base(Inner(f), b)
    BY <1>10, <1>16 DEF MarkedWell
  <2>2. Inner(m).arity = Inner(d).arity
    BY <1>12, <1>16 DEF Runs
  <2>3. Window(d, t, w, m) = w
    BY <1>1, <1>8, <2>1, <2>2 DEF Window
  <2>4. Definable(q2) /\ (q2.depth # 0 => q2.live \in {q2.locals - 1, q2.locals})
    BY <1>4, <1>5, <1>11, <1>14 DEF Definable
  <2>5. r.depth = 0 => IsString(Inner(m), k)
    BY <1>5, <1>8, <2>1 DEF Named, IsString
  <2>6. r.depth # 0 => r.locals \notin Base(Inner(m), r.depth)
    <3>1. r.depth \in 0 .. r.depth
      BY <1>4, <1>5
    <3> QED BY <1>9, <2>1, <3>1
  <2>7. IF q2.depth = 0 THEN IsString(Inner(m), k) ELSE q2.locals \notin Base(Inner(m), q2.depth)
    BY <1>11, <1>14, <2>5, <2>6
  <2>8. Ahead(d, t, w, m, Task("DefineVariable", <<k>>), q2, Loose(q2.depth))
    BY <1>14, <2>4, <2>7, DefineAhead
  <2>9. Loose(q2.depth) = out
    BY <1>2, <1>3, <1>5, <1>11, <1>14
  <2> QED BY <2>3, <2>8, <2>9
<1>17. Marks(d, t, w, m, q, q2, out, k)
  BY <1>11, <1>12, <1>13, <1>14, <1>15, <1>16 DEF Marks
<1> QED BY <1>17 DEF k

(* The enclosing compiler waits to emit the closure.                       *)
AwaitsClosure(fns, fc, g, w) ==
  /\ Level(fns, g, w) /\ Last(g.todo).do = "Closure" /\ IsFunctionCompiler(g) /\ SameButTodo(fc, g)

LEMMA ClosureAwaited ==
  ASSUME NEW d, NEW t, NEW w, NEW m, NEW q, NEW q2, NEW out, NEW k, NEW g,
         Marks(d, t, w, m, q, q2, out, k), ~m.hadError,
         g = [Inner(m) EXCEPT !.todo = Append(Append(Inner(m).todo, Task("DefineVariable", <<k>>)),
                                              Task("Closure", << >>))]
  PROVE  AwaitsClosure(d.functions, Inner(m), g, w)
<1> DEFINE fns == d.functions
           fc == Inner(m)
           D == Task("DefineVariable", <<k>>)
           T == Task("Closure", << >>)
           todo1 == Append(fc.todo, D)
           g1 == [fc EXCEPT !.todo = todo1]
           todo2 == Append(todo1, T)
<1>1. /\ Runs(d, t, w, m, {}, q, out) /\ Window(d, t, w, m) = w
      /\ q \in Situations /\ q.kind = "exact" /\ q2 \in Situations
      /\ q.live = q.locals /\ q.height \in {q.live - 1, q.live} /\ q2 = Grown(q, 1)
      /\ q2.depth = q.depth /\ Ahead(d, t, w, m, D, q2, out)
  BY DEF Marks
<1>2. /\ Running(fns, fc, w, {}, q, out) /\ fc.todo # << >> /\ IsFunctionCompiler(fc)
  <2>1. IsFunctionCompiler(fc)
    BY <1>1, RunsWorking
  <2> QED BY <1>1, <2>1 DEF Runs
<1>3. D.do = "DefineVariable" /\ T.do = "Closure"
  BY DEF Task
<1>4. D.do \notin Bottom /\ AwaitedBy(D) = {} /\ Waiting(fc, w, D, q2, out)
  <2>1. Waiting(fc, w, D, q2, out)
    BY <1>1 DEF Ahead
  <2> QED BY <1>3, <2>1 DEF Bottom, AwaitedBy
<1> HIDE DEF fc, D, T, fns
<1>5. Pushed(fns, fc, w, {}, q, fc.todo, out)
  BY <1>2, PushedSelf
<1>6. Pushed(fns, fc, w, {} \ AwaitedBy(D), q, todo1, q2)
  BY <1>2, <1>4, <1>5, PushedOne
<1> HIDE DEF todo1
<1>7. Running(fns, g1, w, {}, q, q2) /\ IsSequence(todo1) /\ todo1 # << >>
  BY <1>4, <1>6 DEF Pushed
<1>8. IsSequence(todo2)
  BY <1>7, SequenceAppend
<1>9. g = [fc EXCEPT !.todo = todo2]
  BY DEF todo1, fc, D, T
<1> HIDE DEF todo2
<1>10. IsFunctionCompiler(g) /\ SameButTodo(fc, g) /\ g.todo = todo2
  <2> DEFINE x == [fc EXCEPT !.todo = todo2]
  <2>1. IsFunctionCompiler(x) /\ SameButTodo(fc, x) /\ x.todo = todo2
    BY <1>2, <1>8, TodoSet
  <2> HIDE DEF x
  <2>2. g = x
    BY <1>9 DEF x
  <2> QED BY <2>1, <2>2
<1>11. IsFunctionCompiler(g1) /\ SameButTodo(fc, g1) /\ g1.todo = todo1
  BY <1>2, <1>7, TodoSet
<1>12. g.lines = g1.lines
  BY <1>2, <1>9 DEF IsFunctionCompiler
<1> HIDE DEF g1
<1>13. SameButTodo(g1, g) /\ g.todo = Append(g1.todo, T)
  BY <1>10, <1>11 DEF SameButTodo, todo2
<1>14. T.do \in Bottom <=> g1.todo = << >>
  <2>1. ~(T.do \in Bottom)
    BY <1>3 DEF Bottom
  <2> QED BY <1>7, <1>11, <2>1
<1>15. AwaitedBy(T) = {} /\ Fits(T, q, q2) /\ Finds(g1, w, T, q, q2)
  <2>1. Fits(T, q, q2)
    BY <1>1, <1>3 DEF Fits
  <2>2. Finds(g1, w, T, q, q2)
    BY <1>3 DEF Finds
  <2> QED BY <1>3, <2>1, <2>2 DEF AwaitedBy
<1>16. q2.depth <= q.depth
  BY <1>1, SituationFacts
<1> DEFINE X == {}
<1>17. Running(fns, g1, w, X, q, q2) /\ X = {}
  BY <1>7
<1> HIDE DEF X
<1>18. Level(fns, g, w)
  BY ONLY <1>10, <1>12, <1>13, <1>14, <1>15, <1>16, <1>17, ImmediateLevel
<1>19. Last(Append(todo1, T)) = T
  BY <1>7, AppendEnds
<1> QED BY <1>3, <1>10, <1>18, <1>19 DEF AwaitsClosure, fc, fns, todo2

(* The compiler when a function has been declared.                         *)
Nests(d, t, w, e) ==
  /\ IsCompiler(e) /\ e.source = d.source /\ (d.hadError => e.hadError) /\ e.compilers # << >>
  /\ ~e.hadError =>
       /\ e.functions = d.functions /\ Len(e.compilers) = Len(d.compilers) + 1
       /\ \A j \in 1 .. Len(d.compilers) - 1 : e.compilers[j] = d.compilers[j]
       /\ e.compilers[Len(d.compilers)].type = Inner(d).type
       /\ e.compilers[Len(d.compilers)].arity = Inner(d).arity
       /\ e.compilers[Len(d.compilers)].upvalues = Inner(d).upvalues
       /\ Level(d.functions, e.compilers[Len(d.compilers)], w)
       /\ Last(e.compilers[Len(d.compilers)].todo).do = "Closure"
       /\ Begins(d.functions, e.compilers[Len(d.compilers) + 1])

Encloses(d, m, e0, e, g) ==
  /\ IsCompiler(e) /\ e.source = d.source /\ (d.hadError => e.hadError) /\ e.compilers # << >>
  /\ e.hadError = m.hadError
  /\ e.functions = d.functions /\ Len(e.compilers) = Len(d.compilers) + 1
  /\ \A j \in 1 .. Len(d.compilers) : e.compilers[j] = e0.compilers[j]
  /\ \A j \in 1 .. Len(d.compilers) - 1 : e.compilers[j] = d.compilers[j]
  /\ e.compilers[Len(d.compilers) + 1] = g
  /\ Inward(d, m) /\ Inward(m, e0) /\ Working(e0)

LEMMA FunDeclarationEncloses ==
  ASSUME NEW d, Working(d), NEW m, NEW D, NEW e0, NEW e, NEW N,
         m = MarkInitialized(ParseVariable(d)), e0 = Then(m, <<Task("Closure", << >>), D>>),
         N = NewCompiler("FUNCTION", <<Task("Function", << >>)>>),
         e = BeginScope([e0 EXCEPT !.compilers = Append(@, N)])
  PROVE  Encloses(d, m, e0, e, [N EXCEPT !.scopeDepth = Byte8(N.scopeDepth + 1)])
<1> DEFINE f == ParseVariable(d)
           cs == Append(e0.compilers, N)
           e1 == [e0 EXCEPT !.compilers = cs]
           n == Len(d.compilers)
           g == [N EXCEPT !.scopeDepth = Byte8(N.scopeDepth + 1)]
<1>1. Inward(d, f) /\ Working(f)
  BY ParseVariableInward
<1>2. m = MarkInitialized(f)
  OBVIOUS
<1> HIDE DEF f
<1>3. Inward(f, m) /\ Working(m)
  BY <1>1, <1>2, MarkInitializedInward
<1>4. Inward(d, m)
  BY <1>1, <1>3, InwardChain
<1>5. Inward(m, e0) /\ Working(e0) /\ e0.hadError = m.hadError
  BY <1>3, ThenInward
<1>6. Inward(d, e0)
  BY <1>4, <1>5, InwardChain
<1>7. n \in Nat \ {0} /\ IsSequence(e0.compilers) /\ Len(e0.compilers) = n
  <2>1. n \in Nat \ {0}
    BY InnerLast
  <2> QED BY <1>5, <1>6, <2>1 DEF Working, IsCompiler, Inward
<1>8. /\ IsSequence(cs) /\ Len(cs) = n + 1 /\ cs # << >> /\ cs[n + 1] = N
      /\ \A j \in 1 .. n : cs[j] = e0.compilers[j]
  <2> DEFINE s == e0.compilers
  <2>1. IsSequence(s) /\ Len(s) = n /\ cs = Append(s, N)
    BY <1>7
  <2> HIDE DEF s, n, cs
  <2>2. /\ IsSequence(Append(s, N)) /\ Len(Append(s, N)) = Len(s) + 1 /\ Append(s, N) # << >>
    BY <2>1, SequenceAppend
  <2>3. Append(s, N)[Len(s) + 1] = N
    BY <2>1, SequenceAppend
  <2>4. \A j \in 1 .. Len(s) : Append(s, N)[j] = s[j]
    BY <2>1, SequenceAppend
  <2> QED BY <2>1, <2>2, <2>3, <2>4 DEF s
<1> HIDE DEF cs
<1>9. SameBut(e0, e1, cs)
  BY <1>5, <1>8, CompilersSet DEF Working
<1>10. e = BeginScope(e1)
  BY DEF cs
<1> HIDE DEF e1
<1>11. Working(e1) /\ Inner(e1) = N
  BY <1>7, <1>8, <1>9 DEF Working, SameBut, Inner, Last
<1>12. e = With(e1, g)
  BY <1>10, <1>11 DEF BeginScope
<1> HIDE DEF g
<1>13. Inward(e1, e) /\ Inner(e) = g /\ e.hadError = e1.hadError
  BY <1>11, <1>12, WithFacts
<1>14. /\ IsCompiler(e) /\ e.compilers # << >> /\ e.hadError = m.hadError
       /\ e.source = d.source /\ e.functions = d.functions /\ Len(e.compilers) = n + 1
  BY <1>5, <1>6, <1>8, <1>9, <1>13 DEF Inward, SameBut, Working
<1>15. d.hadError => e.hadError
  BY <1>4, <1>14 DEF Inward
<1>16. \A j \in 1 .. n : e.compilers[j] = e0.compilers[j]
  <2>1. \A j \in 1 .. Len(e1.compilers) - 1 : e.compilers[j] = e1.compilers[j]
    BY <1>13 DEF Inward
  <2>2. Len(e1.compilers) - 1 = n /\ e1.compilers = cs
    BY <1>7, <1>8, <1>9 DEF SameBut
  <2> QED BY <1>8, <2>1, <2>2
<1>17. \A j \in 1 .. n - 1 : e.compilers[j] = d.compilers[j]
  <2>1. \A j \in 1 .. n - 1 : e0.compilers[j] = d.compilers[j] /\ j \in 1 .. n
    BY <1>6, <1>7, SMTT(30) DEF Inward
  <2> QED BY <1>16, <2>1
<1>18. e.compilers[n + 1] = g
  BY <1>13, <1>14 DEF Inner, Last
<1> QED BY <1>4, <1>5, <1>14, <1>15, <1>16, <1>17, <1>18 DEF g, Encloses

LEMMA FunDeclarationNests ==
  ASSUME NEW d, NEW t, NEW w, NEW in, NEW out, Turn(d, t, w, in, out), t.do = "FunDeclaration",
         in.depth < UINT8_MAX
  PROVE  Nests(d, t, w, FunDeclaration(d))
<1> DEFINE f == ParseVariable(d)
           m == MarkInitialized(f)
           k == ConstantIndex(f)
           T == Task("Closure", << >>)
           D == Task("DefineVariable", <<k>>)
           e0 == Then(m, <<T, D>>)
           N == NewCompiler("FUNCTION", <<Task("Function", << >>)>>)
           e == FunDeclaration(d)
           n == Len(d.compilers)
           h == [N EXCEPT !.scopeDepth = Byte8(N.scopeDepth + 1)]
<1>1. e = BeginScope([e0 EXCEPT !.compilers = Append(@, N)])
  BY DEF FunDeclaration
<1>2. Working(d)
  BY TurnFacts
<1>3. PICK q, q2 : Marks(d, t, w, m, q, q2, out, k)
  BY FunctionDeclared
<1>4. NewFields(N, "FUNCTION", <<Task("Function", << >>)>>)
  BY NewCompilerFields
<1>5. Begins(d.functions, h)
  BY <1>4, NewLevel
<1>6. m = MarkInitialized(ParseVariable(d)) /\ e0 = Then(m, <<Task("Closure", << >>), D>>)
      /\ N = NewCompiler("FUNCTION", <<Task("Function", << >>)>>)
  OBVIOUS
<1> HIDE DEF f, m, k, D, e0, N, e
<1>7. Encloses(d, m, e0, e, h)
  BY <1>1, <1>2, <1>6, FunDeclarationEncloses
<1> HIDE DEF h, T
<1>8. ASSUME ~e.hadError
      PROVE  AwaitsClosure(d.functions, Inner(m), e.compilers[n], w)
  <2> DEFINE g == [Inner(m) EXCEPT !.todo = Append(Append(Inner(m).todo, D), T)]
             s == Inner(m).todo
  <2>1. ~m.hadError /\ Runs(d, t, w, m, {}, q, out)
    BY <1>3, <1>7, <1>8 DEF Marks, Encloses
  <2>2. Working(m) /\ IsSequence(s)
    BY <2>1, RunsWorking
  <2>3. AwaitsClosure(d.functions, Inner(m), g, w)
    BY <1>3, <2>1, ClosureAwaited DEF D, T
  <2>4. Reverse(<<T, D>>) = <<D, T>>
    BY ReversedTasks
  <2>5. s \o <<D, T>> = Append(Append(s, D), T)
    <3> HIDE DEF s
    <3> QED BY <2>2, PushedTasks
  <2>6. e0 = With(m, g)
    BY <2>4, <2>5 DEF e0, Then
  <2> HIDE DEF g
  <2>7. Inner(e0) = g
    BY <2>2, <2>6, WithFacts
  <2>8. e.compilers[n] = Inner(e0)
    <3>1. n \in Nat \ {0} /\ Len(e0.compilers) = n
      BY <1>2, <1>7, InnerLast DEF Inward, Encloses
    <3>2. n \in 1 .. n
      BY <3>1
    <3> QED BY <1>7, <3>1, <3>2 DEF Inner, Last, Encloses
  <2> QED BY <2>3, <2>7, <2>8
<1>9. ASSUME ~e.hadError
      PROVE  Inner(m).type = Inner(d).type /\ Inner(m).arity = Inner(d).arity
             /\ Inner(m).upvalues = Inner(d).upvalues
  BY <1>3, <1>7, <1>9 DEF Marks, Runs, Encloses
<1> QED BY <1>5, <1>7, <1>8, <1>9 DEF Nests, Encloses, AwaitsClosure, SameButTodo, e

-----------------------------------------------------------------------------
(* The compiler as a whole takes a step.                                   *)
(* The task t has been taken from the compiler b, which leaves d.          *)
Begun(b, ws, d, t, w, in, out) ==
  /\ Working(b) /\ Working(d) /\ Inward(b, d) /\ ~d.hadError /\ d.previous = b.previous
  /\ IsFunctionCompiler(Inner(b)) /\ SameButTodo(Inner(b), Inner(d)) /\ IsFunctionCompiler(Inner(d))
  /\ w = ws.open[Len(b.compilers)] /\ t = Last(Inner(b).todo)
  /\ in \in Situations /\ out \in Situations /\ in.depth = Inner(d).scopeDepth
  /\ Fits(t, in, out) /\ Finds(Inner(d), w, t, in, out) /\ out.depth <= in.depth
  /\ Running(d.functions, Inner(d), w, AwaitedBy(t), in, out)
  /\ t.do \in Bottom => Inner(d).todo = << >>
  /\ t.do \notin Bottom => Turn(d, t, w, in, out)

LEMMA StepBegins ==
  ASSUME NEW b, NEW ws, NEW d, NEW t, NEW w, Working(b), Sound(b, ws), ~b.hadError,
         w = ws.open[Len(b.compilers)], t = Last(Inner(b).todo), d = With(b, Popped(Inner(b)))
  PROVE  \E in, out : Begun(b, ws, d, t, w, in, out)
<1> DEFINE n == Len(b.compilers)
           fc == Inner(b)
           g == Popped(fc)
<1>1. n \in Nat \ {0} /\ fc = b.compilers[n] /\ n \in 1 .. n
  BY InnerLast
<1>2. Level(b.functions, fc, w)
  BY <1>1 DEF Sound
<1> HIDE DEF fc
<1>3. IsFunctionCompiler(fc) /\ fc.todo # << >>
  BY <1>2 DEF Level
<1>4. PICK in, out \in Situations :
        /\ Running(b.functions, g, w, AwaitedBy(Last(fc.todo)), in, out)
        /\ Placed(g, w, Last(fc.todo), Len(g.todo) + 1, in, out)
  BY <1>2, RunningOfLevel
<1>5. /\ IsFunctionCompiler(g) /\ SameButTodo(fc, g) /\ IsSequence(g.todo)
  BY <1>3, PoppedFacts DEF IsFunctionCompiler
<1>6. d = With(b, g) /\ t = Last(fc.todo)
  BY DEF fc
<1> HIDE DEF g
<1>7. /\ Inward(b, d) /\ Inner(d) = g /\ d.hadError = b.hadError /\ d.previous = b.previous
      /\ d.functions = b.functions
  BY <1>6, WithFacts
<1>8. Working(d)
  BY <1>7 DEF Inward
<1>9. Running(d.functions, Inner(d), w, AwaitedBy(t), in, out)
  BY <1>4, <1>6, <1>7
<1>10. Fits(t, in, out) /\ Finds(Inner(d), w, t, in, out) /\ out.depth <= in.depth
  BY <1>4, <1>6, <1>7 DEF Placed
<1>11. t.do \in Bottom <=> Inner(d).todo = << >>
  <2>1. t.do \in Bottom <=> Len(g.todo) + 1 = 1
    BY <1>4, <1>6 DEF Placed
  <2>2. Len(g.todo) \in Nat /\ (g.todo # << >> <=> Len(g.todo) >= 1)
    BY <1>5, SequenceFacts
  <2>3. Len(g.todo) + 1 = 1 <=> g.todo = << >>
    BY <2>2
  <2> QED BY <1>7, <2>1, <2>3
<1>12. in.depth = Inner(d).scopeDepth
  BY <1>9, RunningStands DEF Standing
<1>13. ASSUME t.do \notin Bottom
       PROVE  Turn(d, t, w, in, out)
  <2>1. Inner(d).todo # << >>
    BY <1>11, <1>13
  <2>2. Window(d, t, w, d) = w
    <3> DEFINE y == Inner(d)
               fns == d.functions
               X == AwaitedBy(t)
    <3>1. Running(fns, y, w, X, in, out)
      BY <1>9
    <3> HIDE DEF y, fns, X
    <3>2. Recorded(w, y, t, y.code, y.arity) = w
      BY <3>1, RecordedSame
    <3> QED BY <3>2 DEF Window, y
  <2>3. Inward(d, d)
    BY <1>8, InwardSelf
  <2>4. Runs(d, t, w, d, AwaitedBy(t), in, out)
    BY <1>8, <1>9, <2>1, <2>2, <2>3 DEF Runs
  <2>5. Quiet(d, t, w, d)
    BY <2>2 DEF Quiet
  <2> QED BY <1>4, <1>7, <1>10, <2>4, <2>5 DEF Turn
<1>14. Begun(b, ws, d, t, w, in, out)
  <2>1. /\ Working(b) /\ Working(d) /\ Inward(b, d) /\ ~d.hadError /\ d.previous = b.previous
        /\ in \in Situations /\ out \in Situations /\ w = ws.open[Len(b.compilers)]
    BY <1>4, <1>7, <1>8
  <2>2. IsFunctionCompiler(Inner(b)) /\ SameButTodo(Inner(b), Inner(d)) /\ IsFunctionCompiler(Inner(d))
        /\ t = Last(Inner(b).todo)
    BY <1>3, <1>5, <1>6, <1>7 DEF fc
  <2>3. t.do \in Bottom => Inner(d).todo = << >>
    BY <1>11
  <2> QED BY <1>9, <1>10, <1>12, <1>13, <2>1, <2>2, <2>3 DEF Begun
<1> QED BY <1>14

(* What the history says when no function has begun or ended.              *)
LEMMA HistoryInward ==
  ASSUME NEW b, NEW ws, NEW d, NEW t, NEW w, NEW in, NEW out, NEW e,
         Begun(b, ws, d, t, w, in, out), Inward(d, e)
  PROVE  History(ws, b, e) = [ws EXCEPT !.open[Len(b.compilers)] = Window(d, t, w, e)]
<1> DEFINE n == Len(b.compilers)
<1>1. n \in Nat /\ Inner(b) = b.compilers[n] /\ Len(e.compilers) = n /\ Inner(e) = e.compilers[n]
  BY InnerLast DEF Begun, Inward, Inner, Last
<1>2. History(ws, b, e) = [ws EXCEPT !.open[n] = Recorded(ws.open[n], Inner(b), Last(Inner(b).todo),
                                                         Inner(e).code, Inner(e).arity)]
  BY <1>1 DEF History
<1>3. Recorded(w, Inner(b), t, Inner(e).code, Inner(e).arity) = Window(d, t, w, e)
  <2>1. Inner(b).code = Inner(d).code /\ Live(Inner(b)) = Live(Inner(d))
    BY DEF Begun, SameButTodo, Live
  <2> QED BY <2>1 DEF Window, Recorded
<1>4. w = ws.open[n] /\ t = Last(Inner(b).todo)
  BY DEF Begun
<1> QED BY <1>2, <1>3, <1>4

OpenWith(ws, v, n, x) ==
  /\ v = [open |-> v.open, done |-> v.done] /\ v.done = ws.done
  /\ IsSequence(v.open) /\ Len(v.open) = Len(ws.open)
  /\ \A j \in 1 .. Len(ws.open) : v.open[j] = IF j = n THEN x ELSE ws.open[j]

LEMMA LastOrBefore ==
  ASSUME NEW n \in Nat \ {0}, NEW j \in 1 .. n
  PROVE  j = n \/ (j \in 1 .. n - 1 /\ j < n /\ (j # 1 => j - 1 \in 1 .. n - 1))
OBVIOUS

LEMMA OpenSet ==
  ASSUME NEW ws, NEW n, NEW x, ws = [open |-> ws.open, done |-> ws.done], IsSequence(ws.open),
         n \in 1 .. Len(ws.open)
  PROVE  OpenWith(ws, [ws EXCEPT !.open[n] = x], n, x)
<1> DEFINE v == [ws EXCEPT !.open[n] = x]
           s == ws.open
           r == [s EXCEPT ![n] = x]
<1>1. v = [open |-> r, done |-> ws.done]
  OBVIOUS
<1> HIDE DEF v
<1>2. v.open = r /\ v.done = ws.done
  BY <1>1
<1>3. v = [open |-> v.open, done |-> v.done]
  BY <1>1, <1>2
<1>4. IsSequence(s)
  OBVIOUS
<1> HIDE DEF s, r
<1>5. IsSequence(r)
  BY <1>4, SequenceExcept DEF r
<1>6. Len(r) = Len(s)
  BY <1>4, SequenceExcept DEF r
<1>7. \A j \in 1 .. Len(s) : r[j] = IF j = n THEN x ELSE s[j]
  BY <1>4, SequenceFacts DEF r
<1> QED BY <1>2, <1>3, <1>5, <1>6, <1>7 DEF v, s, OpenWith

(* The task has left what the next expects, and nothing has changed in the *)
(* enclosing functions.                                                    *)
LEMMA InwardSound ==
  ASSUME NEW b, NEW ws, NEW d, NEW t, NEW w, NEW in, NEW out, NEW e, Sound(b, ws),
         Begun(b, ws, d, t, w, in, out), Arrives(d, t, w, e), ~e.hadError
  PROVE  Sound(e, History(ws, b, e))
<1> DEFINE n == Len(b.compilers)
           W == Window(d, t, w, e)
           v == [ws EXCEPT !.open[n] = W]
<1>1. /\ Inward(b, d) /\ Inward(d, e)
      /\ Inner(e).type = Inner(d).type /\ Inner(e).upvalues = Inner(d).upvalues
      /\ Inner(d).type = "SCRIPT" => Inner(e).arity = Inner(d).arity
      /\ Level(d.functions, Inner(e), W) /\ NextFinds(e)
  BY DEF Begun, Arrives
<1>2. History(ws, b, e) = v
  BY <1>1, HistoryInward
<1>3. n \in Nat \ {0} /\ n \in 1 .. n
  BY InnerLast DEF Begun
<1> HIDE DEF W
<1>4. Inward(b, e)
  BY <1>1, InwardChain
<1>5. /\ e.functions = b.functions /\ Len(e.compilers) = n /\ e.compilers # << >>
      /\ \A j \in 1 .. n - 1 : e.compilers[j] = b.compilers[j]
      /\ e.compilers[n] = Inner(e) /\ Inner(b) = b.compilers[n] /\ d.functions = b.functions
  BY <1>1, <1>4 DEF Inward, Working, Inner, Last
<1>6. /\ ws = [open |-> ws.open, done |-> ws.done] /\ IsSequence(ws.open) /\ Len(ws.open) = n
      /\ FunctionsSound(b.functions, ws.done)
      /\ \A j \in 1 .. n : Level(b.functions, b.compilers[j], ws.open[j]) /\ Nested(b, j)
  BY DEF Sound
<1>7. n \in 1 .. Len(ws.open)
  BY <1>3, <1>6
<1>8. /\ v = [open |-> v.open, done |-> v.done] /\ v.done = ws.done
      /\ IsSequence(v.open) /\ Len(v.open) = Len(ws.open)
      /\ \A j \in 1 .. Len(ws.open) : v.open[j] = IF j = n THEN W ELSE ws.open[j]
  <2>1. OpenWith(ws, v, n, W)
    BY <1>6, <1>7, OpenSet
  <2> HIDE DEF v
  <2> QED BY <2>1 DEF OpenWith
<1> HIDE DEF v
<1>9. ASSUME NEW j \in 1 .. n
      PROVE  Level(e.functions, e.compilers[j], v.open[j]) /\ Nested(e, j)
  <2>1. CASE j = n
    <3>1. Level(e.functions, e.compilers[j], v.open[j])
      BY <1>1, <1>5, <1>6, <1>8, <2>1
    <3>2. Nested(b, n) /\ (n # 1 => b.compilers[n - 1] = e.compilers[n - 1])
      <4>1. n # 1 => n - 1 \in 1 .. n - 1
        <5> HIDE DEF n
        <5> QED BY ONLY <1>3
      <4> QED BY <1>3, <1>5, <1>6, <4>1
    <3>3. /\ Inner(e).type = Inner(b).type /\ Inner(e).upvalues = Inner(b).upvalues
          /\ Inner(b).type = "SCRIPT" => Inner(e).arity = Inner(b).arity
      BY <1>1 DEF Begun, SameButTodo
    <3>4. ~(n < Len(e.compilers))
      BY <1>3, <1>5
    <3>5. Nested(e, n)
      BY <1>5, <3>2, <3>3, <3>4 DEF Nested
    <3> QED BY <2>1, <3>1, <3>5
  <2>2. CASE j # n
    <3>1. j \in 1 .. n - 1 /\ j < n /\ (j # 1 => j - 1 \in 1 .. n - 1)
      BY <1>3, <2>2, LastOrBefore, Zenon
    <3>2. e.compilers[j] = b.compilers[j] /\ (j # 1 => e.compilers[j - 1] = b.compilers[j - 1])
      BY <1>5, <3>1
    <3>3. Nested(b, j)
      BY <1>6
    <3>4. Nested(e, j)
      BY <1>5, <3>1, <3>2, <3>3 DEF Nested
    <3> QED BY <1>5, <1>6, <1>8, <2>2, <3>2, <3>4
  <2> QED BY <2>1, <2>2
<1>10. Sound(e, v)
  BY <1>1, <1>5, <1>6, <1>8, <1>9 DEF Sound
<1> QED BY <1>2, <1>10

(* A function has been begun.                                              *)
LEMMA NestsSound ==
  ASSUME NEW b, NEW ws, NEW d, NEW t, NEW w, NEW in, NEW out, NEW e, Sound(b, ws),
         Begun(b, ws, d, t, w, in, out), Nests(d, t, w, e), ~e.hadError
  PROVE  Sound(e, History(ws, b, e))
<1> DEFINE n == Len(b.compilers)
           s == ws.open
           r == Append(s, NewWindow)
           v == [ws EXCEPT !.open = r]
<1>1. /\ IsSequence(s) /\ Len(s) = n
      /\ FunctionsSound(b.functions, ws.done)
      /\ \A j \in 1 .. n : Level(b.functions, b.compilers[j], s[j]) /\ Nested(b, j)
  BY DEF Sound
<1>2. n \in Nat \ {0} /\ n \in 1 .. n /\ Inner(b) = b.compilers[n]
  BY InnerLast DEF Begun
<1>3. d.functions = b.functions /\ Len(d.compilers) = n /\ w = s[n]
      /\ \A j \in 1 .. n - 1 : d.compilers[j] = b.compilers[j]
  BY DEF Begun, Inward
<1>4. /\ e.functions = b.functions /\ Len(e.compilers) = n + 1
      /\ \A j \in 1 .. n - 1 : e.compilers[j] = b.compilers[j]
      /\ e.compilers # << >>
  BY <1>3 DEF Nests
<1>5. /\ e.compilers[n].type = Inner(b).type
      /\ e.compilers[n].arity = Inner(b).arity
      /\ e.compilers[n].upvalues = Inner(b).upvalues
      /\ Level(b.functions, e.compilers[n], w)
      /\ Last(e.compilers[n].todo).do = "Closure"
      /\ Begins(b.functions, e.compilers[n + 1])
  <2>1. /\ e.compilers[n].type = Inner(d).type
        /\ e.compilers[n].arity = Inner(d).arity
        /\ e.compilers[n].upvalues = Inner(d).upvalues
    BY <1>3 DEF Nests
  <2>2. /\ Level(b.functions, e.compilers[n], w)
        /\ Last(e.compilers[n].todo).do = "Closure"
        /\ Begins(b.functions, e.compilers[n + 1])
    BY <1>3 DEF Nests
  <2>3. Inner(d).type = Inner(b).type /\ Inner(d).arity = Inner(b).arity
        /\ Inner(d).upvalues = Inner(b).upvalues
    BY DEF Begun, SameButTodo
  <2> QED BY <2>1, <2>2, <2>3
<1>6. v = History(ws, b, e)
  <2>1. Len(e.compilers) # n /\ Len(e.compilers) > n
    BY <1>2, <1>4
  <2> QED BY <2>1 DEF History
<1>7. v = [open |-> r, done |-> ws.done]
  BY DEF Sound
<1>8. v.open = r /\ v.done = ws.done /\ v = [open |-> v.open, done |-> v.done]
  BY <1>7
<1> HIDE DEF v
<1>9. IsSequence(r) /\ Len(r) = n + 1 /\ r[n + 1] = NewWindow /\ \A j \in 1 .. n : r[j] = s[j]
  <2> DEFINE x == NewWindow
  <2>1. r = Append(s, x) /\ IsSequence(s) /\ Len(s) = n
    BY <1>1
  <2> HIDE DEF s, x, r, n
  <2>2. IsSequence(Append(s, x))
    BY <2>1, SequenceAppend
  <2>3. Len(Append(s, x)) = Len(s) + 1
    BY <2>1, SequenceAppend
  <2>4. Append(s, x)[Len(s) + 1] = x
    BY <2>1, SequenceAppend
  <2>5. \A j \in 1 .. Len(s) : Append(s, x)[j] = s[j]
    BY <2>1, SequenceAppend
  <2> QED BY <2>1, <2>2, <2>3, <2>4, <2>5 DEF x
<1> HIDE DEF r
<1>10. ASSUME NEW j \in 1 .. n + 1
       PROVE  Level(e.functions, e.compilers[j], r[j]) /\ Nested(e, j)
  <2>1. CASE j = n + 1
    <3> DEFINE k == n + 1
    <3>1. Level(e.functions, e.compilers[k], r[k])
      BY <1>4, <1>5, <1>9 DEF Begins
    <3>2. e.compilers[k].type = "FUNCTION" /\ e.compilers[k].upvalues = << >>
      BY <1>5 DEF Begins
    <3>3. ~(k < Len(e.compilers)) /\ k # 1
      BY <1>2, <1>4
    <3> HIDE DEF k
    <3>4. UpvaluesSound(e.compilers[k].upvalues, e.compilers[k - 1])
      <4>1. DOMAIN e.compilers[k].upvalues = {}
        BY <3>2, EmptyFunction
      <4> QED BY <4>1 DEF UpvaluesSound
    <3>5. Nested(e, k)
      BY <3>2, <3>3, <3>4 DEF Nested
    <3> QED BY <2>1, <3>1, <3>5 DEF k
  <2>2. CASE j = n
    <3>1. Level(e.functions, e.compilers[n], r[n])
      BY <1>2, <1>3, <1>4, <1>5, <1>9
    <3>2. Nested(b, n) /\ (n # 1 => b.compilers[n - 1] = e.compilers[n - 1])
      <4>1. n # 1 => n - 1 \in 1 .. n - 1
        <5> HIDE DEF n
        <5> QED BY ONLY <1>2
      <4> QED BY <1>1, <1>2, <1>4, <4>1
    <3>3. Nested(e, n)
      BY <1>2, <1>5, <3>2 DEF Nested
    <3> QED BY <2>2, <3>1, <3>3
  <2>3. CASE j \in 1 .. n - 1
    <3>1. j < n /\ j < n + 1 /\ (j # 1 => j - 1 \in 1 .. n - 1) /\ j \in 1 .. n
      BY <1>2, <2>3
    <3>2. e.compilers[j] = b.compilers[j] /\ (j # 1 => e.compilers[j - 1] = b.compilers[j - 1])
      BY <1>4, <2>3, <3>1
    <3>3. Nested(b, j) /\ Level(b.functions, b.compilers[j], s[j])
      BY <1>1, <3>1
    <3>4. Nested(e, j)
      BY <1>4, <3>1, <3>2, <3>3 DEF Nested
    <3> QED BY <1>4, <1>9, <3>1, <3>2, <3>3, <3>4
  <2>4. j = n + 1 \/ j = n \/ j \in 1 .. n - 1
    <3> HIDE DEF n
    <3> QED BY <1>2
  <2> QED BY <2>1, <2>2, <2>3, <2>4
<1>11. NextFinds(e)
  <2>1. Inner(e) = e.compilers[n + 1]
    BY <1>4 DEF Inner, Last
  <2>2. Last(Inner(e).todo).do = "Function"
    BY <1>5, <2>1 DEF Begins
  <2> QED BY <2>2 DEF NextFinds
<1>12. Sound(e, v)
  BY <1>1, <1>4, <1>8, <1>9, <1>10, <1>11 DEF Sound
<1> QED BY <1>6, <1>12

(* Upvalues are added to a function that is being compiled.                *)
SameButUpvalues(fc, g) ==
  /\ IsFunctionCompiler(g) /\ g.type = fc.type /\ g.arity = fc.arity /\ g.code = fc.code
  /\ g.todo = fc.todo /\ g.locals = fc.locals /\ g.constants = fc.constants
  /\ g.scopeDepth = fc.scopeDepth /\ g.lines = fc.lines
  /\ Len(fc.upvalues) \in Nat /\ Len(g.upvalues) \in Nat /\ Len(fc.upvalues) <= Len(g.upvalues)

LEMMA UpvaluesSet ==
  ASSUME NEW fc, NEW ups, IsFunctionCompiler(fc), IsSequence(ups), Len(fc.upvalues) <= Len(ups)
  PROVE  SameButUpvalues(fc, [fc EXCEPT !.upvalues = ups])
         /\ [fc EXCEPT !.upvalues = ups].upvalues = ups
<1> DEFINE g == [fc EXCEPT !.upvalues = ups]
<1>1. /\ fc = [type |-> fc.type, arity |-> fc.arity, code |-> fc.code, lines |-> fc.lines,
               constants |-> fc.constants, locals |-> fc.locals, upvalues |-> fc.upvalues,
               scopeDepth |-> fc.scopeDepth, todo |-> fc.todo]
      /\ IsSequence(fc.code) /\ IsSequence(fc.constants) /\ IsSequence(fc.locals)
      /\ IsSequence(fc.upvalues) /\ IsSequence(fc.todo) /\ fc.arity \in Nat
  BY DEF IsFunctionCompiler
<1>2. g = [type |-> fc.type, arity |-> fc.arity, code |-> fc.code, lines |-> fc.lines,
           constants |-> fc.constants, locals |-> fc.locals, upvalues |-> ups,
           scopeDepth |-> fc.scopeDepth, todo |-> fc.todo]
  BY <1>1
<1> HIDE DEF g
<1>3. /\ g.type = fc.type /\ g.arity = fc.arity /\ g.code = fc.code
      /\ g.todo = fc.todo /\ g.locals = fc.locals /\ g.constants = fc.constants
      /\ g.scopeDepth = fc.scopeDepth /\ g.lines = fc.lines /\ g.upvalues = ups
  BY <1>2
<1>4. g = [type |-> g.type, arity |-> g.arity, code |-> g.code, lines |-> g.lines,
           constants |-> g.constants, locals |-> g.locals, upvalues |-> g.upvalues,
           scopeDepth |-> g.scopeDepth, todo |-> g.todo]
  BY <1>2, <1>3
<1>5. Len(fc.upvalues) \in Nat /\ Len(ups) \in Nat
  BY <1>1, SequenceFacts
<1> QED BY <1>1, <1>3, <1>4, <1>5 DEF SameButUpvalues, IsFunctionCompiler, g

LEMMA UpvaluesSame ==
  ASSUME NEW fc, IsFunctionCompiler(fc)
  PROVE  SameButUpvalues(fc, fc)
<1>1. Len(fc.upvalues) \in Nat
  BY SequenceFacts DEF IsFunctionCompiler
<1> QED BY <1>1 DEF SameButUpvalues

LEMMA RunningCaptures ==
  ASSUME NEW fns, NEW fc, NEW w, NEW X, NEW in, NEW out, NEW g,
         Running(fns, fc, w, X, in, out), SameButUpvalues(fc, g)
  PROVE  Running(fns, g, w, X, in, out)
<1>1. /\ IsFunctionCompiler(fc) /\ LocalsSound(fc) /\ in \in Situations /\ out \in Situations
      /\ At(fc, w.now, in) /\ w.now \in Nat /\ Live(fc) \in Nat
      /\ FunctionsKnown(fns, Finished(fc))
  BY RunningStands DEF Standing, Running, Ready, ChunkSound
<1>2. /\ g.type = fc.type /\ g.arity = fc.arity /\ g.code = fc.code /\ IsFunctionCompiler(g)
      /\ g.todo = fc.todo /\ g.locals = fc.locals /\ g.constants = fc.constants
      /\ g.scopeDepth = fc.scopeDepth /\ Len(fc.upvalues) <= Len(g.upvalues)
  BY DEF SameButUpvalues
<1>3. Live(g) = Live(fc) /\ Scoped(g) = Scoped(fc)
  <2>1. Live(g) = Live(fc)
    BY <1>2 DEF Live
  <2> QED BY <1>2, <2>1 DEF Scoped
<1>4. LocalsSound(g)
  BY <1>1, <1>2 DEF LocalsSound
<1>5. At(g, w.now, in)
  BY <1>1, <1>2, <1>3 DEF At
<1>6. \A e \in 0 .. out.depth : Base(g, e) = Base(fc, e)
  BY <1>2 DEF Base
<1>7. Finished(g).constants = Finished(fc).constants
  BY <1>2, FinishedFields
<1>8. FunctionsKnown(fns, Finished(g))
  BY <1>1, <1>7 DEF FunctionsKnown
<1>9. Lesser(Live(g), w.now) >= Lesser(Live(fc), w.now)
  <2>1. Lesser(Live(fc), w.now) \in Nat
    BY <1>1, LesserFacts
  <2> QED BY <1>3, <2>1
<1>10. /\ \A i \in DOMAIN fc.constants : i \in DOMAIN g.constants /\ g.constants[i] = fc.constants[i]
       /\ \A f \in DOMAIN fns : f \in DOMAIN fns /\ fns[f] = fns[f]
  BY <1>2
<1> QED BY <1>1, <1>2, <1>4, <1>5, <1>6, <1>8, <1>9, <1>10, RunningGrows

(* A compiler that waits to emit a closure.                                *)
LEMMA LevelCaptures ==
  ASSUME NEW fns, NEW fc, NEW w, NEW g, Level(fns, fc, w), Last(fc.todo).do = "Closure",
         SameButUpvalues(fc, g)
  PROVE  Level(fns, g, w)
<1> DEFINE x == Popped(fc)
           y == Popped(g)
           t == Last(fc.todo)
<1>1. PICK in, out \in Situations : /\ Running(fns, x, w, AwaitedBy(t), in, out)
                                    /\ Placed(x, w, t, Len(x.todo) + 1, in, out)
  BY RunningOfLevel
<1>2. IsFunctionCompiler(fc) /\ fc.todo # << >> /\ IsFunctionCompiler(g) /\ g.todo = fc.todo
  BY DEF Level, SameButUpvalues
<1>3. IsFunctionCompiler(x) /\ SameButTodo(fc, x) /\ x.todo = Front(fc.todo) /\ x.lines = fc.lines
  BY <1>2, PoppedFacts DEF Popped, IsFunctionCompiler
<1>4. IsFunctionCompiler(y) /\ SameButTodo(g, y) /\ y.todo = Front(fc.todo) /\ y.lines = g.lines
  BY <1>2, PoppedFacts DEF Popped, IsFunctionCompiler
<1> HIDE DEF x, y
<1>5. SameButUpvalues(x, y)
  BY <1>3, <1>4 DEF SameButTodo, SameButUpvalues
<1>6. Running(fns, y, w, AwaitedBy(t), in, out)
  BY <1>1, <1>5, RunningCaptures
<1>7. Placed(y, w, t, Len(y.todo) + 1, in, out)
  <2>1. Finds(y, w, t, in, out)
    BY DEF Finds
  <2>2. y.todo = x.todo
    BY <1>3, <1>4
  <2> QED BY <1>1, <2>1, <2>2 DEF Placed
<1>8. t = Last(g.todo)
  BY <1>2
<1> HIDE DEF t
<1>9. Running(fns, Popped(g), w, AwaitedBy(Last(g.todo)), in, out)
  BY <1>6, <1>8 DEF y
<1>10. Placed(Popped(g), w, Last(g.todo), Len(Popped(g).todo) + 1, in, out)
  BY <1>7, <1>8 DEF y
<1> QED BY <1>2, <1>9, <1>10, LevelOfBefore

(* What addUpvalue adds, and what it leaves alone.                         *)
Capturable(up, fc) ==
  /\ up.index \in 0 .. UINT8_MAX
  /\ IF up.isLocal THEN up.index \in 1 .. Live(fc) - 1 ELSE up.index \in 0 .. Len(fc.upvalues) - 1

GrowsBy(fc, g, up) ==
  /\ SameButUpvalues(fc, g)
  /\ g.upvalues = fc.upvalues \/ g.upvalues = Append(fc.upvalues, up)

OnlyAt(x, y, k) ==
  /\ SameBut(x, y, y.compilers) /\ Len(y.compilers) = Len(x.compilers)
  /\ \A i \in 1 .. Len(x.compilers) : i # k => y.compilers[i] = x.compilers[i]

LEMMA AddUpvalueSame ==
  ASSUME NEW x, NEW k, NEW up, IsCompiler(x)
  PROVE  OnlyAt(x, AddUpvalue(x, k, up), k)
<1> DEFINE s == x.compilers
           v == [s[k] EXCEPT !.upvalues = Append(s[k].upvalues, up)]
           cs == [s EXCEPT ![k] = v]
           y == [x EXCEPT !.compilers = cs]
<1>1. IsSequence(s)
  BY DEF IsCompiler
<1>2. CASE AddUpvalue(x, k, up) = x
  <2>1. SameBut(x, x, x.compilers)
    BY DEF SameBut
  <2> QED BY <1>2, <2>1 DEF OnlyAt
<1>3. CASE AddUpvalue(x, k, up) # x
  <2>1. AddUpvalue(x, k, up) = [x EXCEPT !.compilers[k].upvalues = Append(@, up)]
    BY <1>3 DEF AddUpvalue
  <2>2. [x EXCEPT !.compilers[k].upvalues = Append(@, up)] = y
    OBVIOUS
  <2> HIDE DEF v, s
  <2>3. IsSequence(cs) /\ Len(cs) = Len(s)
    BY <1>1, SequenceExcept
  <2>4. \A i \in 1 .. Len(s) : cs[i] = IF i = k THEN v ELSE s[i]
    BY <1>1, SequenceFacts
  <2> HIDE DEF cs
  <2>5. SameBut(x, y, cs)
    BY <2>3, CompilersSet
  <2>6. y.compilers = cs
    BY <2>5 DEF SameBut
  <2> HIDE DEF y
  <2>7. OnlyAt(x, y, k)
    BY <2>3, <2>4, <2>5, <2>6 DEF OnlyAt, s
  <2> QED BY <2>1, <2>2, <2>7
<1> QED BY <1>2, <1>3

LEMMA AddUpvalueFields ==
  ASSUME NEW x, NEW k, NEW up, IsCompiler(x), k \in 1 .. Len(x.compilers),
         IsFunctionCompiler(x.compilers[k])
  PROVE  GrowsBy(x.compilers[k], AddUpvalue(x, k, up).compilers[k], up)
<1> DEFINE s == x.compilers
           fc == s[k]
           ups == Append(fc.upvalues, up)
           v == [fc EXCEPT !.upvalues = ups]
           cs == [s EXCEPT ![k] = v]
           y == [x EXCEPT !.compilers = cs]
<1>1. IsSequence(s)
  BY DEF IsCompiler
<1>2. CASE AddUpvalue(x, k, up) = x
  <2>1. SameButUpvalues(fc, fc)
    BY UpvaluesSame
  <2> QED BY <1>2, <2>1 DEF GrowsBy
<1>3. CASE AddUpvalue(x, k, up) # x
  <2>1. AddUpvalue(x, k, up) = [x EXCEPT !.compilers[k].upvalues = Append(@, up)]
    BY <1>3 DEF AddUpvalue
  <2>2. [x EXCEPT !.compilers[k].upvalues = Append(@, up)] = y
    OBVIOUS
  <2>8. IsSequence(fc.upvalues) /\ IsFunctionCompiler(fc)
    BY DEF IsFunctionCompiler
  <2>9. IsSequence(ups) /\ Len(ups) = Len(fc.upvalues) + 1 /\ Len(fc.upvalues) \in Nat
    <3> DEFINE r == fc.upvalues
    <3>1. IsSequence(r)
      BY <2>8
    <3> HIDE DEF r
    <3>2. IsSequence(Append(r, up))
      BY <3>1, SequenceAppend
    <3>3. Len(Append(r, up)) = Len(r) + 1
      BY <3>1, SequenceAppend
    <3>4. Len(r) \in Nat
      BY <3>1, SequenceFacts
    <3> QED BY <3>2, <3>3, <3>4 DEF r
  <2>12. k \in 1 .. Len(s)
    OBVIOUS
  <2>13. ups = Append(fc.upvalues, up)
    OBVIOUS
  <2> HIDE DEF fc, ups
  <2>10. Len(fc.upvalues) <= Len(ups)
    BY <2>9
  <2>11. SameButUpvalues(fc, v)
    BY <2>8, <2>9, <2>10, UpvaluesSet
  <2>14. v.upvalues = ups
    BY <2>8, <2>9, <2>10, UpvaluesSet
  <2> HIDE DEF v, s
  <2>3. IsSequence(cs)
    BY <1>1, SequenceExcept
  <2>4. cs[k] = v
    <3>1. \A i \in 1 .. Len(s) : cs[i] = IF i = k THEN v ELSE s[i]
      BY <1>1, SequenceFacts
    <3> QED BY <2>12, <3>1
  <2> HIDE DEF cs
  <2>5. SameBut(x, y, cs)
    BY <2>3, CompilersSet
  <2>6. y.compilers[k] = v
    BY <2>4, <2>5 DEF SameBut
  <2> HIDE DEF y
  <2>7. GrowsBy(fc, y.compilers[k], up)
    BY <2>6, <2>11, <2>13, <2>14 DEF GrowsBy
  <2> QED BY <2>1, <2>2, <2>7 DEF fc, s
<1> QED BY <1>2, <1>3

IndexOf(j, ups) == j \in 0 .. UINT8_MAX /\ j < Len(ups)

LEMMA UpvalueIndexFacts ==
  ASSUME NEW x, NEW k, NEW up, IsCompiler(x), k \in 1 .. Len(x.compilers),
         IsFunctionCompiler(x.compilers[k])
  PROVE  IndexOf(UpvalueIndex(x, k, up), AddUpvalue(x, k, up).compilers[k].upvalues)
<1> DEFINE fc == x.compilers[k]
           ups == fc.upvalues
           n == Len(ups)
           S == {i \in DOMAIN ups : ups[i] = up}
           g == AddUpvalue(x, k, up).compilers[k]
<1>1. n \in Nat /\ DOMAIN ups = 1 .. n /\ IsSequence(ups)
  <2>1. IsSequence(fc.upvalues)
    BY DEF IsFunctionCompiler
  <2> QED BY <2>1, SequenceFacts
<1>2. UpvalueIndex(x, k, up) = Byte8(IF S # {} THEN Min(S) - 1 ELSE n)
  BY DEF UpvalueIndex
<1>3. GrowsBy(fc, g, up)
  BY AddUpvalueFields
<1>4. CASE S # {}
  <2>1. S \in SUBSET (1 .. n)
    BY <1>1
  <2>2. g = fc
    BY <1>4 DEF AddUpvalue
  <2> DEFINE j == Min(S)
  <2> HIDE DEF S, n, g
  <2>3. j \in S
    BY <1>1, <1>4, <2>1, LeastIn
  <2>4. UpvalueIndex(x, k, up) = Byte8(j - 1)
    BY <1>2, <1>4
  <2> HIDE DEF j
  <2>5. j - 1 \in Nat /\ j - 1 < n
    BY <1>1, <2>1, <2>3
  <2>6. Byte8(j - 1) \in 0 .. UINT8_MAX /\ Byte8(j - 1) <= j - 1
    BY <2>5, Byte8OfByte
  <2>9. UINT8_MAX \in Nat
    BY ONLY UInt8Assumption
  <2>7. Byte8(j - 1) < n
    BY <1>1, <2>5, <2>6, <2>9
  <2>8. Len(g.upvalues) = n
    BY <2>2 DEF n
  <2> QED BY <2>4, <2>6, <2>7, <2>8 DEF IndexOf, g
<1>5. CASE S = {}
  <2>1. AddUpvalue(x, k, up) = [x EXCEPT !.compilers[k].upvalues = Append(@, up)]
    BY <1>5 DEF AddUpvalue
  <2>2. g.upvalues = Append(ups, up)
    <3> DEFINE s == x.compilers
               v == [fc EXCEPT !.upvalues = Append(ups, up)]
               cs == [s EXCEPT ![k] = v]
    <3>1. AddUpvalue(x, k, up) = [x EXCEPT !.compilers = cs]
      BY <2>1
    <3>2. IsSequence(s) /\ k \in 1 .. Len(s)
      BY DEF IsCompiler
    <3>6. v.upvalues = Append(ups, up)
      BY DEF IsFunctionCompiler
    <3>7. IsCompiler(x)
      OBVIOUS
    <3> HIDE DEF s, v
    <3>3. IsSequence(cs)
      BY <3>2, SequenceExcept
    <3>4. cs[k] = v
      <4>1. \A i \in 1 .. Len(s) : cs[i] = IF i = k THEN v ELSE s[i]
        BY <3>2, SequenceFacts
      <4> QED BY <3>2, <4>1
    <3> HIDE DEF cs
    <3>5. [x EXCEPT !.compilers = cs].compilers = cs
      BY <3>3, <3>7, CompilersSet DEF SameBut
    <3> QED BY <3>1, <3>4, <3>5, <3>6
  <2>3. Len(g.upvalues) = n + 1
    <3> DEFINE r == ups
    <3>1. IsSequence(r) /\ n = Len(r) /\ g.upvalues = Append(r, up)
      BY <1>1, <2>2
    <3> HIDE DEF r, n, g
    <3>2. Len(Append(r, up)) = Len(r) + 1
      BY <3>1, SequenceAppend
    <3> QED BY <3>1, <3>2
  <2>4. UpvalueIndex(x, k, up) = Byte8(n)
    BY <1>2, <1>5
  <2> HIDE DEF n, g
  <2>5. Byte8(n) \in 0 .. UINT8_MAX /\ Byte8(n) <= n
    BY <1>1, Byte8OfByte
  <2>7. UINT8_MAX \in Nat
    BY ONLY UInt8Assumption
  <2>6. Byte8(n) < n + 1
    BY <1>1, <2>5, <2>7
  <2> QED BY <2>3, <2>4, <2>5, <2>6 DEF IndexOf, g
<1> QED BY <1>4, <1>5

(* A variable is captured.                                                 *)
LEMMA UpvaluesKept ==
  ASSUME NEW ups, NEW fc, NEW g, UpvaluesSound(ups, fc), SameButUpvalues(fc, g)
  PROVE  UpvaluesSound(ups, g)
<1>1. Live(g) = Live(fc)
  BY DEF SameButUpvalues, Live
<1>2. Len(fc.upvalues) \in Nat /\ Len(g.upvalues) \in Nat /\ Len(fc.upvalues) <= Len(g.upvalues)
  BY DEF SameButUpvalues
<1>3. \A i \in 0 .. Len(fc.upvalues) - 1 : i \in 0 .. Len(g.upvalues) - 1
  BY <1>2
<1> QED BY <1>1, <1>3 DEF UpvaluesSound

LEMMA UpvaluesAppended ==
  ASSUME NEW ups, NEW fc, NEW up, UpvaluesSound(ups, fc), Capturable(up, fc), IsSequence(ups)
  PROVE  UpvaluesSound(Append(ups, up), fc)
<1> DEFINE r == Append(ups, up)
           n == Len(ups)
<1>1. IsSequence(r) /\ Len(r) = n + 1
  BY SequenceAppend
<1>2. \A i \in 1 .. n : r[i] = ups[i]
  BY SequenceAppend
<1>3. r[n + 1] = up
  BY SequenceAppend
<1>4. n \in Nat /\ DOMAIN ups = 1 .. n
  BY SequenceFacts
<1> HIDE DEF r
<1>5. DOMAIN r = 1 .. n + 1
  BY <1>1, SequenceFacts
<1>6. ASSUME NEW u \in DOMAIN r
      PROVE  Capturable(r[u], fc)
  <2>1. u \in 1 .. n \/ u = n + 1
    BY <1>4, <1>5
  <2>2. CASE u \in 1 .. n
    BY <1>2, <1>4, <2>2 DEF UpvaluesSound, Capturable
  <2>3. CASE u = n + 1
    BY <1>3, <2>3
  <2> QED BY <2>1, <2>2, <2>3
<1>7. UpvaluesSound(r, fc)
  BY <1>6 DEF UpvaluesSound, Capturable
<1> QED BY <1>7 DEF r

(* What CaptureIn leaves, of a compiler x that has only looked for a name.  *)
LEMMA CapturedSteady ==
  ASSUME NEW d, NEW x, NEW k, NEW up, Working(d), Same(d, x)
  PROVE  /\ Working(CaptureIn(x, k, up)) /\ CaptureIn(x, k, up).source = d.source
         /\ CaptureIn(x, k, up).hadError = x.hadError /\ CaptureIn(x, k, up).functions = d.functions
         /\ d.hadError => CaptureIn(x, k, up).hadError
<1> DEFINE y == AddUpvalue(x, k, up)
           T == Capturing(k + 1, UpvalueIndex(x, k, up))
<1>1. IsCompiler(x) /\ x.compilers # << >> /\ x.source = d.source /\ x.functions = d.functions
      /\ (d.hadError => x.hadError)
  BY DEF Working, Same
<1>2. OnlyAt(x, y, k)
  BY <1>1, AddUpvalueSame
<1>3. CaptureIn(x, k, up) = Then(y, <<T>>)
  BY DEF CaptureIn
<1> HIDE DEF y, T
<1>4. Working(y) /\ y.source = x.source /\ y.functions = x.functions /\ y.hadError = x.hadError
  <2>1. IsCompiler(y) /\ Len(y.compilers) = Len(x.compilers)
    BY <1>2 DEF OnlyAt, SameBut
  <2>2. IsSequence(y.compilers) /\ IsSequence(x.compilers)
    BY <1>1, <2>1 DEF IsCompiler
  <2>3. y.compilers # << >>
    BY <1>1, <2>1, <2>2, SequenceFacts
  <2> QED BY <1>2, <2>1, <2>3 DEF OnlyAt, SameBut, Working
<1>5. Inward(y, Then(y, <<T>>)) /\ Working(Then(y, <<T>>)) /\ Then(y, <<T>>).hadError = y.hadError
  BY <1>4, ThenInward
<1> QED BY <1>1, <1>3, <1>4, <1>5 DEF Inward

CapturedWell(d, k, up, e) ==
  LET n == Len(d.compilers)
  IN  /\ Len(e.compilers) = n /\ Working(e) /\ e.functions = d.functions
      /\ \A j \in 1 .. n - 1 : SameButUpvalues(d.compilers[j], e.compilers[j])
      /\ \E f, j : /\ SameButUpvalues(Inner(d), f) /\ SameButTodo(f, Inner(e))
                   /\ IsFunctionCompiler(Inner(e)) /\ Inner(e).lines = f.lines
                   /\ Inner(e).todo = Append(f.todo, Capturing(k + 1, j))
                   /\ IndexOf(j, e.compilers[k].upvalues)
      /\ \A j \in 1 .. n : \/ e.compilers[j].upvalues = d.compilers[j].upvalues
                           \/ /\ j = k
                              /\ e.compilers[j].upvalues = Append(d.compilers[j].upvalues, up)

LEMMA CapturedFields ==
  ASSUME NEW d, NEW x, NEW k, NEW up, NEW e, Working(d), Same(d, x), k \in 2 .. Len(d.compilers),
         \A j \in 1 .. Len(d.compilers) : IsFunctionCompiler(d.compilers[j]),
         e = CaptureIn(x, k, up)
  PROVE  CapturedWell(d, k, up, e)
<1> DEFINE n == Len(d.compilers)
           y == AddUpvalue(x, k, up)
           i == UpvalueIndex(x, k, up)
           T == Capturing(k + 1, i)
<1>1. /\ IsCompiler(x) /\ x.compilers = d.compilers /\ x.functions = d.functions
      /\ n \in Nat \ {0} /\ n \in 1 .. n /\ Inner(d) = d.compilers[n] /\ k \in 1 .. n
  BY InnerLast DEF Working, Same
<1>2. OnlyAt(x, y, k)
  BY <1>1, AddUpvalueSame
<1>3. GrowsBy(d.compilers[k], y.compilers[k], up)
  BY <1>1, AddUpvalueFields
<1>4. IndexOf(i, y.compilers[k].upvalues)
  BY <1>1, UpvalueIndexFacts
<1>5. e = Then(y, <<T>>)
  BY DEF CaptureIn
<1>14. T = Capturing(k + 1, i)
  OBVIOUS
<1> HIDE DEF y, T, i
<1>6. Working(e) /\ e.functions = d.functions
  BY CapturedSteady
<1>7. IsCompiler(y) /\ Len(y.compilers) = n /\ \A j \in 1 .. n : j # k => y.compilers[j] = d.compilers[j]
  BY <1>1, <1>2 DEF OnlyAt, SameBut
<1>8. ASSUME NEW j \in 1 .. n
      PROVE  GrowsBy(d.compilers[j], y.compilers[j], up) /\ (j # k => y.compilers[j] = d.compilers[j])
  <2>1. CASE j = k
    BY <1>3, <2>1
  <2>2. CASE j # k
    <3>1. SameButUpvalues(d.compilers[j], d.compilers[j])
      BY UpvaluesSame
    <3> QED BY <1>7, <2>2, <3>1 DEF GrowsBy
  <2> QED BY <2>1, <2>2
<1>9. Working(y) /\ Inner(y) = y.compilers[n]
  <2>1. IsSequence(y.compilers)
    BY <1>7 DEF IsCompiler
  <2>2. y.compilers # << >>
    BY <1>1, <1>7, <2>1, SequenceFacts
  <2> QED BY <1>7, <2>2, InnerLast DEF Working
<1> DEFINE f == Inner(y)
<1>10. SameButUpvalues(Inner(d), f) /\ IsFunctionCompiler(f)
  BY <1>1, <1>8, <1>9 DEF GrowsBy, SameButUpvalues
<1>11. /\ Len(e.compilers) = n /\ SameButTodo(f, Inner(e))
       /\ \A j \in 1 .. n - 1 : e.compilers[j] = y.compilers[j]
       /\ Inner(e) = e.compilers[n]
  <2>1. Inward(y, e)
    BY <1>5, <1>9, ThenInward
  <2>2. SameButTodo(Inner(y), Inner(Then(y, <<T>>)))
    BY <1>9, <1>10, NextPushed
  <2> QED BY <1>5, <1>6, <1>7, <2>1, <2>2, InnerLast DEF Inward
<1>12. IsFunctionCompiler(Inner(e)) /\ Inner(e).lines = f.lines /\ Inner(e).todo = Append(f.todo, T)
  <2> DEFINE g == [f EXCEPT !.todo = f.todo \o Reverse(<<T>>)]
             todo == f.todo
             todo2 == Append(todo, T)
  <2>1. Inner(e) = g
    BY <1>5, <1>9, WithFacts DEF Then
  <2>2. IsSequence(todo)
    BY <1>10 DEF IsFunctionCompiler
  <2> HIDE DEF todo
  <2>3. todo \o <<T>> = todo2 /\ Reverse(<<T>>) = <<T>>
    BY <2>2, PushedTasks, ReversedTasks
  <2>4. IsSequence(todo2)
    BY <2>2, SequenceAppend
  <2>5. g = [f EXCEPT !.todo = todo2]
    BY <2>3 DEF todo
  <2> HIDE DEF f, g, todo2
  <2>6. IsFunctionCompiler(g) /\ g.todo = todo2
    BY <1>10, <2>4, <2>5, TodoSet
  <2>7. g.lines = f.lines
    BY <1>10, <2>5 DEF IsFunctionCompiler
  <2> QED BY <2>1, <2>6, <2>7 DEF todo2, todo
<1>13. ASSUME NEW j \in 1 .. n
       PROVE  e.compilers[j].upvalues = y.compilers[j].upvalues
  <2>1. j = n \/ j \in 1 .. n - 1
    BY <1>1, LastOrBefore, Zenon
  <2> QED BY <1>9, <1>11, <2>1 DEF SameButTodo
<1>15. IndexOf(i, e.compilers[k].upvalues)
  BY <1>1, <1>4, <1>13
<1>16. \A j \in 1 .. n - 1 : SameButUpvalues(d.compilers[j], e.compilers[j])
  <2>1. \A j \in 1 .. n - 1 : j \in 1 .. n
    BY <1>1
  <2> QED BY <1>8, <1>11, <2>1 DEF GrowsBy
<1>17. \A j \in 1 .. n : \/ e.compilers[j].upvalues = d.compilers[j].upvalues
                         \/ /\ j = k
                            /\ e.compilers[j].upvalues = Append(d.compilers[j].upvalues, up)
  BY <1>8, <1>13 DEF GrowsBy
<1>18. /\ SameButUpvalues(Inner(d), f) /\ SameButTodo(f, Inner(e))
       /\ IsFunctionCompiler(Inner(e)) /\ Inner(e).lines = f.lines
       /\ Inner(e).todo = Append(f.todo, Capturing(k + 1, i))
       /\ IndexOf(i, e.compilers[k].upvalues)
  BY <1>10, <1>11, <1>12, <1>14, <1>15
<1> HIDE DEF n, f
<1>19. Len(e.compilers) = n
  BY <1>11
<1> QED BY <1>6, <1>16, <1>17, <1>18, <1>19 DEF CapturedWell, n

LEMMA CapturedSound ==
  ASSUME NEW b, NEW ws, NEW d, NEW t, NEW w, NEW in, NEW out, NEW x, NEW k, NEW up, NEW e,
         Sound(b, ws), Begun(b, ws, d, t, w, in, out),
         t.do \in {"ResolveUpvalue", "CaptureUpvalue"}, Same(d, x),
         k \in 2 .. Len(d.compilers), Capturable(up, d.compilers[k - 1]), e = CaptureIn(x, k, up)
  PROVE  Sound(e, History(ws, b, e))
<1> DEFINE n == Len(b.compilers)
           fns == b.functions
           v == [ws EXCEPT !.open[n] = w]
<1>1. /\ Working(b) /\ Working(d) /\ Inward(b, d) /\ w = ws.open[n] /\ t = Last(Inner(b).todo)
      /\ SameButTodo(Inner(b), Inner(d)) /\ IsFunctionCompiler(Inner(d))
      /\ IsFunctionCompiler(Inner(b)) /\ Fits(t, in, out) /\ out.depth <= in.depth
      /\ Turn(d, t, w, in, out)
  BY DEF Begun, Bottom
<1>2. /\ n \in Nat \ {0} /\ n \in 1 .. n /\ Inner(b) = b.compilers[n] /\ Len(d.compilers) = n
      /\ d.functions = fns /\ Inner(d) = d.compilers[n] /\ k \in 1 .. n
      /\ \A j \in 1 .. n - 1 : d.compilers[j] = b.compilers[j]
  BY <1>1, InnerLast DEF Inward
<1>3. /\ ws = [open |-> ws.open, done |-> ws.done] /\ IsSequence(ws.open) /\ Len(ws.open) = n
      /\ FunctionsSound(fns, ws.done)
      /\ \A j \in 1 .. n : Level(fns, b.compilers[j], ws.open[j]) /\ Nested(b, j)
  BY DEF Sound
<1>4. AwaitedBy(t) = {} /\ Values(in, 0) /\ out = Grown(in, 1)
  BY <1>1 DEF AwaitedBy, Fits
<1>5. Running(fns, Inner(d), w, {}, in, out) /\ Inner(d).todo # << >>
  <2>1. Runs(d, t, w, d, {}, in, out) /\ ~d.hadError /\ Window(d, t, w, d) = w
    <3>1. Runs(d, t, w, d, AwaitedBy(t), in, out) /\ ~d.hadError /\ Window(d, t, w, d) = w
      BY <1>1, TurnFacts, Zenon
    <3> QED BY <1>4, <3>1, Zenon
  <2> QED BY <1>2, <2>1 DEF Runs
<1>6. \A j \in 1 .. n : IsFunctionCompiler(d.compilers[j])
  <2> SUFFICES ASSUME NEW j \in 1 .. n
               PROVE  IsFunctionCompiler(d.compilers[j])
    OBVIOUS
  <2>1. j = n \/ j \in 1 .. n - 1
    BY <1>2, LastOrBefore, Zenon
  <2>2. CASE j \in 1 .. n - 1
    <3>1. IsFunctionCompiler(b.compilers[j])
      BY <1>3 DEF Level
    <3> QED BY <1>2, <2>2, <3>1
  <2> QED BY <1>1, <1>2, <2>1, <2>2
<1>7. CapturedWell(d, k, up, e)
  <2>1. k \in 2 .. Len(d.compilers)
    OBVIOUS
  <2>2. \A j \in 1 .. Len(d.compilers) : IsFunctionCompiler(d.compilers[j])
    BY <1>2, <1>6
  <2> QED BY <1>1, <2>1, <2>2, CapturedFields
<1>8. PICK f, i : /\ SameButUpvalues(Inner(d), f) /\ SameButTodo(f, Inner(e))
                  /\ IsFunctionCompiler(Inner(e)) /\ Inner(e).lines = f.lines
                  /\ Inner(e).todo = Append(f.todo, Capturing(k + 1, i))
                  /\ IndexOf(i, e.compilers[k].upvalues)
  BY <1>7 DEF CapturedWell
<1>9. /\ Len(e.compilers) = n /\ Working(e) /\ e.functions = fns /\ Inner(e) = e.compilers[n]
      /\ \A j \in 1 .. n - 1 : SameButUpvalues(b.compilers[j], e.compilers[j])
      /\ \A j \in 1 .. n : \/ e.compilers[j].upvalues = d.compilers[j].upvalues
                           \/ /\ j = k
                              /\ e.compilers[j].upvalues = Append(d.compilers[j].upvalues, up)
  BY <1>2, <1>7, InnerLast DEF CapturedWell
<1> DEFINE T == Capturing(k + 1, i)
<1>10. T.do = "CaptureUpvalue" /\ T.args[1] = k + 1 /\ T.args[2] = i
  BY DEF Capturing, Task
<1>11. Level(fns, Inner(e), w)
  <2>1. Running(fns, f, w, {}, in, out)
    BY <1>5, <1>8, RunningCaptures
  <2>2. T.do \notin Bottom /\ AwaitedBy(T) = {} /\ Fits(T, in, out) /\ Finds(f, w, T, in, out)
    BY <1>4, <1>10 DEF Bottom, AwaitedBy, Fits, Finds
  <2>3. f.todo # << >>
    BY <1>5, <1>8 DEF SameButUpvalues
  <2>4. Inner(e).todo = Append(f.todo, T)
    BY <1>8
  <2> HIDE DEF T, fns
  <2> QED BY <1>1, <1>8, <2>1, <2>2, <2>3, <2>4, ImmediateLevel
<1>12. NextFinds(e)
  <2>1. IsSequence(f.todo)
    BY <1>8 DEF SameButUpvalues, IsFunctionCompiler
  <2>2. Last(Inner(e).todo) = T
    BY <1>8, <2>1, AppendEnds
  <2> HIDE DEF T
  <2>3. k + 1 \in 2 .. n + 1 /\ k + 1 - 1 = k
    BY <1>2
  <2>4. i \in 0 .. UINT8_MAX /\ i < Len(e.compilers[k].upvalues)
    BY <1>8 DEF IndexOf
  <2>5. e.compilers[T.args[1] - 1] = e.compilers[k]
    BY <1>10, <2>3
  <2> QED BY <1>9, <1>10, <2>2, <2>3, <2>4, <2>5 DEF NextFinds
<1>13. History(ws, b, e) = v
  <2>1. Recorded(w, Inner(b), t, Inner(e).code, Inner(e).arity) = w
    <3>1. Recorded(w, Inner(d), t, Inner(d).code, Inner(d).arity) = w
      BY <1>5, RecordedSame
    <3>2. Inner(e).code = Inner(d).code /\ Inner(e).arity = Inner(d).arity
      BY <1>8 DEF SameButTodo, SameButUpvalues
    <3>3. Inner(b).code = Inner(d).code /\ Live(Inner(b)) = Live(Inner(d))
      BY <1>1 DEF SameButTodo, Live
    <3> QED BY <3>1, <3>2, <3>3 DEF Recorded
  <2>2. History(ws, b, e) = [ws EXCEPT !.open[n] = Recorded(ws.open[n], Inner(b), Last(Inner(b).todo),
                                                           Inner(e).code, Inner(e).arity)]
    BY <1>2, <1>9 DEF History
  <2> QED BY <1>1, <2>1, <2>2
<1>14. /\ v = [open |-> v.open, done |-> v.done] /\ v.done = ws.done
       /\ IsSequence(v.open) /\ Len(v.open) = n
       /\ \A j \in 1 .. n : v.open[j] = IF j = n THEN w ELSE ws.open[j]
  <2>1. n \in 1 .. Len(ws.open)
    BY <1>2, <1>3
  <2>2. OpenWith(ws, v, n, w)
    BY <1>3, <2>1, OpenSet
  <2> HIDE DEF v
  <2> QED BY <1>3, <2>2 DEF OpenWith
<1> HIDE DEF v
<1>15. ASSUME NEW j \in 1 .. n
       PROVE  Level(fns, e.compilers[j], v.open[j])
  <2>1. CASE j = n
    BY <1>9, <1>11, <1>14, <2>1
  <2>2. CASE j # n
    <3>1. j \in 1 .. n - 1 /\ j < Len(b.compilers)
      BY <1>2, <2>2, LastOrBefore, Zenon
    <3>2. Last(b.compilers[j].todo).do = "Closure"
      BY <1>3, <3>1 DEF Nested
    <3>3. Level(fns, b.compilers[j], ws.open[j]) /\ SameButUpvalues(b.compilers[j], e.compilers[j])
      BY <1>3, <1>9, <3>1
    <3>4. Level(fns, e.compilers[j], ws.open[j])
      BY <3>2, <3>3, LevelCaptures
    <3> QED BY <1>14, <2>2, <3>4
  <2> QED BY <2>1, <2>2
<1>16. ASSUME NEW j \in 1 .. n
       PROVE  /\ e.compilers[j].type = b.compilers[j].type
              /\ e.compilers[j].arity = b.compilers[j].arity
              /\ d.compilers[j].upvalues = b.compilers[j].upvalues
              /\ IsFunctionCompiler(b.compilers[j])
              /\ j # n => e.compilers[j].todo = b.compilers[j].todo
  <2>1. CASE j = n
    <3>1. Inner(e).type = Inner(b).type /\ Inner(e).arity = Inner(b).arity
          /\ Inner(d).upvalues = Inner(b).upvalues
      BY <1>1, <1>8, Zenon DEF SameButTodo, SameButUpvalues
    <3>2. e.compilers[n] = Inner(e) /\ d.compilers[n] = Inner(d) /\ b.compilers[n] = Inner(b)
      BY <1>2, <1>9, Zenon
    <3> QED BY <1>1, <2>1, <3>1, <3>2, Zenon
  <2>2. CASE j # n
    <3>1. j \in 1 .. n - 1
      BY <1>2, <2>2, LastOrBefore, Zenon
    <3>2. SameButUpvalues(b.compilers[j], e.compilers[j]) /\ d.compilers[j] = b.compilers[j]
      BY <1>2, <1>9, <3>1
    <3>3. IsFunctionCompiler(b.compilers[j])
      BY <1>3 DEF Level
    <3> QED BY <3>2, <3>3 DEF SameButUpvalues
  <2> QED BY <2>1, <2>2
<1>17. ASSUME NEW j \in 1 .. n
       PROVE  Nested(e, j)
  <2>1. Nested(b, j)
    BY <1>3
  <2>2. j < n => Last(e.compilers[j].todo).do = "Closure"
    BY <1>16, <2>1 DEF Nested
  <2>3. CASE j = 1
    <3>1. j # k
      BY <2>3
    <3>2. e.compilers[j].upvalues = b.compilers[j].upvalues
      BY <1>9, <1>16, <3>1
    <3> QED BY <1>9, <1>16, <2>1, <2>2, <2>3, <3>2 DEF Nested
  <2>4. CASE j # 1
    <3> DEFINE g == b.compilers[j - 1]
               g2 == e.compilers[j - 1]
               ups == b.compilers[j].upvalues
    <3>1. j - 1 \in 1 .. n - 1
      BY <1>2, <2>4
    <3>2. SameButUpvalues(g, g2) /\ d.compilers[j - 1] = g
      BY <1>2, <1>9, <3>1
    <3>3. UpvaluesSound(ups, g)
      BY <2>1, <2>4 DEF Nested
    <3>4. IsSequence(ups)
      BY <1>16 DEF IsFunctionCompiler
    <3>5. j = k => Capturable(up, g)
      BY <3>2
    <3> HIDE DEF g, g2, ups
    <3>6. UpvaluesSound(ups, g2)
      BY <3>2, <3>3, UpvaluesKept
    <3>7. j = k => UpvaluesSound(Append(ups, up), g2)
      <4>1. j = k => UpvaluesSound(Append(ups, up), g)
        BY <3>3, <3>4, <3>5, UpvaluesAppended
      <4> QED BY <3>2, <4>1, UpvaluesKept
    <3>8. UpvaluesSound(e.compilers[j].upvalues, g2)
      <4>1. \/ e.compilers[j].upvalues = ups
            \/ j = k /\ e.compilers[j].upvalues = Append(ups, up)
        BY <1>9, <1>16 DEF ups
      <4> QED BY <3>6, <3>7, <4>1
    <3> QED BY <1>9, <1>16, <2>1, <2>2, <2>4, <3>8 DEF Nested, g2
  <2> QED BY <2>3, <2>4
<1>18. Sound(e, v)
  <2>1. e.compilers # << >>
    BY <1>9 DEF Working
  <2> QED BY <1>3, <1>9, <1>12, <1>14, <1>15, <1>17, <2>1 DEF Sound
<1> QED BY <1>13, <1>18

LEMMA BegunKeeps ==
  ASSUME NEW b, NEW ws, NEW d, NEW t, NEW w, NEW in, NEW out, Begun(b, ws, d, t, w, in, out)
  PROVE  /\ Previous(d) = Previous(b) /\ Len(d.compilers) = Len(b.compilers)
         /\ t = Last(Inner(b).todo) /\ d.functions = b.functions
         /\ \A j \in 1 .. Len(b.compilers) :
              d.compilers[j].locals = b.compilers[j].locals /\ d.compilers[j].upvalues = b.compilers[j].upvalues
<1> DEFINE n == Len(b.compilers)
<1>1. Inward(b, d) /\ Working(b) /\ SameButTodo(Inner(b), Inner(d)) /\ d.previous = b.previous
      /\ t = Last(Inner(b).todo)
  BY DEF Begun
<1>2. n \in Nat \ {0} /\ Inner(b) = b.compilers[n] /\ Inner(d) = d.compilers[Len(d.compilers)]
  BY <1>1, InnerLast DEF Inward
<1>3. /\ Len(d.compilers) = n /\ d.functions = b.functions /\ d.source = b.source
      /\ \A j \in 1 .. n - 1 : d.compilers[j] = b.compilers[j]
  BY <1>1 DEF Inward
<1>4. Previous(d) = Previous(b)
  BY <1>1, <1>3 DEF Previous, TokenAt
<1>5. \A j \in 1 .. n : j = n \/ j \in 1 .. n - 1
  BY <1>2, LastOrBefore, Zenon
<1>6. \A j \in 1 .. n : d.compilers[j].locals = b.compilers[j].locals
                        /\ d.compilers[j].upvalues = b.compilers[j].upvalues
  BY <1>1, <1>2, <1>3, <1>5 DEF SameButTodo
<1> QED BY <1>1, <1>3, <1>4, <1>6

(* The locals of the open functions have indices that are bytes.           *)
Bounded(b) == \A j \in 1 .. Len(b.compilers) : Len(b.compilers[j].locals) <= UINT8_MAX + 1

LEMMA ResolveUpvalueSound ==
  ASSUME NEW b, NEW ws, NEW d, NEW t, NEW w, NEW in, NEW out, NEW e, Sound(b, ws), Bounded(b),
         Begun(b, ws, d, t, w, in, out), t.do = "ResolveUpvalue", IsName(Previous(b).lexeme),
         e = ResolveUpvalue(d, t.args[1]), ~e.hadError
  PROVE  Sound(e, History(ws, b, e))
<1> DEFINE k == t.args[1]
           name == Previous(d).lexeme
           fc == d.compilers[k - 1]
           a == ResolveLocal(d, k - 1, name)
           x == CheckLocal(d, k - 1, name)
<1>1. /\ Turn(d, t, w, in, out) /\ Working(b) /\ Working(d) /\ IsCompiler(d) /\ b.compilers # << >>
      /\ Inward(b, d)
  BY DEF Begun, Bottom, Working
<1>2. /\ Previous(d) = Previous(b) /\ Len(d.compilers) = Len(b.compilers)
      /\ t = Last(Inner(b).todo)
      /\ \A j \in 1 .. Len(b.compilers) : d.compilers[j].locals = b.compilers[j].locals
  BY BegunKeeps
<1>3. NextFinds(b)
  BY <1>1 DEF Sound
<1>4. Previous(d).type = "IDENTIFIER" /\ k \in 1 .. Len(d.compilers)
  BY <1>2, <1>3 DEF NextFinds
<1>5. Len(d.compilers) \in Nat \ {0}
  BY <1>1, InnerLast
<1>6. IsName(name)
  BY <1>2
<1>7. k # 1 => IsFunctionCompiler(fc) /\ LocalsSound(fc) /\ Len(fc.locals) <= UINT8_MAX + 1
  <2> SUFFICES ASSUME k # 1
               PROVE  IsFunctionCompiler(fc) /\ LocalsSound(fc) /\ Len(fc.locals) <= UINT8_MAX + 1
    OBVIOUS
  <2> DEFINE j == k - 1
             g == b.compilers[j]
  <2>1. j \in 1 .. Len(b.compilers) - 1 /\ j \in 1 .. Len(b.compilers)
    BY <1>2, <1>4, <1>5
  <2>2. fc = g
    BY <1>1, <2>1 DEF Inward
  <2>3. Level(b.functions, g, ws.open[j])
    BY <2>1 DEF Sound
  <2>4. Len(g.locals) <= UINT8_MAX + 1
    BY <2>1 DEF Bounded
  <2> DEFINE v == ws.open[j]
             fns == b.functions
  <2>9. Level(fns, g, v)
    BY <2>3
  <2> HIDE DEF g, v, j, fns
  <2>5. IsFunctionCompiler(g) /\ g.todo # << >>
    BY <2>9 DEF Level
  <2>6. PICK i1, o1 \in Situations : Running(fns, Popped(g), v, AwaitedBy(Last(g.todo)), i1, o1)
    BY <2>9, RunningOfLevel
  <2>7. LocalsSound(Popped(g))
    BY <2>6, RunningStands DEF Standing
  <2>8. Popped(g).locals = g.locals
    BY <2>5, PoppedFacts DEF SameButTodo
  <2>10. LocalsSound(g)
    BY <2>7, <2>8 DEF LocalsSound
  <2> QED BY <2>2, <2>4, <2>5, <2>10
<1>8. CASE k # 1 => a = UINT8_MAX
  <2>1. k # 1 => /\ IsFunctionCompiler(fc) /\ LocalsSound(fc) /\ Len(fc.locals) <= UINT8_MAX + 1
                 /\ ResolveLocal(d, k - 1, name) = UINT8_MAX
    BY <1>7, <1>8
  <2>2. Arrives(d, t, w, e)
    <3> HIDE DEF fc, name, k, a
    <3>1. name = Previous(d).lexeme /\ fc = d.compilers[k - 1] /\ e = ResolveUpvalue(d, k)
      BY DEF name, fc, k
    <3> QED BY <1>1, <1>4, <1>6, <2>1, <3>1, ResolveUpvalueArrives
  <2> QED BY <2>2, InwardSound
<1>9. CASE k # 1 /\ a # UINT8_MAX
  <2> DEFINE up == NewUpvalue(a, TRUE)
  <2>1. e = CaptureIn(x, k, up)
    BY <1>9 DEF ResolveUpvalue
  <2>2. Resolved(d, x, fc, a)
    <3> DEFINE m == k - 1
    <3>1. /\ IsCompiler(d) /\ fc = d.compilers[m] /\ IsFunctionCompiler(fc) /\ LocalsSound(fc)
          /\ Len(fc.locals) <= UINT8_MAX + 1 /\ a = ResolveLocal(d, m, name)
          /\ x = CheckLocal(d, m, name)
      BY <1>1, <1>7, <1>9
    <3> HIDE DEF fc, name, a, x, m
    <3> QED BY <1>6, <3>1, ResolveFacts
  <2>3. Same(d, x) /\ a \in 0 .. UINT8_MAX
    BY <2>2 DEF Resolved
  <2>4. ~x.hadError
    <3> HIDE DEF x, up, k
    <3>1. CaptureIn(x, k, up).hadError = x.hadError
      BY <1>1, <2>3, CapturedSteady
    <3> QED BY <2>1, <3>1
  <2>5. a \in 1 .. Live(fc) - 1
    BY <1>9, <2>2, <2>4 DEF Resolved
  <2>6. Capturable(up, fc)
    <3>1. up.index = a /\ up.isLocal = TRUE
      BY DEF NewUpvalue
    <3> HIDE DEF up, a, fc
    <3> QED BY <2>3, <2>5, <3>1 DEF Capturable
  <2>7. k \in 2 .. Len(d.compilers)
    BY <1>4, <1>9
  <2> HIDE DEF x, up, k
  <2>8. t.do \in {"ResolveUpvalue", "CaptureUpvalue"}
    OBVIOUS
  <2> QED BY <2>1, <2>3, <2>6, <2>7, <2>8, CapturedSound
<1> QED BY <1>8, <1>9

LEMMA CaptureUpvalueSound ==
  ASSUME NEW b, NEW ws, NEW d, NEW t, NEW w, NEW in, NEW out, NEW e, Sound(b, ws),
         Begun(b, ws, d, t, w, in, out), t.do = "CaptureUpvalue",
         e = CaptureUpvalue(d, t.args[1], t.args[2]), ~e.hadError
  PROVE  Sound(e, History(ws, b, e))
<1> DEFINE k == t.args[1]
           a == t.args[2]
<1>1. /\ Turn(d, t, w, in, out) /\ Working(b) /\ Working(d) /\ IsCompiler(d) /\ b.compilers # << >>
      /\ Inward(b, d)
  BY DEF Begun, Bottom, Working
<1>2. /\ Len(d.compilers) = Len(b.compilers) /\ t = Last(Inner(b).todo)
      /\ \A j \in 1 .. Len(b.compilers) : d.compilers[j].upvalues = b.compilers[j].upvalues
  BY BegunKeeps
<1>3. NextFinds(b)
  BY <1>1 DEF Sound
<1>4. Len(d.compilers) \in Nat \ {0}
  BY <1>1, InnerLast
<1>5. /\ k \in 2 .. Len(d.compilers) + 1
      /\ a # UINT8_MAX => a \in 0 .. UINT8_MAX /\ a < Len(d.compilers[k - 1].upvalues)
  <2>1. /\ k \in 2 .. Len(b.compilers) + 1
        /\ a # UINT8_MAX => a \in 0 .. UINT8_MAX /\ a < Len(b.compilers[k - 1].upvalues)
    BY <1>2, <1>3 DEF NextFinds
  <2>2. k - 1 \in 1 .. Len(b.compilers)
    BY <1>2, <1>4, <2>1
  <2> QED BY <1>2, <2>1, <2>2
<1>6. CASE a = UINT8_MAX \/ k = Len(d.compilers) + 1
  <2>1. Arrives(d, t, w, e)
    BY <1>1, <1>5, <1>6, CaptureUpvalueArrives
  <2> QED BY <2>1, InwardSound
<1>7. CASE a # UINT8_MAX /\ k # Len(d.compilers) + 1
  <2> DEFINE up == NewUpvalue(a, FALSE)
             fc == d.compilers[k - 1]
  <2>1. k \in 2 .. Len(d.compilers) /\ ~(k > Len(d.compilers)) /\ k - 1 \in 1 .. Len(d.compilers) - 1
    BY <1>4, <1>5, <1>7
  <2>2. e = CaptureIn(d, k, up)
    BY <1>7, <2>1 DEF CaptureUpvalue
  <2>3. Same(d, d)
    BY <1>1 DEF Same
  <2>4. Len(fc.upvalues) \in Nat
    <3>1. fc = b.compilers[k - 1] /\ k - 1 \in 1 .. Len(b.compilers)
      BY <1>1, <1>2, <1>4, <2>1, SMTT(30) DEF Inward
    <3>2. IsFunctionCompiler(b.compilers[k - 1])
      BY <3>1 DEF Sound, Level
    <3> QED BY <3>1, <3>2, SequenceFacts DEF IsFunctionCompiler
  <2>5. Capturable(up, fc)
    <3>1. up.index = a /\ up.isLocal = FALSE
      BY DEF NewUpvalue
    <3>2. a \in 0 .. UINT8_MAX /\ a < Len(fc.upvalues)
      BY <1>5, <1>7
    <3>4. UINT8_MAX \in Nat
      BY ONLY UInt8Assumption
    <3> HIDE DEF up, a, fc
    <3>3. a \in 0 .. Len(fc.upvalues) - 1
      BY <2>4, <3>2, <3>4
    <3> QED BY <3>1, <3>2, <3>3 DEF Capturable
  <2> HIDE DEF up, k
  <2>6. t.do \in {"ResolveUpvalue", "CaptureUpvalue"}
    OBVIOUS
  <2> QED BY <2>1, <2>2, <2>3, <2>5, <2>6, CapturedSound
<1> QED BY <1>6, <1>7

(* A function ends.                                                        *)
LEMMA LevelGrows ==
  ASSUME NEW fns, NEW fc, NEW w, NEW fns2, Level(fns, fc, w),
         \A f \in DOMAIN fns : f \in DOMAIN fns2 /\ fns2[f] = fns[f]
  PROVE  Level(fns2, fc, w)
<1> DEFINE x == Popped(fc)
           t == Last(fc.todo)
<1>1. PICK in, out \in Situations : /\ Running(fns, x, w, AwaitedBy(t), in, out)
                                    /\ Placed(x, w, t, Len(x.todo) + 1, in, out)
  BY RunningOfLevel
<1>2. IsFunctionCompiler(fc) /\ fc.todo # << >>
  BY DEF Level
<1> HIDE DEF x
<1>3. /\ IsFunctionCompiler(x) /\ LocalsSound(x) /\ At(x, w.now, in) /\ w.now \in Nat /\ Live(x) \in Nat
      /\ FunctionsKnown(fns, Finished(x)) /\ Len(x.upvalues) \in Nat
  BY <1>1, RunningStands DEF Standing, Running, Ready, ChunkSound
<1>4. FunctionsKnown(fns2, Finished(x))
  BY <1>3 DEF FunctionsKnown
<1>5. Lesser(Live(x), w.now) >= Lesser(Live(x), w.now) /\ Len(x.upvalues) <= Len(x.upvalues)
  <2>1. Lesser(Live(x), w.now) \in Nat
    BY <1>3, LesserFacts
  <2> QED BY <1>3, <2>1
<1>6. Running(fns2, x, w, AwaitedBy(t), in, out)
  <2> HIDE DEF t
  <2> QED BY <1>1, <1>3, <1>4, <1>5, RunningGrows
<1>7. Running(fns2, Popped(fc), w, AwaitedBy(Last(fc.todo)), in, out)
  BY <1>6 DEF x
<1>8. Placed(Popped(fc), w, Last(fc.todo), Len(Popped(fc).todo) + 1, in, out)
  BY <1>1 DEF x
<1> QED BY <1>2, <1>7, <1>8, LevelOfBefore

LEMMA FunctionEnds ==
  ASSUME NEW fns, NEW fc, NEW w, NEW in, NEW out, NEW t, NEW g, NEW d,
         Running(fns, fc, w, {}, in, out), fc.todo = << >>, t.do = "Finish", Fits(t, in, out),
         SameButCode(fc, g), g.code = fc.code \o <<OP_RETURN>>,
         d.heights = Heights(fc, w), d.locals = Covered(fc, w)
  PROVE  FunctionSound(fns, Finished(g), d)
<1> DEFINE n == Len(fc.code)
           H == Heights(fc, w)
           L == Covered(fc, w)
           F == Finished(fc)
           F2 == Finished(g)
           bytes == <<OP_RETURN>>
<1>1. Standing(fc, w, in) /\ Windowed(fc, w)
  BY RunningStands
<1>2. ChunkSound(fns, F, H, L, {})
  <2>1. Awaited(fc.todo) \cup {} = {}
    BY DEF Awaited
  <2> QED BY <2>1 DEF Running, Ready
<1>3. n \in Nat /\ H[n] = w.now /\ IsSequence(fc.code) /\ Len(fc.upvalues) \in Nat
  BY <1>1 DEF Windowed, Standing, IsFunctionCompiler
<1>4. w.now >= 2
  <2>1. in.kind = "exact" /\ in.live = in.locals /\ in.height = in.locals + 1
    BY DEF Fits
  <2>2. w.now = in.height /\ Live(fc) >= 1 /\ in.live = Live(fc) /\ Live(fc) \in Nat
    BY <1>1, <2>1 DEF Standing
  <2> QED BY <2>1, <2>2
<1>5. Len(g.code) = n + 1 /\ g.code[n + 1] = OP_RETURN /\ \A i \in 1 .. n : g.code[i] = fc.code[i]
  <2> DEFINE s == fc.code
  <2>1. IsSequence(s) /\ IsSequence(bytes) /\ Len(bytes) = 1 /\ bytes[1] = OP_RETURN /\ g.code = s \o bytes
    BY <1>3, ShortSequences
  <2> HIDE DEF s, bytes
  <2>2. Len(s \o bytes) = Len(s) + Len(bytes)
    BY <2>1, SequenceConcat
  <2>3. \A i \in 1 .. Len(s) : (s \o bytes)[i] = s[i]
    BY <2>1, SequenceConcat
  <2>4. s \o bytes = Append(s, OP_RETURN)
    BY <2>1, PushedTasks DEF bytes
  <2>5. Append(s, OP_RETURN)[Len(s) + 1] = OP_RETURN
    BY <2>1, SequenceAppend
  <2>6. (s \o bytes)[Len(s) + 1] = OP_RETURN
    BY <2>4, <2>5
  <2> QED BY <2>1, <2>2, <2>3, <2>6 DEF s
<1>6. /\ F.code = fc.code /\ F.constants = fc.constants /\ F.arity = fc.arity
      /\ F.upvalueCount = Len(fc.upvalues) /\ F2.code = g.code /\ F2.constants = g.constants
      /\ F2.arity = g.arity /\ F2.upvalueCount = Len(g.upvalues)
  BY FinishedFields
<1>7. g.arity = fc.arity /\ g.constants = fc.constants /\ g.upvalues = fc.upvalues
  BY DEF SameButCode
<1> HIDE DEF F, F2, H, L, bytes, n
<1>8. /\ Len(F.code) = n /\ Len(F2.code) = n + 1 /\ F2.code[n + 1] = OP_RETURN
      /\ F2.arity = F.arity /\ F2.constants = F.constants /\ F2.upvalueCount = F.upvalueCount
      /\ F.upvalueCount \in Nat /\ H[n] >= 2 /\ \A i \in 1 .. n : F2.code[i] = F.code[i]
  BY <1>3, <1>4, <1>5, <1>6, <1>7 DEF n
<1>9. Verified(fns, F2, H)
  BY <1>2, <1>3, <1>8, ChunkEnds
<1>10. KeepsLocals(fns, F2, H, L)
  BY <1>2, <1>3, <1>8, ChunkEnds
<1>11. \A o \in DOMAIN H : Finishes(fns, F2, H, L, o)
  BY <1>2, <1>3, <1>8, ChunkEnds
<1>12. FunctionsKnown(fns, F2)
  BY <1>2, <1>3, <1>8, ChunkEnds
<1>13. F2.upvalueCount \in Nat /\ Len(F2.code) \in Nat
  BY <1>3, <1>8
<1>14. d.heights = H /\ d.locals = L
  BY DEF H, L
<1>15. FunctionSound(fns, F2, d)
  BY <1>9, <1>10, <1>11, <1>12, <1>13, <1>14 DEF FunctionSound
<1> QED BY <1>15 DEF F2

LEMMA ScriptEnds ==
  ASSUME NEW fns, NEW fc, NEW w, NEW in, NEW out, NEW t, NEW g, NEW H,
         Running(fns, fc, w, {}, in, out), t.do = "Finish", Fits(t, in, out), Finds(fc, w, t, in, out),
         SameButCode(fc, g), g.code = fc.code \o <<OP_RETURN>>, H = Heights(fc, w),
         fc.type = "SCRIPT", fc.arity = 0, fc.upvalues = << >>
  PROVE  VerifiedScript(Finished(g), H)
<1> DEFINE n == Len(fc.code)
           F == Finished(g)
           bytes == <<OP_RETURN>>
<1>1. Standing(fc, w, in) /\ Windowed(fc, w)
  BY RunningStands
<1>2. n \in Nat /\ H[n] = w.now /\ IsSequence(fc.code) /\ DOMAIN H = DOMAIN w.heights \cup {n}
      /\ DOMAIN w.heights \subseteq 0 .. n - 1
  BY <1>1 DEF Windowed, Standing, IsFunctionCompiler, IsWindow
<1>3. in.depth = 0 /\ in.kind = "exact" /\ in.live = in.locals /\ in.height = in.locals + 1
  BY DEF Finds, Fits
<1>4. w.now = 2
  <2>1. /\ fc.scopeDepth = 0 /\ Live(fc) = Len(fc.locals) /\ w.now = Len(fc.locals) + 1
        /\ \A i \in 1 .. Live(fc) : fc.locals[i].depth <= fc.scopeDepth
    BY <1>3 DEF Running, At, Scoped
  <2>2. Len(fc.locals) \in Nat /\ Len(fc.locals) >= 1 /\ DOMAIN fc.locals = 1 .. Len(fc.locals)
    BY <1>1, LiveFacts DEF Standing
  <2>7. LocalsSound(fc)
    BY <1>1 DEF Standing
  <2>8. \A i \in DOMAIN fc.locals : fc.locals[i].depth \in 0 .. UINT8_MAX /\ (i > 1 => fc.locals[i].depth >= 1)
    BY <2>7 DEF LocalsSound
  <2>9. Len(fc.locals) > 1 => 2 \in DOMAIN fc.locals /\ 2 > 1 /\ 2 \in 1 .. Live(fc)
    BY <2>1, <2>2
  <2>3. Len(fc.locals) > 1 => fc.locals[2].depth >= 1
    BY <2>8, <2>9
  <2>4. Len(fc.locals) > 1 => fc.locals[2].depth <= 0 /\ fc.locals[2].depth \in 0 .. UINT8_MAX
    BY <2>1, <2>8, <2>9
  <2>5. UINT8_MAX \in Nat
    BY ONLY UInt8Assumption
  <2>6. ~(Len(fc.locals) > 1)
    BY <2>3, <2>4, <2>5
  <2> QED BY <2>1, <2>2, <2>6
<1>5. \A i \in 1 .. n : g.code[i] = fc.code[i]
  <2> DEFINE s == fc.code
  <2>1. IsSequence(s) /\ IsSequence(bytes) /\ g.code = s \o bytes
    BY <1>2, ShortSequences
  <2> HIDE DEF s, bytes
  <2>2. \A i \in 1 .. Len(s) : (s \o bytes)[i] = s[i]
    BY <2>1, SequenceConcat
  <2> QED BY <2>1, <2>2 DEF s
<1>6. F.arity = 0 /\ F.upvalueCount = 0 /\ F.code = g.code
  <2>1. F.arity = g.arity /\ F.upvalueCount = Len(g.upvalues) /\ F.code = g.code
    BY FinishedFields
  <2>2. g.arity = 0 /\ g.upvalues = << >>
    BY DEF SameButCode
  <2>3. Len(<< >>) = 0
    OBVIOUS
  <2> QED BY <2>1, <2>2, <2>3
<1>7. ASSUME NEW o \in DOMAIN H, OpAt(F, o) = OP_RETURN
      PROVE  H[o] = 2
  <2>1. CASE o = n
    BY <1>2, <1>4, <2>1
  <2>2. CASE o # n
    <3>1. o \in DOMAIN w.heights /\ o + 1 \in 1 .. n
      BY <1>2, <1>7, <2>2
    <3>2. OpAt(fc, o) # OP_RETURN
      BY <1>1, <3>1 DEF Standing, IsWindow
    <3>3. OpAt(F, o) = OpAt(fc, o)
      BY <1>5, <1>6, <3>1 DEF OpAt
    <3> QED BY <1>7, <3>2, <3>3
  <2> QED BY <2>1, <2>2
<1> HIDE DEF F
<1>8. VerifiedScript(F, H)
  BY <1>6, <1>7 DEF VerifiedScript
<1> QED BY <1>8 DEF F

EndsWell(d, e, F) ==
  /\ IsCompiler(e) /\ e.source = d.source /\ e.hadError = d.hadError
  /\ e.functions = Append(d.functions, F) /\ Len(e.compilers) = Len(d.compilers) - 1
  /\ \A j \in 1 .. Len(d.compilers) - 1 : e.compilers[j] = d.compilers[j]

LEMMA FinishFields ==
  ASSUME NEW d, Working(d)
  PROVE  EndsWell(d, Finish(d), Finished(Inner(Emit(d, <<OP_RETURN>>))))
<1> DEFINE m == Emit(d, <<OP_RETURN>>)
           F == Finished(Inner(m))
           cs == Front(m.compilers)
           fns == Append(m.functions, F)
           n == Len(d.compilers)
           e == [m EXCEPT !.functions = fns, !.compilers = cs]
<1>1. Finish(d) = e
  BY DEF Finish
<1>2. Inward(d, m) /\ m.hadError = d.hadError
  BY EmitInward, WithFacts DEF Emit
<1> HIDE DEF m, F
<1>3. /\ IsCompiler(m) /\ m.compilers # << >> /\ m.functions = d.functions /\ m.source = d.source
      /\ Len(m.compilers) = n /\ n \in Nat \ {0}
      /\ \A j \in 1 .. n - 1 : m.compilers[j] = d.compilers[j]
  BY <1>2, InnerLast DEF Inward, Working
<1>4. IsSequence(cs) /\ Len(cs) = n - 1 /\ \A j \in 1 .. n - 1 : cs[j] = m.compilers[j]
  <2> DEFINE s == m.compilers
  <2>1. IsSequence(s) /\ s # << >> /\ Len(s) = n
    BY <1>3 DEF IsCompiler
  <2> HIDE DEF s, n
  <2>2. IsSequence(Front(s))
    BY <2>1, SequenceFront
  <2>3. Len(Front(s)) = Len(s) - 1
    BY <2>1, SequenceFront
  <2>4. \A j \in 1 .. Len(s) - 1 : Front(s)[j] = s[j]
    BY <2>1, SequenceFront
  <2> QED BY <2>1, <2>2, <2>3, <2>4 DEF s
<1> HIDE DEF cs, fns
<1> DEFINE x == [m EXCEPT !.functions = fns]
<1>5. SameBut(x, e, cs)
  BY <1>3, <1>4, FunctionsSet
<1>6. x.source = m.source /\ x.functions = fns /\ x.hadError = m.hadError
  <2>1. m = [source |-> m.source, previous |-> m.previous, current |-> m.current,
             hadError |-> m.hadError, panicMode |-> m.panicMode, canAssign |-> m.canAssign,
             compilers |-> m.compilers, functions |-> m.functions, hangs |-> m.hangs]
    BY <1>3 DEF IsCompiler
  <2>2. x = [source |-> m.source, previous |-> m.previous, current |-> m.current,
             hadError |-> m.hadError, panicMode |-> m.panicMode, canAssign |-> m.canAssign,
             compilers |-> m.compilers, functions |-> fns, hangs |-> m.hangs]
    BY <2>1
  <2> HIDE DEF x
  <2> QED BY ONLY <2>2
<1> HIDE DEF x, e
<1>7. /\ IsCompiler(e) /\ e.compilers = cs /\ e.source = d.source /\ e.hadError = d.hadError
      /\ e.functions = fns
  BY <1>2, <1>3, <1>5, <1>6 DEF SameBut
<1>8. fns = Append(d.functions, F)
  BY <1>3 DEF fns
<1> HIDE DEF n
<1>9. EndsWell(d, e, F)
  BY <1>3, <1>4, <1>7, <1>8 DEF EndsWell, n
<1> QED BY <1>1, <1>9 DEF F, m

LEMMA FunctionsAppended ==
  ASSUME NEW fns, NEW done, NEW F, NEW x, FunctionsSound(fns, done), FunctionSound(fns, F, x)
  PROVE  FunctionsSound(Append(fns, F), Append(done, x))
<1> DEFINE n == Len(fns)
           fns2 == Append(fns, F)
           done2 == Append(done, x)
<1>1. IsSequence(fns) /\ IsSequence(done) /\ Len(done) = n /\ n \in Nat /\ DOMAIN fns = 1 .. n
      /\ \A f \in DOMAIN fns : FunctionSound(fns, fns[f], done[f])
  BY SequenceFacts DEF FunctionsSound
<1> HIDE DEF n
<1>2. IsSequence(fns2) /\ Len(fns2) = n + 1
  BY <1>1, SequenceAppend DEF n
<1>3. \A i \in 1 .. n : fns2[i] = fns[i]
  BY <1>1, SequenceAppend DEF n
<1>4. fns2[n + 1] = F
  BY <1>1, SequenceAppend DEF n
<1>5. IsSequence(done2)
  BY <1>1, SequenceAppend
<1>6. Len(done2) = n + 1
  BY <1>1, SequenceAppend
<1>7. \A i \in 1 .. n : done2[i] = done[i]
  BY <1>1, SequenceAppend
<1>8. done2[n + 1] = x
  BY <1>1, SequenceAppend
<1> HIDE DEF fns2, done2
<1>9. DOMAIN fns2 = 1 .. n + 1
  BY <1>2, SequenceFacts
<1>10. \A f \in DOMAIN fns : f \in DOMAIN fns2 /\ fns2[f] = fns[f]
  BY <1>1, <1>3, <1>9
<1>11. ASSUME NEW f \in DOMAIN fns2
       PROVE  FunctionSound(fns2, fns2[f], done2[f])
  <2>1. f \in 1 .. n \/ f = n + 1
    BY <1>1, <1>9
  <2>2. CASE f \in 1 .. n
    <3>1. FunctionSound(fns2, fns[f], done[f])
      BY <1>1, <1>10, <2>2, FunctionSoundKept
    <3> QED BY <1>3, <1>7, <2>2, <3>1
  <2>3. CASE f = n + 1
    <3>1. FunctionSound(fns2, F, x)
      BY <1>10, FunctionSoundKept
    <3> QED BY <1>4, <1>8, <2>3, <3>1
  <2> QED BY <2>1, <2>2, <2>3
<1>12. FunctionsSound(fns2, done2)
  BY <1>2, <1>5, <1>6, <1>11 DEF FunctionsSound
<1> QED BY <1>12 DEF fns2, done2

EndsFunction(d, F, x) ==
  /\ FunctionSound(d.functions, F, x)
  /\ F.upvalues = Inner(d).upvalues /\ F.upvalueCount = Len(Inner(d).upvalues)
  /\ Inner(d).type = "SCRIPT" /\ Inner(d).arity = 0 /\ Inner(d).upvalues = << >>
       => VerifiedScript(F, x.heights)

LEMMA FinishEnds ==
  ASSUME NEW b, NEW ws, NEW d, NEW t, NEW w, NEW in, NEW out, NEW F, NEW x,
         Begun(b, ws, d, t, w, in, out), t.do = "Finish",
         F = Finished(Inner(Emit(d, <<OP_RETURN>>))),
         x = Recorded(w, Inner(b), t, F.code, F.arity)
  PROVE  EndsFunction(d, F, x)
<1> DEFINE fc == Inner(b)
           f == Inner(d)
           g == Inner(Emit(d, <<OP_RETURN>>))
<1>1. /\ Working(d) /\ IsFunctionCompiler(fc) /\ IsFunctionCompiler(f) /\ SameButTodo(fc, f)
      /\ Fits(t, in, out) /\ Finds(f, w, t, in, out) /\ f.todo = << >>
  BY DEF Begun, Bottom
<1>2. Running(d.functions, f, w, {}, in, out)
  <2>1. AwaitedBy(t) = {}
    BY DEF AwaitedBy
  <2> QED BY <2>1 DEF Begun
<1>14. IsSequence(<<OP_RETURN>>)
  BY ShortSequences, Zenon
<1>3. SameButCode(f, g)
  BY <1>1, <1>14, EmitFields, Zenon
<1>4. g.code = f.code \o <<OP_RETURN>>
  BY <1>1, <1>14, EmitFields, Zenon
<1>5. F.code = g.code /\ F.arity = g.arity /\ F.upvalues = g.upvalues /\ F.upvalueCount = Len(g.upvalues)
      /\ F = Finished(g)
  BY FinishedFields
<1> HIDE DEF g
<1>6. F.code = fc.code \o <<OP_RETURN>> /\ IsSequence(fc.code)
  BY <1>1, <1>4, <1>5 DEF SameButTodo, IsFunctionCompiler
<1>7. x = After(fc, w, NextHeight(w, t, OP_RETURN, F.code[Len(fc.code) + 2]))
  BY <1>6, RecordedOp
<1>8. x.heights = Heights(fc, w) /\ x.locals = Covered(fc, w)
  BY <1>7 DEF After
<1>9. Heights(fc, w) = Heights(f, w) /\ Covered(fc, w) = Covered(f, w)
  BY <1>1 DEF SameButTodo, Heights, Covered, Live
<1> HIDE DEF f, fc
<1>10. FunctionSound(d.functions, F, x)
  BY <1>1, <1>2, <1>3, <1>4, <1>5, <1>8, <1>9, FunctionEnds
<1>11. f.type = "SCRIPT" /\ f.arity = 0 /\ f.upvalues = << >> => VerifiedScript(F, x.heights)
  BY <1>1, <1>2, <1>3, <1>4, <1>5, <1>8, <1>9, ScriptEnds
<1>12. g.upvalues = f.upvalues
  BY <1>3 DEF SameButCode
<1> QED BY <1>5, <1>10, <1>11, <1>12 DEF EndsFunction, f

(* A function has ended, and so may the line.                              *)
LEMMA FinishSound ==
  ASSUME NEW b, NEW ws, NEW d, NEW t, NEW w, NEW in, NEW out, NEW e, Sound(b, ws),
         Begun(b, ws, d, t, w, in, out), t.do = "Finish", e = Finish(d)
  PROVE  Sound(e, History(ws, b, e))
<1> DEFINE n == Len(b.compilers)
           s == ws.open
           r == Front(s)
           F == Finished(Inner(Emit(d, <<OP_RETURN>>)))
           x == Recorded(w, Inner(b), t, F.code, F.arity)
           dn == Append(ws.done, x)
           v == [open |-> r, done |-> dn]
           fns == Append(b.functions, F)
<1>1. /\ IsSequence(s) /\ Len(s) = n
      /\ FunctionsSound(b.functions, ws.done)
      /\ \A j \in 1 .. n : Level(b.functions, b.compilers[j], s[j]) /\ Nested(b, j)
  BY DEF Sound
<1>2. n \in Nat \ {0} /\ n \in 1 .. n /\ Inner(b) = b.compilers[n]
  BY InnerLast DEF Begun
<1>3. /\ Working(d) /\ d.functions = b.functions /\ Len(d.compilers) = n /\ w = s[n]
      /\ \A j \in 1 .. n - 1 : d.compilers[j] = b.compilers[j]
      /\ SameButTodo(Inner(b), Inner(d)) /\ t = Last(Inner(b).todo)
  BY DEF Begun, Inward
<1>4. EndsFunction(d, F, x)
  BY FinishEnds
<1>5. EndsWell(d, e, F)
  BY <1>3, FinishFields
<1> HIDE DEF F
<1>6. /\ IsCompiler(e) /\ e.functions = fns /\ Len(e.compilers) = n - 1
      /\ \A j \in 1 .. n - 1 : e.compilers[j] = b.compilers[j]
  BY <1>3, <1>5 DEF EndsWell
<1>7. IsSequence(b.functions)
  BY <1>1 DEF FunctionsSound
<1>8. Last(fns) = F /\ fns # << >> /\ \A f \in DOMAIN b.functions : f \in DOMAIN fns /\ fns[f] = b.functions[f]
  <2> DEFINE a == b.functions
  <2>1. IsSequence(a)
    BY <1>7
  <2> HIDE DEF a
  <2>2. Last(Append(a, F)) = F
    BY <2>1, AppendEnds
  <2>3. Append(a, F) # << >>
    BY <2>1, SequenceAppend
  <2>4. IsSequence(Append(a, F))
    BY <2>1, SequenceAppend
  <2>5. Len(Append(a, F)) = Len(a) + 1
    BY <2>1, SequenceAppend
  <2>6. \A i \in 1 .. Len(a) : Append(a, F)[i] = a[i]
    BY <2>1, SequenceAppend
  <2>7. Len(a) \in Nat /\ DOMAIN a = 1 .. Len(a)
    BY <2>1, SequenceFacts
  <2>8. DOMAIN Append(a, F) = 1 .. Len(Append(a, F))
    BY <2>4, SequenceFacts
  <2>9. \A f \in DOMAIN a : f \in DOMAIN Append(a, F)
    BY <2>5, <2>7, <2>8
  <2>10. \A f \in DOMAIN a : Append(a, F)[f] = a[f]
    BY <2>6, <2>7
  <2> QED BY <2>2, <2>3, <2>9, <2>10 DEF a
<1>9. v = History(ws, b, e)
  <2>1. Len(e.compilers) # n /\ ~(Len(e.compilers) > n) /\ Len(e.compilers) < n
    BY <1>2, <1>6
  <2>2. Last(e.functions) = F
    BY <1>6, <1>8
  <2> HIDE DEF x
  <2>3. History(ws, b, e) = [open |-> Front(ws.open),
             done |-> Append(ws.done, Recorded(ws.open[n], b.compilers[n], Last(b.compilers[n].todo),
                                               F.code, F.arity))]
    BY <2>1, <2>2 DEF History
  <2>4. x = Recorded(ws.open[n], b.compilers[n], Last(b.compilers[n].todo), F.code, F.arity)
    BY <1>2, <1>3 DEF x
  <2> QED BY <2>3, <2>4
<1> HIDE DEF x
<1>10. FunctionsSound(fns, dn)
  <2>1. FunctionSound(b.functions, F, x)
    BY <1>3, <1>4 DEF EndsFunction
  <2> QED BY <1>1, <2>1, FunctionsAppended
<1>11. Last(dn) = x
  <2>1. IsSequence(ws.done)
    BY <1>1 DEF FunctionsSound
  <2> QED BY <2>1, AppendEnds
<1> HIDE DEF dn
<1>12. v.open = r /\ v.done = dn /\ v = [open |-> v.open, done |-> v.done]
  OBVIOUS
<1> HIDE DEF v, fns
<1>13. IsSequence(r) /\ Len(r) = n - 1 /\ \A j \in 1 .. n - 1 : r[j] = s[j]
  <2>1. s # << >>
    BY <1>1, <1>2, SequenceFacts
  <2>2. IsSequence(s) /\ Len(s) = n
    BY <1>1
  <2> HIDE DEF s, n
  <2>3. IsSequence(Front(s))
    BY <2>1, <2>2, SequenceFront
  <2>4. Len(Front(s)) = Len(s) - 1
    BY <2>1, <2>2, SequenceFront
  <2>5. \A j \in 1 .. Len(s) - 1 : Front(s)[j] = s[j]
    BY <2>1, <2>2, SequenceFront
  <2> QED BY <2>2, <2>3, <2>4, <2>5
<1> HIDE DEF r
<1>14. ASSUME NEW j \in 1 .. n - 1
       PROVE  Level(fns, e.compilers[j], r[j]) /\ Nested(e, j)
  <2>1. j < n /\ (j # 1 => j - 1 \in 1 .. n - 1) /\ j \in 1 .. n
    <3> HIDE DEF n
    <3> QED BY <1>2
  <2>2. e.compilers[j] = b.compilers[j] /\ (j # 1 => e.compilers[j - 1] = b.compilers[j - 1])
    BY <1>6, <2>1
  <2>3. Nested(b, j) /\ Level(b.functions, b.compilers[j], s[j])
    BY <1>1, <2>1
  <2>4. Level(fns, b.compilers[j], s[j])
    BY <1>8, <2>3, LevelGrows
  <2>5. Nested(e, j)
    BY <2>1, <2>2, <2>3 DEF Nested
  <2> QED BY <1>13, <2>2, <2>4, <2>5
<1>15. Nested(b, n) /\ Inner(d).type = b.compilers[n].type /\ Inner(d).arity = b.compilers[n].arity
       /\ Inner(d).upvalues = b.compilers[n].upvalues
  BY <1>1, <1>2, <1>3 DEF SameButTodo
<1>16. CASE n = 1
  <2>1. e.compilers = << >>
    <3>1. Len(e.compilers) = 0 /\ IsSequence(e.compilers)
      BY <1>6, <1>16 DEF IsCompiler
    <3> QED BY <3>1, SequenceFacts
  <2>2. VerifiedScript(F, x.heights)
    BY <1>4, <1>15, <1>16 DEF Nested, EndsFunction
  <2>3. Sound(e, v)
    BY <1>6, <1>8, <1>10, <1>11, <1>12, <1>13, <1>14, <2>1, <2>2 DEF Sound
  <2> QED BY <1>9, <2>3
<1>17. CASE n # 1
  <2> DEFINE k == n - 1
  <2>1. k \in 1 .. n - 1 /\ k \in 1 .. n /\ k < n /\ k \in Nat \ {0}
    <3> HIDE DEF n
    <3> QED BY <1>2, <1>17
  <2>2. e.compilers # << >> /\ Inner(e) = b.compilers[k]
    <3>1. Len(e.compilers) = k /\ IsSequence(e.compilers)
      BY <1>6 DEF IsCompiler
    <3> HIDE DEF k
    <3>2. e.compilers # << >>
      BY <2>1, <3>1, SequenceFacts
    <3>3. e.compilers[k] = b.compilers[k]
      BY <1>6, <2>1
    <3> QED BY <3>1, <3>2, <3>3 DEF Inner, Last
  <2>3. Last(b.compilers[k].todo).do = "Closure"
    <3>1. Nested(b, k)
      BY <1>1, <2>1
    <3> QED BY <2>1, <3>1 DEF Nested
  <2>4. UpvaluesSound(F.upvalues, b.compilers[k])
    BY <1>4, <1>15, <1>17 DEF Nested, EndsFunction
  <2>5. F.upvalueCount = Len(F.upvalues) /\ IsSequence(F.upvalues)
    <3>1. IsFunctionCompiler(Inner(d))
      BY DEF Begun
    <3> QED BY <1>4, <3>1 DEF EndsFunction, IsFunctionCompiler
  <2> HIDE DEF k
  <2>6. NextFinds(e)
    BY <1>6, <1>8, <2>2, <2>3, <2>4, <2>5 DEF NextFinds
  <2>7. Sound(e, v)
    BY <1>6, <1>10, <1>12, <1>13, <1>14, <2>2, <2>6 DEF Sound
  <2> QED BY <1>9, <2>7
<1> QED BY <1>16, <1>17

-----------------------------------------------------------------------------
(* Every step.                                                             *)

(* A refused line stays refused.                                           *)
Steady(d, e) == IsCompiler(e) /\ e.source = d.source /\ (d.hadError => e.hadError)

LEMMA InwardSteady ==
  ASSUME NEW d, NEW e, Inward(d, e)
  PROVE  Steady(d, e)
BY DEF Inward, Working, Steady

LEMMA SynchronizedExcept ==
  ASSUME NEW d, NEW p, NEW x, IsCompiler(d)
  PROVE  [d EXCEPT !.panicMode = p, !.hangs = x] =
          [source |-> d.source, previous |-> d.previous, current |-> d.current,
           hadError |-> d.hadError, panicMode |-> p, canAssign |-> d.canAssign,
           compilers |-> d.compilers, functions |-> d.functions, hangs |-> x]
<1> DEFINE b == [d EXCEPT !.panicMode = p]
<1>1. d = [source |-> d.source, previous |-> d.previous, current |-> d.current,
           hadError |-> d.hadError, panicMode |-> d.panicMode, canAssign |-> d.canAssign,
           compilers |-> d.compilers, functions |-> d.functions, hangs |-> d.hangs]
  BY DEF IsCompiler
<1>2. b = [source |-> d.source, previous |-> d.previous, current |-> d.current,
           hadError |-> d.hadError, panicMode |-> p, canAssign |-> d.canAssign,
           compilers |-> d.compilers, functions |-> d.functions, hangs |-> d.hangs]
  BY <1>1
<1>3. [d EXCEPT !.panicMode = p, !.hangs = x] = [b EXCEPT !.hangs = x]
  OBVIOUS
<1> HIDE DEF b
<1>4. /\ b.source = d.source /\ b.previous = d.previous /\ b.current = d.current
      /\ b.hadError = d.hadError /\ b.panicMode = p /\ b.canAssign = d.canAssign
      /\ b.compilers = d.compilers /\ b.functions = d.functions /\ b.hangs = d.hangs
  BY <1>2
<1>5. b = [source |-> b.source, previous |-> b.previous, current |-> b.current,
           hadError |-> b.hadError, panicMode |-> b.panicMode, canAssign |-> b.canAssign,
           compilers |-> b.compilers, functions |-> b.functions, hangs |-> b.hangs]
  BY <1>2, <1>4
<1>6. [b EXCEPT !.hangs = x] =
          [source |-> b.source, previous |-> b.previous, current |-> b.current,
           hadError |-> b.hadError, panicMode |-> b.panicMode, canAssign |-> b.canAssign,
           compilers |-> b.compilers, functions |-> b.functions, hangs |-> x]
  BY <1>5
<1> QED BY <1>3, <1>4, <1>6

LEMMA SynchronizeSteady ==
  ASSUME NEW d, IsCompiler(d)
  PROVE  Steady(d, Synchronized(d))
<1>1. Steady(d, d)
  BY DEF Steady
<1>2. ASSUME NEW x
      PROVE  Steady(d, [d EXCEPT !.panicMode = FALSE, !.hangs = x])
  <2> DEFINE e == [d EXCEPT !.panicMode = FALSE, !.hangs = x]
  <2>1. IsSequence(d.compilers)
    BY DEF IsCompiler
  <2>2. e = [source |-> d.source, previous |-> d.previous, current |-> d.current,
             hadError |-> d.hadError, panicMode |-> FALSE, canAssign |-> d.canAssign,
             compilers |-> d.compilers, functions |-> d.functions, hangs |-> x]
    BY SynchronizedExcept
  <2> HIDE DEF e
  <2>3. /\ e.source = d.source /\ e.hadError = d.hadError /\ e.compilers = d.compilers
        /\ e.panicMode = FALSE /\ e.previous = d.previous /\ e.current = d.current
        /\ e.canAssign = d.canAssign /\ e.functions = d.functions /\ e.hangs = x
    BY ONLY <2>2
  <2>4. IsCompiler(e)
    BY <2>1, <2>2, <2>3 DEF IsCompiler
  <2>5. Steady(d, e)
    BY <2>3, <2>4 DEF Steady
  <2> QED BY <2>5 DEF e
<1>3. Synchronized(d) = d \/ \E x : Synchronized(d) = [d EXCEPT !.panicMode = FALSE, !.hangs = x]
  BY DEF Synchronized, Synchronize
<1> QED BY <1>1, <1>2, <1>3

LEMMA VariablesSteady ==
  ASSUME NEW d, NEW k, NEW j, Working(d)
  PROVE  /\ Steady(d, Variable(d)) /\ Steady(d, ResolveUpvalue(d, k))
         /\ Steady(d, CaptureUpvalue(d, k, j))
<1>1. \A i, name : Same(d, CheckLocal(d, i, name))
  BY ErrorSame DEF CheckLocal, Same, Working
<1>2. Steady(d, Global(d))
  BY GlobalInward, InwardSteady
<1>3. ASSUME NEW x, Same(d, x)
      PROVE  /\ \A get, set, arg : Steady(d, Access(x, get, set, arg))
             /\ \A tasks : Steady(d, Then(x, tasks))
             /\ \A i, up : Steady(d, CaptureIn(x, i, up))
  <2>1. Inward(d, x) /\ Working(x)
    BY <1>3, SameInward
  <2>2. ASSUME NEW get, NEW set, NEW arg
        PROVE  Steady(d, Access(x, get, set, arg))
    BY <2>1, AccessInward, InwardChain, InwardSteady
  <2>3. ASSUME NEW tasks
        PROVE  Steady(d, Then(x, tasks))
    BY <2>1, ThenInward, InwardChain, InwardSteady
  <2>4. ASSUME NEW i, NEW up
        PROVE  Steady(d, CaptureIn(x, i, up))
    BY <1>3, CapturedSteady DEF Steady, Working
  <2> QED BY <2>2, <2>3, <2>4
<1>4. Same(d, d)
  BY DEF Same, Working
<1>5. Steady(d, Variable(d))
  BY <1>1, <1>3 DEF Variable
<1>6. Steady(d, ResolveUpvalue(d, k))
  BY <1>1, <1>2, <1>3 DEF ResolveUpvalue
<1>7. Steady(d, CaptureUpvalue(d, k, j))
  BY <1>2, <1>3, <1>4 DEF CaptureUpvalue
<1> QED BY <1>5, <1>6, <1>7

LEMMA FunDeclarationSteady ==
  ASSUME NEW d, Working(d)
  PROVE  Steady(d, FunDeclaration(d)) /\ Steady(d, Finish(d))
<1> DEFINE f == ParseVariable(d)
           m == MarkInitialized(f)
           D == Task("DefineVariable", <<ConstantIndex(f)>>)
           e0 == Then(m, <<Task("Closure", << >>), D>>)
           N == NewCompiler("FUNCTION", <<Task("Function", << >>)>>)
           e == BeginScope([e0 EXCEPT !.compilers = Append(@, N)])
           g == [N EXCEPT !.scopeDepth = Byte8(N.scopeDepth + 1)]
<1>1. e = FunDeclaration(d)
  BY DEF FunDeclaration
<1>2. m = MarkInitialized(ParseVariable(d)) /\ e0 = Then(m, <<Task("Closure", << >>), D>>)
      /\ N = NewCompiler("FUNCTION", <<Task("Function", << >>)>>)
      /\ e = BeginScope([e0 EXCEPT !.compilers = Append(@, N)])
  OBVIOUS
<1> HIDE DEF e, N, e0, D, m
<1>3. Encloses(d, m, e0, e, g)
  BY <1>2, FunDeclarationEncloses
<1>4. Steady(d, e)
  BY <1>3 DEF Encloses, Steady
<1>5. Steady(d, Finish(d))
  BY FinishFields DEF EndsWell, Steady
<1> QED BY <1>1, <1>4, <1>5

LEMMA StepSteady ==
  ASSUME NEW b, Working(b)
  PROVE  Steady(b, DoTask(b))
<1> DEFINE t == Last(Inner(b).todo)
           d == With(b, Popped(Inner(b)))
           e == DoTask(b)
<1>1. Inward(b, d) /\ Working(d)
  BY WithFacts DEF Inward
<1>2. d = With(b, [Inner(b) EXCEPT !.todo = Front(@)])
  BY DEF Popped
<1> HIDE DEF d
<1>3. \A a : /\ Steady(d, ParsePrecedence(d, a)) /\ Steady(d, ParseInfix(d, a))
             /\ Steady(d, Consume(d, a)) /\ Steady(d, Emit(d, a)) /\ Steady(d, CountArgument(d, a))
             /\ Steady(d, PatchJump(d, a)) /\ Steady(d, OrElse(d, a)) /\ Steady(d, IfElse(d, a))
             /\ Steady(d, DefineVariable(d, a)) /\ Steady(d, ResolveUpvalue(d, a))
  BY <1>1, ParseInward, ConsumeInward, EmitInward, CallInward, PatchJumpInward, OrElseInward,
     DefineVariableInward, VariablesSteady, InwardSteady
<1>4. \A a : /\ Steady(d, Else(d, a)) /\ Steady(d, WhileBody(d, a)) /\ Steady(d, ForExit(d, a))
  BY <1>1, JumpsInward, InwardSteady
<1>5. \A a, j : /\ Steady(d, EndLoop(d, a, j)) /\ Steady(d, ForBody(d, a, j))
                /\ Steady(d, ForIncrement(d, a, j)) /\ Steady(d, CaptureUpvalue(d, a, j))
  BY <1>1, JumpsInward, VariablesSteady, InwardSteady
<1>6. /\ Steady(d, Variable(d)) /\ Steady(d, Call(d)) /\ Steady(d, Statement(d))
      /\ Steady(d, IfThen(d)) /\ Steady(d, ForInitializer(d)) /\ Steady(d, ForCondition(d))
      /\ Steady(d, ReturnStatement(d)) /\ Steady(d, Block(d)) /\ Steady(d, Declarations(d))
  BY <1>1, VariablesSteady, CallInward, StatementInward, JumpsInward, ReturnInward,
     DeclarationsInward, InwardSteady
<1>7. /\ Steady(d, EndScope(d)) /\ Steady(d, PopLocals(d)) /\ Steady(d, VarDeclaration(d))
      /\ Steady(d, VarInitializer(d)) /\ Steady(d, FunDeclaration(d)) /\ Steady(d, Function(d))
      /\ Steady(d, ParameterList(d)) /\ Steady(d, Parameter(d)) /\ Steady(d, MoreParameters(d))
  BY <1>1, EndScopeInward, PopLocalsInward, VarInward, FunDeclarationSteady, FunctionInward,
     InwardSteady
<1>8. /\ Steady(d, Closure(d)) /\ Steady(d, Synchronized(d)) /\ Steady(d, EndCompiler(d))
      /\ Steady(d, Finish(d)) /\ Steady(d, Advance(d))
  BY <1>1, FunctionInward, SynchronizeSteady, FunDeclarationSteady, AdvanceInward,
     InwardSteady DEF Working
<1>9. Steady(d, e)
  BY <1>2, <1>3, <1>4, <1>5, <1>6, <1>7, <1>8 DEF DoTask
<1> QED BY <1>1, <1>9 DEF Steady, Inward

(* The tasks that leave their compiler for the next of its tasks, and do   *)
(* not depend on the compiler as a whole.                                  *)
LEMMA TurnArrives ==
  ASSUME NEW b, NEW d, NEW t, NEW w, NEW in, NEW out, NEW e, Turn(d, t, w, in, out),
         in.depth < UINT8_MAX, t = Last(Inner(b).todo), d = With(b, Popped(Inner(b))), e = DoTask(b),
         t.do \in {"ParsePrecedence", "ParseInfix", "Consume", "Advance", "Emit", "Call",
                   "CountArgument", "PatchJump", "OrElse", "IfThen", "IfElse", "Else",
                   "WhileBody", "ForExit", "EndLoop", "ForBody", "ForIncrement",
                   "ForInitializer", "ForCondition", "ReturnStatement", "PopLocals",
                   "VarInitializer", "Synchronize", "Statement", "Block", "Declarations",
                   "EndScope", "VarDeclaration", "DefineVariable"}
  PROVE  Arrives(d, t, w, e)
<1>1. d = With(b, [Inner(b) EXCEPT !.todo = Front(@)])
  BY DEF Popped
<1>2. CASE t.do = "ParsePrecedence"
  <2>1. e = ParsePrecedence(d, t.args[1])
    BY <1>1, <1>2 DEF DoTask
  <2> QED BY <1>2, <2>1, ParsePrecedenceArrives
<1>3. CASE t.do = "ParseInfix"
  <2>1. e = ParseInfix(d, t.args[1])
    BY <1>1, <1>3 DEF DoTask
  <2> QED BY <1>3, <2>1, ParseInfixArrives
<1>4. CASE t.do = "Consume"
  <2>1. e = Consume(d, t.args[1])
    BY <1>1, <1>4 DEF DoTask
  <2> QED BY <1>4, <2>1, AdvanceArrives
<1>5. CASE t.do = "Advance"
  <2>1. e = Advance(d)
    BY <1>1, <1>5 DEF DoTask
  <2> QED BY <1>5, <2>1, AdvanceArrives
<1>6. CASE t.do = "Emit"
  <2>1. e = Emit(d, t.args)
    BY <1>1, <1>6 DEF DoTask
  <2> QED BY <1>6, <2>1, EmitArrives
<1>7. CASE t.do = "Call"
  <2>1. e = Call(d)
    BY <1>1, <1>7 DEF DoTask
  <2> QED BY <1>7, <2>1, CallArrives
<1>8. CASE t.do = "CountArgument"
  <2>1. e = CountArgument(d, t.args[1])
    BY <1>1, <1>8 DEF DoTask
  <2> QED BY <1>8, <2>1, CountArgumentArrives
<1>9. CASE t.do = "PatchJump"
  <2>1. e = PatchJump(d, t.args[1])
    BY <1>1, <1>9 DEF DoTask
  <2> QED BY <1>9, <2>1, PatchJumpArrives
<1>10. CASE t.do = "OrElse"
  <2>1. e = OrElse(d, t.args[1])
    BY <1>1, <1>10 DEF DoTask
  <2> QED BY <1>10, <2>1, OrElseArrives
<1>11. CASE t.do = "IfThen"
  <2>1. e = IfThen(d)
    BY <1>1, <1>11 DEF DoTask
  <2> QED BY <1>11, <2>1, IfThenArrives
<1>12. CASE t.do = "IfElse"
  <2>1. e = IfElse(d, t.args[1])
    BY <1>1, <1>12 DEF DoTask
  <2> QED BY <1>12, <2>1, IfElseArrives
<1>13. CASE t.do = "Else"
  <2>1. e = Else(d, t.args[1])
    BY <1>1, <1>13 DEF DoTask
  <2> QED BY <1>13, <2>1, ElseArrives
<1>14. CASE t.do = "WhileBody"
  <2>1. e = WhileBody(d, t.args[1])
    BY <1>1, <1>14 DEF DoTask
  <2> QED BY <1>14, <2>1, WhileBodyArrives
<1>15. CASE t.do = "ForExit"
  <2>1. e = ForExit(d, t.args[1])
    BY <1>1, <1>15 DEF DoTask
  <2> QED BY <1>15, <2>1, WhileBodyArrives
<1>16. CASE t.do = "EndLoop"
  <2>1. e = EndLoop(d, t.args[1], t.args[2])
    BY <1>1, <1>16 DEF DoTask
  <2> QED BY <1>16, <2>1, EndLoopArrives
<1>17. CASE t.do = "ForBody"
  <2>1. e = ForBody(d, t.args[1], t.args[2])
    BY <1>1, <1>17 DEF DoTask
  <2> QED BY <1>17, <2>1, ForBodyArrives
<1>18. CASE t.do = "ForIncrement"
  <2>1. e = ForIncrement(d, t.args[1], t.args[2])
    BY <1>1, <1>18 DEF DoTask
  <2> QED BY <1>18, <2>1, ForIncrementArrives
<1>19. CASE t.do = "ForInitializer"
  <2>1. e = ForInitializer(d)
    BY <1>1, <1>19 DEF DoTask
  <2> QED BY <1>19, <2>1, ForInitializerArrives
<1>20. CASE t.do = "ForCondition"
  <2>1. e = ForCondition(d)
    BY <1>1, <1>20 DEF DoTask
  <2> QED BY <1>20, <2>1, ForConditionArrives
<1>21. CASE t.do = "ReturnStatement"
  <2>1. e = ReturnStatement(d)
    BY <1>1, <1>21 DEF DoTask
  <2> QED BY <1>21, <2>1, ReturnStatementArrives
<1>22. CASE t.do = "PopLocals"
  <2>1. e = PopLocals(d)
    BY <1>1, <1>22 DEF DoTask
  <2> QED BY <1>22, <2>1, PopLocalsTaskArrives
<1>23. CASE t.do = "VarInitializer"
  <2>1. e = VarInitializer(d)
    BY <1>1, <1>23 DEF DoTask
  <2> QED BY <1>23, <2>1, VarInitializerArrives
<1>24. CASE t.do = "Synchronize"
  <2>1. e = Synchronized(d)
    BY <1>1, <1>24 DEF DoTask
  <2> QED BY <1>24, <2>1, SynchronizeArrives
<1>25. CASE t.do = "Statement"
  <2>1. e = Statement(d)
    BY <1>1, <1>25 DEF DoTask
  <2> QED BY <1>25, <2>1, StatementTaskArrives
<1>26. CASE t.do = "Block"
  <2>1. e = Block(d)
    BY <1>1, <1>26 DEF DoTask
  <2> QED BY <1>26, <2>1, BlockArrives
<1>27. CASE t.do = "Declarations"
  <2>1. e = Declarations(d)
    BY <1>1, <1>27 DEF DoTask
  <2> QED BY <1>27, <2>1, BlockArrives
<1>28. CASE t.do = "EndScope"
  <2>1. e = EndScope(d)
    BY <1>1, <1>28 DEF DoTask
  <2> QED BY <1>28, <2>1, EndScopeArrives
<1>29. CASE t.do = "VarDeclaration"
  <2>1. e = VarDeclaration(d)
    BY <1>1, <1>29 DEF DoTask
  <2> QED BY <1>29, <2>1, VarDeclarationArrives
<1>30. CASE t.do = "DefineVariable"
  <2>1. e = DefineVariable(d, t.args[1])
    BY <1>1, <1>30 DEF DoTask
  <2> QED BY <1>30, <2>1, DefineVariableArrives
<1> QED BY <1>2, <1>3, <1>4, <1>5, <1>6, <1>7, <1>8, <1>9, <1>10, <1>11, <1>12, <1>13, <1>14,
       <1>15, <1>16, <1>17, <1>18, <1>19, <1>20, <1>21, <1>22, <1>23, <1>24, <1>25, <1>26,
       <1>27, <1>28, <1>29, <1>30

(* What a line has to keep within, and what its names are.                 *)
Within(b) ==
  \A k \in DOMAIN b.compilers : /\ b.compilers[k].scopeDepth < UINT8_MAX
                                /\ Len(b.compilers[k].locals) <= UINT8_MAX + 1

Names(b) == Previous(b).type = "IDENTIFIER" => IsName(Previous(b).lexeme)

LEMMA WithinFacts ==
  ASSUME NEW b, Within(b), Working(b)
  PROVE  Bounded(b) /\ Inner(b).scopeDepth < UINT8_MAX /\ Len(Inner(b).locals) <= UINT8_MAX + 1
BY InnerLast DEF Within, Bounded

LEMMA StepArrives ==
  ASSUME NEW b, NEW ws, NEW d, NEW t, NEW w, NEW in, NEW out, NEW e, Sound(b, ws),
         Begun(b, ws, d, t, w, in, out), Within(b), Within(e), Names(b),
         d = With(b, Popped(Inner(b))), e = DoTask(b),
         t.do \notin {"FunDeclaration", "Finish", "ResolveUpvalue", "CaptureUpvalue"}
  PROVE  Arrives(d, t, w, e)
<1>1. d = With(b, [Inner(b) EXCEPT !.todo = Front(@)]) /\ t = Last(Inner(b).todo)
  BY DEF Popped, Begun
<1>2. /\ Working(b) /\ Working(d) /\ Fits(t, in, out) /\ Finds(Inner(d), w, t, in, out)
      /\ SameButTodo(Inner(b), Inner(d)) /\ in.depth = Inner(d).scopeDepth /\ out.depth <= in.depth
      /\ Running(d.functions, Inner(d), w, AwaitedBy(t), in, out)
      /\ t.do \in Bottom => Inner(d).todo = << >>
      /\ t.do \notin Bottom => Turn(d, t, w, in, out)
  BY DEF Begun
<1>3. Bounded(b) /\ in.depth < UINT8_MAX /\ Len(Inner(d).locals) <= UINT8_MAX + 1
  BY <1>2, WithinFacts DEF SameButTodo
<1>4. NextFinds(b) /\ Previous(d) = Previous(b) /\ d.functions = b.functions
  BY <1>2, BegunKeeps DEF Sound, Working
<1>5. CASE t.do \in {"ParsePrecedence", "ParseInfix", "Consume", "Advance", "Emit", "Call",
                     "CountArgument", "PatchJump", "OrElse", "IfThen", "IfElse", "Else",
                     "WhileBody", "ForExit", "EndLoop", "ForBody", "ForIncrement",
                     "ForInitializer", "ForCondition", "ReturnStatement", "PopLocals",
                     "VarInitializer", "Synchronize", "Statement", "Block", "Declarations",
                     "EndScope", "VarDeclaration", "DefineVariable"}
  <2>1. Turn(d, t, w, in, out)
    BY <1>2, <1>5 DEF Bottom
  <2> QED BY <1>1, <1>3, <1>5, <2>1, TurnArrives
<1>6. CASE t.do = "Variable"
  <2>1. e = Variable(d)
    BY <1>1, <1>6 DEF DoTask
  <2>2. Turn(d, t, w, in, out)
    BY <1>2, <1>6 DEF Bottom
  <2>3. Previous(d).type = "IDENTIFIER"
    BY <1>1, <1>4, <1>6 DEF NextFinds
  <2>4. IsName(Previous(d).lexeme)
    BY <1>4, <2>3 DEF Names
  <2> QED BY <1>3, <1>6, <2>1, <2>2, <2>3, <2>4, VariableArrives
<1>7. CASE t.do \in {"ParameterList", "Parameter", "MoreParameters"}
  <2>1. \/ t.do = "ParameterList" /\ e = ParameterList(d)
        \/ t.do = "Parameter" /\ e = Parameter(d)
        \/ t.do = "MoreParameters" /\ e = MoreParameters(d)
    BY <1>1, <1>7 DEF DoTask
  <2>2. Turn(d, t, w, in, out)
    BY <1>2, <1>7 DEF Bottom
  <2>3. Inward(d, e)
    BY <1>2, <2>1, FunctionInward
  <2>4. Len(Inner(e).locals) <= UINT8_MAX + 1
    BY <2>3, WithinFacts DEF Inward
  <2> QED BY <1>3, <2>1, <2>2, <2>4, ParametersArrive
<1>8. CASE t.do = "Closure"
  <2> DEFINE ups == Last(d.functions).upvalues
  <2>1. e = Closure(d)
    BY <1>1, <1>8 DEF DoTask
  <2>2. Turn(d, t, w, in, out)
    BY <1>2, <1>8 DEF Bottom
  <2>3. /\ d.functions # << >> /\ UpvaluesSound(ups, Inner(b)) /\ IsSequence(ups)
        /\ Last(d.functions).upvalueCount = Len(ups)
    BY <1>1, <1>4, <1>8 DEF NextFinds
  <2>4. IsSequence(d.functions)
    BY <1>4 DEF Sound, FunctionsSound
  <2>5. ups = Last(d.functions).upvalues
    OBVIOUS
  <2> HIDE DEF ups
  <2>6. UpvaluesSound(ups, Inner(d))
    BY <1>2, <2>3 DEF UpvaluesSound, Live, SameButTodo
  <2> QED BY <1>8, <2>1, <2>2, <2>3, <2>4, <2>5, <2>6, ClosureArrives
<1>9. CASE t.do = "Function"
  <2>1. e = Function(d) /\ Inner(d).todo = << >>
    BY <1>1, <1>2, <1>9 DEF DoTask, Bottom
  <2>2. AwaitedBy(t) = {}
    BY <1>9 DEF AwaitedBy
  <2>3. Running(d.functions, Inner(d), w, {}, in, out)
    BY <1>2, <2>2
  <2> QED BY <1>2, <1>9, <2>1, <2>3, FunctionArrives
<1>10. CASE t.do = "EndCompiler"
  <2>1. e = EndCompiler(d) /\ Inner(d).todo = << >>
    BY <1>1, <1>2, <1>10 DEF DoTask, Bottom
  <2>2. AwaitedBy(t) = {}
    BY <1>10 DEF AwaitedBy
  <2>3. Running(d.functions, Inner(d), w, {}, in, out)
    BY <1>2, <2>2
  <2> QED BY <1>2, <1>10, <2>1, <2>3, EndCompilerArrives
<1>11. \/ t.do \in {"ParsePrecedence", "ParseInfix", "Consume", "Advance", "Emit", "Call",
                     "CountArgument", "PatchJump", "OrElse", "IfThen", "IfElse", "Else",
                     "WhileBody", "ForExit", "EndLoop", "ForBody", "ForIncrement",
                     "ForInitializer", "ForCondition", "ReturnStatement", "PopLocals",
                     "VarInitializer", "Synchronize", "Statement", "Block", "Declarations",
                     "EndScope", "VarDeclaration", "DefineVariable"}
       \/ t.do \in {"Variable", "Closure", "Function", "EndCompiler"}
       \/ t.do \in {"ParameterList", "Parameter", "MoreParameters"}
  BY <1>2 DEF Fits
<1> QED BY <1>5, <1>6, <1>7, <1>8, <1>9, <1>10, <1>11

LEMMA StepSound ==
  ASSUME NEW b, NEW ws, NEW e, Working(b), Sound(b, ws), ~b.hadError, Within(b), Within(e), Names(b),
         e = DoTask(b), ~e.hadError
  PROVE  Sound(e, History(ws, b, e))
<1> DEFINE t == Last(Inner(b).todo)
           d == With(b, Popped(Inner(b)))
           w == ws.open[Len(b.compilers)]
<1>1. PICK in, out : Begun(b, ws, d, t, w, in, out)
  BY StepBegins
<1>2. d = With(b, [Inner(b) EXCEPT !.todo = Front(@)])
  BY DEF Popped
<1>3. d = With(b, Popped(Inner(b))) /\ t = Last(Inner(b).todo)
  OBVIOUS
<1> HIDE DEF d, t, w
<1>4. Bounded(b) /\ in.depth < UINT8_MAX
  <2>1. SameButTodo(Inner(b), Inner(d)) /\ in.depth = Inner(d).scopeDepth
    BY <1>1 DEF Begun
  <2> QED BY <2>1, WithinFacts DEF SameButTodo
<1>5. t.do \notin Bottom => Turn(d, t, w, in, out)
  BY <1>1 DEF Begun
<1>6. CASE t.do = "FunDeclaration"
  <2>1. e = FunDeclaration(d)
    BY <1>2, <1>3, <1>6 DEF DoTask
  <2>2. Nests(d, t, w, e)
    BY <1>4, <1>5, <1>6, <2>1, FunDeclarationNests DEF Bottom
  <2> QED BY <1>1, <2>2, NestsSound
<1>7. CASE t.do = "Finish"
  <2>1. e = Finish(d)
    BY <1>2, <1>3, <1>7 DEF DoTask
  <2> QED BY <1>1, <1>7, <2>1, FinishSound
<1>8. CASE t.do = "ResolveUpvalue"
  <2>1. e = ResolveUpvalue(d, t.args[1])
    BY <1>2, <1>3, <1>8 DEF DoTask
  <2>2. IsName(Previous(b).lexeme)
    <3>1. NextFinds(b)
      BY DEF Sound, Working
    <3>2. Previous(b).type = "IDENTIFIER"
      BY <1>3, <1>8, <3>1 DEF NextFinds
    <3> QED BY <3>2 DEF Names
  <2> QED BY <1>1, <1>4, <1>8, <2>1, <2>2, ResolveUpvalueSound
<1>9. CASE t.do = "CaptureUpvalue"
  <2>1. e = CaptureUpvalue(d, t.args[1], t.args[2])
    BY <1>2, <1>3, <1>9 DEF DoTask
  <2> QED BY <1>1, <1>9, <2>1, CaptureUpvalueSound
<1>10. CASE t.do \notin {"FunDeclaration", "Finish", "ResolveUpvalue", "CaptureUpvalue"}
  <2>1. Arrives(d, t, w, e)
    BY <1>1, <1>3, <1>10, StepArrives
  <2> QED BY <1>1, <2>1, InwardSound
<1> QED BY <1>6, <1>7, <1>8, <1>9, <1>10

-----------------------------------------------------------------------------
(* A line begins.                                                          *)

LEMMA NewTodo ==
  ASSUME NEW type, NEW todo, NEW r
  PROVE  [NewCompiler(type, todo) EXCEPT !.todo = r] = NewCompiler(type, r)
<1>1. ASSUME NEW n, NEW z, NEW locals, NEW x, NEW y,
             x = [type |-> type, arity |-> n, code |-> z, lines |-> z, constants |-> z,
                  locals |-> locals, upvalues |-> z, scopeDepth |-> n, todo |-> todo],
             y = [type |-> type, arity |-> n, code |-> z, lines |-> z, constants |-> z,
                  locals |-> locals, upvalues |-> z, scopeDepth |-> n, todo |-> r]
      PROVE  [x EXCEPT !.todo = r] = y
  BY <1>1
<1> QED BY <1>1 DEF NewCompiler

LEMMA StartRecord ==
  ASSUME NEW b, NEW s, NEW p, NEW z, NEW fns, NEW cs, IsSequence(cs),
         b = [source |-> s, previous |-> z, current |-> z, hadError |-> p, panicMode |-> p,
              canAssign |-> p, hangs |-> p, functions |-> fns, compilers |-> cs]
  PROVE  /\ IsCompiler(b) /\ b.source = s /\ b.hadError = p
         /\ b.functions = fns /\ b.compilers = cs
<1>1. /\ b.source = s /\ b.previous = z /\ b.current = z /\ b.hadError = p /\ b.panicMode = p
      /\ b.canAssign = p /\ b.hangs = p /\ b.functions = fns /\ b.compilers = cs
  OBVIOUS
<1>2. b = [source |-> b.source, previous |-> b.previous, current |-> b.current,
           hadError |-> b.hadError, panicMode |-> b.panicMode, canAssign |-> b.canAssign,
           compilers |-> b.compilers, functions |-> b.functions, hangs |-> b.hangs]
  BY <1>1
<1>3. b.panicMode => b.hadError
  BY <1>1
<1>4. IsCompiler(b)
  BY <1>1, <1>2, <1>3 DEF IsCompiler
<1> QED BY <1>1, <1>4

LEMMA StartFields ==
  LET b == Start(<< >>)
      A == Task("Advance", << >>)
      D == Task("Declarations", << >>)
      E == Task("EndCompiler", << >>)
  IN  /\ IsCompiler(b) /\ b.source = << >> /\ ~b.hadError /\ b.functions = << >>
      /\ b.compilers = <<NewCompiler("SCRIPT", Append(Append(Append(<< >>, E), D), A))>>
<1> DEFINE A == Task("Advance", << >>)
           D == Task("Declarations", << >>)
           E == Task("EndCompiler", << >>)
           b == Start(<< >>)
           r == Reverse(<<A, D, E>>)
           cs == <<NewCompiler("SCRIPT", r)>>
<1>1. r = Append(Append(Append(<< >>, E), D), A)
  <2>1. r = <<E, D, A>>
    BY ReversedTasks
  <2>2. << >> \o <<E, D, A>> = Append(Append(Append(<< >>, E), D), A)
    BY ShortSequences, PushedTasks
  <2>3. << >> \o <<E, D, A>> = <<E, D, A>>
    OBVIOUS
  <2> QED BY <2>1, <2>2, <2>3
<1>2. IsSequence(cs)
  BY ShortSequences
<1>3. b = [source |-> << >>, previous |-> 0, current |-> 0, hadError |-> FALSE,
           panicMode |-> FALSE, canAssign |-> FALSE, hangs |-> FALSE, functions |-> << >>,
           compilers |-> cs]
  BY DEF Start
<1> HIDE DEF r, cs, b
<1>4. /\ IsCompiler(b) /\ b.source = << >> /\ b.hadError = FALSE
      /\ b.functions = << >> /\ b.compilers = cs
  BY ONLY <1>2, <1>3, StartRecord
<1>5. cs = <<NewCompiler("SCRIPT", Append(Append(Append(<< >>, E), D), A))>>
  BY <1>1 DEF cs
<1> QED BY <1>4, <1>5 DEF b

LEMMA StartLevel ==
  ASSUME NEW A, NEW D, NEW E, NEW fc, A.do = "Advance", D.do = "Declarations",
         E.do = "EndCompiler", fc = NewCompiler("SCRIPT", Append(Append(Append(<< >>, E), D), A))
  PROVE  Level(<< >>, fc, NewWindow) /\ Last(fc.todo) = A
<1> DEFINE z == << >>
           w == NewWindow
           x == NewCompiler("SCRIPT", z)
           s == Loose(0)
           t1 == Append(z, E)
           t2 == Append(t1, D)
           t3 == Append(t2, A)
<1>1. IsNew(x, 0)
  <2>1. NewFields(x, "SCRIPT", z) /\ IsSequence(z)
    BY NewCompilerFields, ShortSequences
  <2> HIDE DEF x
  <2>2. IsFunctionCompiler(x)
    BY <2>1, NewIsFunctionCompiler
  <2> QED BY <2>1, <2>2 DEF IsNew, NewFields
<1>2. x.type = "SCRIPT" /\ x.todo = z
  <2>1. NewFields(x, "SCRIPT", z)
    BY NewCompilerFields
  <2> HIDE DEF x
  <2> QED BY <2>1 DEF NewFields
<1>3. fc = [x EXCEPT !.todo = t3]
  <2> HIDE DEF z, t3
  <2>1. fc = NewCompiler("SCRIPT", t3)
    BY DEF t3, t2, t1, z
  <2> QED BY <2>1, NewTodo
<1> HIDE DEF x
<1>4. Running(z, x, w, {}, s, s)
  BY <1>1, NewRunning
<1>5. s \in Situations /\ s.kind = "loose" /\ s.depth = 0
  BY SituationFacts
<1>6. Waiting(x, w, E, s, s) /\ Waiting(x, w, D, s, s) /\ Waiting(x, w, A, s, s)
  BY <1>2, <1>5 DEF Waiting, Fits, Finds, Immediate
<1>7. AwaitedBy(E) = {} /\ AwaitedBy(D) = {} /\ AwaitedBy(A) = {}
  BY DEF AwaitedBy
<1>8. IsFunctionCompiler(x)
  BY <1>1 DEF IsNew
<1> HIDE DEF s, w
<1>9. Pushed(z, x, w, {} \ AwaitedBy(E), s, t1, s)
  BY <1>2, <1>4, <1>6, PushedFirst DEF Bottom
<1>10. Pushed(z, x, w, {}, s, t1, s)
  BY <1>7, <1>9
<1> HIDE DEF t1
<1>11. Pushed(z, x, w, {} \ AwaitedBy(D), s, t2, s)
  BY <1>6, <1>8, <1>10, PushedOne DEF Bottom
<1>12. Pushed(z, x, w, {}, s, t2, s)
  BY <1>7, <1>11
<1> HIDE DEF t2
<1>13. Pushed(z, x, w, {} \ AwaitedBy(A), s, t3, s)
  BY <1>6, <1>8, <1>12, PushedOne DEF Bottom
<1>14. Pushed(z, x, w, {}, s, t3, s)
  BY <1>7, <1>13
<1>15. IsSequence(t2)
  BY <1>12 DEF Pushed
<1>16. Last(t3) = A
  BY <1>15, AppendEnds
<1> HIDE DEF t3
<1>17. IsSequence(t3) /\ t3 # << >> /\ Running(z, fc, w, {}, s, s)
  BY <1>3, <1>14 DEF Pushed
<1>18. fc.todo = t3
  BY <1>3, <1>8, <1>17, TodoSet
<1>19. Level(z, fc, w)
  BY <1>17, <1>18, LevelOfRunning
<1> QED BY <1>16, <1>18, <1>19 DEF w

LEMMA StartSound ==
  LET b == Start(<< >>)
  IN  /\ IsCompiler(b) /\ b.source = << >>
      /\ Sound(b, [open |-> <<NewWindow>>, done |-> << >>])
<1> DEFINE A == Task("Advance", << >>)
           D == Task("Declarations", << >>)
           E == Task("EndCompiler", << >>)
           fc == NewCompiler("SCRIPT", Append(Append(Append(<< >>, E), D), A))
           b == Start(<< >>)
           W == <<NewWindow>>
           ws == [open |-> W, done |-> << >>]
<1>1. /\ IsCompiler(b) /\ b.source = << >> /\ ~b.hadError /\ b.functions = << >>
      /\ b.compilers = <<fc>>
  BY StartFields
<1>2. A.do = "Advance" /\ D.do = "Declarations" /\ E.do = "EndCompiler"
  BY DEF Task
<1> HIDE DEF b, A, D, E
<1>3. Level(<< >>, fc, NewWindow) /\ Last(fc.todo) = A
  BY <1>2, StartLevel
<1>4. fc.type = "SCRIPT" /\ fc.arity = 0 /\ fc.upvalues = << >>
  <2>1. NewFields(fc, "SCRIPT", Append(Append(Append(<< >>, E), D), A))
    BY NewCompilerFields
  <2> HIDE DEF fc
  <2> QED BY <2>1 DEF NewFields
<1> HIDE DEF fc
<1>5. Len(b.compilers) = 1 /\ b.compilers[1] = fc /\ b.compilers # << >> /\ Inner(b) = fc
  BY <1>1, ShortSequences DEF Inner, Last
<1>6. IsSequence(W) /\ Len(W) = 1 /\ W[1] = NewWindow
  BY ShortSequences
<1> HIDE DEF W
<1>7. ws = [open |-> ws.open, done |-> ws.done] /\ ws.open = W /\ ws.done = << >>
  OBVIOUS
<1> HIDE DEF ws
<1>8. FunctionsSound(b.functions, ws.done)
  BY <1>1, <1>7, ShortSequences, EmptyFunction DEF FunctionsSound
<1>9. ASSUME NEW k \in 1 .. Len(b.compilers)
      PROVE  Level(b.functions, b.compilers[k], ws.open[k]) /\ Nested(b, k)
  <2>1. k = 1
    BY <1>5
  <2>2. Level(b.functions, b.compilers[k], ws.open[k])
    BY <1>1, <1>3, <1>5, <1>6, <1>7, <2>1
  <2>3. Nested(b, k)
    BY <1>4, <1>5, <2>1 DEF Nested
  <2> QED BY <2>2, <2>3
<1>10. NextFinds(b)
  BY <1>2, <1>3, <1>5 DEF NextFinds
<1>11. Sound(b, ws)
  BY <1>5, <1>6, <1>7, <1>8, <1>9, <1>10 DEF Sound
<1> QED BY <1>1, <1>11 DEF b, ws, W

-----------------------------------------------------------------------------
(* The tokens.                                                             *)

Sourced(s) == s \in Seq(Tokens \cup {Symbol("END_OF_FILE")})

LEMMA FragmentSourced ==
  ASSUME NEW f \in Fragments \cup {<<Symbol("END_OF_FILE")>>}
  PROVE  Sourced(f)
<1>1. CASE f = <<Symbol("END_OF_FILE")>>
  BY <1>1 DEF Sourced
<1>2. CASE f \in Fragments
  <2> DEFINE S == {f[i] : i \in DOMAIN f}
  <2>1. f \in Seq(S)
    BY <1>2, FragmentsAssumption
  <2>2. S \subseteq Tokens
    BY <1>2 DEF Tokens
  <2> HIDE DEF S
  <2> QED BY <2>1, <2>2 DEF Sourced
<1> QED BY <1>1, <1>2

LEMMA SourcesAppended ==
  ASSUME NEW s, NEW f, Sourced(s), Sourced(f)
  PROVE  /\ Sourced(s \o f) /\ DOMAIN s \subseteq DOMAIN (s \o f)
         /\ \A i \in DOMAIN s : (s \o f)[i] = s[i]
<1> DEFINE S == Tokens \cup {Symbol("END_OF_FILE")}
<1>1. s \in Seq(S) /\ f \in Seq(S)
  BY DEF Sourced
<1> HIDE DEF S
<1>2. s \o f \in Seq(S)
  BY <1>1
<1>3. DOMAIN s \subseteq DOMAIN (s \o f) /\ \A i \in DOMAIN s : (s \o f)[i] = s[i]
  BY <1>1
<1> QED BY <1>2, <1>3 DEF Sourced, S

LEMMA SourcedNames ==
  ASSUME NEW b, Sourced(b.source)
  PROVE  Names(b)
<1>1. \A x \in Tokens : x.type = "IDENTIFIER" => x.lexeme # ""
  BY FragmentsAssumption DEF Tokens
<1>2. Symbol("END_OF_FILE").type # "IDENTIFIER"
  BY DEF Symbol
<1>3. CASE b.previous \in DOMAIN b.source
  <2>1. Previous(b) \in Tokens \cup {Symbol("END_OF_FILE")}
    BY <1>3 DEF Sourced, Previous, TokenAt
  <2> QED BY <1>1, <1>2, <2>1 DEF Names, IsName
<1>4. CASE b.previous \notin DOMAIN b.source
  BY <1>2, <1>4 DEF Names, Previous, TokenAt
<1> QED BY <1>3, <1>4

(* Tokens are appended, and nothing else changes.                          *)
LEMMA SourceSet ==
  ASSUME NEW d, NEW s, IsCompiler(d)
  PROVE  LET e == [d EXCEPT !.source = s]
         IN  /\ IsCompiler(e) /\ e.source = s /\ e.hadError = d.hadError
             /\ e.previous = d.previous /\ e.compilers = d.compilers
             /\ e.functions = d.functions
<1> DEFINE e == [d EXCEPT !.source = s]
<1>1. d = [source |-> d.source, previous |-> d.previous, current |-> d.current,
           hadError |-> d.hadError, panicMode |-> d.panicMode, canAssign |-> d.canAssign,
           compilers |-> d.compilers, functions |-> d.functions, hangs |-> d.hangs]
  BY DEF IsCompiler
<1>2. e = [source |-> s, previous |-> d.previous, current |-> d.current,
           hadError |-> d.hadError, panicMode |-> d.panicMode, canAssign |-> d.canAssign,
           compilers |-> d.compilers, functions |-> d.functions, hangs |-> d.hangs]
  BY <1>1
<1> HIDE DEF e
<1>3. /\ e.source = s /\ e.previous = d.previous /\ e.current = d.current
      /\ e.hadError = d.hadError /\ e.panicMode = d.panicMode /\ e.canAssign = d.canAssign
      /\ e.compilers = d.compilers /\ e.functions = d.functions /\ e.hangs = d.hangs
  BY <1>2
<1>4. e = [source |-> e.source, previous |-> e.previous, current |-> e.current,
           hadError |-> e.hadError, panicMode |-> e.panicMode, canAssign |-> e.canAssign,
           compilers |-> e.compilers, functions |-> e.functions, hangs |-> e.hangs]
  BY <1>2, <1>3
<1>5. IsSequence(e.compilers) /\ (e.panicMode => e.hadError)
  BY <1>3 DEF IsCompiler
<1>6. IsCompiler(e)
  BY <1>4, <1>5 DEF IsCompiler
<1> QED BY <1>3, <1>6 DEF e

LEMMA ScanSound ==
  ASSUME NEW b, NEW e, NEW ws, Sound(b, ws), e.compilers = b.compilers, e.functions = b.functions,
         Previous(b).type = "IDENTIFIER" => Previous(e) = Previous(b)
  PROVE  Sound(e, ws)
<1>1. \A k : Nested(e, k) <=> Nested(b, k)
  BY DEF Nested
<1>2. NextFinds(b) => NextFinds(e)
  <2>1. Inner(e) = Inner(b)
    BY DEF Inner
  <2> DEFINE t == Last(Inner(b).todo)
  <2> SUFFICES ASSUME NextFinds(b) PROVE NextFinds(e)
    OBVIOUS
  <2>2. CASE t.do \in {"Variable", "ResolveUpvalue"}
    BY <2>1, <2>2 DEF NextFinds
  <2>3. CASE t.do = "CaptureUpvalue"
    BY <2>1, <2>3 DEF NextFinds
  <2>4. CASE t.do = "Closure"
    BY <2>1, <2>4 DEF NextFinds
  <2>5. CASE t.do \notin {"Variable", "ResolveUpvalue", "CaptureUpvalue", "Closure"}
    BY <2>1, <2>5 DEF NextFinds
  <2> QED BY <2>2, <2>3, <2>4, <2>5
<1> QED BY <1>1, <1>2 DEF Sound

-----------------------------------------------------------------------------
(* The specification.                                                      *)

LEMMA InitInvariant ==
  ASSUME c = Start(<< >>), windows = [open |-> <<NewWindow>>, done |-> << >>]
  PROVE  Invariant
<1>1. IsCompiler(c) /\ c.source = << >> /\ Sound(c, windows)
  BY StartSound
<1>2. << >> \in Seq(Tokens \cup {Symbol("END_OF_FILE")})
  OBVIOUS
<1> QED BY <1>1, <1>2 DEF Invariant

LEMMA ScanInvariant ==
  ASSUME Invariant, Scan
  PROVE  Invariant'
<1>1. /\ IsCompiler(c) /\ Sourced(c.source)
      /\ ~c.hadError => Sound(c, windows)
  BY DEF Invariant, Sourced
<1>2. PICK f \in Fragments \cup {<<Symbol("END_OF_FILE")>>} :
        c' = [c EXCEPT !.source = c.source \o f] /\ windows' = windows
  BY DEF Scan
<1>3. Sourced(f)
  BY FragmentSourced
<1> DEFINE s == c.source \o f
<1>4. /\ Sourced(s) /\ DOMAIN c.source \subseteq DOMAIN s
      /\ \A i \in DOMAIN c.source : s[i] = c.source[i]
  BY <1>1, <1>3, SourcesAppended
<1> HIDE DEF s
<1>5. /\ IsCompiler(c') /\ c'.source = s /\ c'.hadError = c.hadError
      /\ c'.previous = c.previous /\ c'.compilers = c.compilers /\ c'.functions = c.functions
  BY <1>1, <1>2, SourceSet DEF s
<1>6. Previous(c).type = "IDENTIFIER" => Previous(c') = Previous(c)
  <2>1. Symbol("END_OF_FILE").type # "IDENTIFIER"
    BY DEF Symbol
  <2>2. CASE c.previous \in DOMAIN c.source
    BY <1>4, <1>5, <2>2 DEF Previous, TokenAt
  <2>3. CASE c.previous \notin DOMAIN c.source
    BY <2>1, <2>3 DEF Previous, TokenAt
  <2> QED BY <2>2, <2>3
<1>7. ~c'.hadError => Sound(c', windows')
  BY <1>1, <1>2, <1>5, <1>6, ScanSound
<1> QED BY <1>4, <1>5, <1>7 DEF Invariant, Sourced, Tokens

LEMMA ProceedInvariant ==
  ASSUME Invariant, WithinBytes, WithinBytes', Proceed
  PROVE  Invariant'
<1>1. /\ IsCompiler(c) /\ Sourced(c.source)
      /\ ~c.hadError => Sound(c, windows)
  BY DEF Invariant, Sourced
<1>2. c' = DoTask(c) /\ windows' = History(windows, c, c') /\ Working(c)
  BY <1>1 DEF Proceed, Ended, Working
<1>3. Steady(c, c')
  BY <1>2, StepSteady
<1>4. IsCompiler(c') /\ c'.source = c.source /\ (c.hadError => c'.hadError)
  BY <1>3 DEF Steady
<1>5. ASSUME ~c'.hadError
      PROVE  Sound(c', windows')
  <2>1. ~c.hadError /\ Sound(c, windows)
    BY <1>1, <1>4, <1>5
  <2>2. Within(c) /\ Within(c')
    BY <1>5, <2>1 DEF WithinBytes, Within
  <2>3. Names(c)
    BY <1>1, SourcedNames
  <2> QED BY <1>2, <1>5, <2>1, <2>2, <2>3, StepSound
<1> QED BY <1>1, <1>4, <1>5 DEF Invariant, Sourced, Tokens

LEMMA InvariantStep ==
  ASSUME Invariant, WithinBytes, WithinBytes', [Next]_vars
  PROVE  Invariant'
<1>1. CASE Scan
  BY <1>1, ScanInvariant
<1>2. CASE Proceed
  BY <1>2, ProceedInvariant
<1>3. CASE Begin
  <2>1. /\ c' = Start(<< >>) /\ windows' = [open |-> <<NewWindow>>, done |-> << >>]
    BY <1>3 DEF Begin
  <2>2. IsCompiler(c') /\ c'.source = << >> /\ Sound(c', windows')
    BY <2>1, StartSound
  <2>3. << >> \in Seq(Tokens \cup {Symbol("END_OF_FILE")})
    OBVIOUS
  <2> QED BY <2>2, <2>3 DEF Invariant, Tokens
<1>4. CASE UNCHANGED vars
  <2>1. c' = c /\ windows' = windows
    BY <1>4 DEF vars
  <2> QED BY <2>1 DEF Invariant, Tokens
<1> QED BY <1>1, <1>2, <1>3, <1>4 DEF Next

LEMMA InvariantVerifies ==
  ASSUME Invariant
  PROVE  AcceptedIsVerified
<1> SUFFICES ASSUME c.compilers = << >>, ~c.hadError
             PROVE  /\ \A f \in DOMAIN c.functions :
                         /\ Verified(c.functions, c.functions[f], windows.done[f].heights)
                         /\ KeepsLocals(c.functions, c.functions[f], windows.done[f].heights,
                                        windows.done[f].locals)
                    /\ VerifiedScript(Last(c.functions), Last(windows.done).heights)
  BY DEF AcceptedIsVerified
<1>1. Sound(c, windows)
  BY DEF Invariant
<1>2. VerifiedScript(Last(c.functions), Last(windows.done).heights)
  BY <1>1 DEF Sound
<1>3. FunctionsSound(c.functions, windows.done)
  BY <1>1 DEF Sound
<1>4. \A f \in DOMAIN c.functions :
        FunctionSound(c.functions, c.functions[f], windows.done[f])
  BY <1>3 DEF FunctionsSound
<1> QED BY <1>2, <1>4 DEF FunctionSound

(* The code of every line that compile accepts is verified, whatever the   *)
(* tokens that the scanner makes of it, if no function has so many locals, *)
(* and no code is so deep in scopes, that localCount, scopeDepth or the    *)
(* depth of a Local wraps.                                                 *)
THEOREM CodeIsVerified ==
  Spec /\ []WithinBytes => []AcceptedIsVerified
<1>1. Init => Invariant
  BY InitInvariant DEF Init
<1>2. Invariant /\ WithinBytes /\ WithinBytes' /\ [Next]_vars => Invariant'
  BY InvariantStep
<1>3. Invariant => AcceptedIsVerified
  BY InvariantVerifies
<1> QED BY <1>1, <1>2, <1>3, PTL DEF Spec
=============================================================================
