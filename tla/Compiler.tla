------------------------------ MODULE Compiler ------------------------------
(***************************************************************************)
(* The one-pass compiler of src/compiler.cpp: a Pratt parser that emits    *)
(* code as it goes.                                                        *)
(*                                                                         *)
(* Its procedures call each other.  Here they are the tasks of a machine,  *)
(* and what a procedure still has to do when it calls another is a task    *)
(* that waits: DoTask(c) is the state of the compiler after its next task, *)
(* which asks for one token at most and emits one instruction at most.     *)
(* c is a record:                                                          *)
(*   source     the tokens of the line, each with a type and a lexeme      *)
(*   previous, current   parser.previous and parser.current, as positions  *)
(*   hadError, panicMode, canAssign   the flags                            *)
(*   compilers  the FunctionCompilers, innermost last: `current' is Last   *)
(*   functions  the functions that are finished, in that order             *)
(*   hangs      a procedure has been entered that never returns            *)
(* The tasks of a FunctionCompiler are in its field todo, the next last.   *)
(* The line number the code keeps for a byte is modelled by the position   *)
(* of the token it would be the line of.                                   *)
(***************************************************************************)
EXTENDS Bytecode, SequencesExt

Byte8(n) == n % (UINT8_MAX + 1)

-----------------------------------------------------------------------------
(* Tokens.  A NUMBER also has the value val.                               *)

Symbol(t) == [type |-> t, lexeme |-> ""]
Identifier(n) == [type |-> "IDENTIFIER", lexeme |-> n]
StringToken(s) == [type |-> "STRING", lexeme |-> s]
NumberToken(x) == [type |-> "NUMBER", lexeme |-> "", val |-> x]

TokenAt(c, i) == IF i \in DOMAIN c.source THEN c.source[i] ELSE Symbol("END_OF_FILE")
Previous(c) == TokenAt(c, c.previous)
Current(c) == TokenAt(c, c.current)
Check(c, t) == Current(c).type = t

-----------------------------------------------------------------------------
(* Precedences and rules.                                                  *)

ASSIGNMENT == 1
OR == 2
AND == 3
UNARY == 8

Precedence(t) ==
  CASE t = "OR" -> OR
    [] t = "AND" -> AND
    [] t \in {"BANG_EQUAL", "EQUAL_EQUAL"} -> 4
    [] t \in {"GREATER", "GREATER_EQUAL", "LESS", "LESS_EQUAL"} -> 5
    [] t \in {"MINUS", "PLUS"} -> 6
    [] t \in {"SLASH", "STAR"} -> 7
    [] t = "LEFT_PAREN" -> 9
    [] OTHER -> 0

HasPrefix == {"LEFT_PAREN", "MINUS", "BANG", "IDENTIFIER", "STRING", "NUMBER",
              "FALSE", "NIL", "TRUE"}

InfixCode(t) ==
  CASE t = "PLUS" -> <<OP_ADD>>
    [] t = "MINUS" -> <<OP_SUBTRACT>>
    [] t = "STAR" -> <<OP_MULTIPLY>>
    [] t = "SLASH" -> <<OP_DIVIDE>>
    [] t = "BANG_EQUAL" -> <<OP_EQUAL, OP_NOT>>
    [] t = "EQUAL_EQUAL" -> <<OP_EQUAL>>
    [] t = "GREATER" -> <<OP_GREATER>>
    [] t = "GREATER_EQUAL" -> <<OP_LESS, OP_NOT>>
    [] t = "LESS" -> <<OP_LESS>>
    [] t = "LESS_EQUAL" -> <<OP_GREATER, OP_NOT>>

-----------------------------------------------------------------------------
(* Errors and tokens.                                                      *)

(* error, errorAtCurrent: only the first of a panic is reported.           *)
Error(c) == IF c.panicMode THEN c ELSE [c EXCEPT !.panicMode = TRUE, !.hadError = TRUE]

(* Erroneous tokens are reported and skipped.                              *)
Advance(c) ==
  LET next == CHOOSE i \in c.current + 1 .. Len(c.source) + c.current + 1 :
                /\ TokenAt(c, i).type # "ERROR"
                /\ \A k \in c.current + 1 .. i - 1 : TokenAt(c, k).type = "ERROR"
  IN  [(IF next = c.current + 1 THEN c ELSE Error(c))
         EXCEPT !.previous = c.current, !.current = next]

Consume(c, t) == IF Check(c, t) THEN Advance(c) ELSE Error(c)

StatementStart == {"CLASS", "FUN", "VAR", "FOR", "IF", "WHILE", "PRINT", "RETURN"}

(* The loop that is meant to skip tokens does not: it returns at once or   *)
(* never.                                                                  *)
Synchronize(c) ==
  LET returns == \/ Check(c, "END_OF_FILE")
                 \/ Previous(c).type = "SEMICOLON"
                 \/ Current(c).type \in StatementStart
  IN  [c EXCEPT !.panicMode = FALSE, !.hangs = ~returns]

-----------------------------------------------------------------------------
(* Tasks, and the code of the innermost function.                          *)

Inner(c) == Last(c.compilers)
With(c, fc) == [c EXCEPT !.compilers[Len(c.compilers)] = fc]
Count(c) == Len(Inner(c).code)

Task(do, args) == [do |-> do, args |-> args]

(* The tasks are done next, in their order.                                *)
Then(c, tasks) == With(c, [Inner(c) EXCEPT !.todo = @ \o Reverse(tasks)])

Emit(c, bytes) ==
  With(c, [Inner(c) EXCEPT !.code = @ \o bytes,
                           !.lines = @ \o [i \in DOMAIN bytes |-> c.previous]])

Parsing(precedence) == Task("ParsePrecedence", <<precedence>>)
Expression == Parsing(ASSIGNMENT)
Consuming(t) == Task("Consume", <<t>>)
Emitting(bytes) == Task("Emit", bytes)

(* makeConstant appends v; ConstantIndex is the index it then returns.     *)
MakeConstant(c, v) ==
  LET d == With(c, [Inner(c) EXCEPT !.constants = Append(@, v)])
  IN  IF Len(Inner(d).constants) - 1 > UINT8_MAX THEN Error(d) ELSE d

ConstantIndex(c) ==
  LET k == Len(Inner(c).constants) - 1 IN IF k > UINT8_MAX THEN 0 ELSE k

StringConstant(s) == [type |-> "STRING", val |-> s]
NumberConstant(x) == [type |-> "NUMBER", val |-> x]
FunctionConstant(f) == [type |-> "FUNCTION", val |-> f]

EmitConstant(c, v) ==
  LET d == MakeConstant(c, v) IN Emit(d, <<OP_CONSTANT, ConstantIndex(d)>>)

(* emitJump returns where its operand is, two bytes from the end.          *)
EmitJump(c, op) == Emit(c, <<op, UINT8_MAX, UINT8_MAX>>)
JumpOperand(c) == Count(c) - 2

High(n) == Byte8(n \div (UINT8_MAX + 1))
Low(n) == Byte8(n)

PatchJump(c, offset) ==
  LET jump == Count(c) - offset - 2
      d == IF jump > UINT16_MAX THEN Error(c) ELSE c
  IN  With(d, [Inner(d) EXCEPT !.code[offset + 1] = High(jump), !.code[offset + 2] = Low(jump)])

EmitLoop(c, loopStart) ==
  LET offset == Count(c) + 1 - loopStart + 2
      d == IF offset > UINT16_MAX THEN Error(c) ELSE c
  IN  Emit(d, <<OP_LOOP, High(offset), Low(offset)>>)

-----------------------------------------------------------------------------
(* Function compilers, scopes and variables.                               *)

NewCompiler(type, todo) ==
  [type |-> type, arity |-> 0, code |-> << >>, lines |-> << >>, constants |-> << >>,
   locals |-> <<[name |-> "", depth |-> 0]>>, upvalues |-> << >>, scopeDepth |-> 0,
   todo |-> todo]

BeginScope(c) == With(c, [Inner(c) EXCEPT !.scopeDepth = Byte8(@ + 1)])

(* Pops the locals of the scope; a local without initializer counts.       *)
PopLocals(c) ==
  LET locals == Inner(c).locals
  IN  IF locals # << >> /\ Last(locals).depth > Inner(c).scopeDepth
      THEN LET d == Emit(c, <<OP_POP>>)
           IN  Then(With(d, [Inner(d) EXCEPT !.locals = Front(@)]),
                    <<Task("PopLocals", << >>)>>)
      ELSE c

EndScope(c) == PopLocals(With(c, [Inner(c) EXCEPT !.scopeDepth = Byte8(@ - 1)]))

(* A local is declared without initializer, whether or not its scope has   *)
(* the name already, which is an error.                                    *)
DeclareVariable(c) ==
  LET name == Previous(c).lexeme
      fc == Inner(c)
      OfScope(i) == \A k \in i .. Len(fc.locals) :
                      fc.locals[k].depth = UINT8_MAX \/ fc.locals[k].depth >= fc.scopeDepth
      d == IF \E i \in DOMAIN fc.locals : OfScope(i) /\ fc.locals[i].name = name
           THEN Error(c) ELSE c
  IN  IF fc.scopeDepth = 0 THEN c
      ELSE With(d, [fc EXCEPT !.locals = Append(@, [name |-> name, depth |-> UINT8_MAX])])

MarkInitialized(c) ==
  LET fc == Inner(c)
  IN  IF fc.scopeDepth = 0 THEN c
      ELSE With(c, [fc EXCEPT !.locals[Len(fc.locals)].depth = fc.scopeDepth])

(* parseVariable returns an index, of the name of a global.                *)
ParseVariable(c) ==
  LET d == DeclareVariable(Consume(c, "IDENTIFIER"))
  IN  IF Inner(d).scopeDepth > 0 THEN d
      ELSE MakeConstant(d, StringConstant(Previous(d).lexeme))

DefineVariable(c, global) ==
  IF Inner(c).scopeDepth > 0 THEN MarkInitialized(c)
  ELSE Emit(c, <<OP_DEFINE_GLOBAL, global>>)

(* The innermost local of the name in the k-th compiler, as a byte;        *)
(* UINT8_MAX says that there is none.                                      *)
Matching(c, k, name) == {i \in DOMAIN c.compilers[k].locals :
                           c.compilers[k].locals[i].name = name}

(* A mutant of ResolveLocal that answers the slot after the local's.       *)
ResolveLocalPast(c, k, name) ==
  IF Matching(c, k, name) = {} THEN UINT8_MAX ELSE Byte8(Max(Matching(c, k, name)))

ResolveLocal(c, k, name) ==
  IF Matching(c, k, name) = {} THEN UINT8_MAX ELSE Byte8(Max(Matching(c, k, name)) - 1)

(* Its own initializer cannot read it.                                     *)
CheckLocal(c, k, name) ==
  IF /\ Matching(c, k, name) # {}
     /\ c.compilers[k].locals[Max(Matching(c, k, name))].depth = UINT8_MAX
  THEN Error(c) ELSE c

(* What addUpvalue returns, and what it does.                              *)
NewUpvalue(index, isLocal) == [index |-> index, isLocal |-> isLocal]

(* A mutant of UpvalueIndex that counts the new upvalue first.             *)
UpvalueIndexAfter(c, k, up) ==
  LET ups == c.compilers[k].upvalues
      same == {i \in DOMAIN ups : ups[i] = up}
  IN  Byte8(IF same # {} THEN Min(same) - 1 ELSE Len(ups) + 1)

UpvalueIndex(c, k, up) ==
  LET ups == c.compilers[k].upvalues
      same == {i \in DOMAIN ups : ups[i] = up}
  IN  Byte8(IF same # {} THEN Min(same) - 1 ELSE Len(ups))

AddUpvalue(c, k, up) ==
  IF \E i \in DOMAIN c.compilers[k].upvalues : c.compilers[k].upvalues[i] = up THEN c
  ELSE [c EXCEPT !.compilers[k].upvalues = Append(@, up)]

(* namedVariable, once the name is resolved.                               *)
Access(c, get, set, arg) ==
  IF c.canAssign /\ Check(c, "EQUAL")
  THEN Then(Advance(c), <<Expression, Emitting(<<set, arg>>)>>)
  ELSE Emit(c, <<get, arg>>)

Global(c) ==
  LET d == MakeConstant(c, StringConstant(Previous(c).lexeme))
  IN  Access(d, OP_GET_GLOBAL, OP_SET_GLOBAL, ConstantIndex(d))

(* resolveUpvalue of the compilers k - 1 and below has returned upvalue;   *)
(* it is captured by the k-th, which returns in its turn.                  *)
Capturing(k, upvalue) == Task("CaptureUpvalue", <<k, upvalue>>)
CaptureIn(c, k, up) ==
  Then(AddUpvalue(c, k, up), <<Capturing(k + 1, UpvalueIndex(c, k, up))>>)

(* A mutant of CaptureUpvalue that takes it for a local of the enclosing.  *)
CaptureAsLocal(c, k, upvalue) ==
  IF upvalue = UINT8_MAX THEN Global(c)
  ELSE IF k > Len(c.compilers) THEN Access(c, OP_GET_UPVALUE, OP_SET_UPVALUE, upvalue)
  ELSE CaptureIn(c, k, NewUpvalue(upvalue, TRUE))

CaptureUpvalue(c, k, upvalue) ==
  IF upvalue = UINT8_MAX THEN Global(c)
  ELSE IF k > Len(c.compilers) THEN Access(c, OP_GET_UPVALUE, OP_SET_UPVALUE, upvalue)
  ELSE CaptureIn(c, k, NewUpvalue(upvalue, FALSE))

ResolveUpvalue(c, k) ==
  LET name == Previous(c).lexeme
      local == ResolveLocal(c, k - 1, name)
      d == CheckLocal(c, k - 1, name)
  IN  IF k = 1 THEN Global(c)
      ELSE IF local # UINT8_MAX THEN CaptureIn(d, k, NewUpvalue(local, TRUE))
      ELSE Then(d, <<Task("ResolveUpvalue", <<k - 1>>)>>)

Variable(c) ==
  LET k == Len(c.compilers)
      name == Previous(c).lexeme
      local == ResolveLocal(c, k, name)
      d == CheckLocal(c, k, name)
  IN  IF local # UINT8_MAX THEN Access(d, OP_GET_LOCAL, OP_SET_LOCAL, local)
      ELSE Then(d, <<Task("ResolveUpvalue", <<k>>)>>)

-----------------------------------------------------------------------------
(* Expressions.                                                            *)

Literal(c) ==
  Emit(c, CASE Previous(c).type = "FALSE" -> <<OP_FALSE>>
            [] Previous(c).type = "NIL" -> <<OP_NIL>>
            [] Previous(c).type = "TRUE" -> <<OP_TRUE>>)

Unary(c) ==
  Then(c, <<Parsing(UNARY),
            Emitting(IF Previous(c).type = "BANG" THEN <<OP_NOT>> ELSE <<OP_NEGATE>>)>>)

Prefix(c) ==
  LET t == Previous(c).type
  IN  CASE t = "LEFT_PAREN" -> Then(c, <<Expression, Consuming("RIGHT_PAREN")>>)
        [] t \in {"MINUS", "BANG"} -> Unary(c)
        [] t = "IDENTIFIER" -> Then(c, <<Task("Variable", << >>)>>)
        [] t = "STRING" -> EmitConstant(c, StringConstant(Previous(c).lexeme))
        [] t = "NUMBER" -> EmitConstant(c, NumberConstant(Previous(c).val))
        [] OTHER -> Literal(c)

(* A mutant of Binary whose operators associate to the right.              *)
BinaryToTheRight(c) ==
  LET code == InfixCode(Previous(c).type)
  IN  Then(c, <<Parsing(Precedence(Previous(c).type))>>
              \o [i \in DOMAIN code |-> Emitting(<<code[i]>>)])

Binary(c) ==
  LET code == InfixCode(Previous(c).type)
  IN  Then(c, <<Parsing(Precedence(Previous(c).type) + 1)>>
              \o [i \in DOMAIN code |-> Emitting(<<code[i]>>)])

(* What follows a jump patches the operand at an offset.                   *)
Patching(offset) == Task("PatchJump", <<offset>>)

And(c) ==
  LET d == EmitJump(c, OP_JUMP_IF_FALSE)
  IN  Then(d, <<Emitting(<<OP_POP>>), Parsing(AND), Patching(JumpOperand(d))>>)

Or(c) ==
  LET d == EmitJump(c, OP_JUMP_IF_FALSE)
  IN  Then(d, <<Task("OrElse", <<JumpOperand(d)>>)>>)

(* A mutant of OrElse whose jumps lead to where the other should.          *)
OrElseSwapped(c, elseJump) ==
  LET end == EmitJump(c, OP_JUMP)
  IN  Then(PatchJump(end, JumpOperand(end)),
           <<Emitting(<<OP_POP>>), Parsing(OR), Patching(elseJump)>>)

OrElse(c, elseJump) ==
  LET end == EmitJump(c, OP_JUMP)
  IN  Then(PatchJump(end, elseJump),
           <<Emitting(<<OP_POP>>), Parsing(OR), Patching(JumpOperand(end))>>)

(* call and argumentList: n arguments have been parsed before the last.    *)
Counting(n) == Task("CountArgument", <<n>>)

Call(c) ==
  IF Check(c, "RIGHT_PAREN") THEN Emit(Advance(c), <<OP_CALL, 0>>)
  ELSE Then(c, <<Expression, Counting(0)>>)

(* A mutant of CountArgument that allows one argument less.                *)
CountArgumentBefore(c, n) ==
  LET d == IF n + 1 = UINT8_MAX THEN Error(c) ELSE c
      count == Byte8(n + 1)
  IN  IF Check(d, "COMMA") THEN Then(Advance(d), <<Expression, Counting(count)>>)
      ELSE Emit(Consume(d, "RIGHT_PAREN"), <<OP_CALL, count>>)

CountArgument(c, n) ==
  LET d == IF n = UINT8_MAX THEN Error(c) ELSE c
      count == Byte8(n + 1)
  IN  IF Check(d, "COMMA") THEN Then(Advance(d), <<Expression, Counting(count)>>)
      ELSE Emit(Consume(d, "RIGHT_PAREN"), <<OP_CALL, count>>)

Infix(c) ==
  LET t == Previous(c).type
  IN  CASE t = "LEFT_PAREN" -> Then(c, <<Task("Call", << >>)>>)
        [] t = "AND" -> And(c)
        [] t = "OR" -> Or(c)
        [] OTHER -> Binary(c)

(* canAssign is what the parse of the last operand has left.               *)
ParsingInfix(precedence) == Task("ParseInfix", <<precedence>>)

ParseInfix(c, precedence) ==
  IF precedence <= Precedence(Current(c).type)
  THEN Infix(Advance(Then(c, <<ParsingInfix(precedence)>>)))
  ELSE IF c.canAssign /\ Check(c, "EQUAL") THEN Error(Advance(c)) ELSE c

ParsePrecedence(c, precedence) ==
  LET d == Advance(c)
      e == [d EXCEPT !.canAssign = precedence <= ASSIGNMENT]
  IN  IF Previous(d).type \notin HasPrefix THEN Error(d)
      ELSE Prefix(Then(e, <<ParsingInfix(precedence)>>))

-----------------------------------------------------------------------------
(* Statements.                                                             *)

ExpressionThen(c, op) == Then(c, <<Expression, Consuming("SEMICOLON"), Emitting(<<op>>)>>)

ConditionThen(c, task) ==
  Then(c, <<Consuming("LEFT_PAREN"), Expression, Consuming("RIGHT_PAREN"), task>>)

Substatement == Task("Statement", << >>)

(* The statements with jumps go on where they emit the next.               *)
IfStatement(c) == ConditionThen(c, Task("IfThen", << >>))

IfThen(c) ==
  LET d == EmitJump(c, OP_JUMP_IF_FALSE)
  IN  Then(d, <<Emitting(<<OP_POP>>), Substatement, Task("IfElse", <<JumpOperand(d)>>)>>)

(* A mutant of IfElse that leaves the condition on the stack.              *)
IfElseUnpopped(c, thenJump) ==
  LET d == EmitJump(c, OP_JUMP)
  IN  Then(PatchJump(d, thenJump), <<Task("Else", <<JumpOperand(d)>>)>>)

IfElse(c, thenJump) ==
  LET d == EmitJump(c, OP_JUMP)
  IN  Then(PatchJump(d, thenJump),
           <<Emitting(<<OP_POP>>), Task("Else", <<JumpOperand(d)>>)>>)

Else(c, elseJump) ==
  LET d == Then(c, <<Patching(elseJump)>>)
  IN  IF Check(c, "ELSE") THEN Then(Advance(d), <<Substatement>>) ELSE d

(* The end of a loop, which has an exit unless exitJump is 0.              *)
Looping(loopStart, exitJump) == Task("EndLoop", <<loopStart, exitJump>>)

EndLoop(c, loopStart, exitJump) ==
  LET d == EmitLoop(c, loopStart)
  IN  IF exitJump = 0 THEN d ELSE Then(PatchJump(d, exitJump), <<Emitting(<<OP_POP>>)>>)

WhileStatement(c) == ConditionThen(c, Task("WhileBody", <<Count(c)>>))

WhileBody(c, loopStart) ==
  LET d == EmitJump(c, OP_JUMP_IF_FALSE)
  IN  Then(d, <<Emitting(<<OP_POP>>), Substatement, Looping(loopStart, JumpOperand(d))>>)

ForStatement(c) ==
  Then(BeginScope(c), <<Consuming("LEFT_PAREN"), Task("ForInitializer", << >>),
                        Task("ForCondition", << >>), Task("EndScope", << >>)>>)

ForInitializer(c) ==
  CASE Check(c, "SEMICOLON") -> Advance(c)
    [] Check(c, "VAR") -> Then(Advance(c), <<Task("VarDeclaration", << >>)>>)
    [] OTHER -> ExpressionThen(c, OP_POP)

ForBodyAfter(loopStart, exitJump) == Task("ForBody", <<loopStart, exitJump>>)

ForCondition(c) ==
  IF Check(c, "SEMICOLON") THEN Then(Advance(c), <<ForBodyAfter(Count(c), 0)>>)
  ELSE Then(c, <<Expression, Consuming("SEMICOLON"), Task("ForExit", <<Count(c)>>)>>)

ForExit(c, loopStart) ==
  LET d == EmitJump(c, OP_JUMP_IF_FALSE)
  IN  Then(d, <<Emitting(<<OP_POP>>), ForBodyAfter(loopStart, JumpOperand(d))>>)

(* A mutant of ForBody whose body leads back to the condition.             *)
ForBodyUnstepped(c, loopStart, exitJump) ==
  LET d == EmitJump(c, OP_JUMP)
  IN  IF Check(c, "RIGHT_PAREN")
      THEN Then(Advance(c), <<Substatement, Looping(loopStart, exitJump)>>)
      ELSE Then(d, <<Expression, Emitting(<<OP_POP>>), Consuming("RIGHT_PAREN"),
                     Task("ForIncrement", <<loopStart, JumpOperand(d)>>),
                     Substatement, Looping(loopStart, exitJump)>>)

ForBody(c, loopStart, exitJump) ==
  LET d == EmitJump(c, OP_JUMP)
  IN  IF Check(c, "RIGHT_PAREN")
      THEN Then(Advance(c), <<Substatement, Looping(loopStart, exitJump)>>)
      ELSE Then(d, <<Expression, Emitting(<<OP_POP>>), Consuming("RIGHT_PAREN"),
                     Task("ForIncrement", <<loopStart, JumpOperand(d)>>),
                     Substatement, Looping(Count(d), exitJump)>>)

ForIncrement(c, loopStart, bodyJump) == PatchJump(EmitLoop(c, loopStart), bodyJump)

ReturnStatement(c) ==
  LET d == IF Inner(c).type = "SCRIPT" THEN Error(c) ELSE c
  IN  IF Check(d, "SEMICOLON")
      THEN Then(Advance(d), <<Emitting(<<OP_NIL>>), Emitting(<<OP_RETURN>>)>>)
      ELSE ExpressionThen(d, OP_RETURN)

Statement(c) ==
  LET d == Advance(c)
  IN  CASE Check(c, "PRINT") -> ExpressionThen(d, OP_PRINT)
        [] Check(c, "WHILE") -> WhileStatement(d)
        [] Check(c, "FOR") -> ForStatement(d)
        [] Check(c, "LEFT_BRACE") ->
             Then(BeginScope(d), <<Task("Block", << >>), Task("EndScope", << >>)>>)
        [] Check(c, "IF") -> IfStatement(d)
        [] Check(c, "RETURN") -> Then(d, <<Task("ReturnStatement", << >>)>>)
        [] OTHER -> ExpressionThen(c, OP_POP)

-----------------------------------------------------------------------------
(* Declarations.                                                           *)

VarDeclaration(c) ==
  LET d == ParseVariable(c)
  IN  Then(d, <<Task("VarInitializer", << >>), Consuming("SEMICOLON"),
                Task("DefineVariable", <<ConstantIndex(d)>>)>>)

VarInitializer(c) ==
  IF Check(c, "EQUAL") THEN Then(Advance(c), <<Expression>>) ELSE Emit(c, <<OP_NIL>>)

(* createFunction leaves the enclosing compiler to emit the closure.       *)
FunDeclaration(c) ==
  LET d == ParseVariable(c)
      e == Then(MarkInitialized(d), <<Task("Closure", << >>),
                                      Task("DefineVariable", <<ConstantIndex(d)>>)>>)
  IN  BeginScope([e EXCEPT !.compilers = Append(@, NewCompiler("FUNCTION",
                                                               <<Task("Function", << >>)>>))])

Function(c) ==
  Then(Consume(c, "LEFT_PAREN"),
       <<Task("ParameterList", << >>), Consuming("RIGHT_PAREN"), Consuming("LEFT_BRACE"),
         Task("Block", << >>), Task("EndCompiler", << >>)>>)

(* arity is a byte, so the test that there are at most 255 never fails.    *)
Parameter(c) ==
  LET d == With(c, [Inner(c) EXCEPT !.arity = Byte8(@ + 1)])
  IN  Then(DefineVariable(ParseVariable(d), 0), <<Task("MoreParameters", << >>)>>)

ParameterList(c) == IF Check(c, "RIGHT_PAREN") THEN c ELSE Parameter(c)
MoreParameters(c) ==
  IF Check(c, "COMMA") THEN Then(Advance(c), <<Task("Parameter", << >>)>>) ELSE c

Finished(fc) ==
  [arity |-> fc.arity, upvalueCount |-> Len(fc.upvalues), code |-> fc.code,
   constants |-> fc.constants, lines |-> fc.lines, upvalues |-> fc.upvalues]

(* endCompiler: the enclosing compiler, if any, goes on.                   *)
EndCompiler(c) == Then(Emit(c, <<OP_NIL>>), <<Task("Finish", << >>)>>)

Finish(c) ==
  LET d == Emit(c, <<OP_RETURN>>)
  IN  [d EXCEPT !.functions = Append(@, Finished(Inner(d))), !.compilers = Front(@)]

Captures(upvalues) ==
  [i \in 1 .. 2 * Len(upvalues) |->
     LET up == upvalues[(i + 1) \div 2]
     IN  IF i % 2 = 0 THEN Byte8(up.index) ELSE IF up.isLocal THEN 1 ELSE 0]

Closure(c) ==
  LET d == MakeConstant(c, FunctionConstant(Len(c.functions)))
  IN  Emit(d, <<OP_CLOSURE, ConstantIndex(d)>> \o Captures(Last(c.functions).upvalues))

Synchronized(c) == IF c.panicMode THEN Synchronize(c) ELSE c

Declaration(c) ==
  LET d == Then(c, <<Task("Synchronize", << >>)>>)
  IN  CASE Check(c, "FUN") -> Then(Advance(d), <<Task("FunDeclaration", << >>)>>)
        [] Check(c, "VAR") -> Then(Advance(d), <<Task("VarDeclaration", << >>)>>)
        [] OTHER -> Statement(d)

(* block, which has no scope of its own.                                   *)
Block(c) ==
  IF Check(c, "RIGHT_BRACE") \/ Check(c, "END_OF_FILE") THEN Consume(c, "RIGHT_BRACE")
  ELSE Declaration(Then(c, <<Task("Block", << >>)>>))

-----------------------------------------------------------------------------
(* compile.                                                                *)

Start(source) ==
  [source |-> source, previous |-> 0, current |-> 0, hadError |-> FALSE,
   panicMode |-> FALSE, canAssign |-> FALSE, hangs |-> FALSE, functions |-> << >>,
   compilers |-> <<NewCompiler("SCRIPT", Reverse(
     <<Task("Advance", << >>), Task("Declarations", << >>), Task("EndCompiler", << >>)>>))>>]

Declarations(c) ==
  IF Check(c, "END_OF_FILE") THEN Advance(c)
  ELSE Declaration(Then(c, <<Task("Declarations", << >>)>>))

(* compile has returned, or never will.                                    *)
Ended(c) == c.compilers = << >> \/ c.hangs

DoTask(c) ==
  LET t == Last(Inner(c).todo)
      d == With(c, [Inner(c) EXCEPT !.todo = Front(@)])
  IN  CASE t.do = "ParsePrecedence" -> ParsePrecedence(d, t.args[1])
        [] t.do = "ParseInfix" -> ParseInfix(d, t.args[1])
        [] t.do = "Consume" -> Consume(d, t.args[1])
        [] t.do = "Emit" -> Emit(d, t.args)
        [] t.do = "Variable" -> Variable(d)
        [] t.do = "ResolveUpvalue" -> ResolveUpvalue(d, t.args[1])
        [] t.do = "CaptureUpvalue" -> CaptureUpvalue(d, t.args[1], t.args[2])
        [] t.do = "Call" -> Call(d)
        [] t.do = "CountArgument" -> CountArgument(d, t.args[1])
        [] t.do = "PatchJump" -> PatchJump(d, t.args[1])
        [] t.do = "OrElse" -> OrElse(d, t.args[1])
        [] t.do = "Statement" -> Statement(d)
        [] t.do = "IfThen" -> IfThen(d)
        [] t.do = "IfElse" -> IfElse(d, t.args[1])
        [] t.do = "Else" -> Else(d, t.args[1])
        [] t.do = "WhileBody" -> WhileBody(d, t.args[1])
        [] t.do = "EndLoop" -> EndLoop(d, t.args[1], t.args[2])
        [] t.do = "ForInitializer" -> ForInitializer(d)
        [] t.do = "ForCondition" -> ForCondition(d)
        [] t.do = "ForExit" -> ForExit(d, t.args[1])
        [] t.do = "ForBody" -> ForBody(d, t.args[1], t.args[2])
        [] t.do = "ForIncrement" -> ForIncrement(d, t.args[1], t.args[2])
        [] t.do = "ReturnStatement" -> ReturnStatement(d)
        [] t.do = "Block" -> Block(d)
        [] t.do = "Declarations" -> Declarations(d)
        [] t.do = "EndScope" -> EndScope(d)
        [] t.do = "PopLocals" -> PopLocals(d)
        [] t.do = "VarDeclaration" -> VarDeclaration(d)
        [] t.do = "VarInitializer" -> VarInitializer(d)
        [] t.do = "DefineVariable" -> DefineVariable(d, t.args[1])
        [] t.do = "FunDeclaration" -> FunDeclaration(d)
        [] t.do = "Function" -> Function(d)
        [] t.do = "ParameterList" -> ParameterList(d)
        [] t.do = "Parameter" -> Parameter(d)
        [] t.do = "MoreParameters" -> MoreParameters(d)
        [] t.do = "Closure" -> Closure(d)
        [] t.do = "Synchronize" -> Synchronized(d)
        [] t.do = "EndCompiler" -> EndCompiler(d)
        [] t.do = "Finish" -> Finish(d)
        [] OTHER -> Advance(d)
=============================================================================
