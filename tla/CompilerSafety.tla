--------------------------- MODULE CompilerSafety ---------------------------
(***************************************************************************)
(* The compiler, called on one line after the other: which lines it        *)
(* accepts, and what the names in them mean.                               *)
(*                                                                         *)
(* The lines are typed a fragment of a vocabulary at a time: each is the   *)
(* one before it with a fragment appended, or starts anew.  A compile that *)
(* hangs is the last.                                                      *)
(***************************************************************************)
EXTENDS WholeLines, Verifier

CONSTANT Vocabularies \* fragments, sequences of tokens, and a bound, tokens,
                      \* on the length of the lines made of them

VARIABLES vocabulary, \* the one the line is made of
          line,       \* the tokens of the last line
          result      \* the compiler, when compile() has returned

vars == <<vocabulary, line, result>>

compile(source) == line' = source /\ result' = Compile(source)

Init == vocabulary \in Vocabularies /\ line = << >> /\ result = Compile(<< >>)

(* The line l has room for what closes its braces.                         *)
Closable(l) ==
  LET Tally(type) == Cardinality({i \in DOMAIN l : l[i].type = type})
  IN  Tally("LEFT_BRACE") - Tally("RIGHT_BRACE") \in 0 .. vocabulary.tokens - Len(l)

Next ==
  /\ ~result.hangs
  /\ \/ \E f \in vocabulary.fragments : Closable(line \o f) /\ compile(line \o f)
     \/ compile(<< >>)
  /\ UNCHANGED vocabulary

Spec == Init /\ [][Next]_vars

Accepted == ~result.hangs /\ ~result.hadError

-----------------------------------------------------------------------------
(* The grammar of expressions and the code each has: Codes(level, i, j) is *)
(* the set of the codes of the tokens i to j as an expression of a level,  *)
(* from 1, assignments, to 10, primary expressions.                        *)

Type(i) == line[i].type

Level(t) ==
  CASE t \in {"EQUAL_EQUAL", "BANG_EQUAL"} -> 4
    [] t \in {"LESS", "LESS_EQUAL", "GREATER", "GREATER_EQUAL"} -> 5
    [] t \in {"PLUS", "MINUS"} -> 6
    [] t \in {"STAR", "SLASH"} -> 7
    [] OTHER -> 0

Operation(t) ==
  CASE t = "EQUAL_EQUAL" -> <<OP_EQUAL>> [] t = "BANG_EQUAL" -> <<OP_EQUAL, OP_NOT>>
    [] t = "LESS" -> <<OP_LESS>> [] t = "LESS_EQUAL" -> <<OP_GREATER, OP_NOT>>
    [] t = "GREATER" -> <<OP_GREATER>> [] t = "GREATER_EQUAL" -> <<OP_LESS, OP_NOT>>
    [] t = "PLUS" -> <<OP_ADD>> [] t = "MINUS" -> <<OP_SUBTRACT>>
    [] t = "STAR" -> <<OP_MULTIPLY>> [] t = "SLASH" -> <<OP_DIVIDE>>

(* Every name and number has a constant of its own, in their order.        *)
ConstantOf(i) == Cardinality({k \in 1 .. i - 1 : Type(k) \in {"IDENTIFIER", "NUMBER"}})

(* A jump over n bytes, if two bytes can hold the number.                  *)
Jump(op, n) == <<op, n \div (UINT8_MAX + 1), n % (UINT8_MAX + 1)>>
Within(codes) == {code \in codes : Len(code) + 1 <= UINT16_MAX}

RECURSIVE Codes(_, _, _), ArgumentCodes(_, _)
Codes(level, i, j) ==
  IF i > j THEN {}
  ELSE CASE level = 1 ->
         Codes(2, i, j) \cup
         {value \o <<OP_SET_GLOBAL, ConstantOf(i)>> :
            value \in IF i + 1 < j /\ Type(i) = "IDENTIFIER" /\ Type(i + 1) = "EQUAL"
                      THEN Codes(1, i + 2, j) ELSE {}}
    [] level = 2 ->
         Codes(3, i, j) \cup
         UNION {{l \o Jump(OP_JUMP_IF_FALSE, 3) \o Jump(OP_JUMP, Len(r) + 1) \o <<OP_POP>> \o r :
                   l \in Codes(3, i, k - 1), r \in Within(Codes(2, k + 1, j))} :
                k \in {k \in i .. j : Type(k) = "OR"}}
    [] level = 3 ->
         Codes(4, i, j) \cup
         UNION {{l \o Jump(OP_JUMP_IF_FALSE, Len(r) + 1) \o <<OP_POP>> \o r :
                   l \in Codes(4, i, k - 1), r \in Within(Codes(3, k + 1, j))} :
                k \in {k \in i .. j : Type(k) = "AND"}}
    [] level \in 4 .. 7 ->
         Codes(level + 1, i, j) \cup
         UNION {{l \o r \o Operation(Type(k)) :
                   l \in Codes(level, i, k - 1), r \in Codes(level + 1, k + 1, j)} :
                k \in {k \in i .. j : Level(Type(k)) = level}}
    [] level = 8 ->
         Codes(9, i, j) \cup
         {operand \o (IF Type(i) = "BANG" THEN <<OP_NOT>> ELSE <<OP_NEGATE>>) :
            operand \in IF Type(i) \in {"BANG", "MINUS"} THEN Codes(8, i + 1, j) ELSE {}}
    [] level = 9 ->
         Codes(10, i, j) \cup
         UNION {{callee \o arguments.code \o <<OP_CALL, arguments.count>> :
                   callee \in Codes(9, i, k - 1),
                   arguments \in {a \in ArgumentCodes(k + 1, j - 1) : a.count <= UINT8_MAX}} :
                k \in {k \in i .. j - 1 : Type(k) = "LEFT_PAREN" /\ Type(j) = "RIGHT_PAREN"}}
    [] level = 10 ->
         CASE i = j /\ Type(i) = "NUMBER" -> {<<OP_CONSTANT, ConstantOf(i)>>}
           [] i = j /\ Type(i) = "IDENTIFIER" -> {<<OP_GET_GLOBAL, ConstantOf(i)>>}
           [] i = j /\ Type(i) = "NIL" -> {<<OP_NIL>>}
           [] i = j /\ Type(i) = "TRUE" -> {<<OP_TRUE>>}
           [] i = j /\ Type(i) = "FALSE" -> {<<OP_FALSE>>}
           [] Type(i) = "LEFT_PAREN" /\ Type(j) = "RIGHT_PAREN" -> Codes(1, i + 1, j - 1)
           [] OTHER -> {}

ArgumentCodes(i, j) ==
  IF i > j THEN {[code |-> << >>, count |-> 0]}
  ELSE {[code |-> e, count |-> 1] : e \in Codes(1, i, j)} \cup
       UNION {{[code |-> e \o more.code, count |-> more.count + 1] :
                 e \in Codes(1, i, k - 1), more \in ArgumentCodes(k + 1, j)} :
              k \in {k \in i + 1 .. j - 1 : Type(k) = "COMMA"}}

(* The codes of the tokens from i on, as expression statements.            *)
RECURSIVE StatementCodes(_)
StatementCodes(i) ==
  IF i > Len(line) THEN {<< >>}
  ELSE UNION {{e \o <<OP_POP>> \o more : e \in Codes(1, i, k - 1),
                                         more \in StatementCodes(k + 1)} :
              k \in {k \in i .. Len(line) : Type(k) = "SEMICOLON"}}

(* Of lines of expression statements over names and numbers, exactly those *)
(* of the grammar are accepted that have no call of more than 255          *)
(* arguments, no jump of more than 65535 bytes and no more than 256        *)
(* constants (or what UINT8_MAX makes of these limits); operators bind and *)
(* associate as the grammar says.                                          *)
ExpressionsFollowGrammar ==
  IF Accepted
  THEN /\ StatementCodes(1) = {SubSeq(result.functions[1].code, 1,
                                      Len(result.functions[1].code) - 2)}
       /\ ConstantOf(Len(line) + 1) <= UINT8_MAX + 1
  ELSE ConstantOf(Len(line) + 1) <= UINT8_MAX + 1 => StatementCodes(1) = {}

-----------------------------------------------------------------------------
(* Lexical scoping, read off the tokens of a line that declares variables, *)
(* functions and parameters, opens and closes blocks, and uses names.      *)

Braces(i, j) == Cardinality({k \in i .. j : Type(k) = "LEFT_BRACE"})
                - Cardinality({k \in i .. j : Type(k) = "RIGHT_BRACE"})
Closer(i) == Min({j \in i + 1 .. Len(line) : Braces(i, j) = 0})

(* The braces open at i, and those of them that open a function's body.    *)
Open(i) == {k \in 1 .. i - 1 : Type(k) = "LEFT_BRACE" /\ \A j \in k .. i : Braces(k, j) > 0}
Bodies(braces) == {k \in braces : k > 1 /\ Type(k - 1) = "RIGHT_PAREN"}

IsParameter(i) ==
  \E k \in 3 .. i - 1 : /\ Type(k - 2) = "FUN" /\ Type(k) = "LEFT_PAREN"
                        /\ \A m \in k .. i : Type(m) # "RIGHT_PAREN"
IsDeclaration(i) ==
  Type(i) = "IDENTIFIER" /\ (IsParameter(i) \/ (i > 1 /\ Type(i - 1) \in {"VAR", "FUN"}))

(* The brace a declared name belongs to, 0 for the script's outermost      *)
(* scope.                                                                  *)
Home(d) == IF IsParameter(d) THEN Min({k \in d .. Len(line) : Type(k) = "LEFT_BRACE"})
           ELSE IF Open(d) = {} THEN 0 ELSE Max(Open(d))

(* The function a brace is in, 0 for the script, and how deep it is there. *)
(* The compiler counts this in a byte: where the byte is 0 again, what is  *)
(* declared is a global.                                                   *)
BodyOf(brace) == LET bodies == Bodies(Open(brace) \cup {brace})
                 IN  IF bodies = {} THEN 0 ELSE Max(bodies)
Depth(brace) == LET body == BodyOf(brace)
                IN  Cardinality({k \in Open(brace) \cup {brace} : k >= body})

Locals == {d \in DOMAIN line : /\ IsDeclaration(d) /\ Home(d) # 0
                                /\ Byte8(Depth(Home(d))) # 0}
Uses == {i \in DOMAIN line : Type(i) = "IDENTIFIER" /\ ~IsDeclaration(i)}

(* The locals alive that have the name of a use.                           *)
Named(i) == {d \in Locals : d < i /\ i < Closer(Home(d)) /\ line[d] = line[i]}

SlotOf(d) ==
  LET body == BodyOf(Home(d))
  IN  1 + Cardinality({e \in Locals : /\ e < d /\ d < Closer(Home(e))
                                      /\ BodyOf(Home(e)) = body})

(* What a function answers for a name is a byte, and one value of the byte *)
(* says that it has no such local: it says so of the local in that slot,   *)
(* and then the name is looked for in the functions around this one.       *)
Answered(i) ==
  LET named == Named(i)
  IN  {d \in named : /\ \A e \in named : BodyOf(Home(e)) = BodyOf(Home(d)) => e <= d
                     /\ Byte8(SlotOf(d)) # UINT8_MAX}

(* No scope declares a name twice, and no local is read by its initializer.*)
Legal ==
  /\ \A d, e \in Locals : Home(d) = Home(e) /\ line[d] = line[e] => d = e
  /\ \A i \in Uses :
       Named(i) # {} =>
         LET d == Max(Named(i))
         IN  Type(d - 1) = "VAR" => \E k \in d .. i : Type(k) = "SEMICOLON"

(* The function of a body: functions are finished in the order in which    *)
(* their bodies are closed.                                                *)
FunctionAt(body) ==
  IF body = 0 THEN Len(result.functions)
  ELSE Cardinality({k \in Bodies(DOMAIN line) :
                      Type(k) = "LEFT_BRACE" /\ Closer(k) <= Closer(body)})

(* Where the code reads the name used at i: in a slot of a function's      *)
(* window, which an upvalue leads to through the closures that capture it, *)
(* or in the globals.  The heights tell where the instructions are.        *)
RECURSIVE UpvalueSlot(_, _, _)
UpvalueSlot(heights, f, u) ==
  LET made == CHOOSE m \in {<<g, o>> : g \in DOMAIN result.functions, o \in 0 .. Len(line) * 10} :
                LET F == result.functions[m[1]]
                IN  /\ m[2] \in DOMAIN heights[m[1]] /\ OpAt(F, m[2]) = OP_CLOSURE
                    /\ ConstantAt(F, m[2]) = FunctionConstant(f)
      F == result.functions[made[1]]
      index == CaptureIndex(F, made[2], u + 1)
  IN  IF CapturesLocal(F, made[2], u + 1) THEN <<made[1], index>>
                                          ELSE UpvalueSlot(heights, made[1], index)

Reads(heights, i) ==
  LET Slot(f, o) == LET F == result.functions[f]
                    IN  CASE OpAt(F, o) = OP_GET_LOCAL -> <<f, Operand(F, o)>>
                          [] OpAt(F, o) = OP_GET_UPVALUE -> UpvalueSlot(heights, f, Operand(F, o))
                          [] OTHER -> <<0, 0>>
  IN  UNION {{Slot(f, o) : o \in {o \in DOMAIN heights[f] :
                                    /\ result.functions[f].lines[o + 1] = i
                                    /\ OpAt(result.functions[f], o) \in
                                         {OP_GET_LOCAL, OP_GET_UPVALUE, OP_GET_GLOBAL}}} :
             f \in DOMAIN result.functions}

(* The code cannot follow a nesting whose depth, as a byte, comes to where *)
(* it was before, nor a closure with more variables than a byte has        *)
(* indices.                                                                *)
Countable ==
  /\ \A k \in DOMAIN line : Type(k) = "LEFT_BRACE" => Depth(k) <= UINT8_MAX + 1
  /\ \A f \in DOMAIN result.functions : result.functions[f].upvalueCount <= UINT8_MAX

(* An accepted line is legal, and each name it uses is read where lexical  *)
(* scoping has declared it, however many functions lie in between: up to   *)
(* 255 scopes in each other and 255 slots in a function.  Beyond, no error *)
(* is reported, but the 256th scope declares globals, the local in slot    *)
(* 255 is hidden from its own function, and slot 256 is taken for slot 0.  *)
ScopesResolve ==
  Accepted /\ Countable =>
    /\ Legal
    /\ LET heights == HeightsOf(result.functions) IN
       \A i \in Uses :
         LET answered == Answered(i)
             d == Max(answered)
         IN  Reads(heights, i) =
               {IF answered = {} THEN <<0, 0>>
                ELSE <<FunctionAt(BodyOf(Home(d))), Byte8(SlotOf(d))>>}

-----------------------------------------------------------------------------
(* "Skip tokens until we find a semicolon (end of statement) or a token    *)
(* that starts a statement.": every line is read to its end.               *)
CompileReturns == ~result.hangs
=============================================================================
