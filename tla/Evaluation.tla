----------------------------- MODULE Evaluation -----------------------------
(***************************************************************************)
(* What a line of source means: the variables it declares live in cells of *)
(* their own, a function keeps the cells in scope where it was declared,   *)
(* and a line is evaluated in one step.  There are no stack, no slots, no  *)
(* jumps and no upvalues here; module Execution shows that the compiler    *)
(* and the machine together do the same.                                   *)
(*                                                                         *)
(* A line is a sequence of statements, each a tuple:                       *)
(*   <<"var", name, e>>  <<"fun", name, parameters, body>>  <<"print", e>> *)
(*   <<"expression", e>>  <<"return", e>>  <<"block", statements>>         *)
(*   <<"if", e, then, else>>  <<"while", e, body>>                         *)
(*   <<"for", initializer, e, increment, body>>                            *)
(* An expression e is one of                                               *)
(*   <<"literal", v>>  <<"get", name>>  <<"set", name, e>>  <<"call", e, es>>*)
(*   <<"!", e>>  <<"negate", e>>  <<"and", e, e>>  <<"or", e, e>>          *)
(*   <<op, e, e>> for another operator                                     *)
(* and a value v                                                           *)
(*   <<"NUMBER", x>>  <<"STRING", s>>  <<"BOOL", b>>  <<"NIL">>            *)
(*   <<"CLOSURE", fun, scope>>  <<"NATIVE">>                                *)
(***************************************************************************)
EXTENDS Sequences, Integers, TLC

CONSTANTS
  Programs,       \* the lines that may be typed
  Plus(_, _), Minus(_, _), Times(_, _), Below(_, _), Minused(_), \* arithmetic
  MaxDepth,       \* calls that may be active, the line's own included
  Fuel            \* bound on calls and iterations: what takes more is endless

NIL == <<"NIL">>
UNDEFINED == <<"UNDEFINED">>
DEAD == <<"DEAD">> \* what is in the cell of a variable out of scope

IsNum(v) == v[1] = "NUMBER"
Falsey(v) == v \in {NIL, <<"BOOL", FALSE>>}

(* Objects are not equal to anything, themselves and strings included.     *)
Same(v, w) == v[1] \in {"NUMBER", "BOOL", "NIL"} /\ v = w

(* The state m of an evaluation: the globals, the cells made so far, what  *)
(* has been printed, the depth of calls, the fuel left, the value of the   *)
(* last expression, and how the evaluation goes on.                        *)
Start(globals) ==
  [globals |-> globals, cells |-> << >>, printed |-> << >>, depth |-> 1,
   fuel |-> Fuel, value |-> NIL, next |-> "GO_ON"]

Then(m, F(_)) == IF m.next = "GO_ON" THEN F(m) ELSE m
Give(m, v) == [m EXCEPT !.value = v]
Stop(m, why) == [m EXCEPT !.next = why]
Fail(m) == Stop(m, "ERROR")

(* A comparison with < of a number with anything else is false; one of two *)
(* such is an error, as is any other operation on what is not a number.    *)
Operate(op, v, w, m) ==
  CASE op = "==" -> Give(m, <<"BOOL", Same(v, w)>>)
    [] op = "!=" -> Give(m, <<"BOOL", ~Same(v, w)>>)
    [] op \in {"<", ">="} /\ (IsNum(v) \/ IsNum(w)) ->
         LET less == IsNum(v) /\ IsNum(w) /\ Below(v[2], w[2])
         IN  Give(m, <<"BOOL", IF op = "<" THEN less ELSE ~less>>)
    [] ~(IsNum(v) /\ IsNum(w)) -> Fail(m)
    [] op = ">" -> Give(m, <<"BOOL", Below(w[2], v[2])>>)
    [] op = "<=" -> Give(m, <<"BOOL", ~Below(w[2], v[2])>>)
    [] op = "+" -> Give(m, <<"NUMBER", Plus(v[2], w[2])>>)
    [] op = "-" -> Give(m, <<"NUMBER", Minus(v[2], w[2])>>)
    [] op = "*" -> Give(m, <<"NUMBER", Times(v[2], w[2])>>)

(* scope leads from the names of the locals in scope to their cells.       *)
Get(name, scope, m) ==
  IF name \in DOMAIN scope
  THEN IF m.cells[scope[name]] = DEAD THEN Stop(m, "ESCAPED") ELSE Give(m, m.cells[scope[name]])
  ELSE IF m.globals[name] = UNDEFINED THEN Fail(m) ELSE Give(m, m.globals[name])

Set(name, scope, m) ==
  IF name \in DOMAIN scope
  THEN IF m.cells[scope[name]] = DEAD THEN Stop(m, "ESCAPED")
       ELSE [m EXCEPT !.cells[scope[name]] = m.value]
  ELSE IF m.globals[name] = UNDEFINED THEN Fail(m)
       ELSE [m EXCEPT !.globals[name] = m.value]

(* A new cell is the last; a variable that goes out of scope is dead.      *)
NewCell(m, v) == [m EXCEPT !.cells = Append(@, v)]
Dead(m, cells) ==
  [m EXCEPT !.cells = [c \in cells |-> DEAD] @@ @]

Closure(fun, scope) == <<"CLOSURE", fun, scope>>

RECURSIVE Eval(_, _, _), Arguments(_, _, _, _, _), Exec(_, _, _),
          Loop(_, _, _, _, _), Run(_, _, _, _)

(* A call of f with the values args.                                       *)
Called(f, args, m) ==
  IF f[1] # "CLOSURE" \/ m.depth = MaxDepth THEN Fail(m)
  ELSE LET params == f[2][3]
           n == Len(m.cells)
           scope == [p \in {params[i] : i \in DOMAIN params} |->
                      n + CHOOSE i \in DOMAIN params : params[i] = p] @@ f[3]
           begun == [m EXCEPT !.cells = @ \o args, !.depth = @ + 1, !.fuel = @ - 1, !.value = NIL]
           Result(r) == [Dead(r, n + 1 .. n + Len(args)) EXCEPT
                           !.depth = m.depth,
                           !.value = IF r.next = "RETURN" THEN @ ELSE NIL,
                           !.next = IF @ = "RETURN" THEN "GO_ON" ELSE @]
       IN  IF Len(args) # Len(params) THEN Fail(m)
           ELSE IF m.fuel = 0 THEN Stop(m, "ENDLESS")
           ELSE Result(Run(f[2][4], TRUE, scope, begun))

Arguments(f, es, args, scope, m) ==
  IF es = << >> THEN Called(f, args, m)
  ELSE Then(Eval(Head(es), scope, m), LAMBDA r :
         Arguments(f, Tail(es), Append(args, r.value), scope, r))

Eval(e, scope, m) ==
  CASE e[1] = "literal" -> Give(m, e[2])
    [] e[1] = "get" -> Get(e[2], scope, m)
    [] e[1] = "set" -> Then(Eval(e[3], scope, m), LAMBDA r : Set(e[2], scope, r))
    [] e[1] = "!" -> Then(Eval(e[2], scope, m), LAMBDA r : Give(r, <<"BOOL", Falsey(r.value)>>))
    [] e[1] = "negate" ->
         Then(Eval(e[2], scope, m), LAMBDA r :
           IF IsNum(r.value) THEN Give(r, <<"NUMBER", Minused(r.value[2])>>) ELSE Fail(r))
    [] e[1] = "and" ->
         Then(Eval(e[2], scope, m), LAMBDA r :
           IF Falsey(r.value) THEN r ELSE Eval(e[3], scope, r))
    [] e[1] = "or" ->
         Then(Eval(e[2], scope, m), LAMBDA r :
           IF Falsey(r.value) THEN Eval(e[3], scope, r) ELSE r)
    [] e[1] = "call" ->
         Then(Eval(e[2], scope, m), LAMBDA r :
           Arguments(r.value, e[3], << >>, scope, r))
    [] OTHER ->
         Then(Eval(e[2], scope, m), LAMBDA l :
           Then(Eval(e[3], scope, l), LAMBDA r : Operate(e[1], l.value, r.value, r)))

Loop(condition, increment, body, scope, m) ==
  Then(Eval(condition, scope, m), LAMBDA c :
    IF Falsey(c.value) THEN c
    ELSE IF c.fuel = 0 THEN Stop(c, "ENDLESS")
    ELSE Then(Exec(body, scope, [c EXCEPT !.fuel = @ - 1]), LAMBDA b :
           Then(Eval(increment, scope, b), LAMBDA i :
             Loop(condition, increment, body, scope, i))))

Exec(s, scope, m) ==
  CASE s[1] = "expression" -> Eval(s[2], scope, m)
    [] s[1] = "print" ->
         Then(Eval(s[2], scope, m), LAMBDA r : [r EXCEPT !.printed = Append(@, r.value)])
    [] s[1] = "return" -> Then(Eval(s[2], scope, m), LAMBDA r : Stop(r, "RETURN"))
    [] s[1] = "block" -> Run(s[2], TRUE, scope, m)
    [] s[1] = "if" ->
         Then(Eval(s[2], scope, m), LAMBDA c :
           Exec(IF Falsey(c.value) THEN s[4] ELSE s[3], scope, c))
    [] s[1] = "while" -> Loop(s[2], <<"literal", NIL>>, s[3], scope, m)
    [] s[1] = "loop" -> Loop(s[2], s[3], s[4], scope, m)
    [] s[1] = "for" -> Run(<<s[2], <<"loop", s[3], s[4], s[5]>>>>, TRUE, scope, m)

(* The statements of a line, a block or a body, in order.  A declaration   *)
(* is in scope in those that follow it, a function in its own body too.    *)
Run(statements, local, scope, m) ==
  IF statements = << >> THEN m
  ELSE LET s == Head(statements)
           cell == Len(m.cells) + 1
           In(r, inScope) == Then(r, LAMBDA q : Run(Tail(statements), local, inScope, q))
           Cell(r) == LET k == Len(r.cells) + 1
                      IN  Dead(In(NewCell(r, r.value), s[2] :> k @@ scope), {k})
           Declared(r) == IF local THEN Cell(r)
                          ELSE In([r EXCEPT !.globals[s[2]] = r.value], scope)
       IN  CASE s[1] = "var" -> Then(Eval(s[3], scope, m), Declared)
             [] s[1] = "fun" ->
                  Declared(Give(m, Closure(s, IF local THEN s[2] :> cell @@ scope ELSE scope)))
             [] OTHER -> In(Exec(s, scope, m), scope)

-----------------------------------------------------------------------------
VARIABLES
  program, \* the line typed last
  globals,
  printed, \* by that line
  result   \* of that line: OK, RUNTIME_ERROR, or RUNNING until it is evaluated

vars == <<program, globals, printed, result>>

Evaluated == Run(program, FALSE, << >>, Start(globals))

(* A line has a meaning when it comes to an end, reads no variable that is *)
(* gone, and leaves no function in a global that could read one later.     *)
Means(m) ==
  /\ m.next \in {"GO_ON", "ERROR"}
  /\ \A n \in DOMAIN m.globals :
       m.globals[n][1] = "CLOSURE" => m.globals[n][3] = << >>

(* A function is printed by what it is, not by the cells it keeps.         *)
Shown(v) == IF v[1] = "CLOSURE" THEN Closure(v[2], << >>) ELSE v

Type ==
  /\ result \in {"NONE", "OK"}
  /\ program' \in Programs
  /\ result' = "RUNNING" /\ printed' = << >>
  /\ UNCHANGED globals

Evaluate ==
  /\ result = "RUNNING" /\ result' \in {"OK", "RUNTIME_ERROR"}
  /\ Means(Evaluated)
  /\ globals' = Evaluated.globals
  /\ printed' = [i \in DOMAIN Evaluated.printed |-> Shown(Evaluated.printed[i])]
  /\ result' = IF Evaluated.next = "ERROR" THEN "RUNTIME_ERROR" ELSE "OK"
  /\ UNCHANGED program

Next == Type \/ Evaluate

Spec == /\ program = << >> /\ printed = << >> /\ result = "NONE"
        /\ \A n \in DOMAIN globals : globals[n] \in {UNDEFINED, <<"NATIVE">>}
        /\ [][Next]_vars
=============================================================================
