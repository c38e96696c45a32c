------------------------------ MODULE Programs ------------------------------
(***************************************************************************)
(* Lines as module Evaluation has them, their words, and the functions     *)
(* they declare in the order in which the compiler finishes these.         *)
(***************************************************************************)
EXTENDS Sources

WordOf(v) ==
  CASE v[1] = "NUMBER" -> ToString(v[2])
    [] v[1] = "BOOL" -> IF v[2] THEN "true" ELSE "false"
    [] v[1] = "NIL" -> "nil"
    [] v[1] = "STRING" -> "'s'"

Parenthesised(e, words) ==
  IF e[1] \in {"literal", "get", "call"} THEN words ELSE <<"(">> \o words \o <<")">>

RECURSIVE OfExpression(_), OfList(_)
OfList(es) == IF es = << >> THEN << >>
              ELSE IF Len(es) = 1 THEN OfExpression(es[1])
              ELSE OfExpression(es[1]) \o <<",">> \o OfList(Tail(es))
OfExpression(e) ==
  LET Operand_(d) == Parenthesised(d, OfExpression(d))
  IN  CASE e[1] = "literal" -> <<WordOf(e[2])>>
        [] e[1] = "get" -> <<e[2]>>
        [] e[1] = "set" -> <<e[2], "=">> \o OfExpression(e[3])
        [] e[1] = "!" -> <<"!">> \o Operand_(e[2])
        [] e[1] = "negate" -> <<"-">> \o Operand_(e[2])
        [] e[1] = "call" ->
             Operand_(e[2]) \o <<"(">> \o OfList(e[3]) \o <<")">>
        [] OTHER -> Operand_(e[2]) \o <<e[1]>> \o Operand_(e[3])

RECURSIVE OfStatement(_), OfStatements(_)
OfStatement(s) ==
  CASE s[1] = "var" -> <<"var", s[2], "=">> \o OfExpression(s[3]) \o <<";">>
    [] s[1] = "expression" -> OfExpression(s[2]) \o <<";">>
    [] s[1] \in {"print", "return"} -> <<s[1]>> \o OfExpression(s[2]) \o <<";">>
    [] s[1] = "block" -> <<"{">> \o OfStatements(s[2]) \o <<"}">>
    [] s[1] = "fun" ->
         <<"fun", s[2], "(">> \o OfList([i \in DOMAIN s[3] |-> <<"get", s[3][i]>>])
         \o <<")", "{">> \o OfStatements(s[4]) \o <<"}">>
    [] s[1] = "if" ->
         <<"if", "(">> \o OfExpression(s[2]) \o <<")">> \o OfStatement(s[3])
         \o (IF s[4] = <<"block", << >>>> THEN << >> ELSE <<"else">> \o OfStatement(s[4]))
    [] s[1] = "while" -> <<"while", "(">> \o OfExpression(s[2]) \o <<")">> \o OfStatement(s[3])
    [] s[1] = "for" ->
         <<"for", "(">> \o OfStatement(s[2]) \o OfExpression(s[3]) \o <<";">>
         \o OfExpression(s[4]) \o <<")">> \o OfStatement(s[5])
OfStatements(ss) ==
  IF ss = << >> THEN << >> ELSE OfStatement(Head(ss)) \o OfStatements(Tail(ss))

RECURSIVE Declared(_), AllDeclared(_)
Declared(s) ==
  CASE s[1] = "fun" -> AllDeclared(s[4]) \o <<s>>
    [] s[1] = "block" -> AllDeclared(s[2])
    [] s[1] = "if" -> Declared(s[3]) \o Declared(s[4])
    [] s[1] = "while" -> Declared(s[3])
    [] s[1] = "for" -> Declared(s[5])
    [] OTHER -> << >>
AllDeclared(ss) == IF ss = << >> THEN << >> ELSE Declared(Head(ss)) \o AllDeclared(Tail(ss))

(* The lines that compile, their functions in one library, what these are   *)
(* compiled from, and which of them are the lines' own.                     *)
None == [texts |-> << >>, library |-> << >>, origins |-> << >>, scripts |-> << >>]
Only(p, c) ==
  IF c.hangs \/ c.hadError THEN None
  ELSE [texts |-> <<p>>, library |-> c.functions, origins |-> AllDeclared(p) \o <<p>>,
        scripts |-> <<Len(c.functions)>>]
Both(x, y) ==
  [texts |-> x.texts \o y.texts, library |-> Joined(x.library, y.library),
   origins |-> x.origins \o y.origins,
   scripts |-> x.scripts \o [l \in DOMAIN y.scripts |-> Len(x.library) + y.scripts[l]]]
RECURSIVE Linked(_, _, _)
Linked(lines, i, j) ==
  LET mid == (i + j) \div 2
  IN  IF i = j THEN Only(lines[i], Compile(Line(OfStatements(lines[i]))))
      ELSE Both(Linked(lines, i, mid), Linked(lines, mid + 1, j))
=============================================================================
