------------------------------ MODULE Sources -------------------------------
(***************************************************************************)
(* Lines of source for TLC, written as the words they consist of.          *)
(***************************************************************************)
EXTENDS WholeLines

\* The interned strings.
CONSTANTS str_a, str_b, str_f, str_g, str_s, str_fib, str_clock

MCNames == {str_a, str_b, str_f, str_g, str_s, str_fib, str_clock}

(* Numbers saturate: the properties do not depend on what is computed, only *)
(* on the branches it takes.                                                *)
MCNumbers == -3 .. 3
MCArith(op, x, y) ==
  LET exact == CASE op = OP_ADD -> x + y
                 [] op = OP_SUBTRACT -> x - y
                 [] OTHER -> x * y
  IN  IF exact > 3 THEN 3 ELSE IF exact < -3 THEN -3 ELSE exact
MCLess(x, y) == x < y
MCNegate(x) == -x
MCClockReadings == {0, 1}

(* The token of each word that is no name; 's' is a string literal and ? is *)
(* a character that starts no token.                                        *)
Words ==
  LET Symbols(words, types) ==
        [w \in ToSet(words) |-> Symbol(types[CHOOSE i \in DOMAIN words : words[i] = w])]
  IN  Symbols(<<"(", ")", "{", "}", ",", ".", "-", "+", ";", "/", "*">>,
              <<"LEFT_PAREN", "RIGHT_PAREN", "LEFT_BRACE", "RIGHT_BRACE", "COMMA",
                "DOT", "MINUS", "PLUS", "SEMICOLON", "SLASH", "STAR">>)
      @@ Symbols(<<"!", "!=", "=", "==", ">", ">=", "<", "<=", "?">>,
                 <<"BANG", "BANG_EQUAL", "EQUAL", "EQUAL_EQUAL", "GREATER",
                   "GREATER_EQUAL", "LESS", "LESS_EQUAL", "ERROR">>)
      @@ Symbols(<<"and", "class", "else", "false", "for", "fun", "if", "nil">>,
                 <<"AND", "CLASS", "ELSE", "FALSE", "FOR", "FUN", "IF", "NIL">>)
      @@ Symbols(<<"or", "print", "return", "true", "var", "while">>,
                 <<"OR", "PRINT", "RETURN", "TRUE", "VAR", "WHILE">>)
      @@ ("0" :> NumberToken(0)) @@ ("1" :> NumberToken(1))
      @@ ("2" :> NumberToken(2)) @@ ("3" :> NumberToken(3))
      @@ ("'s'" :> StringToken(str_s))

Line(words) ==
  [i \in DOMAIN words |-> IF words[i] \in MCNames THEN Identifier(words[i])
                                                  ELSE Words[words[i]]]

(* The lines the runs of the machine type.                                  *)
Lines == <<
  (*  1 *)  <<"fun", str_fib, "(", str_a, ")", "{", "if", "(", str_a, "<", "2", ")",
             "return", str_a, ";", "return", str_fib, "(", str_a, "-", "2", ")",
             "+", str_fib, "(", str_a, "-", "1", ")", ";", "}", "print", str_fib,
             "=", str_fib, "(", "2", ")", ";">>,
  (*  2 *)  <<"fun", str_f, "(", str_a, ")", "{", "fun", str_g, "(", ")", "{",
             "fun", str_b, "(", ")", "{", "return", str_a, ";", "}", str_a, "=",
             "2", ";", "return", str_b, "(", ")", ";", "}", str_a, "=", "1", ";",
             "return", str_g, "(", ")", ";", "}", "2", "+", str_f, "(", "3", ")",
             ";">>,
  (*  3 *)  <<"for", "(", "var", str_b, "=", "0", ";", str_b, "<", "2", ";", str_b,
             "=", str_b, "-", "-", "1", ")", "{", "var", str_a, "=", str_b, ";",
             "while", "(", str_a, "!=", "0", "and", "!", "nil", "or", "false", ")",
             str_a, "=", str_a, "-", "1", ";", "}">>,
  (*  4 *)  <<"fun", str_f, "(", str_a, ")", "{", "return", str_f, "(", str_a, ")",
             ";", "}", str_f, "(", "1", ")", ";">>,
  (*  5 *)  <<"{", "var", str_a, "=", str_clock, "(", ")", ";", "var", str_b, "=",
             "!", "true", ";", "print", str_a, ";", "}">>,
  (*  6 *)  <<"fun", str_f, "(", str_a, ")", "{", "fun", str_g, "(", ")", "{",
             "return", str_a, ";", "}", "return", str_g, ";", "}", "var", str_g,
             "=", str_f, "(", "1", ")", ";", "print", str_g, "(", ")", ";">>,
  (*  7 *)  <<str_g, "(", ")", "(", ")", ";">>,
  (*  8 *)  <<"fun", str_f, "(", str_a, ")", "{", "var", str_b, "=", "0", ";",
             "var", str_g, "=", str_b, ";", "var", str_s, "=", str_g, ";", "return",
             str_f, "(", str_a, ")", ";", "}", str_f, "(", "1", ")", ";">>,
  (*  9 *)  <<"for", "(", "var", str_b, "=", "0", ";", str_b, "<", "2", ";", str_b,
             "=", str_b, "+", "1", ")", str_b, "+", str_g, "(", ")", ";">>
  >>

-----------------------------------------------------------------------------
(* The functions of a line are numbered after the n that are there already. *)
Loaded(F, n) ==
  [arity |-> F.arity, upvalueCount |-> F.upvalueCount, code |-> F.code,
   constants |-> [k \in DOMAIN F.constants |->
                    IF F.constants[k].type = "FUNCTION"
                    THEN [F.constants[k] EXCEPT !.val = @ + n] ELSE F.constants[k]]]

Joined(fns, new) == fns \o [f \in DOMAIN new |-> Loaded(new[f], Len(fns))]
Load(fns, line) == Joined(fns, Compile(Line(line)).functions)
=============================================================================
