----------------------------- MODULE MCCompiler -----------------------------
(***************************************************************************)
(* Instances of module CompilerSafety for TLC: the vocabularies of each    *)
(* configuration.                                                          *)
(***************************************************************************)
EXTENDS CompilerSafety, Sources

Vocabulary(words, tokens) == [fragments |-> {Line(w) : w \in words}, tokens |-> tokens]

(* A name, parentheses and the like, and an operator of each level with    *)
(* its right operand; and calls of many arguments.                         *)
ExpressionVocabularies ==
  {Vocabulary({<<w>> : w \in {str_a, "(", ")", "-", "=", ",", ";"}}
              \cup {<<w, "1">> : w \in {"!", "*", "<=", "!=", "and", "or"}}, 7),
   Vocabulary({<<str_a, "(">>, <<"nil">>, <<",", "nil">>, <<")">>, <<";">>}, 14)}

(* A statement that has been refused is not gone on with.                  *)
UpToFirstError == line # << >> /\ Last(line).type = "SEMICOLON" => Accepted

(* Declarations and uses of one name, in blocks and functions that may not *)
(* declare it; blocks and parameters, and blocks and locals enough to pass *)
(* the small limits.                                                       *)
Limits ==
  LET words == {<<"{">>, <<"}">>, <<str_a, ";">>, <<"var", str_a, ";">>, <<"var", str_b, ";">>}
  IN  {Vocabulary(words \cup {<<"fun", str_f, "(", str_b, ",", str_a, ")", "{">>}, 16),
       Vocabulary(words \cup {<<"var", str_f, ";">>}, 14)}
ScopeVocabularies ==
  Limits \cup
  {Vocabulary({<<"{", "var", str_a, ";">>, <<"}">>, <<str_a, ";">>,
               <<"var", str_a, "=", str_a, ";">>, <<"fun", str_f, "(", ")", "{">>,
               <<"fun", str_a, "(", str_a, ")", "{">>}, 21)}

(* A line at the limits is one block or function, with one use of a name   *)
(* at its end.                                                             *)
OneBlock ==
  vocabulary \in Limits /\ line # << >> =>
    /\ Braces(1, Len(line)) > 0
    /\ \A i \in Uses : \A k \in i + 2 .. Len(line) : Type(k) = "RIGHT_BRACE"

RecoveryVocabularies == {Vocabulary({<<"1">>, <<";">>}, 4)}
=============================================================================
