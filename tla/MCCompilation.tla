---------------------------- MODULE MCCompilation ---------------------------
(***************************************************************************)
(* An instance of module Compilation for TLC.                              *)
(***************************************************************************)
EXTENDS Compilation, Sources

(* Every statement.                                                        *)
StatementFragments ==
  {Line(w) : w \in {<<"{">>, <<"}">>, <<"var", str_a, ";">>, <<"else">>,
                    <<"print", str_a, "and", "1", "or", "'s'", ";">>,
                    <<"if", "(", str_a, ")">>, <<"while", "(", str_a, ")">>,
                    <<"for", "(", ";", ";", ")">>,
                    <<"for", "(", "var", str_a, ";", str_a, ";", str_a, ")">>,
                    <<"return", str_a, ";">>,
                    <<"fun", str_f, "(", str_a, ")", "{">>}}

(* Functions, and uses of the variables around them.                       *)
CaptureFragments ==
  {Line(w) : w \in {<<"}">>, <<"var", str_a, ";">>, <<str_a, "=", str_f, ";">>,
                    <<"return", str_a, ";">>, <<"fun", str_f, "(", ")", "{">>,
                    <<"fun", str_f, "(", str_a, ")", "{">>}}

MCFragments == StatementFragments \cup CaptureFragments

Tally(type) == Cardinality({i \in DOMAIN c.source : c.source[i].type = type})

FunctionTokens == UNION {ToSet(f) : f \in CaptureFragments \cup {<<Symbol("END_OF_FILE")>>}}
OnlyFunctions == ToSet(c.source) \subseteq FunctionTokens /\ Tally("LEFT_BRACE") = Tally("FUN")

(* Statements are nested in each other in short lines.  Longer ones nest   *)
(* functions, and have room for what closes these.                         *)
Nesting ==
  \/ Len(c.source) <= 16 /\ Tally("EQUAL") = 0
  \/ OnlyFunctions /\ Len(c.source) + Tally("LEFT_BRACE") - Tally("RIGHT_BRACE") <= MaxTokens

(* A line that has been refused is not gone on with.                       *)
UpToFirstError == ~c.hadError
=============================================================================
