---------------------------- MODULE ProgramLines ----------------------------
(***************************************************************************)
(* The lines that the run of module Execution types: statements about a    *)
(* variable, its shadows and the functions that read and write it.         *)
(***************************************************************************)
EXTENDS Programs

Num(x) == <<"literal", <<"NUMBER", x>>>>
True == <<"literal", <<"BOOL", TRUE>>>>
A == <<"get", str_a>>
B == <<"get", str_b>>
CallF(es) == <<"call", <<"get", str_f>>, es>>
CallG == <<"call", <<"get", str_g>>, << >>>>
Block_(s) == <<"block", s>>
Do(e) == <<"expression", e>>
SetA(e) == <<"set", str_a, e>>
SetB(e) == <<"set", str_b, e>>
PrintOf(e) == <<"print", e>>
Return(e) == <<"return", e>>
Nothing == <<"literal", <<"NIL">>>>
S == <<"literal", <<"STRING", str_s>>>>

Statements == <<
  \* print a;  a = a + 1;  var b = a * 2;  print b = a;
  PrintOf(A),
  Do(SetA(<<"+", A, Num(1)>>)),
  <<"var", str_b, <<"*", A, Num(2)>>>>,
  PrintOf(SetB(A)),
  \* fun f(a) { a = a + 1; return a; }
  <<"fun", str_f, <<str_a>>, <<Do(SetA(<<"+", A, Num(1)>>)), Return(A)>>>>,
  \* fun f() { b = a; { var a = b - 1; print a; } }
  <<"fun", str_f, << >>, <<Do(SetB(A)), Block_(<<<<"var", str_a, <<"-", B, Num(1)>>>>, PrintOf(A)>>)>>>>,
  \* fun f(b) { fun g() { a = a + b; b = nil; return b; } print g(); return b == a; }
  <<"fun", str_f, <<str_b>>,
    <<<<"fun", str_g, << >>, <<Do(SetA(<<"+", A, B>>)), Do(SetB(Nothing)), Return(B)>>>>,
      PrintOf(CallG), Return(<<"==", B, A>>)>>>>,
  \* fun f(b) { if (b > 0) return b + f(b - 1); else return a; }
  <<"fun", str_f, <<str_b>>,
    <<<<"if", <<">", B, Num(0)>>, Return(<<"+", B, CallF(<<<<"-", B, Num(1)>>>>)>>), Return(A)>>>>>>,
  \* print f(a) - a;   f();  print f() or a = 3;
  PrintOf(<<"-", CallF(<<A>>), A>>),
  PrintOf(<<"or", CallF(<< >>), SetA(Num(3))>>),
  \* { print a < 's'; print nil >= a; print 's' == 's'; }
  Block_(<<PrintOf(<<"<", A, S>>), PrintOf(<<">=", Nothing, A>>), PrintOf(<<"==", S, S>>)>>),
  \* if (a <= 1 and !(a == b)) print 's'; else { var a = 2; print a; }
  <<"if", <<"and", <<"<=", A, Num(1)>>, <<"!", <<"==", A, B>>>>>>,
    PrintOf(S), Block_(<<<<"var", str_a, Num(2)>>, PrintOf(A)>>)>>,
  \* while (a < 2) { var b = a; a = b + 1; }
  <<"while", <<"<", A, Num(2)>>, Block_(<<<<"var", str_b, A>>, Do(SetA(<<"+", B, Num(1)>>))>>)>>,
  \* for (var b = 0; b < 2; b = b + 1) { fun g() { b = b + a; return b; } print g(); }
  <<"for", <<"var", str_b, Num(0)>>, <<"<", B, Num(2)>>, SetB(<<"+", B, Num(1)>>),
    Block_(<<<<"fun", str_g, << >>, <<Do(SetB(<<"+", B, A>>)), Return(B)>>>>, PrintOf(CallG)>>)>>,
  \* for (b = 2; b != 0; b = b - 1) if (a >= b) a = -b;
  <<"for", Do(SetB(Num(2))), <<"!=", B, Num(0)>>, SetB(<<"-", B, Num(1)>>),
    <<"if", <<">=", A, B>>, Do(SetA(<<"negate", B>>)), Block_(<< >>)>>>>,
  \* { var b = 1; fun g(a) { b = b + a; return b; } fun f(g) { return g(b); } print f(g); print b; }
  Block_(<<<<"var", str_b, Num(1)>>,
           <<"fun", str_g, <<str_a>>, <<Do(SetB(<<"+", B, A>>)), Return(B)>>>>,
           <<"fun", str_f, <<str_g>>, <<Return(<<"call", <<"get", str_g>>, <<B>>>>)>>>>,
           PrintOf(CallF(<<<<"get", str_g>>>>)), PrintOf(B)>>)
  >>

(* Lines of one statement, and lines that begin with var a = 1 and another *)
(* declaration, followed by two more statements: in a block, or in the     *)
(* body of a function that is called.                                      *)
Simple == Append([i \in DOMAIN Statements |-> <<Statements[i]>>], <<<<"var", str_a, Num(1)>>>>)
InBlock(t) == <<Block_(<<<<"var", str_a, Num(1)>>>> \o t)>>
InFunction(t) == <<<<"fun", str_f, <<str_a>>, t>>, PrintOf(CallF(<<Num(1)>>))>>

Declares == SelectSeq(Statements, LAMBDA s : s[1] \in {"var", "fun"})
N == Len(Statements)
Of(statements, n) == statements[1 + (n % Len(statements))]
Several == [n \in 1 .. 2 * N * N * Len(Declares) |->
              LET t == <<Of(Declares, n \div (2 * N * N)), Of(Statements, n \div (2 * N)),
                         Of(Statements, n \div 2)>>
              IN  IF n % 2 = 0 THEN InBlock(t) ELSE InFunction(t)]

Typeable == Linked(Simple \o Several, 1, Len(Simple) + Len(Several))
=============================================================================
