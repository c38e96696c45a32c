---------------------------- MODULE Compilation -----------------------------
(***************************************************************************)
(* The compiler at work, a task at a time, on one line after the other,    *)
(* and what it promises of the code it emits.                              *)
(*                                                                         *)
(* The tokens of a line are chosen when the compiler asks for them.  A     *)
(* history variable keeps what the emitted code does to the stack window   *)
(* of a call, which the compiler knows only in the form of its locals.     *)
(***************************************************************************)
EXTENDS Compiler

CONSTANTS Fragments, \* sequences of tokens: what is chosen at a time
          MaxTokens  \* bound on the length of a line

(* What the scanner makes of a name has a character at least.              *)
ASSUME FragmentsAssumption ==
  \A f \in Fragments :
    /\ f \in Seq({f[i] : i \in DOMAIN f})
    /\ \A i \in DOMAIN f : f[i].type = "IDENTIFIER" => f[i].lexeme # ""

VARIABLES
  c,       \* the compiler
  windows  \* of its open and of its finished functions, the height of the
           \* window and the number of locals in it at each instruction

vars == <<c, windows>>

-----------------------------------------------------------------------------
(* The history.                                                            *)

NewWindow == [heights |-> << >>, locals |-> << >>, now |-> 1]

(* What an instruction adds to the window.                                 *)
Growth(op, arg) ==
  CASE op \in LiteralOps \cup {OP_CONSTANT, OP_GET_GLOBAL, OP_GET_LOCAL, OP_GET_UPVALUE,
                               OP_CLOSURE} -> 1
    [] op \in BinaryOps \cup {OP_POP, OP_PRINT, OP_DEFINE_GLOBAL, OP_RETURN} -> -1
    [] op = OP_CALL -> -arg
    [] OTHER -> 0

(* The locals that have their values: the last may be without.             *)
Live(fc) ==
  IF fc.locals # << >> /\ Last(fc.locals).depth = UINT8_MAX THEN Len(fc.locals) - 1
  ELSE Len(fc.locals)

(* The jump to the code after what a task emits, where this is reached by  *)
(* no other way.                                                           *)
JumpHere(t) ==
  CASE t.do \in {"OrElse", "IfElse"} -> t.args[1]
    [] t.do \in {"EndLoop", "ForIncrement"} -> t.args[2]
    [] OTHER -> 0

Noted(f, o, v) == [n \in DOMAIN f \cup {o} |-> IF n = o THEN v ELSE f[n]]
Lesser(m, n) == IF m < n THEN m ELSE n

(* What becomes of the window w of fc when the task t has left it code and *)
(* arity: an instruction may have been emitted.                            *)
Recorded(w, fc, t, code, arity) ==
  LET o == Len(fc.code)
  IN  IF code = << >> THEN [w EXCEPT !.now = arity + 1]
      ELSE IF Len(code) = o THEN w
      ELSE [heights |-> Noted(w.heights, o, w.now),
            locals |-> Noted(w.locals, o, Lesser(Live(fc), w.now)),
            now |-> IF JumpHere(t) # 0 THEN w.heights[JumpHere(t) - 1]
                    ELSE w.now + Growth(code[o + 1], code[o + 2])]

(* The history after a step of the compiler from d to e.                   *)
History(ws, d, e) ==
  LET k == Len(d.compilers)
      fc == d.compilers[k]
      w == ws.open[k]
      t == Last(fc.todo)
  IN  CASE Len(e.compilers) = k ->
             [ws EXCEPT !.open[k] = Recorded(w, fc, t, e.compilers[k].code, e.compilers[k].arity)]
        [] Len(e.compilers) > k -> [ws EXCEPT !.open = Append(@, NewWindow)]
        [] Len(e.compilers) < k ->
             LET F == Last(e.functions)
             IN  [open |-> Front(ws.open),
                  done |-> Append(ws.done, Recorded(w, fc, t, F.code, F.arity))]

-----------------------------------------------------------------------------
(* The scanner is asked for a token before the compiler goes on.           *)
Asked ==
  \A i \in DOMAIN c.source :
    c.source[i].type # "END_OF_FILE" /\ (i > c.current => c.source[i].type = "ERROR")

Scan ==
  /\ ~Ended(c) /\ Asked
  /\ \E f \in Fragments \cup {<<Symbol("END_OF_FILE")>>} :
       /\ Len(c.source \o f) <= MaxTokens
       /\ c' = [c EXCEPT !.source = @ \o f]
  /\ UNCHANGED windows

Proceed ==
  /\ ~Ended(c) /\ ~Asked
  /\ c' = DoTask(c)
  /\ windows' = History(windows, c, c')

Begin ==
  /\ c.compilers = << >>
  /\ c' = Start(<< >>)
  /\ windows' = [open |-> <<NewWindow>>, done |-> << >>]

Init == c = Start(<< >>) /\ windows = [open |-> <<NewWindow>>, done |-> << >>]
Next == Scan \/ Proceed \/ Begin

Spec == Init /\ [][Next]_vars

-----------------------------------------------------------------------------
(* The bytes that count the locals of a function and the scopes around its *)
(* code, and that mark a local without a value, do not wrap.               *)
WithinBytes ==
  ~c.hadError => \A k \in DOMAIN c.compilers :
                   /\ c.compilers[k].scopeDepth < UINT8_MAX
                   /\ Len(c.compilers[k].locals) <= UINT8_MAX + 1

(* The code of a line that compile accepts is verified: every way through  *)
(* the code of a function comes to each of its instructions at one height  *)
(* of the stack window, with the values that the instruction takes in the  *)
(* window and its operands in their ranges, and leaves the locals in their *)
(* slots.                                                                  *)
AcceptedIsVerified ==
  c.compilers = << >> /\ ~c.hadError =>
    LET fns == c.functions
        done == windows.done
    IN  /\ \A f \in DOMAIN fns :
             /\ Verified(fns, fns[f], done[f].heights)
             /\ KeepsLocals(fns, fns[f], done[f].heights, done[f].locals)
        /\ VerifiedScript(Last(fns), Last(done).heights)
=============================================================================
