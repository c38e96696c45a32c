-------------------------- MODULE CompilerInvariant --------------------------
(***************************************************************************)
(* What is invariant while module Compilation compiles a line: what each   *)
(* task finds, and leaves to the one below it, and the code so far.        *)
(***************************************************************************)
EXTENDS Compilation

-----------------------------------------------------------------------------
(* Situations.  An exact one says how high the window is, how many locals  *)
(* there are and how many of them have their values; a loose one, between  *)
(* declarations, that the window holds the locals and nothing else; and so *)
(* does a popping one, of locals that may be deeper than the scope is now. *)

Exact(d, h, l, n) == [kind |-> "exact", depth |-> d, height |-> h, live |-> l, locals |-> n]
Loose(d) == [kind |-> "loose", depth |-> d, height |-> 0, live |-> 0, locals |-> 0]
Popping(d) == [kind |-> "popping", depth |-> d, height |-> 0, live |-> 0, locals |-> 0]

Situations == {Exact(d, h, l, n) : d \in Nat, h \in Nat, l \in Nat, n \in Nat}
              \cup {Loose(d) : d \in Nat} \cup {Popping(d) : d \in Nat}

Scoped(fc) == \A i \in 1 .. Live(fc) : fc.locals[i].depth <= fc.scopeDepth

At(fc, now, s) ==
  /\ fc.scopeDepth = s.depth
  /\ s.kind # "popping" => Scoped(fc)
  /\ IF s.kind = "exact"
     THEN now = s.height /\ Live(fc) = s.live /\ Len(fc.locals) = s.locals
     ELSE now = Live(fc) /\ Live(fc) = Len(fc.locals)

Values(s, n) == s.kind = "exact" /\ s.height >= s.live + n
Grown(s, n) == [s EXCEPT !.height = @ + n]
Settled(s) == s.kind = "exact" /\ s.height = s.live /\ s.live = s.locals
Rest(s) == s.kind = "loose" \/ Settled(s)
Becomes(s, out) == out = s \/ (Settled(s) /\ out = Loose(s.depth))

(* Of the instructions that a task emits, the values they take.            *)
SetOps == {OP_SET_GLOBAL, OP_SET_LOCAL, OP_SET_UPVALUE}
TakingOps == {OP_POP, OP_PRINT, OP_NOT, OP_NEGATE, OP_RETURN} \cup SetOps
Taken(op) == IF op \in BinaryOps THEN 2 ELSE IF op \in TakingOps THEN 1 ELSE 0
EmittedOps == BinaryOps \cup LiteralOps \cup TakingOps

(* The task t goes from the situation in to the situation out.             *)
Fits(t, in, out) ==
  CASE t.do = "ParsePrecedence" -> t.args[1] \in 1 .. 9 /\ Values(in, 0) /\ out = Grown(in, 1)
    [] t.do = "ParseInfix" -> t.args[1] \in 1 .. 9 /\ Values(in, 1) /\ out = in
    [] t.do \in {"Consume", "Advance"} -> out = in
    [] t.do = "Emit" -> /\ t.args[1] \in EmittedOps
                        /\ Values(in, Taken(t.args[1]))
                        /\ Becomes(Grown(in, Growth(t.args[1], 0)), out)
    [] t.do \in {"Variable", "ResolveUpvalue", "CaptureUpvalue", "VarInitializer"} ->
         Values(in, 0) /\ out = Grown(in, 1)
    [] t.do \in {"Call", "OrElse"} -> Values(in, 1) /\ out = in
    [] t.do = "CountArgument" -> /\ t.args[1] \in 0 .. UINT8_MAX
                                 /\ Values(in, t.args[1] + 2)
                                 /\ out = Grown(in, -(t.args[1] + 1))
    [] t.do = "PatchJump" -> in.kind = "exact" /\ Becomes(in, out)
    [] t.do \in {"Statement", "ReturnStatement"} -> Rest(in) /\ Becomes(in, out)
    [] t.do \in {"IfThen", "WhileBody", "ForExit"} ->
         Values(in, 1) /\ Settled(Grown(in, -1)) /\ Becomes(Grown(in, -1), out)
    [] t.do \in {"IfElse", "Else", "EndLoop", "ForBody", "ForIncrement"} ->
         Settled(in) /\ Becomes(in, out)
    [] t.do \in {"ForInitializer", "ForCondition", "Block"} ->
         in.kind = "loose" /\ in.depth >= 1 /\ out = in
    [] t.do \in {"Declarations", "VarDeclaration", "FunDeclaration", "Synchronize"} ->
         in.kind = "loose" /\ out = in
    [] t.do \in {"Function", "ParameterList", "Parameter", "MoreParameters"} ->
         in = Loose(1) /\ out = in
    [] t.do = "EndScope" -> /\ in.kind = "loose" /\ in.depth >= 1
                            /\ Rest(out) /\ out.depth = in.depth - 1
    [] t.do = "PopLocals" -> in.kind = "popping" /\ Rest(out) /\ out.depth = in.depth
    [] t.do = "DefineVariable" ->
         /\ in.kind = "exact" /\ out = Loose(in.depth)
         /\ IF in.depth = 0 THEN in.height = in.live + 1 /\ in.live = in.locals
            ELSE in.height = in.locals /\ in.live \in {in.locals - 1, in.locals}
    [] t.do = "Closure" -> /\ in.kind = "exact" /\ in.live = in.locals
                           /\ in.height \in {in.live - 1, in.live}
                           /\ out = Grown(in, 1)
    [] t.do = "EndCompiler" -> in.kind = "loose"
    [] t.do = "Finish" -> in.kind = "exact" /\ in.live = in.locals /\ in.height = in.locals + 1
    [] OTHER -> FALSE

-----------------------------------------------------------------------------
(* What a task finds in the chunk and among the locals.  The maps have the *)
(* end of the code in their domains.                                       *)

Heights(fc, w) == Noted(w.heights, Len(fc.code), w.now)
Covered(fc, w) == Noted(w.locals, Len(fc.code), Lesser(Live(fc), w.now))

(* A forward jump that awaits its target, from height h with at most l     *)
(* locals.                                                                 *)
JumpFrom(fc, w, offset, h, l) ==
  /\ offset \in Nat /\ offset - 1 \in DOMAIN w.heights
  /\ fc.code[offset] \in {OP_JUMP, OP_JUMP_IF_FALSE}
  /\ w.heights[offset - 1] = h /\ w.locals[offset - 1] <= l

(* A place to loop back to, at height h, with that many locals.            *)
LoopTo(fc, w, start, h) ==
  Flows(Heights(fc, w), start, h) /\ Covered(fc, w)[start] >= h

(* The locals of scopes less deep than d.                                  *)
Base(fc, d) == {i \in DOMAIN fc.locals : fc.locals[i].depth < d}

IsString(fc, a) == a + 1 \in DOMAIN fc.constants /\ fc.constants[a + 1].type = "STRING"

Finds(fc, w, t, in, out) ==
  CASE t.do \in {"PatchJump", "OrElse", "Else"} ->
         JumpFrom(fc, w, t.args[1], in.height, in.live)
    [] t.do = "IfElse" -> JumpFrom(fc, w, t.args[1], in.height + 1, in.live)
    [] t.do \in {"WhileBody", "ForExit"} -> LoopTo(fc, w, t.args[1], in.height - 1)
    [] t.do \in {"EndLoop", "ForBody"} ->
         /\ LoopTo(fc, w, t.args[1], in.height)
         /\ t.args[2] # 0 => JumpFrom(fc, w, t.args[2], in.height + 1, in.live)
    [] t.do = "ForIncrement" ->
         /\ LoopTo(fc, w, t.args[1], in.height)
         /\ t.args[2] # 0 /\ JumpFrom(fc, w, t.args[2], in.height, in.live)
    [] t.do = "Emit" ->
         IF t.args[1] \in SetOps
         THEN /\ t.args = <<t.args[1], t.args[2]>>
              /\ t.args[1] = OP_SET_GLOBAL => IsString(fc, t.args[2])
              /\ t.args[1] = OP_SET_LOCAL => t.args[2] \in 0 .. in.live - 1
              /\ t.args[1] = OP_SET_UPVALUE => t.args[2] \in 0 .. Len(fc.upvalues) - 1
         ELSE /\ t.args = <<t.args[1]>>
              /\ t.args[1] = OP_RETURN => fc.type # "SCRIPT"
    [] t.do = "DefineVariable" -> IF in.depth = 0 THEN IsString(fc, t.args[1])
                                  ELSE in.locals \notin Base(fc, in.depth)
    [] t.do = "EndScope" -> out.kind = "exact" => Base(fc, in.depth) = 1 .. out.height
    [] t.do = "PopLocals" -> out.kind = "exact" => Base(fc, in.depth + 1) = 1 .. out.height
    [] t.do \in {"Function", "ParameterList", "Parameter", "MoreParameters"} ->
         /\ fc.type # "SCRIPT" /\ fc.code = << >>
         /\ \A i \in DOMAIN fc.todo : fc.todo[i].do \in {"Consume", "Block", "EndCompiler"}
    [] t.do \in {"EndCompiler", "Finish"} -> fc.type = "SCRIPT" => in.depth = 0
    [] OTHER -> TRUE

-----------------------------------------------------------------------------
(* The window when the instruction at the end of the code has been passed. *)
After(fc, w, h) == [heights |-> Heights(fc, w), locals |-> Covered(fc, w), now |-> h]

-----------------------------------------------------------------------------
(* The code so far, of the function F, with the maps H and L that end with *)
(* it, and the set E of the offsets that some task patches.                *)

KeepsAt(fns, F, H, L, o) ==
  /\ \A n \in Successors(fns, F, o) : L[n] >= L[o] \/ L[n] >= H[n]
  /\ OpAt(F, o) = OP_CALL => L[o] < H[o] - Operand(F, o)
  /\ OpAt(F, o) = OP_CLOSURE =>
        \A i \in 1 .. fns[ConstantAt(F, o).val].upvalueCount :
          CapturesLocal(F, o, i) =>
            \A n \in Successors(fns, F, o) : CaptureIndex(F, o, i) \in 1 .. L[n] - 1

Finishes(fns, F, H, L, o) ==
  /\ VerifiedAt(fns, F, H, o) /\ KeepsAt(fns, F, H, L, o)
  /\ OpAt(F, o) \in {OP_GET_UPVALUE, OP_SET_UPVALUE} => Operand(F, o) \in Nat

(* A jump that is not patched yet.                                         *)
Waits(F, H, L, o) ==
  /\ OpAt(F, o) \in {OP_JUMP, OP_JUMP_IF_FALSE}
  /\ o + 3 <= Len(F.code)
  /\ OpAt(F, o) = OP_JUMP_IF_FALSE =>
       H[o] >= 2 /\ Flows(H, o + 3, H[o]) /\ (L[o + 3] >= L[o] \/ L[o + 3] >= H[o])

Starts(F, H) == DOMAIN H \ {Len(F.code)}

FunctionsKnown(fns, F) ==
  \A i \in DOMAIN F.constants :
    F.constants[i].type = "FUNCTION" => /\ F.constants[i].val \in DOMAIN fns
                                        /\ fns[F.constants[i].val].upvalueCount \in Nat

ChunkSound(fns, F, H, L, E) ==
  /\ Len(F.code) \in DOMAIN H /\ DOMAIN H \subseteq 0 .. Len(F.code)
  /\ H \in [DOMAIN H -> Nat \ {0}] /\ L \in [DOMAIN H -> Nat]
  /\ Flows(H, 0, F.arity + 1)
  /\ \A o \in Starts(F, H) : Finishes(fns, F, H, L, o) \/ (o + 1 \in E /\ Waits(F, H, L, o))
  /\ \A o, n \in Starts(F, H) : o < n => o + InstructionLength(fns, F, o) <= n
  /\ FunctionsKnown(fns, F)

-----------------------------------------------------------------------------
(* A FunctionCompiler, its window, and what its tasks expect.              *)

IsSequence(s) == s \in Seq({s[i] : i \in 1 .. Len(s)})

IsFunctionCompiler(fc) ==
  /\ fc = [type |-> fc.type, arity |-> fc.arity, code |-> fc.code, lines |-> fc.lines,
           constants |-> fc.constants, locals |-> fc.locals, upvalues |-> fc.upvalues,
           scopeDepth |-> fc.scopeDepth, todo |-> fc.todo]
  /\ IsSequence(fc.code) /\ IsSequence(fc.constants) /\ IsSequence(fc.locals)
  /\ IsSequence(fc.upvalues) /\ IsSequence(fc.todo)
  /\ fc.arity \in Nat

LocalsSound(fc) ==
  /\ fc.locals # << >> /\ fc.locals[1] = [name |-> "", depth |-> 0]
  /\ \A i \in DOMAIN fc.locals :
       /\ fc.locals[i] = [name |-> fc.locals[i].name, depth |-> fc.locals[i].depth]
       /\ fc.locals[i].depth \in 0 .. UINT8_MAX
       /\ i > 1 => fc.locals[i].depth >= 1
       /\ i < Len(fc.locals) => fc.locals[i].depth # UINT8_MAX
       /\ \A j \in i .. Len(fc.locals) : fc.locals[i].depth <= fc.locals[j].depth

IsWindow(fc, w) ==
  /\ w = [heights |-> w.heights, locals |-> w.locals, now |-> w.now]
  /\ DOMAIN w.heights \subseteq 0 .. Len(fc.code) - 1 /\ DOMAIN w.locals = DOMAIN w.heights
  /\ fc.type = "SCRIPT" => \A o \in DOMAIN w.heights : OpAt(fc, o) # OP_RETURN

(* Tasks that nothing is done before, and those that nothing is left to.   *)
Immediate == {"Variable", "ResolveUpvalue", "CaptureUpvalue", "Call", "PopLocals", "Closure",
              "Function", "ParameterList", "Parameter", "MoreParameters"}
Bottom == {"Function", "EndCompiler", "Finish"}

(* The task t, the i-th, is in its place.                                  *)
Placed(fc, w, t, i, in, out) ==
  /\ Fits(t, in, out) /\ Finds(fc, w, t, in, out)
  /\ out.depth <= in.depth
  /\ t.do \in Bottom <=> i = 1

(* A plan of the tasks, from the situation that is to be found by the next. *)
IsPlan(fc, w, plan) ==
  /\ \A i \in DOMAIN fc.todo : /\ fc.todo[i].do \notin Immediate
                                /\ Placed(fc, w, fc.todo[i], i, plan[i], plan[i - 1])
  /\ \A i, j \in DOMAIN plan : i <= j => plan[i].depth <= plan[j].depth

Planned(fc, w, out) ==
  \E plan \in [0 .. Len(fc.todo) -> Situations] :
    IsPlan(fc, w, plan) /\ plan[Len(fc.todo)] = out

AwaitedBy(t) ==
  CASE t.do \in {"PatchJump", "OrElse", "IfElse", "Else"} -> {t.args[1]}
    [] t.do \in {"EndLoop", "ForBody", "ForIncrement"} -> {t.args[2]}
    [] OTHER -> {}

Awaited(todo) == UNION {AwaitedBy(todo[i]) : i \in DOMAIN todo}

Ready(fns, fc, w, E, out) ==
  /\ IsFunctionCompiler(fc) /\ LocalsSound(fc) /\ IsWindow(fc, w)
  /\ ChunkSound(fns, Finished(fc), Heights(fc, w), Covered(fc, w), E)
  /\ Planned(fc, w, out)

(* The compiler when its next task has been taken from todo.               *)
Popped(fc) == [fc EXCEPT !.todo = Front(@)]

Before(fns, fc, w, t, E, in, out) ==
  /\ in \in Situations /\ out \in Situations
  /\ Ready(fns, fc, w, E, out)
  /\ At(fc, w.now, in)
  /\ Placed(fc, w, t, Len(fc.todo) + 1, in, out)
  /\ E = Awaited(fc.todo) \cup AwaitedBy(t)

Level(fns, fc, w) ==
  /\ IsFunctionCompiler(fc) /\ fc.todo # << >>
  /\ \E in, out \in Situations :
       Before(fns, Popped(fc), w, Last(fc.todo), Awaited(fc.todo), in, out)

-----------------------------------------------------------------------------
(* The compiler as a whole.                                                *)

(* Upvalues that a function declared in fc may have.                       *)
UpvaluesSound(upvalues, fc) ==
  \A u \in DOMAIN upvalues :
    /\ upvalues[u].index \in 0 .. UINT8_MAX
    /\ IF upvalues[u].isLocal THEN upvalues[u].index \in 1 .. Live(fc) - 1
                              ELSE upvalues[u].index \in 0 .. Len(fc.upvalues) - 1

(* What the next task finds in the compiler as a whole.                    *)
NextFinds(d) ==
  LET t == Last(Inner(d).todo)
      k == t.args[1]
  IN  CASE t.do \in {"Variable", "ResolveUpvalue"} ->
             /\ Previous(d).type = "IDENTIFIER"
             /\ t.do = "ResolveUpvalue" => k \in 1 .. Len(d.compilers)
        [] t.do = "CaptureUpvalue" ->
             /\ k \in 2 .. Len(d.compilers) + 1
             /\ t.args[2] # UINT8_MAX => /\ t.args[2] \in 0 .. UINT8_MAX
                                         /\ t.args[2] < Len(d.compilers[k - 1].upvalues)
        [] t.do = "Closure" ->
             /\ d.functions # << >>
             /\ UpvaluesSound(Last(d.functions).upvalues, Inner(d))
             /\ IsSequence(Last(d.functions).upvalues)
             /\ Last(d.functions).upvalueCount = Len(Last(d.functions).upvalues)
        [] OTHER -> TRUE

FunctionSound(fns, F, d) ==
  /\ Verified(fns, F, d.heights) /\ KeepsLocals(fns, F, d.heights, d.locals)
  /\ \A o \in DOMAIN d.heights : Finishes(fns, F, d.heights, d.locals, o)
  /\ FunctionsKnown(fns, F) /\ F.upvalueCount \in Nat /\ Len(F.code) \in Nat

FunctionsSound(fns, done) ==
  /\ IsSequence(fns) /\ IsSequence(done) /\ Len(done) = Len(fns)
  /\ \A f \in DOMAIN fns : FunctionSound(fns, fns[f], done[f])

(* The k-th FunctionCompiler and the one around it.                        *)
Nested(d, k) ==
  LET fc == d.compilers[k]
  IN  /\ k < Len(d.compilers) => Last(fc.todo).do = "Closure"
      /\ IF k = 1 THEN fc.type = "SCRIPT" /\ fc.arity = 0 /\ fc.upvalues = << >>
         ELSE fc.type = "FUNCTION" /\ UpvaluesSound(fc.upvalues, d.compilers[k - 1])

Sound(d, ws) ==
  /\ ws = [open |-> ws.open, done |-> ws.done]
  /\ FunctionsSound(d.functions, ws.done)
  /\ IsSequence(ws.open) /\ Len(ws.open) = Len(d.compilers)
  /\ \A k \in 1 .. Len(d.compilers) : Level(d.functions, d.compilers[k], ws.open[k]) /\ Nested(d, k)
  /\ IF d.compilers = << >>
     THEN d.functions # << >> /\ VerifiedScript(Last(d.functions), Last(ws.done).heights)
     ELSE NextFinds(d)

(* A refused line only keeps its flags.                                    *)
IsCompiler(d) ==
  /\ d = [source |-> d.source, previous |-> d.previous, current |-> d.current,
          hadError |-> d.hadError, panicMode |-> d.panicMode, canAssign |-> d.canAssign,
          compilers |-> d.compilers, functions |-> d.functions, hangs |-> d.hangs]
  /\ IsSequence(d.compilers)
  /\ d.panicMode => d.hadError

Tokens == UNION {{f[i] : i \in DOMAIN f} : f \in Fragments}

Invariant ==
  /\ IsCompiler(c)
  /\ c.source \in Seq(Tokens \cup {Symbol("END_OF_FILE")})
  /\ ~c.hadError => Sound(c, windows)
=============================================================================
