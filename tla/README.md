# Verification of mehh

mehh is a bytecode virtual machine for Lox, written in C++ after part 2 of
*Crafting Interpreters*. A line of source is scanned, compiled in one pass to
bytecode, and run on a stack machine whose state lives as long as the session.
This directory holds TLA+ models of the scanner, of the compiler, of the machine and
of the data structures under them, a reference semantics that the compiler and
the machine are shown to implement together, the TLC runs that check all this on
small instances, and TLAPS proofs of the results that matter most for every
instance.

## How to run

    tlc -workers 2 -config VMClean.cfg MCVM      # any run of the table below
    tlapm VMProofs.tla                           # proofs: the machine
    tlapm VMFrames.tla                           #   its windows and upvalues
    tlapm CompilerTasks.tla                      #   the compiler: one task
    tlapm CompilerProofs.tla                     #   the compiler: all of it
    tlapm ScannerProofs.tla                      #   the scanner
    tlapm ChunkProofs.tla                        #   the line table
    tlapm NanBoxProofs.tla                       #   NaN boxing
    tlapm Induction.tla                          #   induction, for the others

## Which program

The commit is in the middle of replacing `std::variant` values by NaN-boxed
ones: `value.hpp` and some handlers use the new `Value`, other handlers still
call `std::get`, `std::holds_alternative` and `std::visit` on it. A call of the
old interface is read as the test or projection of the new one that it names
(`holds_alternative<double>` is `isNumber`). Where the migration has already
changed what a handler does, the model does what the code does now: `op_add` and
`valuesEqual` have an arm for strings that no value takes. A string constant is modelled by the interned string it is meant to hold;
that `makeConstant(&interned)` stores the address of a local is listed as a
hazard.

## Inventory

| Component | State | Operations | What makes it correct |
|---|---|---|---|
| VM (`vm.cpp`, `vm.hpp`, `call_frame.*`, `function.hpp`) | value stack, frames, closures, globals, all of fixed capacity but the last | 28 opcode handlers, `interpret`, `call`, `callValue`, `captureUpvalue`, `runtimeError` | windows hold what the code counts on; no read of unwritten storage; calls are isolated from their callers; runs end; limits are reported |
| Driver (`mehh.cpp`) | the VM | `repl`, `runFile` | a failed line does not spoil later ones |
| Instruction set (`chunk.hpp`, `call_frame.hpp`) | none | decoding | compiler, machine and disassembler agree on layouts |
| Chunk (`chunk.cpp`) | bytes, constants, run-length line table | `write`, `writeConstant`, `getLine` | every byte keeps its line |
| Value (`value.hpp`) | one 64-bit word | box, unbox, type tests | one type for each word; what is read is what was stored |
| Compiler (`compiler.cpp`) | parser flags, a stack of function compilers with locals and upvalues | Pratt parser, one code emitter for each construct | accepted source gives verified code; error recovery ends; limits are refused |
| Scanner (`scanner.cpp`) | position, line | `scanToken` | one token stream for each source; keywords and identifiers apart |
| String interning (`string_intern.hpp`) | a set of strings | `intern` | one view for each content |
| Disassembler (`debug.cpp`) | none | print a chunk | steps by the same lengths as the machine |
| Value printing (`value.cpp`), `main.cpp`, fmt, Tracy | none of interest | output, profiling | |

The parts interact by plain calls on one thread: the driver calls `interpret`,
which calls the compiler and then runs `dispatch` until a handler returns. There
is no concurrency and nothing is persisted. What is hard is the *sequence*: the
machine keeps its frames, values, closures and globals from one line to the
next, errors leave them in the middle of a call, upvalues are raw pointers into
a stack that shrinks and grows, and the limits of the fixed-capacity vectors are
met at places that depend on each other. `PROJECT.json` lists these hazards at
their lines.

## The models

### Bytecode

The opcodes as the bytes they are and the layout of an instruction:
`Operand`, `ShortOperand`, `ConstantAt`, `InstructionLength`. It also says what
*verified* code is: `Verified(fns, F, h)` holds if `h` gives a window height for
each offset at which an instruction starts, such that each instruction finds its
operands inside the window, names a constant, local or upvalue that exists, and
leaves the window at the height all its successors expect. A line's top-level
function returns when its window holds slot 0 and the nil to return
(`VerifiedScript`). And closures capture only locals: `KeepsLocals(fns, F, h, l)`
holds if `l` bounds, at each offset, the part of the window that closures may have
captured, and slot 0, callees and arguments of calls are never in it. This is the
contract between the compiler and the machine: the theorems about the machine
assume it, and the theorem about the compiler concludes it.

### VM, VMSafety, MCVM

`VM` is the machine with the read-eval loop: `Interpret(f)` is a line that
compiles to function `f`, `InterpretRejected` one that does not compile, and
there is one action for each opcode handler (the three literals and the four
arithmetic handlers share one each, a call has one for each kind of callee).

| Model | Code |
|---|---|
| `mem`, `sp` | `VM::stack`: the storage of the `static_vector`, whose cells keep their content after a pop, and its size |
| `frames` | `VM::frames`; `ip` is an offset into the code, `slots` an index into `mem` |
| `closures` | `VM::closures`, which is never emptied; an upvalue is an index into `mem` |
| `globals` | `VM::globals` |
| `status` | what the last `interpret` returned, `RUNNING` during a run, `TERMINATED` when the process is gone |

* A push on a full vector throws `bad_alloc`, which reaches `repl` or `runFile`;
  both are `noexcept`, so the process ends (`Terminate`).
* `runtimeError` prints a traceback and leaves frames and stack alone. The
  closure of a line is a local variable of `interpret`, so its frames hold a
  dangling pointer afterwards; a later traceback that reads one may end the
  process or not (`Traceback`).
* An upvalue is a raw pointer that is never closed, so a closure that outlives
  its function reads whatever its slot holds now.
* What would be undefined behaviour otherwise (an underflow, an operand out of
  range) has no transition; the theorems below show verified code never gets
  there.
* Numbers are abstract (`Arith`, `Less`, `Negate` are constants of the module);
  TLC runs with integers saturated at -3 and 3. Printing is left out.

The functions that `compile()` allocates for all lines that may be typed are the
constant `Library`: a function is never changed or freed once its line runs.

`VMSafety` states the properties. `Sources` holds 9 lines of source; `MCVM`
takes as the library what `Compiler` emits for them, computes the height and locals
maps of its functions (`Verifier`) and groups the lines into the sessions of the
runs. TLC evaluates the assumptions that all of the code is verified
(`LibraryAssumption`) and captures only locals (`LocalsAssumption`) in every run.

### Compiler, WholeLines

`Compiler` is the one-pass compiler. The procedures of `compiler.cpp` call each
other, deeper than any bound; here they are the tasks of a machine. A procedure is
an operator from the compiler's state to the state in which it first calls
another: what it does up to there it does at once, and the calls, with what it does
after them, are tasks put on `todo`, the next one last. So `todo` is the C++ stack
of the procedures that are running, `Task("IfElse", <<thenJump>>)` is `ifStatement`
after its first branch, with the local variable it still needs, and `DoTask(c)` is the
compiler after its next task. A function that is being compiled has a `todo` of its
own, as `createFunction` has a `FunctionCompiler` of its own on the C++ stack.

| Model | Code |
|---|---|
| `source`, `previous`, `current` | the scanner's tokens and the two the parser holds, as positions |
| `hadError`, `panicMode`, `canAssign` | the flags of `Parser` and `Compiler` |
| `compilers` | the chain of `FunctionCompiler`s from `current` outwards, innermost last |
| `todo` | the calls of the procedures that work for that `FunctionCompiler` |
| `functions` | the functions that are finished; a constant that is one is its index |
| `lines` | for each byte the token whose line `emitByte` would record |
| `hangs` | `synchronize` was entered where it never returns |

`Byte8` is the narrowing of every `uint8_t`; the constant `UINT8_MAX` is 255, and
2 or 4 in the runs that are about the limits, so that short lines exceed constants,
arguments, jumps, loops, scopes and locals. The two bytes of a jump
are bytes of the same width (`UINT16_MAX`). The tables of `rules`
are `Precedence`, `HasPrefix` and `InfixCode`.

A task asks for one token at most and emits one instruction at most, which is what
makes the steps small enough to reason about. Where only the result matters,
`WholeLines` takes them all at once: `Compile(source)` is the whole of `compile()`.

### Compilation, CompilerInvariant, MCCompilation

`Compilation` is the specification: `Scan` gives the compiler the next tokens when
it asks for one, any that `Fragments` has, so that every line is typed; `Proceed`
is a `DoTask`; `Begin` is `compile` called again. The variable `windows` is a history:
it follows the emitted code and keeps, for each instruction of each function, the
height of the stack window and the number of the locals in it. It reads the
compiler and changes nothing in it. `AcceptedIsVerified` says that these are maps
with which the code of an accepted line is `Verified` and `KeepsLocals`; a map is
easier to write down while the code is emitted than to find afterwards.

`CompilerInvariant` is the inductive invariant of the proof, below.

### CompilerSafety, Verifier, Sources, MCCompiler

`CompilerSafety` calls the compiler on one whole line after the other. Lines grow by a
fragment at a time, so that all lines over a vocabulary of fragments are compiled, the
unfinished ones too, if there is room to finish them (`Closable`). The properties compare with references that share nothing
with a Pratt parser or a stack of locals: `ExpressionsFollowGrammar` derives the
code of a line from the grammar, by trying all ways to split the tokens, and
finds that the compiler accepts the same lines with the same code;
`ScopesResolve` reads off the braces which declaration a use refers to, and
follows the emitted slot, or chain of upvalues, to the slot of that declaration.
Slots and depths are bytes, and no limit is tested ("TODO: Enforce max depth."), so
the reference says what becomes of names beyond them, instead of an error: where the
depth of a scope is 0 again it declares globals (`Locals`), a function does not find
the local whose slot is the byte that says "none" and the name is looked for further
out (`Answered`), and the slots after it are those from 0 on again. In the 255th scope
a local has the depth that marks one without a value, so no accepted line reads it
there. `Countable` leaves out deeper scopes, whose end pops the locals around them,
and functions with more than 255 upvalues.
`Verifier` finds the maps of code without its history, for the machine's library.

### Scanner, ScannerSafety, MCScanner

`Scanner` is `scanner.cpp` over sources that are sequences of one-character
strings. `start`, `current` and `line` are the members of the same names;
`scanToken` skips whitespace and comments, and then has one disjunct for each way
to take a token (`Symbol`, `handleString`, `handleNumber`, `handleIdentifier`),
for the end and for the character that starts none; what it returns is in
`token`. `init` starts the next source on the same scanner. Loops over `peek` and
`advance` are `Past`: the first position whose character the loop does not take.
Symbols and keywords are functions from their characters to their types. `NUL`
stands for the end of the source and is no character of it (`AlphabetsAssumption`).

`ScannerSafety` has the lexical grammar as a predicate on stretches of the source
(`LexemeType`), which says nothing of how tokens are found. `LongestMatch`
compares: each token is the longest lexeme, but for two kinds which the code
misreads and which `Misread` describes. `NumbersReadWhole` is about the compiler's
use of a token: it gives `std::stod` the rest of the source instead of the token's
characters, and `StodEnds` is what C takes for a number.

### Evaluation, Execution, Programs, ProgramLines, MCExecution

`Evaluation` is an abstract specification of the whole system: what a line of
source means. Its lines are syntax trees; a variable lives in a cell of its own,
a function keeps the cells in scope where it was declared, and `Evaluate` is one
step from the globals before a line to those after it and what it prints.

`Execution` composes what there is in the code: `Compiler`'s output for the same
lines, run by `VM`, with a record of what has been typed and printed. The refinement
mapping (`Meaning`) shows the globals as they were before the line while it
runs, and the machine's globals, its output and its `status` between lines; a
closure is shown as the declaration it was compiled from. So a run of the
machine is a number of stuttering steps, and the `OP_RETURN` or `runtimeError`
that ends it is the abstract `Evaluate`.

Three kinds of lines are not typed there, since the code makes no sense of them or
never ends: a line that reads a variable that is gone, one that leaves a function
that could do so in a global (upvalues are never closed), and one that is endless (`Means`).
`clock` is never called, as a native leaves its callee on the stack. A session
ends with the first line that fails, as the machine has no clean state then. And
the comparison with `<` of a number with anything else is false, as `op_less`
has it, not the error that the other operators report. These are limits of the
claim that is checked. What they leave out the machine does in the sessions of
`VMEscapes`, where nothing is claimed about what it computes.

`Programs` has the words of a syntax tree, for the compiler, and the functions it
declares in the order in which the compiler finishes them. `ProgramLines` has the
lines of the run.

### NanBox, Variant

`NanBox` is the boxing of `value.hpp`. A word is the set of the positions of its
1 bits, so that the masks and tests are set operations, for any number `P` of
payload bits and `Q` of mask bits. `Variant` is the tagged union the program
used before, and still thinks in. Doubles exclude the NaNs with all of the mask
bits set, which arithmetic does not produce; addresses fit the payload.

### Chunk, LineTable

`Chunk` is the code with its run-length line table, as `write` builds it and
`getLine` reads it; `patch` is the patching of jump operands through `code()`.
`Sums`, a recursive function, is what the loop of `getLine` has counted after each
round. `LineTable` keeps one line per byte, and `Unrolled` is the mapping to it:
the line of each byte as the runs tell it.

## The runs

| Run | Shows | Bounds |
|---|---|---|
| `VMClean` | In sessions of lines that succeed: windows are *exactly* what the code counts on, nothing is left between lines, a call changes nothing below its window but through an upvalue, upvalues of running closures are live locals of callers, and every run, of a loop or of a recursion, ends | stack and closures 15, frames 5: recursion, a closure that captures through two functions and loops all run, and a session goes on until the closures are used up |
| `VMEscapes` | Sessions of failing and succeeding lines in any order, calls of `clock()`, a closure that outlives its call and is called by later lines, a recursion without end, and a loop whose body calls what may be no function: windows cover what the code counts on, also in stale frames that later lines resume; storage that was never written is never read; every run ends, stopped by a limit or after all the stale frames it comes through; a step in a stale frame, or in a call from one, changes nothing below its window but through an upvalue | stack and closures 8, frames 3: two failed lines leave room for one more run, at every height they can leave, three leave none; the recursions meet the limits of frames and of the stack from any of them; a later line resumes the loop in its middle, with rounds to go, in which it makes the calls that failed before |
| `Execution` | Compiler and machine implement `Evaluation`: same output in the same order, same globals, failure where evaluation fails, functions of earlier lines called with the same effect, comparisons of a number with a string or nil as `op_less` answers them; each line ends | 16 statements about a variable, its shadows and the functions that read and write it. One that declares and all pairs of them after it, in a block and in the body of a function: more than 1,500 programs that have a meaning. Sessions of up to three one-statement lines. `Fuel` 30 calls and iterations, stack 24, frames 5, so that the limit of frames is met and the stack's is not |
| `Scanner` | Tokens are the longest lexemes of the grammar but for the two misreadings; no character is lost; lines are counted; numbers are read whole by `stod`; the end is reached, in every source on the same scanner | all sources of up to 5 characters over three alphabets: numbers (those of C too), the keyword `or` with what may precede or follow it, and strings, comments and newlines |
| `NanBox` | One type for each stored word; the word implements the variant | 3 payload and 3 mask bits: all 128 words, all tags, addresses equal to tags |
| `ChunkLines` | The table implements one line per byte, is as short as can be, and `getLine` answers the line, modulo 256 | chunks of at most 4 bytes, lines 1, 2, 255, 256, 257: enough for a line that comes back after another, and for one that wraps |
| `CompilerExpressions` | Precedence, associativity, assignment targets, calls, jumps of `and` and `or`, the limits of constants, of arguments and of jumps: accepted lines and their code are those of the grammar | `UINT8_MAX` = 2 and two vocabularies. Lines of at most 7 tokens over a name, parentheses and the like, and an operator of each level with its operand: two operators in a row at any levels, with a sign before them, and one constant and jumps of more bytes than allowed. Lines of at most 14 tokens of calls: up to four arguments, and calls as callees and arguments. A line is not gone on with after a statement that is refused (`UpToFirstError`) |
| `CompilerScopes` | Every name is read where lexical scoping has it, and, where scopes and locals are more than a byte counts, where `ScopesResolve` says | `UINT8_MAX` = 2 and three vocabularies. 21 tokens: three functions in each other, with the names of the outer ones declared before, inside or after. 16 and 14 tokens, with a use of one name at the end of one block or function (`OneBlock`): four scopes in each other, four locals in a function, a hidden local inside a function whose name is declared around it |
| `CompilerStatements` | Nested statements, and functions that capture variables of functions around them, through others too, compile to verified code, or are refused when a jump or a loop is too long; every step of the compiler is a state | bytes up to `UINT8_MAX` = 4, so that bodies exceed jumps and loops (`Nesting`). 16 tokens of statements: any two kinds in each other, some three. 26 tokens of functions, with room for what closes them: three in each other, one or two variables captured at each use, by assignments too. A line that has been refused is not gone on with (`UpToFirstError`), nor one with more locals or scopes than a byte can count (`WithinBytes`, the hypothesis of the theorem below) |
| `CompilerRecovery` | Violates a claim of the compiler's comments, below | lines of `1` and `;` |
| `VMNative`, `VMOverflow` | Each violates one claim of the code's own messages and comments, below | `VMOverflow` uses the real 256 and 64 |

Deadlock checking is off where the system really stops: after `TERMINATED` the
process is gone, and after a compile that hangs nothing happens any more. Between
two lines the state is kept, and the next line is any line of the session. In
`Execution` a session is over after its last line or the first that fails.

`FrameIsolation` is about a step while a run goes on. `WindowsExact` and
`UpvaluesOpen` hold only of sessions without errors, native calls and escaping
closures, which is why they are checked in `VMClean` only; what holds of *every*
session is `WindowsCover` and `NoUninitRead`.

**Mutants.** A definition whose comment begins "A mutant of" is a plausible bug of
the definition it names. It is used by no specification: `PROJECT.json` pairs
each property of a passing run with one, and TLC finds the property violated
when the mutant takes the definition's place.

**Fairness.** The machine runs on its own once a line is typed: `dispatch` tail-calls
handlers until one returns, so `Step` is weakly fair. Whether another line is
typed is up to the user, so `Interpret` is not. `RunEnds` and `LinesEnd` (under
weak fairness of `Ran`, the same steps) need no more; they are checked of lines
whose loops end, and say that the machine ends them. Recursion need not end: in
`VMEscapes` a limit stops it. Fairness of `scanToken` is
as plain: the compiler's `advance` calls it until it has the `END_OF_FILE`.

### Where the code and its own words differ

* `VMNative`: a native's result is pushed above the native itself; a local
  declared after a call of `clock()` is in the wrong slot (`vm.cpp:66`).
* `VMOverflow`: the windows of a function with a parameter and three locals hold
  five values. Calling itself it has filled the value stack with 52 of the 64
  frames, the next push throws, and the process ends without "Stack overflow"
  (`vm.cpp:85`). `OverflowIsReported` is about steps of runs without stale frames,
  so that no dangling closure in a traceback can be what ends it.
* `CompilerRecovery`: the loop of `synchronize` that is to "Skip tokens until we
  find a semicolon (end of statement) or a token that starts a statement" never
  advances: `1 1` hangs (`compiler.cpp:50`).

More were met, are in the model as the code has them, and have no run of their
own:

* `op_less` tests its operands with `&&` where the others use `||`, so `1 < nil`
  is false instead of "Operands must be numbers." (`vm.cpp:238`, in `OpLess`
  and in `Evaluation`'s `Operate`);
* `op_add` looks for type `STRING`, but `getType` answers `OBJ` for all objects,
  so strings are never added (`vm.cpp:267`, in `OpAdd`);
* `valuesEqual` looks for type `STRING` too, so a string is not even equal to
  itself (`vm.cpp:40`, in `ValuesEqual` and in `Evaluation`'s `Same`);
* `arity` is a byte that is tested against 255, so "Can't have more than 255
  parameters." is never said, and a function of 256 parameters is one of none to
  its callers (`compiler.cpp:366`, in `Parameter`);
* the 256th scope in each other declares globals, local 255 is hidden and local 256
  is slot 0 (`compiler.cpp:146` and `183`, in `ScopesResolve`);
* `checkKeyword` does not look at the length of a word, so `orx` is the keyword
  `or` (`scanner.cpp:166`, in `WordType`);
* `handleNumber` looks for a point only after a second digit, so `1.5` is three
  tokens and `10.5` is one (`scanner.cpp:94`, in `NumberEnd`);
* `getLine` narrows the line to a byte (`chunk.cpp:28`, in `LinesFound`).

## What is proved

Every theorem holds for all values of the constants that satisfy the named
assumptions of its module. The property that it states is also checked by a run.

### The machine: VMProofs, VMFrames

For every verified library, every set of lines, every arithmetic and all stack and
frame sizes, from `SizesAssumption`, `NumbersAssumption`, `NamesAssumption`,
`LibraryAssumption` and, for the upvalues, `LocalsAssumption`. For every session:

* `TypeCorrect`: the shape of the state, with the limits of the vectors, and the
  match between frames, closures and functions;
* `NeverReadsUninit`: nothing is read before it is written, however stale the
  upvalue;
* `NeverUnderflows`: every frame's window covers what its code counts on, and its
  instruction pointer is at an instruction;
* `FramesAreIsolated`: no step changes a cell below the running frame, but the
  one an assignment to an upvalue names, and no frame that waits
  (`FrameIsolation`).

The first three are one inductive invariant, `IInv`, because each step needs all of
them: a handler's operands are in its window by `WindowsCover`, so what it pushes
is a value by `NoUninitRead`, so the next state has the right shape by `TypeOK`.
The point that makes it work is that windows are *covered*, not exact: an error
in `op_add` leaves a frame one value short of what its code counts on next, and
a native call leaves one too many, but the frame is only resumed by a return,
which adds the value it lacks (`Pending`). The proof has one lemma for each
action, which rest on lemmas about the three ways a handler changes the stack
(push, replace, keep), and `Invariant` combines them. `FramesAreIsolated` follows:
a handler that pops `n` values writes above the window's floor because the window
has `n` values, and the same lemma for each opcode says so.

Two invariants of the runs do not hold of every session, and their theorems say of
which ones, as a condition on steps:

* `WindowsAreExact`, of sessions whose steps are `CleanStep`s: no line fails and no
  native is called. Then every window is *exactly* what the code counts on, and
  the stack is empty between lines. The inductive invariant is `Exact`, on top of
  `IInv`; it needs that `interpret` starts a line on an empty stack.
* `UpvaluesStayOpen`, of sessions whose steps are `HomeStep`s: clean, and no closure
  that captured something is assigned, made a global or returned. Then every
  upvalue of a running closure is a local of a call below it that has not ended.
  The inductive invariant is `Nested`, on top of `Exact`: a closure on the stack,
  or the one a frame runs, points to nothing above its own cell, and only to
  cells that the locals maps of the frames below name. The heights alone cannot
  show this: code that captures a cell, puts the closure into that very cell and
  calls it there has good heights. What rules it out is that the compiler keeps
  the locals of a function apart from the values of its expressions, which
  `KeepsLocals` states and `LocalsAssumption` assumes; that it does is part of
  the theorem about the compiler, next.

The sessions of `VMClean` take only such steps, and TLC checks both invariants
there without a condition.

### The compiler: CompilerTasks, CompilerProofs

`CodeIsVerified`, which states `AcceptedIsVerified`: for lines of every length and
any tokens, and every width of a byte, the code of each function of a line that is
accepted is verified, keeps its locals, and the line's own function returns where
the machine expects it. This is what `LibraryAssumption` and `LocalsAssumption`
ask of the code the machine runs. The assumptions are `UInt8Assumption` of
`Bytecode` and `FragmentsAssumption`, that the scanner makes no name without a
character. `MaxTokens` is any value, so the bound on lines is none here.

The theorem has a hypothesis, `[]WithinBytes`: a function has at most
`UINT8_MAX + 1` locals and fewer than `UINT8_MAX` scopes around its code. It is
there because the code tests neither ("TODO: Enforce max depth.") and the theorem
is false without it. In 255 nested blocks `scopeDepth` is 255, the mark of a local
without a value, and one block further it is 0: the end of a block inside that one
pops the locals of the blocks around it, which the code after an `if` with such a
block in its branch still counts on. TLC shows it with `UINT8_MAX` = 3 and the line
`{ var a; if (a) { { { { } } } } }`, whose branches meet at different heights; the
code makes no claim that a run could set against this.

The invariant (`CompilerInvariant`) says what each task on `todo` finds. It does
so with *situations*: between declarations the window holds the locals and nothing
else (`Loose`); in an expression the height, the locals, and how many of them have
their values are known (`Exact`); while a scope ends, locals of deeper scopes remain
(`Popping`). `Fits(t, in, out)` is the contract of a task, the situation it starts
in and the one it leaves, and `Planned` says that there are situations between the
waiting tasks such that each is given the one it needs. Above this is the code so
far (`ChunkSound`): each instruction either is verified already (`Finishes`), with
the end of the code counted as a place to go on from, or is a jump that one of the
waiting tasks patches (`Waits`, `Awaited`), to a place of the height and the
locals that the jump has (`JumpFrom`, `LoopTo`). And the compiler as a whole:
functions within functions, each with the upvalues that the one around it can give
(`UpvaluesSound`), and the functions that are finished.

Most of what is easily got wrong is in what a task finds. A branch may come to its
end in either of two situations, since `if (a) {...}` joins a block with nothing;
a local without a value is in the table before it is in the window; `endScope`
pops by depth, so what it leaves is a matter of the depths of all locals below;
an upvalue is added to several functions in turn, and an index that is found for
one function has to be good in the next. A line that has been refused is under no
obligation: the invariant holds of lines up to their first error.

`CompilerTasks` has a lemma for each task: done in the situation it fits, it leaves
a compiler for which the rest of the plan is good. Each is reduced to what the task
does to the code, the constants, the locals and the tasks (`Emit` extends the code
by one instruction, a patch completes one, a declaration adds a local), with one
lemma for each of these. `CompilerProofs` goes on with the tasks that need more
than one function, resolving a name and closing a function, and with functions in
functions, has one step for each task in `InvariantStep`, and ends with the tokens
and the theorem.

### The line table: ChunkProofs

For all bytes, all lines and every length: `TableIsTight` (`RunsTight`),
`GetLineFinds` (`LinesFound`: the line modulo 256, of every line) and `ImplementsOneLinePerByte`, that the runs
implement `LineTable`, initial states and steps. The sums over runs are a recursive
function, and a proof may only use one after it has shown that it exists: the
lemmas build it one run at a time, with `NumbersInSet` of `Induction`, which is
induction for a set of numbers. After that a longer table has the sums of the
shorter one and one more, and `write` either grows the last sum by one or adds
one. The invariant is `RunsTight` itself with the shape of the state: it is
inductive, because what a run counts and the line of its neighbour are all that
`write` reads.

### The scanner: ScannerProofs

For every alphabet, and every source of any length: `SourceIsTiled`
(`TokensTile`), `TakesTheLongest` (`LongestMatch`) and `StodAgrees`
(`NumbersReadWhole`). The invariant `ScannerOK` says that the scanner stays in its
source and that its line is one more than the newlines before its place; for
numbers, `NumberOK` adds what the characters of the last token are.
`SkipWhitespace` is a recursion over positions, shown to exist from the end of the
source backwards and to go nowhere but over whitespace and comments. Each kind of
lexeme has a lemma about the longest one of its kind from a place, and one that
the disjunct of `scanToken` for it takes that one; `LeastElement` gives the first
position a loop stops at.

### NaN boxing: NanBoxProofs

For every width and every set of doubles and addresses the assumptions allow:
`TypesDisjoint` (`OneType`) and `BoxingIsFaithful`, that the word implements the
variant, initial states and steps.

### How far to trust the proofs

The SMT translation of `tlapm` 1.4.5 has an axiom for `Len` that is too strong: it
gives every function whose domain is not `1 .. n` a length as well, and a goal
about such functions could follow from it for no good reason. It also says little
of `CHOOSE`, so that steps about one are left to Zenon. All proofs have also been
checked with that axiom restricted to sequences. And for each of the theorems, the
proof fails where it should when the definition of the code is replaced by a
mutant of it from this directory.

### What is only model-checked

* `RunEnds`, `LinesEnd` and `ScanEnds`, which are liveness properties.
* `ExpressionsFollowGrammar`, `ScopesResolve` and `EvaluatesLines`: their
  references (a grammar, the scopes of a line, `Evaluation`) are recursive
  operators, about which `tlapm` cannot reason. `CodeIsVerified` says that
  accepted code is safe to run, not that it is the code the line means.
* That the library of `MCVM` meets `LibraryAssumption` and `LocalsAssumption` with
  the maps that `Verifier` finds. `CodeIsVerified` gives maps of its own, those of
  the history.
* What names mean beyond the limits of scopes and locals (`CompilerScopes`): the
  theorem stops there, with `WithinBytes`. The limit of upvalues is in the model, but
  no run reaches it: more than 255 are refused nowhere, and the code claims nothing
  about them.

## What is not modelled

What printing looks like and what a message says; the disassembler's output; the
garbage that is never collected; file reading; the vendored libraries. Interning
is assumed to give one view per content. `Value::is` has no caller. Characters
beyond ASCII, for which `isdigit` and `isalpha` are not defined on a signed
`char`, and literals so long that `std::stod` throws, are no inputs of the
models. That a constant which names a string is a dangling pointer (above) has no
outcome that could be enumerated.

## Plan

1. Done: `Bytecode`, `VM`, `VMSafety`, `MCVM`, `VMProofs`; `Compiler`,
   `CompilerSafety`, `Verifier`, `Sources`, `MCCompiler`; `Variant`, `NanBox`,
   `NanBoxProofs`; `LineTable`, `Chunk`.
2. Done: `Scanner` over characters, with its grammar, its lines and termination.
3. Done: an abstract evaluation of source lines, and the compiler and machine
   together as its implementation, on lines without escaping closures.
4. Done: `FrameIsolation`, `WindowsExact` and `UpvaluesOpen` as theorems; the line
   table and its refinement; the scanner's tokens.
5. Done: sessions of failing lines and of endless recursion, and the compiler beyond
   the limits of its bytes.
6. Done: the compiler as a machine of tasks, and that the code it accepts is
   verified, as a theorem.
7. Left: functions with more upvalues than a byte has indices, in `ScopesResolve`.
