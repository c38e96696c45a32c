------------------------------ MODULE VMSafety ------------------------------
(***************************************************************************)
(* What the machine of module VM promises when it runs verified code: the  *)
(* library comes with a height map for each function (module Bytecode),    *)
(* and the code of every function is verified against it.                  *)
(***************************************************************************)
EXTENDS VM

CONSTANTS
  Heights, \* Heights[f] is a height map of Library[f]
  Locals   \* Locals[f] is a locals map of Library[f]

ConstantRecord == [type : {"NUMBER"}, val : Numbers]
                  \cup [type : {"STRING"}, val : Names]
                  \cup [type : {"FUNCTION"}, val : DOMAIN Library]

FunctionRecord == [arity : Byte, upvalueCount : Nat, code : Seq(Byte),
                   constants : Seq(ConstantRecord)]

(* The sources of a session compile to verified functions.                 *)
ASSUME LibraryAssumption ==
  /\ Library \in Seq(FunctionRecord)
  /\ \A f \in DOMAIN Library : Verified(Library, Library[f], Heights[f])
  /\ Scripts \subseteq DOMAIN Library
  /\ \A f \in Scripts : VerifiedScript(Library[f], Heights[f])

(* They capture nothing but locals.                                        *)
ASSUME LocalsAssumption ==
  \A f \in DOMAIN Library : KeepsLocals(Library, Library[f], Heights[f], Locals[f])

-----------------------------------------------------------------------------
FrameRecord ==
  [function : DOMAIN Library, closure : -1 .. Len(closures),
   slots : 0 .. STACK_MAX - 1, ip : Nat]

ClosureRecord == [function : DOMAIN Library, upvalues : Seq(0 .. STACK_MAX - 1)]

MemoryOK ==
  /\ mem \in [0 .. STACK_MAX - 1 -> Value \cup {Uninit}]
  /\ sp \in 0 .. STACK_MAX

GlobalsOK == globals \in [Names -> Value \cup {Undefined}]

(* A frame runs the function of its closure, or is a line's top-level      *)
(* frame, which has no upvalue.                                            *)
FramesOK ==
  /\ frames \in Seq(FrameRecord)
  /\ Len(frames) <= FRAME_MAX
  /\ \A i \in DOMAIN frames :
       IF frames[i].closure \in {ScriptClosure, Dangling}
       THEN Library[frames[i].function].upvalueCount = 0
       ELSE closures[frames[i].closure].function = frames[i].function

ClosuresOK ==
  /\ closures \in Seq(ClosureRecord)
  /\ Len(closures) <= STACK_MAX
  /\ \A c \in DOMAIN closures :
       Len(closures[c].upvalues) = Library[closures[c].function].upvalueCount

StatusOK ==
  /\ status \in {"NONE", "RUNNING", "OK", "COMPILE_ERROR", "RUNTIME_ERROR",
                 "TERMINATED"}
  /\ status = "RUNNING" => frames # << >>

(* The shape of the state, limits of the fixed-capacity vectors included.  *)
TypeOK ==
  /\ MemoryOK /\ GlobalsOK /\ FramesOK /\ ClosuresOK /\ StatusOK

(* Every cell of the storage m below the top t holds one of the values V,  *)
(* and so does every cell an upvalue of the closures cs points to.         *)
Written(m, t, V) == \A i \in 0 .. t - 1 : m[i] \in V
UpvaluesWritten(cs, m, V) ==
  \A c \in DOMAIN cs : \A i \in DOMAIN cs[c].upvalues : m[cs[c].upvalues[i]] \in V

(* No handler reads storage that was never written, neither on the stack   *)
(* nor through an upvalue, wherever the stack has gone since the closure   *)
(* was made.                                                               *)
NoUninitRead == Written(mem, sp, Value) /\ UpvaluesWritten(closures, mem, Value)

(* Where the window of the i-th frame ends, and the height its code counts *)
(* on when it runs next.                                                   *)
WindowEnd(i) == IF i = Len(frames) THEN sp ELSE frames[i + 1].slots
Expected(i) == Heights[frames[i].function][frames[i].ip]

(* The value a suspended frame is still to be given: the result of its     *)
(* call, or, after a run that failed, that of a later line that returns    *)
(* into it.                                                                *)
Pending(i) == IF i = Len(frames) /\ status = "RUNNING" THEN 0 ELSE 1

(* At every point of every session, failed lines and calls to natives      *)
(* included, each frame's window holds at least the values its code counts *)
(* on: no handler underflows its window, and a local is inside it.         *)
WindowsCover ==
  \A i \in DOMAIN frames :
    /\ frames[i].ip \in DOMAIN Heights[frames[i].function]
    /\ WindowEnd(i) - frames[i].slots + Pending(i) >= Expected(i)

(* When no line fails and no native is called the windows are exactly what *)
(* the code counts on, so that locals and temporaries are where the        *)
(* compiler put them, and nothing is left on the stack between two lines.  *)
WindowsExact ==
  /\ \A i \in DOMAIN frames :
       status = "RUNNING" =>
         WindowEnd(i) - frames[i].slots + Pending(i) = Expected(i)
  /\ Idle => sp = 0

(* A function runs in its own window: a step changes no cell below the     *)
(* running frame's slots, except through an upvalue, and leaves the frames *)
(* that wait for it alone while the run goes on.                           *)
FrameIsolation ==
  [][status = "RUNNING" =>
       /\ \A i \in 0 .. frame.slots - 1 :
            mem'[i] = mem[i] \/ (Running(OP_SET_UPVALUE) /\ i = Upvalue)
       /\ Len(frames') >= Len(frames) - 1
       /\ status' = "RUNNING" =>
            \A j \in 1 .. Len(frames) - 1 : frames'[j] = frames[j]]_vars

(* While no closure outlives the call that made it, an upvalue of a        *)
(* running closure is a local of a call below it, never a slot 0, a slot   *)
(* of its own window or a cell above the stack.                            *)
UpvaluesOpen ==
  \A j \in DOMAIN frames :
    frames[j].closure \in DOMAIN closures =>
      \A u \in DOMAIN closures[frames[j].closure].upvalues :
        \E i \in 1 .. j - 1 :
          /\ frames[i].slots < closures[frames[j].closure].upvalues[u]
          /\ closures[frames[j].closure].upvalues[u] < frames[i + 1].slots

(* A run always ends: in a result, or with the process, whatever recursion *)
(* the program gets into, and whatever failed lines have left for it to go *)
(* on with (the programs here have no endless loop).                       *)
RunEnds == status = "RUNNING" ~> status # "RUNNING"

-----------------------------------------------------------------------------
(* What the messages and comments of the code say, and the code does not.  *)

(* Slot 0 of a call is accounted for: the result of a call takes the place *)
(* of the callee and the arguments, whatever the callee is.                *)
ResultReplacesCall ==
  [][Running(OP_CALL) /\ Callee.type = "NATIVE_FUNCTION"
       /\ status' = "RUNNING" => sp' = sp - Arg]_vars

(* "Stack overflow": recursion that is too deep is a runtime error, and    *)
(* the process goes on.  (A traceback over frames that a failed line has   *)
(* left may end it too: that is another matter.)                           *)
OverflowIsReported ==
  [][status = "RUNNING" /\ (\A i \in DOMAIN frames : frames[i].closure # Dangling)
       => status' # "TERMINATED"]_vars
=============================================================================
