-------------------------------- MODULE Chunk --------------------------------
(***************************************************************************)
(* The chunk of src/chunk.cpp: bytecode with a run-length encoded table of *)
(* the source lines, filled by the compiler a byte at a time and read by   *)
(* the traceback of a runtime error.                                       *)
(***************************************************************************)
EXTENDS Naturals, Sequences

CONSTANTS
  Bytes,    \* the bytes the compiler emits
  Lines,    \* the lines of the source
  MaxLength \* bound of this model: bytes in a chunk

ASSUME LinesAssumption == Lines \subseteq Nat \ {0}

VARIABLES
  code_,
  lines \* runs of bytes of one line, [count, line]

vars == <<code_, lines>>

-----------------------------------------------------------------------------
Last(q) == q[Len(q)]

Init == code_ = << >> /\ lines = << >>

(* A mutant of Counted that adds a line that comes back to its first run.  *)
CountedAnywhere(line) ==
  IF \E r \in DOMAIN lines : lines[r].line = line
  THEN [r \in DOMAIN lines |->
          IF lines[r].line = line THEN [lines[r] EXCEPT !.count = @ + 1]
                                  ELSE lines[r]]
  ELSE Append(lines, [count |-> 1, line |-> line])

(* A mutant of Counted that starts a run for each byte.                    *)
CountedApart(line) == Append(lines, [count |-> 1, line |-> line])

(* The table after one more byte of the line.                              *)
Counted(line) ==
  IF lines # << >> /\ Last(lines).line = line
  THEN [lines EXCEPT ![Len(lines)].count = @ + 1]
  ELSE Append(lines, [count |-> 1, line |-> line])

write(byte, line) ==
  /\ Len(code_) < MaxLength
  /\ code_' = Append(code_, byte)
  /\ lines' = Counted(line)

(* patchJump, through code().                                              *)
patch(i, byte) ==
  /\ code_' = [code_ EXCEPT ![i] = byte]
  /\ UNCHANGED lines

Next ==
  \/ \E byte \in Bytes, line \in Lines : write(byte, line)
  \/ \E i \in DOMAIN code_, byte \in Bytes : patch(i, byte)

Spec == Init /\ [][Next]_vars

-----------------------------------------------------------------------------
(* The bytes in the first i runs of a table: count after i rounds of       *)
(* getLine's loop.                                                         *)
Sums(runs) ==
  LET count[i \in 0 .. Len(runs)] ==
        IF i = 0 THEN 0 ELSE count[i - 1] + runs[i].count
  IN  count

Counts == Sums(lines)

(* A mutant of RunAt whose loop stops one round early.                     *)
RunBefore(offset) ==
  CHOOSE i \in DOMAIN lines :
    Counts[i] >= offset /\ \A j \in 1 .. i - 1 : Counts[j] < offset

(* The run in which the loop stops: the first that ends after the offset.  *)
RunAt(offset) ==
  CHOOSE i \in DOMAIN lines :
    Counts[i] > offset /\ \A j \in 1 .. i - 1 : Counts[j] <= offset

(* The result is a uint8_t.                                                *)
getLine(offset) ==
  IF lines = << >> THEN 0
  ELSE IF offset = 0 THEN lines[1].line % 256
       ELSE lines[RunAt(offset)].line % 256

-----------------------------------------------------------------------------
(* The line of each byte, as the runs of a table tell it.                  *)
Unroll(runs) ==
  LET count == Sums(runs)
  IN  [o \in 1 .. count[Len(runs)] |->
         runs[CHOOSE i \in DOMAIN runs : count[i - 1] < o /\ o <= count[i]].line]

Unrolled == Unroll(lines)

(* The run-length table loses nothing: it stands for the line of each byte,*)
(* in the order the bytes were written.                                    *)
PerByte == INSTANCE LineTable WITH code <- code_, lineOf <- Unrolled
ImplementsLineTable == PerByte!Spec

(* The table is as short as it can be, and covers the code exactly: the    *)
(* loop of getLine stops within it for every offset into the code.         *)
RunsTight ==
  /\ Counts[Len(lines)] = Len(code_)
  /\ \A i \in DOMAIN lines : lines[i].count > 0
  /\ \A i \in 1 .. Len(lines) - 1 : lines[i].line # lines[i + 1].line

(* The traceback of a runtime error names the line the byte was written    *)
(* for, taken modulo 256, the result of getLine being a byte: the line     *)
(* itself up to line 255 of a source, and an earlier one from there on.    *)
LinesFound ==
  \A o \in 0 .. Len(code_) - 1 : getLine(o) = Unrolled[o + 1] % 256
=============================================================================
