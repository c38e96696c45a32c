------------------------------ MODULE LineTable ------------------------------
(***************************************************************************)
(* What a chunk promises about lines: each byte of the code keeps the line *)
(* it was written for.                                                     *)
(***************************************************************************)
EXTENDS Sequences

CONSTANTS Bytes, Lines

VARIABLES
  code,  \* the bytes
  lineOf \* the line of each of them

Init == code = << >> /\ lineOf = << >>

Write(byte, line) ==
  /\ code' = Append(code, byte)
  /\ lineOf' = Append(lineOf, line)

(* A jump operand is patched in place.                                     *)
Patch(i, byte) ==
  /\ code' = [code EXCEPT ![i] = byte]
  /\ UNCHANGED lineOf

Next ==
  \/ \E byte \in Bytes, line \in Lines : Write(byte, line)
  \/ \E i \in DOMAIN code, byte \in Bytes : Patch(i, byte)

Spec == Init /\ [][Next]_<<code, lineOf>>
=============================================================================
