------------------------------- MODULE Variant -------------------------------
(***************************************************************************)
(* What a Lox value is to the rest of the program: the variant that        *)
(* include/value.hpp once declared, a number, a Boolean, nil or an object. *)
(***************************************************************************)

CONSTANTS
  Doubles, \* the numbers a program computes with
  Objects  \* the addresses of its heap objects

VARIABLE value

Values == [type : {"NUMBER"}, val : Doubles]
          \cup [type : {"BOOL"}, val : BOOLEAN]
          \cup [type : {"OBJ"}, val : Objects]

Nil == [type |-> "NIL"]

(* Value{} is nil.                                                         *)
Init == value = Nil

SetNumber(d) == value' = [type |-> "NUMBER", val |-> d]
SetBool(b) == value' = [type |-> "BOOL", val |-> b]
SetObj(p) == value' = [type |-> "OBJ", val |-> p]

Next ==
  \/ \E d \in Doubles : SetNumber(d)
  \/ \E b \in BOOLEAN : SetBool(b)
  \/ \E p \in Objects : SetObj(p)

Spec == Init /\ [][Next]_value
=============================================================================
