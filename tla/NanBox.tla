------------------------------- MODULE NanBox -------------------------------
(***************************************************************************)
(* The NaN boxing of include/value.hpp: a number, a Boolean, nil or an     *)
(* object in one machine word.                                             *)
(*                                                                         *)
(* A word is the set of the positions of its 1 bits, so that & is \cap,    *)
(* | is \cup and == is =.  The word has P payload bits, Q bits that are    *)
(* all ones in a boxed value (the exponent and the two topmost bits of the *)
(* mantissa), and the sign: P = 50, Q = 13 in the code.                    *)
(***************************************************************************)
EXTENDS Integers

CONSTANTS
  P, Q,
  Doubles, \* the bit patterns of the doubles a program computes with
  Objects  \* the addresses of heap objects

Bits == 0 .. P + Q
Word == SUBSET Bits

(* The tags need two payload bits.                                         *)
ASSUME WidthAssumption == P \in Nat /\ Q \in Nat /\ P >= 2 /\ Q >= 1

(* The arithmetic of the processor makes no NaN but the default one, whose *)
(* mantissa has only its topmost bit set.                                  *)
ASSUME DoublesAssumption ==
  /\ Doubles \subseteq Word
  /\ \A d \in Doubles : ~(P .. P + Q - 1 \subseteq d)

(* Addresses fit the payload.                                              *)
ASSUME ObjectsAssumption == \A p \in Objects : p \subseteq 0 .. P - 1

VARIABLE _value

-----------------------------------------------------------------------------
(* A mutant of QuietNan that is one bit short.                             *)
QuietNanOnly == P + 1 .. P + Q - 1
QuietNan == P .. P + Q - 1
SignBit == {P + Q}

TagNil == {0}
TagFalse == {1}
TagTrue == {0, 1}

NilVal == QuietNan \cup TagNil
TrueVal == QuietNan \cup TagTrue
FalseVal == QuietNan \cup TagFalse

BoxNumber(d) == d
BoxBool(b) == IF b THEN TrueVal ELSE FalseVal

(* A mutant of BoxObj that forgets the sign bit.                           *)
BoxObjUnsigned(p) == QuietNan \cup p
BoxObj(p) == SignBit \cup QuietNan \cup p

IsNumber(w) == w \cap QuietNan # QuietNan
IsBool(w) == w \cup {0} = TrueVal
IsNil(w) == w = NilVal
IsObj(w) == w \cap (QuietNan \cup SignBit) = QuietNan \cup SignBit

AsNumber(w) == w
AsBool(w) == w = TrueVal
AsObj(w) == w \ (SignBit \cup QuietNan)

(* Whatever is nothing else is NIL.                                        *)
GetType(w) ==
  IF IsNumber(w) THEN "NUMBER"
  ELSE IF IsBool(w) THEN "BOOL"
  ELSE IF IsObj(w) THEN "OBJ" ELSE "NIL"

-----------------------------------------------------------------------------
Init == _value = NilVal

SetNumber(d) == _value' = BoxNumber(d)
SetBool(b) == _value' = BoxBool(b)
SetObj(p) == _value' = BoxObj(p)

Next ==
  \/ \E d \in Doubles : SetNumber(d)
  \/ \E b \in BOOLEAN : SetBool(b)
  \/ \E p \in Objects : SetObj(p)

Spec == Init /\ [][Next]_<<_value>>

-----------------------------------------------------------------------------
(* Exactly one of the four tests holds of a stored value, and getType      *)
(* agrees with it, isNil included, which it never asks.                    *)
OneType ==
  /\ IsNumber(_value) <=> GetType(_value) = "NUMBER"
  /\ IsBool(_value) <=> GetType(_value) = "BOOL"
  /\ IsObj(_value) <=> GetType(_value) = "OBJ"
  /\ IsNil(_value) <=> GetType(_value) = "NIL"

(* What the program reads back from a word.                                *)
Unboxed(w) ==
  CASE GetType(w) = "NUMBER" -> [type |-> "NUMBER", val |-> AsNumber(w)]
    [] GetType(w) = "BOOL" -> [type |-> "BOOL", val |-> AsBool(w)]
    [] GetType(w) = "OBJ" -> [type |-> "OBJ", val |-> AsObj(w)]
    [] GetType(w) = "NIL" -> [type |-> "NIL"]

(* A boxed value is read back as the variant that was stored.              *)
AsVariant == INSTANCE Variant WITH value <- Unboxed(_value)
ImplementsVariant == AsVariant!Spec
=============================================================================
