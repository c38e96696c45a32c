---------------------------- MODULE NanBoxProofs ----------------------------
(***************************************************************************)
(* Proofs about module NanBox, for words of every width.                   *)
(***************************************************************************)
EXTENDS NanBox, TLAPS

(* The parts of a word do not overlap, and none is empty.                  *)
LEMMA Layout ==
  /\ QuietNan # {} /\ P \in QuietNan
  /\ P + Q \notin QuietNan
  /\ 0 \notin QuietNan /\ 1 \notin QuietNan
  /\ P + Q # 0 /\ P + Q # 1 /\ P \notin {0, 1} /\ P # P + Q
BY WidthAssumption DEF QuietNan

(* An address has no bit in common with the mask and the sign.             *)
LEMMA Address ==
  ASSUME NEW p \in Objects
  PROVE  p \cap QuietNan = {} /\ P + Q \notin p
<1>1. p \subseteq 0 .. P - 1
  BY ObjectsAssumption
<1>2. \A i \in 0 .. P - 1 : i \notin QuietNan /\ i # P + Q
  BY WidthAssumption DEF QuietNan
<1> QED BY <1>1, <1>2

(* A double of the program is no boxed value.                              *)
LEMMA NumberTests ==
  ASSUME NEW d \in Doubles
  PROVE  IsNumber(d) /\ ~IsBool(d) /\ ~IsNil(d) /\ ~IsObj(d)
<1>1. PICK i \in QuietNan : i \notin d
  BY DoublesAssumption DEF QuietNan
<1>2. i \in QuietNan \cup SignBit /\ i # 0
  BY <1>1, Layout
<1>3. IsNumber(d)
  BY <1>1 DEF IsNumber
<1>4. i \in TrueVal /\ i \in NilVal /\ i \notin d \cup {0}
  BY <1>1, <1>2 DEF TrueVal, NilVal
<1>5. ~IsBool(d) /\ ~IsNil(d)
  BY <1>1, <1>4 DEF IsBool, IsNil
<1>6. ~IsObj(d)
  BY <1>1, <1>2 DEF IsObj
<1> QED BY <1>3, <1>5, <1>6

LEMMA NilTests == ~IsNumber(NilVal) /\ ~IsBool(NilVal) /\ IsNil(NilVal) /\ ~IsObj(NilVal)
<1>1. NilVal \cap QuietNan = QuietNan
  BY DEF NilVal
<1>2. 1 \notin NilVal \cup {0} /\ 1 \in TrueVal
  BY Layout DEF NilVal, TagNil, TrueVal, TagTrue
<1>3. P + Q \notin NilVal
  BY Layout DEF NilVal, TagNil
<1> QED BY <1>1, <1>2, <1>3 DEF IsNumber, IsBool, IsNil, IsObj, SignBit

LEMMA BoolTests ==
  ASSUME NEW b \in BOOLEAN
  PROVE  /\ ~IsNumber(BoxBool(b)) /\ IsBool(BoxBool(b)) /\ ~IsNil(BoxBool(b))
         /\ ~IsObj(BoxBool(b)) /\ AsBool(BoxBool(b)) = b
<1>1. /\ BoxBool(b) \cap QuietNan = QuietNan /\ BoxBool(b) \cup {0} = TrueVal
      /\ P + Q \notin BoxBool(b) /\ 1 \in BoxBool(b)
  BY Layout DEF BoxBool, TrueVal, FalseVal, TagTrue, TagFalse
<1>2. 1 \notin NilVal
  BY Layout DEF NilVal, TagNil
<1>3. 0 \in TrueVal /\ 0 \notin FalseVal
  BY Layout DEF TrueVal, FalseVal, TagTrue, TagFalse
<1>4. AsBool(BoxBool(b)) = b
  BY <1>3 DEF AsBool, BoxBool
<1> QED BY <1>1, <1>2, <1>4 DEF IsNumber, IsBool, IsNil, IsObj, SignBit

LEMMA ObjTests ==
  ASSUME NEW p \in Objects
  PROVE  /\ ~IsNumber(BoxObj(p)) /\ ~IsBool(BoxObj(p)) /\ ~IsNil(BoxObj(p))
         /\ IsObj(BoxObj(p)) /\ AsObj(BoxObj(p)) = p
<1>1. /\ BoxObj(p) \cap QuietNan = QuietNan /\ P + Q \in BoxObj(p)
      /\ BoxObj(p) \cap (QuietNan \cup SignBit) = QuietNan \cup SignBit
  BY DEF BoxObj, SignBit
<1>2. P + Q \notin NilVal /\ P + Q \notin TrueVal
  BY Layout DEF NilVal, TagNil, TrueVal, TagTrue
<1>3. AsObj(BoxObj(p)) = p
  BY Address DEF AsObj, BoxObj, SignBit
<1> QED BY <1>1, <1>2, <1>3 DEF IsNumber, IsBool, IsNil, IsObj

-----------------------------------------------------------------------------
(* What is stored is what is read back.                                    *)

LEMMA UnboxedNumber ==
  ASSUME NEW d \in Doubles
  PROVE  Unboxed(BoxNumber(d)) = [type |-> "NUMBER", val |-> d]
<1>1. GetType(BoxNumber(d)) = "NUMBER" /\ AsNumber(BoxNumber(d)) = d
  BY NumberTests DEF GetType, BoxNumber, AsNumber
<1> QED BY <1>1 DEF Unboxed

LEMMA UnboxedBool ==
  ASSUME NEW b \in BOOLEAN
  PROVE  Unboxed(BoxBool(b)) = [type |-> "BOOL", val |-> b]
<1>1. GetType(BoxBool(b)) = "BOOL" /\ AsBool(BoxBool(b)) = b
  BY BoolTests DEF GetType
<1> QED BY <1>1 DEF Unboxed

LEMMA UnboxedObj ==
  ASSUME NEW p \in Objects
  PROVE  Unboxed(BoxObj(p)) = [type |-> "OBJ", val |-> p]
<1>1. GetType(BoxObj(p)) = "OBJ" /\ AsObj(BoxObj(p)) = p
  BY ObjTests DEF GetType
<1> QED BY <1>1 DEF Unboxed

LEMMA UnboxedNil == Unboxed(NilVal) = [type |-> "NIL"]
<1>1. GetType(NilVal) = "NIL"
  BY NilTests DEF GetType
<1> QED BY <1>1 DEF Unboxed

-----------------------------------------------------------------------------
(* The word always holds one of the values that were boxed.                *)
Boxed == \/ _value = NilVal
         \/ \E d \in Doubles : _value = BoxNumber(d)
         \/ \E b \in BOOLEAN : _value = BoxBool(b)
         \/ \E p \in Objects : _value = BoxObj(p)

LEMMA BoxedOneType == Boxed => OneType
<1>1. CASE _value = NilVal
  BY <1>1, NilTests DEF OneType, GetType
<1>2. CASE \E d \in Doubles : _value = BoxNumber(d)
  BY <1>2, NumberTests DEF OneType, GetType, BoxNumber
<1>3. CASE \E b \in BOOLEAN : _value = BoxBool(b)
  BY <1>3, BoolTests DEF OneType, GetType
<1>4. CASE \E p \in Objects : _value = BoxObj(p)
  BY <1>4, ObjTests DEF OneType, GetType
<1> QED BY <1>1, <1>2, <1>3, <1>4 DEF Boxed

(* A stored value is of exactly one type, the one getType answers, in a    *)
(* word of any width and for any address that fits the payload.            *)
THEOREM TypesDisjoint == Spec => []OneType
<1>1. Init => Boxed
  BY DEF Init, Boxed
<1>2. Boxed /\ [Next]_<<_value>> => Boxed'
  BY DEF Boxed, Next, SetNumber, SetBool, SetObj
<1>3. Boxed => OneType
  BY BoxedOneType
<1> QED BY <1>1, <1>2, <1>3, PTL DEF Spec

(* The boxed word implements the variant: no bit pattern of a number, a    *)
(* Boolean, nil or an object is ever read back as another.                 *)
THEOREM BoxingIsFaithful == Spec => ImplementsVariant
<1>1. Init => AsVariant!Init
  BY UnboxedNil DEF Init, AsVariant!Init, AsVariant!Nil
<1>2. [Next]_<<_value>> => [AsVariant!Next]_(Unboxed(_value))
  <2>1. ASSUME NEW d \in Doubles, SetNumber(d)
        PROVE  AsVariant!Next
    BY <2>1, UnboxedNumber DEF SetNumber, AsVariant!Next, AsVariant!SetNumber
  <2>2. ASSUME NEW b \in BOOLEAN, SetBool(b)
        PROVE  AsVariant!Next
    BY <2>2, UnboxedBool DEF SetBool, AsVariant!Next, AsVariant!SetBool
  <2>3. ASSUME NEW p \in Objects, SetObj(p)
        PROVE  AsVariant!Next
    BY <2>3, UnboxedObj DEF SetObj, AsVariant!Next, AsVariant!SetObj
  <2>4. UNCHANGED <<_value>> => UNCHANGED Unboxed(_value)
    BY DEF Unboxed, GetType, IsNumber, IsBool, IsObj, AsNumber, AsBool, AsObj
  <2> QED BY <2>1, <2>2, <2>3, <2>4 DEF Next
<1> QED BY <1>1, <1>2, PTL DEF Spec, ImplementsVariant, AsVariant!Spec
=============================================================================
