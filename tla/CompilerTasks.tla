---------------------------- MODULE CompilerTasks ---------------------------
(***************************************************************************)
(* Proofs about the tasks of module Compiler: in a situation that the      *)
(* invariant of module CompilerInvariant describes, each of the tasks that *)
(* are waiting does to the functions being compiled what the plan counted  *)
(* on.  Every procedure of compiler.cpp has its lemma, here or at the      *)
(* start of CompilerProofs: the code that it leaves flows at the heights   *)
(* the compiler counted, its holes are the ones still to be patched, and   *)
(* the locals it resolved are there.                                       *)
(***************************************************************************)
EXTENDS CompilerInvariant, Induction, SequenceTheorems

-----------------------------------------------------------------------------
(* Sequences of anything.                                                  *)

LEMMA SequenceIntro ==
  ASSUME NEW S, NEW s \in Seq(S)
  PROVE  IsSequence(s)
<1> DEFINE T == {s[i] : i \in 1 .. Len(s)}
<1>1. Len(s) \in Nat /\ s \in [1 .. Len(s) -> S]
  BY LenProperties
<1>2. s \in [1 .. Len(s) -> T]
  BY <1>1
<1> QED BY <1>1, <1>2, SMTT(30) DEF IsSequence

LEMMA SequenceFacts ==
  ASSUME NEW s, IsSequence(s)
  PROVE  /\ Len(s) \in Nat /\ DOMAIN s = 1 .. Len(s)
         /\ s = [i \in 1 .. Len(s) |-> s[i]]
         /\ s # << >> <=> Len(s) >= 1
<1> DEFINE T == {s[i] : i \in 1 .. Len(s)}
<1>1. s \in Seq(T)
  BY DEF IsSequence
<1> HIDE DEF T
<1> QED BY <1>1, LenProperties, EmptySeq

LEMMA SequenceOfRange ==
  ASSUME NEW n \in Nat, NEW s, s = [i \in 1 .. n |-> s[i]]
  PROVE  IsSequence(s) /\ Len(s) = n
<1> DEFINE T == {s[i] : i \in 1 .. n}
<1>1. s \in [1 .. n -> T]
  OBVIOUS
<1>2. s \in Seq(T)
  BY <1>1
<1> HIDE DEF T
<1>3. Len(s) = n
  BY <1>1, <1>2, LenProperties
<1> QED BY <1>2, <1>3, SequenceIntro

(* Sequences are equal when they have the same elements.                   *)
LEMMA SequencesEqual ==
  ASSUME NEW s, NEW t, IsSequence(s), IsSequence(t), Len(s) = Len(t),
         \A i \in 1 .. Len(s) : s[i] = t[i]
  PROVE  s = t
BY SequenceFacts

LEMMA SequenceConcat ==
  ASSUME NEW s, NEW t, IsSequence(s), IsSequence(t)
  PROVE  /\ IsSequence(s \o t) /\ Len(s \o t) = Len(s) + Len(t)
         /\ \A i \in 1 .. Len(s) : (s \o t)[i] = s[i]
         /\ \A i \in 1 .. Len(t) : (s \o t)[Len(s) + i] = t[i]
<1> DEFINE S == {s[i] : i \in 1 .. Len(s)}
           T == {t[i] : i \in 1 .. Len(t)}
           U == S \cup T
<1>1. s \in Seq(S) /\ t \in Seq(T)
  BY DEF IsSequence
<1>2. S \subseteq U /\ T \subseteq U
  OBVIOUS
<1> HIDE DEF S, T, U
<1>3. s \in Seq(U) /\ t \in Seq(U)
  BY <1>1, <1>2, SeqMonotonic
<1>4. Len(s) \in Nat /\ Len(t) \in Nat
  BY <1>3, LenProperties
<1>5. /\ s \o t \in Seq(U) /\ Len(s \o t) = Len(s) + Len(t)
      /\ \A i \in 1 .. Len(s) + Len(t) : (s \o t)[i] = IF i <= Len(s) THEN s[i] ELSE t[i - Len(s)]
  BY <1>3, ConcatProperties
<1>6. \A i \in 1 .. Len(t) : (s \o t)[Len(s) + i] = t[i]
  <2> SUFFICES ASSUME NEW i \in 1 .. Len(t)
               PROVE  (s \o t)[Len(s) + i] = t[i]
    OBVIOUS
  <2>1. Len(s) + i \in 1 .. Len(s) + Len(t) /\ ~(Len(s) + i <= Len(s)) /\ Len(s) + i - Len(s) = i
    BY <1>4
  <2> QED BY <1>5, <2>1
<1>7. \A i \in 1 .. Len(s) : (s \o t)[i] = s[i]
  BY <1>4, <1>5
<1> QED BY <1>5, <1>6, <1>7, SequenceIntro

LEMMA SequenceAppend ==
  ASSUME NEW s, NEW x, IsSequence(s)
  PROVE  /\ IsSequence(Append(s, x)) /\ Len(Append(s, x)) = Len(s) + 1
         /\ Append(s, x) # << >>
         /\ \A i \in 1 .. Len(s) : Append(s, x)[i] = s[i]
         /\ Append(s, x)[Len(s) + 1] = x
<1> DEFINE S == {s[i] : i \in 1 .. Len(s)} \cup {x}
<1>1. s \in Seq(S)
  <2> DEFINE T == {s[i] : i \in 1 .. Len(s)}
  <2>1. s \in Seq(T) /\ T \subseteq S
    BY DEF IsSequence
  <2> HIDE DEF T, S
  <2> QED BY <2>1, SeqMonotonic
<1>2. x \in S
  OBVIOUS
<1> HIDE DEF S
<1>3. /\ Append(s, x) \in Seq(S) /\ Len(Append(s, x)) = Len(s) + 1
      /\ \A i \in 1 .. Len(s) : Append(s, x)[i] = s[i]
      /\ Append(s, x)[Len(s) + 1] = x
  BY <1>1, <1>2, AppendProperties, LenProperties
<1>4. Len(s) \in Nat /\ IsSequence(Append(s, x))
  BY <1>1, <1>3, SequenceIntro, LenProperties
<1>5. Append(s, x) # << >>
  BY <1>3, <1>4, SequenceFacts
<1> QED BY <1>3, <1>4, <1>5

LEMMA SequenceFront ==
  ASSUME NEW s, IsSequence(s), s # << >>
  PROVE  /\ IsSequence(Front(s)) /\ Len(Front(s)) = Len(s) - 1
         /\ \A i \in 1 .. Len(s) - 1 : Front(s)[i] = s[i]
         /\ s = Append(Front(s), Last(s))
<1>1. Len(s) \in Nat /\ Len(s) >= 1 /\ DOMAIN s = 1 .. Len(s)
  BY SequenceFacts
<1> DEFINE T == {s[i] : i \in 1 .. Len(s)}
<1>2. \A i \in 1 .. Len(s) - 1 : s[i] \in T
  BY <1>1
<1> HIDE DEF T
<1>3. /\ Front(s) \in Seq(T) /\ Len(Front(s)) = Len(s) - 1
      /\ \A i \in 1 .. Len(s) - 1 : Front(s)[i] = s[i]
  <2>1. /\ SubSeq(s, 1, Len(s) - 1) \in Seq(T)
        /\ Len(SubSeq(s, 1, Len(s) - 1)) = IF 1 <= Len(s) - 1 THEN Len(s) - 1 - 1 + 1 ELSE 0
        /\ \A i \in 1 .. Len(s) - 1 - 1 + 1 : SubSeq(s, 1, Len(s) - 1)[i] = s[1 + i - 1]
    BY <1>1, <1>2, SubSeqProperties
  <2> QED BY <1>1, <2>1 DEF Front
<1>4. IsSequence(Front(s))
  BY <1>3, SequenceIntro
<1>5. s = Append(Front(s), Last(s))
  <2>1. /\ IsSequence(Append(Front(s), Last(s)))
        /\ Len(Append(Front(s), Last(s))) = Len(s)
        /\ \A i \in 1 .. Len(s) - 1 : Append(Front(s), Last(s))[i] = s[i]
        /\ Append(Front(s), Last(s))[Len(s)] = s[Len(s)]
    <3>1. Len(Front(s)) + 1 = Len(s)
      BY <1>1, <1>3
    <3>2. /\ IsSequence(Append(Front(s), Last(s)))
          /\ Len(Append(Front(s), Last(s))) = Len(Front(s)) + 1
          /\ \A i \in 1 .. Len(Front(s)) : Append(Front(s), Last(s))[i] = Front(s)[i]
          /\ Append(Front(s), Last(s))[Len(Front(s)) + 1] = Last(s)
      BY <1>4, SequenceAppend
    <3> QED BY <1>3, <3>1, <3>2 DEF Last
  <2>2. \A i \in 1 .. Len(s) : Append(Front(s), Last(s))[i] = s[i]
    BY <1>1, <2>1
  <2> QED BY <2>1, <2>2, SequencesEqual
<1> QED BY <1>3, <1>4, <1>5

LEMMA AppendEnds ==
  ASSUME NEW s, NEW x, IsSequence(s)
  PROVE  Front(Append(s, x)) = s /\ Last(Append(s, x)) = x
<1>1. Len(s) \in Nat
  BY SequenceFacts
<1>2. Last(Append(s, x)) = x
  BY SequenceAppend DEF Last
<1> DEFINE t == Append(s, x)
<1>3. /\ IsSequence(t) /\ t # << >> /\ Len(t) - 1 = Len(s)
      /\ \A i \in 1 .. Len(s) : t[i] = s[i]
  BY <1>1, SequenceAppend
<1> HIDE DEF t
<1>4. /\ IsSequence(Front(t)) /\ Len(Front(t)) = Len(s)
      /\ \A i \in 1 .. Len(s) : Front(t)[i] = s[i]
  BY <1>3, SequenceFront
<1> QED BY <1>2, <1>4, SequencesEqual DEF t

LEMMA SequenceExcept ==
  ASSUME NEW s, NEW k, NEW x, IsSequence(s)
  PROVE  /\ IsSequence([s EXCEPT ![k] = x]) /\ Len([s EXCEPT ![k] = x]) = Len(s)
         /\ \A i \in 1 .. Len(s) : [s EXCEPT ![k] = x][i] = IF i = k THEN x ELSE s[i]
<1> DEFINE t == [s EXCEPT ![k] = x]
<1>1. Len(s) \in Nat /\ DOMAIN s = 1 .. Len(s)
  BY SequenceFacts
<1>2. t = [i \in 1 .. Len(s) |-> t[i]] /\ \A i \in 1 .. Len(s) : t[i] = IF i = k THEN x ELSE s[i]
  BY <1>1
<1> HIDE DEF t
<1>3. IsSequence(t) /\ Len(t) = Len(s)
  BY <1>1, <1>2, SequenceOfRange
<1> QED BY <1>2, <1>3 DEF t

LEMMA ShortSequences ==
  /\ IsSequence(<< >>) /\ Len(<< >>) = 0
  /\ \A x : IsSequence(<<x>>) /\ Len(<<x>>) = 1 /\ <<x>>[1] = x
  /\ \A x, y : IsSequence(<<x, y>>) /\ Len(<<x, y>>) = 2 /\ <<x, y>>[1] = x /\ <<x, y>>[2] = y
  /\ \A x, y, z : IsSequence(<<x, y, z>>) /\ Len(<<x, y, z>>) = 3
                  /\ <<x, y, z>>[1] = x /\ <<x, y, z>>[2] = y /\ <<x, y, z>>[3] = z
<1>1. << >> \in Seq({})
  OBVIOUS
<1>2. \A x : <<x>> \in Seq({x})
  OBVIOUS
<1>3. \A x, y : <<x, y>> \in Seq({x, y})
  OBVIOUS
<1>4. \A x, y, z : <<x, y, z>> \in Seq({x, y, z})
  OBVIOUS
<1>5. /\ IsSequence(<< >>) /\ \A x : IsSequence(<<x>>)
      /\ \A x, y : IsSequence(<<x, y>>) /\ \A z : IsSequence(<<x, y, z>>)
  BY <1>1, <1>2, <1>3, <1>4, SequenceIntro
<1>6. /\ Len(<< >>) = 0
      /\ \A x : Len(<<x>>) = 1 /\ <<x>>[1] = x
      /\ \A x, y : Len(<<x, y>>) = 2 /\ <<x, y>>[1] = x /\ <<x, y>>[2] = y
      /\ \A x, y, z : Len(<<x, y, z>>) = 3
                      /\ <<x, y, z>>[1] = x /\ <<x, y, z>>[2] = y /\ <<x, y, z>>[3] = z
  OBVIOUS
<1> QED BY <1>5, <1>6

(* Then puts the last of its tasks lowest.                                 *)
LEMMA ReversedTasks ==
  /\ \A x : Reverse(<<x>>) = <<x>>
  /\ \A x, y : Reverse(<<x, y>>) = <<y, x>>
  /\ \A x, y, z : Reverse(<<x, y, z>>) = <<z, y, x>>
  /\ \A x, y, z, u : Reverse(<<x, y, z, u>>) = <<u, z, y, x>>
  /\ \A x, y, z, u, v : Reverse(<<x, y, z, u, v>>) = <<v, u, z, y, x>>
  /\ \A x, y, z, u, v, w : Reverse(<<x, y, z, u, v, w>>) = <<w, v, u, z, y, x>>
BY DEF Reverse

LEMMA ConcatAppend ==
  ASSUME NEW s, NEW t, NEW x, IsSequence(s), IsSequence(t)
  PROVE  s \o Append(t, x) = Append(s \o t, x)
<1> DEFINE a == s \o Append(t, x)
           b == Append(s \o t, x)
<1>1. Len(s) \in Nat /\ Len(t) \in Nat
  BY SequenceFacts
<1>2. /\ IsSequence(a) /\ Len(a) = Len(s) + Len(t) + 1
      /\ \A i \in 1 .. Len(s) : a[i] = s[i]
      /\ \A i \in 1 .. Len(t) + 1 : a[Len(s) + i] = Append(t, x)[i]
  BY <1>1, SequenceConcat, SequenceAppend
<1>3. /\ IsSequence(b) /\ Len(b) = Len(s) + Len(t) + 1
      /\ \A i \in 1 .. Len(s) + Len(t) : b[i] = (s \o t)[i]
      /\ b[Len(s) + Len(t) + 1] = x
  BY <1>1, SequenceConcat, SequenceAppend
<1>4. /\ \A i \in 1 .. Len(t) : Append(t, x)[i] = t[i]
      /\ Append(t, x)[Len(t) + 1] = x
  BY SequenceAppend
<1>5. /\ \A i \in 1 .. Len(s) : (s \o t)[i] = s[i]
      /\ \A i \in 1 .. Len(t) : (s \o t)[Len(s) + i] = t[i]
  BY SequenceConcat
<1>6. \A i \in 1 .. Len(a) : a[i] = b[i]
  <2> SUFFICES ASSUME NEW i \in 1 .. Len(s) + Len(t) + 1
               PROVE  a[i] = b[i]
    BY <1>2
  <2>1. CASE i <= Len(s)
    <3>1. i \in 1 .. Len(s) /\ i \in 1 .. Len(s) + Len(t)
      BY <1>1, <2>1
    <3> HIDE DEF a, b
    <3> QED BY <1>2, <1>3, <1>5, <3>1
  <2>2. CASE i > Len(s)
    <3>1. PICK j \in 1 .. Len(t) + 1 : i = Len(s) + j
      <4>1. i - Len(s) \in 1 .. Len(t) + 1 /\ i = Len(s) + (i - Len(s))
        BY <1>1, <2>2
      <4> QED BY <4>1
    <3>2. a[i] = Append(t, x)[j]
      BY <1>2, <3>1
    <3> HIDE DEF a, b
    <3>3. CASE j = Len(t) + 1
      <4>1. i = Len(s) + Len(t) + 1
        BY <1>1, <3>1, <3>3
      <4> QED BY <1>3, <1>4, <3>2, <3>3, <4>1
    <3>4. CASE j # Len(t) + 1
      <4>1. j \in 1 .. Len(t) /\ i \in 1 .. Len(s) + Len(t)
        BY <1>1, <3>1, <3>4
      <4> QED BY <1>3, <1>4, <1>5, <3>1, <3>2, <4>1
    <3> QED BY <1>1, <3>3, <3>4
  <2> QED BY <1>1, <2>1, <2>2
<1> HIDE DEF a, b
<1>7. a = b
  BY <1>2, <1>3, <1>6, SequencesEqual
<1> QED BY <1>7 DEF a, b

LEMMA PushedTasks ==
  ASSUME NEW s, IsSequence(s)
  PROVE  /\ \A x : s \o <<x>> = Append(s, x)
         /\ \A x, y : s \o <<y, x>> = Append(Append(s, y), x)
         /\ \A x, y, z : s \o <<z, y, x>> = Append(Append(Append(s, z), y), x)
         /\ \A x, y, z, u : s \o <<u, z, y, x>>
                              = Append(Append(Append(Append(s, u), z), y), x)
         /\ \A x, y, z, u, v : s \o <<v, u, z, y, x>>
                                 = Append(Append(Append(Append(Append(s, v), u), z), y), x)
         /\ \A x, y, z, u, v, w : s \o <<w, v, u, z, y, x>>
              = Append(Append(Append(Append(Append(Append(s, w), v), u), z), y), x)
<1>1. s \o << >> = s
  <2> DEFINE S == {s[i] : i \in 1 .. Len(s)}
  <2>1. s \in Seq(S)
    BY DEF IsSequence
  <2> HIDE DEF S
  <2> QED BY <2>1, ConcatEmptySeq
<1>3. IsSequence(<< >>)
  BY ShortSequences
<1>4. \A t, x : IsSequence(t) => s \o Append(t, x) = Append(s \o t, x) /\ IsSequence(Append(t, x))
  <2> TAKE t, x
  <2> HAVE IsSequence(t)
  <2> QED BY ConcatAppend, SequenceAppend
<1>5. \A x : IsSequence(<<x>>)
        /\ s \o <<x>> = Append(s, x)
  <2> TAKE x
  <2> DEFINE p == << >>
             q == s
             r == <<x>>
  <2>1. r = Append(p, x)
    OBVIOUS
  <2>2. IsSequence(p) /\ s \o p = q
    BY <1>1, <1>3
  <2> HIDE DEF p, q, r
  <2>3. s \o Append(p, x) = Append(s \o p, x) /\ IsSequence(Append(p, x))
    BY <1>4, <2>2
  <2>4. IsSequence(r) /\ s \o r = Append(q, x)
    BY <2>1, <2>2, <2>3, Zenon
  <2> QED BY <2>4 DEF p, q, r
<1>6. \A x, y : IsSequence(<<y, x>>)
        /\ s \o <<y, x>> = Append(Append(s, y), x)
  <2> TAKE x, y
  <2> DEFINE p == <<y>>
             q == Append(s, y)
             r == <<y, x>>
  <2>1. r = Append(p, x)
    OBVIOUS
  <2>2. IsSequence(p) /\ s \o p = q
    BY <1>5
  <2> HIDE DEF p, q, r
  <2>3. s \o Append(p, x) = Append(s \o p, x) /\ IsSequence(Append(p, x))
    BY <1>4, <2>2
  <2>4. IsSequence(r) /\ s \o r = Append(q, x)
    BY <2>1, <2>2, <2>3, Zenon
  <2> QED BY <2>4 DEF p, q, r
<1>7. \A x, y, z : IsSequence(<<z, y, x>>)
        /\ s \o <<z, y, x>> = Append(Append(Append(s, z), y), x)
  <2> TAKE x, y, z
  <2> DEFINE p == <<z, y>>
             q == Append(Append(s, z), y)
             r == <<z, y, x>>
  <2>1. r = Append(p, x)
    OBVIOUS
  <2>2. IsSequence(p) /\ s \o p = q
    BY <1>6
  <2> HIDE DEF p, q, r
  <2>3. s \o Append(p, x) = Append(s \o p, x) /\ IsSequence(Append(p, x))
    BY <1>4, <2>2
  <2>4. IsSequence(r) /\ s \o r = Append(q, x)
    BY <2>1, <2>2, <2>3, Zenon
  <2> QED BY <2>4 DEF p, q, r
<1>8. \A x, y, z, u : IsSequence(<<u, z, y, x>>)
        /\ s \o <<u, z, y, x>> = Append(Append(Append(Append(s, u), z), y), x)
  <2> TAKE x, y, z, u
  <2> DEFINE p == <<u, z, y>>
             q == Append(Append(Append(s, u), z), y)
             r == <<u, z, y, x>>
  <2>1. r = Append(p, x)
    OBVIOUS
  <2>2. IsSequence(p) /\ s \o p = q
    BY <1>7
  <2> HIDE DEF p, q, r
  <2>3. s \o Append(p, x) = Append(s \o p, x) /\ IsSequence(Append(p, x))
    BY <1>4, <2>2
  <2>4. IsSequence(r) /\ s \o r = Append(q, x)
    BY <2>1, <2>2, <2>3, Zenon
  <2> QED BY <2>4 DEF p, q, r
<1>9. \A x, y, z, u, v : IsSequence(<<v, u, z, y, x>>)
        /\ s \o <<v, u, z, y, x>> = Append(Append(Append(Append(Append(s, v), u), z), y), x)
  <2> TAKE x, y, z, u, v
  <2> DEFINE p == <<v, u, z, y>>
             q == Append(Append(Append(Append(s, v), u), z), y)
             r == <<v, u, z, y, x>>
  <2>1. r = Append(p, x)
    OBVIOUS
  <2>2. IsSequence(p) /\ s \o p = q
    BY <1>8
  <2> HIDE DEF p, q, r
  <2>3. s \o Append(p, x) = Append(s \o p, x) /\ IsSequence(Append(p, x))
    BY <1>4, <2>2
  <2>4. IsSequence(r) /\ s \o r = Append(q, x)
    BY <2>1, <2>2, <2>3, Zenon
  <2> QED BY <2>4 DEF p, q, r
<1>10. \A x, y, z, u, v, w : IsSequence(<<w, v, u, z, y, x>>)
        /\ s \o <<w, v, u, z, y, x>> = Append(Append(Append(Append(Append(Append(s, w), v), u), z), y), x)
  <2> TAKE x, y, z, u, v, w
  <2> DEFINE p == <<w, v, u, z, y>>
             q == Append(Append(Append(Append(Append(s, w), v), u), z), y)
             r == <<w, v, u, z, y, x>>
  <2>1. r = Append(p, x)
    OBVIOUS
  <2>2. IsSequence(p) /\ s \o p = q
    BY <1>9
  <2> HIDE DEF p, q, r
  <2>3. s \o Append(p, x) = Append(s \o p, x) /\ IsSequence(Append(p, x))
    BY <1>4, <2>2
  <2>4. IsSequence(r) /\ s \o r = Append(q, x)
    BY <2>1, <2>2, <2>3, Zenon
  <2> QED BY <2>4 DEF p, q, r
<1> QED BY <1>5, <1>6, <1>7, <1>8, <1>9, <1>10, Zenon

LEMMA SixPushed ==
  ASSUME NEW s, NEW x, NEW y, NEW z, NEW u, NEW v, NEW w, IsSequence(s)
  PROVE  s \o <<w, v, u, z, y, x>>
           = Append(Append(Append(Append(Append(Append(s, w), v), u), z), y), x)
<1>1. \A a, b, g, d, e, f : s \o <<f, e, d, g, b, a>>
                              = Append(Append(Append(Append(Append(Append(s, f), e), d), g), b), a)
  BY PushedTasks, SMTT(30)
<1> QED BY <1>1

-----------------------------------------------------------------------------
(* Instructions.                                                           *)

USE DEF Byte, OP_CONSTANT, OP_NIL, OP_TRUE, OP_FALSE, OP_POP, OP_GET_GLOBAL,
        OP_SET_GLOBAL, OP_GET_LOCAL, OP_SET_LOCAL, OP_GET_UPVALUE,
        OP_SET_UPVALUE, OP_DEFINE_GLOBAL, OP_EQUAL, OP_GREATER, OP_LESS,
        OP_ADD, OP_SUBTRACT, OP_MULTIPLY, OP_DIVIDE, OP_NOT, OP_NEGATE,
        OP_PRINT, OP_JUMP, OP_JUMP_IF_FALSE, OP_LOOP, OP_CALL, OP_CLOSURE,
        OP_RETURN, LiteralOps, BinaryOps, ArithmeticOps, NameOps, ByteOps, JumpOps

(* F2 has what F has, and maybe more; so have the maps, where the number   *)
(* of locals at the end of the code may be greater.                        *)
Extends(fns, F, H, L, fns2, F2, H2, L2) ==
  /\ Len(F.code) \in Nat /\ Len(F2.code) \in Nat /\ Len(F.code) <= Len(F2.code)
  /\ \A n \in DOMAIN H : H[n] \in Nat \ {0}
  /\ L \in [DOMAIN H -> Nat] /\ L2 \in [DOMAIN H2 -> Nat]
  /\ DOMAIN H \subseteq 0 .. Len(F.code)
  /\ \A n \in DOMAIN H : /\ n \in DOMAIN H2 /\ H2[n] = H[n] /\ L2[n] >= L[n]
                         /\ n # Len(F.code) => L2[n] = L[n]
  /\ \A i \in DOMAIN F.constants : i \in DOMAIN F2.constants /\ F2.constants[i] = F.constants[i]
  /\ F2.upvalueCount \in Nat /\ F.upvalueCount \in Nat /\ F.upvalueCount <= F2.upvalueCount
  /\ FunctionsKnown(fns, F)
  /\ \A f \in DOMAIN fns : f \in DOMAIN fns2 /\ fns2[f] = fns[f]

(* The bytes of the instruction at o stay.                                 *)
SameBytes(fns, F, F2, o) ==
  \A i \in 1 .. InstructionLength(fns, F, o) : F2.code[o + i] = F.code[o + i]

LEMMA Below ==
  ASSUME NEW n \in Nat, NEW k \in 0 .. n, k # n
  PROVE  k \in Nat /\ k < n
OBVIOUS

LEMMA FinishesKept ==
  ASSUME NEW fns, NEW F, NEW H, NEW L, NEW fns2, NEW F2, NEW H2, NEW L2, NEW o,
         Extends(fns, F, H, L, fns2, F2, H2, L2), o \in Starts(F, H),
         SameBytes(fns, F, F2, o), Finishes(fns, F, H, L, o)
  PROVE  /\ Finishes(fns2, F2, H2, L2, o)
         /\ InstructionLength(fns2, F2, o) = InstructionLength(fns, F, o)
<1> DEFINE op == OpAt(F, o)
           a == Operand(F, o)
           len == InstructionLength(fns, F, o)
           m == fns[ConstantAt(F, o).val].upvalueCount
<1>1. o \in Nat /\ o \in DOMAIN H /\ o < Len(F.code) /\ L2[o] = L[o] /\ H2[o] = H[o] /\ o \in DOMAIN H2
  <2>1. o \in DOMAIN H /\ o # Len(F.code)
    BY DEF Starts
  <2>2. /\ Len(F.code) \in Nat /\ o \in 0 .. Len(F.code)
        /\ o \in DOMAIN H2 /\ H2[o] = H[o] /\ L2[o] = L[o]
    BY <2>1 DEF Extends
  <2> QED BY <2>1, <2>2, Below
<1>2. op = OP_CLOSURE => /\ a + 1 \in DOMAIN F.constants
                         /\ F.constants[a + 1].type = "FUNCTION"
                         /\ ConstantAt(F, o) = F.constants[a + 1]
                         /\ ConstantAt(F, o).val \in DOMAIN fns
                         /\ m \in Nat /\ len = 2 + 2 * m
  BY DEF Extends, FunctionsKnown, Finishes, VerifiedAt, InstructionLength, ConstantAt
<1>3. len \in Nat \ {0} /\ (op \in JumpOps => len = 3) /\ (op \in ByteOps => len = 2)
  BY <1>2 DEF InstructionLength
<1>4. OpAt(F2, o) = op
  BY <1>3 DEF SameBytes, OpAt
<1>5. len >= 2 => Operand(F2, o) = a
  BY <1>3 DEF SameBytes, Operand
<1>6. len = 3 => ShortOperand(F2, o) = ShortOperand(F, o)
  BY <1>3 DEF SameBytes, ShortOperand
<1>7. op = OP_CLOSURE => /\ ConstantAt(F2, o) = ConstantAt(F, o)
                         /\ fns2[ConstantAt(F, o).val] = fns[ConstantAt(F, o).val]
  BY <1>2, <1>5 DEF ConstantAt, Extends
<1>8. InstructionLength(fns2, F2, o) = len
  BY <1>4, <1>7 DEF InstructionLength
<1>9. \A n, k : Flows(H, n, k) => Flows(H2, n, k)
  BY DEF Flows, Extends
<1>10. \A types : a + 1 \in DOMAIN F.constants /\ F.constants[a + 1].type \in types
               => a + 1 \in DOMAIN F2.constants /\ F2.constants[a + 1].type \in types
  BY DEF Extends
<1>11. Successors(fns2, F2, o) = Successors(fns, F, o)
  BY <1>3, <1>4, <1>6, <1>8 DEF Successors
<1>12. Successors(fns, F, o) \subseteq DOMAIN H
  <2> DEFINE next == o + len
             short == ShortOperand(F, o)
  <2>1. VerifiedAt(fns, F, H, o)
    BY DEF Finishes
  <2>2. CASE op \in {OP_JUMP, OP_LOOP, OP_JUMP_IF_FALSE, OP_RETURN}
    <3>1. op = OP_JUMP => next + short \in DOMAIN H
      BY <2>1 DEF VerifiedAt, Flows
    <3>2. op = OP_LOOP => next - short \in DOMAIN H
      BY <2>1 DEF VerifiedAt, Flows
    <3>3. op = OP_JUMP_IF_FALSE => next \in DOMAIN H /\ next + short \in DOMAIN H
      BY <2>1 DEF VerifiedAt, Flows
    <3> QED BY <2>2, <3>1, <3>2, <3>3 DEF Successors
  <2>3. CASE op \notin {OP_JUMP, OP_LOOP, OP_JUMP_IF_FALSE, OP_RETURN}
    <3>1. next \in DOMAIN H
      BY <2>1, <2>3 DEF VerifiedAt, Flows
    <3> QED BY <2>3, <3>1 DEF Successors
  <2> QED BY <2>2, <2>3
<1>13. \A i \in 1 .. m : op = OP_CLOSURE => /\ CaptureIndex(F2, o, i) = CaptureIndex(F, o, i)
                                            /\ CapturesLocal(F2, o, i) = CapturesLocal(F, o, i)
  <2> SUFFICES ASSUME NEW i \in 1 .. m, op = OP_CLOSURE
               PROVE  /\ CaptureIndex(F2, o, i) = CaptureIndex(F, o, i)
                      /\ CapturesLocal(F2, o, i) = CapturesLocal(F, o, i)
    OBVIOUS
  <2>1. 2 * i + 1 \in 1 .. len /\ 2 * i + 2 \in 1 .. len
    BY <1>2
  <2>2. F2.code[o + (2 * i + 1)] = F.code[o + (2 * i + 1)] /\ F2.code[o + (2 * i + 2)] = F.code[o + (2 * i + 2)]
    BY <2>1 DEF SameBytes
  <2>3. o + (2 * i + 1) = o + 2 * i + 1 /\ o + (2 * i + 2) = o + 2 * i + 2
    BY <1>1, <1>2
  <2> QED BY <2>2, <2>3 DEF CaptureIndex, CapturesLocal
<1>14. VerifiedAt(fns2, F2, H2, o)
  <2> DEFINE next == o + len
  <2>1. next <= Len(F2.code)
    <3>1. next <= Len(F.code)
      BY DEF Finishes, VerifiedAt
    <3>2. Len(F.code) \in Nat /\ Len(F2.code) \in Nat /\ Len(F.code) <= Len(F2.code)
      BY DEF Extends
    <3> QED BY <1>1, <1>3, <3>1, <3>2
  <2>2. VerifiedAt(fns, F, H, o)
    BY DEF Finishes
  <2>3. CASE op = OP_CLOSURE
    <3>1. /\ F.constants[a + 1].type \in {"FUNCTION"} /\ a + 1 \in DOMAIN F.constants
          /\ \A i \in 1 .. m :
               /\ CaptureIndex(F, o, i) \in Byte
               /\ IF CapturesLocal(F, o, i) THEN CaptureIndex(F, o, i) <= H[o]
                                            ELSE CaptureIndex(F, o, i) < F.upvalueCount
          /\ Flows(H, next, H[o] + 1)
      BY <2>2, <2>3 DEF VerifiedAt, ConstantAt
    <3>2. \A i \in 1 .. m :
               /\ CaptureIndex(F2, o, i) \in Byte
               /\ IF CapturesLocal(F2, o, i) THEN CaptureIndex(F2, o, i) <= H2[o]
                                             ELSE CaptureIndex(F2, o, i) < F2.upvalueCount
      <4>1. F.upvalueCount \in Nat /\ F2.upvalueCount \in Nat /\ F.upvalueCount <= F2.upvalueCount
        BY DEF Extends
      <4>2. \A k \in Byte : k < F.upvalueCount => k < F2.upvalueCount
        BY <4>1
      <4> QED BY <1>1, <1>13, <2>3, <3>1, <4>2
    <3>3. Operand(F2, o) = a /\ fns2[F2.constants[a + 1].val].upvalueCount = m
      BY <1>2, <1>5, <1>7, <2>3 DEF ConstantAt
    <3> QED BY <1>1, <1>4, <1>8, <1>9, <1>10, <2>1, <2>3, <3>1, <3>2, <3>3 DEF VerifiedAt
  <2>4. CASE op # OP_CLOSURE
    <3>1. op \in JumpOps \cup ByteOps => Operand(F2, o) = a
      BY <1>3, <1>5
    <3>2. op \in JumpOps => ShortOperand(F2, o) = ShortOperand(F, o)
      BY <1>3, <1>6
    <3>3. CASE op \in {OP_GET_UPVALUE, OP_SET_UPVALUE}
      <4>1. a \in Nat /\ a < F.upvalueCount /\ (op = OP_SET_UPVALUE => H[o] >= 2)
            /\ Flows(H, next, IF op = OP_GET_UPVALUE THEN H[o] + 1 ELSE H[o])
        <5>1. a \in Nat
          BY <3>3 DEF Finishes
        <5>2. op = OP_GET_UPVALUE => a < F.upvalueCount /\ Flows(H, next, H[o] + 1)
          BY <2>2 DEF VerifiedAt
        <5>3. op = OP_SET_UPVALUE => a < F.upvalueCount /\ H[o] >= 2 /\ Flows(H, next, H[o])
          BY <2>2 DEF VerifiedAt
        <5> QED BY <3>3, <5>1, <5>2, <5>3
      <4>2. a < F2.upvalueCount
        BY <4>1 DEF Extends
      <4> QED BY <1>1, <1>4, <1>8, <1>9, <2>1, <3>1, <3>3, <4>1, <4>2 DEF VerifiedAt
    <3>4. CASE op \notin {OP_GET_UPVALUE, OP_SET_UPVALUE}
      BY <1>1, <1>4, <1>8, <1>9, <1>10, <2>1, <2>2, <2>4, <3>1, <3>2, <3>4 DEF VerifiedAt
    <3> QED BY <3>3, <3>4
  <2> QED BY <2>3, <2>4
<1>15. KeepsAt(fns2, F2, H2, L2, o)
  <2>1. \A n \in Successors(fns, F, o) : L2[n] \in Nat /\ L[n] \in Nat /\ L2[n] >= L[n] /\ H2[n] = H[n] /\ H[n] \in Nat
    BY <1>12 DEF Extends
  <2>2. L[o] \in Nat /\ H[o] \in Nat
    BY <1>1 DEF Extends
  <2>3. \A n \in Successors(fns, F, o) : L2[n] >= L2[o] \/ L2[n] >= H2[n]
    BY <1>1, <2>1, <2>2 DEF Finishes, KeepsAt
  <2>4. op = OP_CALL => L2[o] < H2[o] - Operand(F2, o)
    BY <1>1, <1>3, <1>5 DEF Finishes, KeepsAt
  <2>5. op = OP_CLOSURE =>
          \A i \in 1 .. m : CapturesLocal(F, o, i) =>
            \A n \in Successors(fns, F, o) : CaptureIndex(F, o, i) \in 1 .. L2[n] - 1
    BY <2>1 DEF Finishes, KeepsAt
  <2> QED BY <1>4, <1>7, <1>11, <1>13, <2>3, <2>4, <2>5 DEF KeepsAt
<1>16. op \in {OP_GET_UPVALUE, OP_SET_UPVALUE} => Operand(F2, o) \in Nat
  BY <1>3, <1>5 DEF Finishes
<1> QED BY <1>4, <1>8, <1>14, <1>15, <1>16 DEF Finishes

(* A jump that waits goes on to do so.                                     *)
LEMMA WaitsKept ==
  ASSUME NEW fns, NEW F, NEW H, NEW L, NEW fns2, NEW F2, NEW H2, NEW L2, NEW o,
         Extends(fns, F, H, L, fns2, F2, H2, L2), o \in Starts(F, H),
         F2.code[o + 1] = F.code[o + 1], Waits(F, H, L, o)
  PROVE  Waits(F2, H2, L2, o) /\ InstructionLength(fns2, F2, o) = 3
                              /\ InstructionLength(fns, F, o) = 3
<1>1. o \in DOMAIN H /\ o \in Nat /\ o # Len(F.code) /\ o + 3 <= Len(F2.code)
  BY DEF Extends, Starts, Waits
<1>2. H2[o] = H[o] /\ L2[o] = L[o] /\ o \in DOMAIN H2 /\ L[o] \in Nat /\ H[o] \in Nat
  BY <1>1 DEF Extends
<1>3. ASSUME OpAt(F, o) = OP_JUMP_IF_FALSE
      PROVE  /\ H[o] >= 2 /\ Flows(H2, o + 3, H[o])
             /\ L2[o + 3] >= L[o] \/ L2[o + 3] >= H[o]
  <2>1. H[o] >= 2 /\ Flows(H, o + 3, H[o]) /\ (L[o + 3] >= L[o] \/ L[o + 3] >= H[o])
    BY <1>3 DEF Waits
  <2>2. /\ o + 3 \in DOMAIN H2 /\ H2[o + 3] = H[o + 3] /\ L2[o + 3] >= L[o + 3]
        /\ L[o + 3] \in Nat /\ L2[o + 3] \in Nat
    BY <2>1 DEF Extends, Flows
  <2>3. L2[o + 3] >= L[o] \/ L2[o + 3] >= H[o]
    BY <1>2, <2>1, <2>2
  <2> QED BY <2>1, <2>2, <2>3 DEF Flows
<1>4. OpAt(F2, o) = OpAt(F, o) /\ OpAt(F, o) \in {OP_JUMP, OP_JUMP_IF_FALSE}
  BY DEF OpAt, Waits
<1>5. Waits(F2, H2, L2, o)
  BY <1>1, <1>2, <1>3, <1>4 DEF Waits
<1> QED BY <1>4, <1>5 DEF InstructionLength

(* The length of a whole instruction.                                      *)
LEMMA LengthOfStart ==
  ASSUME NEW fns, NEW F, NEW H, NEW L, NEW E, NEW o,
         ChunkSound(fns, F, H, L, E), Len(F.code) \in Nat, o \in Starts(F, H)
  PROVE  /\ o \in Nat /\ o \in DOMAIN H /\ o < Len(F.code)
         /\ InstructionLength(fns, F, o) \in Nat \ {0}
         /\ o + InstructionLength(fns, F, o) <= Len(F.code)
<1>1. o \in Nat /\ o \in DOMAIN H /\ o < Len(F.code)
  <2>1. o \in DOMAIN H /\ o # Len(F.code)
    BY DEF Starts
  <2>2. o \in 0 .. Len(F.code)
    BY <2>1 DEF ChunkSound
  <2> QED BY <2>1, <2>2, Below
<1>2. Finishes(fns, F, H, L, o) \/ Waits(F, H, L, o)
  BY DEF ChunkSound
<1>3. CASE Finishes(fns, F, H, L, o)
  <2>1. VerifiedAt(fns, F, H, o)
    BY <1>3 DEF Finishes
  <2>2. o + InstructionLength(fns, F, o) <= Len(F.code)
    BY <2>1 DEF VerifiedAt
  <2>3. CASE OpAt(F, o) = OP_CLOSURE
    <3>1. /\ Operand(F, o) + 1 \in DOMAIN F.constants
          /\ F.constants[Operand(F, o) + 1].type \in {"FUNCTION"}
      BY <2>1, <2>3 DEF VerifiedAt
    <3>2. fns[ConstantAt(F, o).val].upvalueCount \in Nat
      BY <3>1 DEF ChunkSound, FunctionsKnown, ConstantAt
    <3>3. InstructionLength(fns, F, o) = 2 + 2 * fns[ConstantAt(F, o).val].upvalueCount
      BY <2>3 DEF InstructionLength
    <3> QED BY <1>1, <2>2, <3>2, <3>3
  <2>4. CASE OpAt(F, o) # OP_CLOSURE
    <3>1. InstructionLength(fns, F, o) \in {1, 2, 3}
      BY <2>4 DEF InstructionLength
    <3> QED BY <1>1, <2>2, <3>1
  <2> QED BY <2>3, <2>4
<1>4. CASE Waits(F, H, L, o)
  BY <1>1, <1>4 DEF Waits, InstructionLength
<1> QED BY <1>2, <1>3, <1>4

(* Constants, upvalues, functions and locals may be added.                 *)
LEMMA ChunkGrows ==
  ASSUME NEW fns, NEW F, NEW H, NEW L, NEW E, NEW fns2, NEW F2, NEW L2, NEW E2,
         ChunkSound(fns, F, H, L, E), Extends(fns, F, H, L, fns2, F2, H, L2),
         F2.code = F.code, F2.arity = F.arity, FunctionsKnown(fns2, F2), E \subseteq E2
  PROVE  ChunkSound(fns2, F2, H, L2, E2)
<1>1. Starts(F2, H) = Starts(F, H) /\ \A o : SameBytes(fns, F, F2, o)
  BY DEF Starts, SameBytes
<1>2. Len(F.code) \in Nat
  BY DEF Extends
<1>3. ASSUME NEW o \in Starts(F, H)
      PROVE  /\ Finishes(fns2, F2, H, L2, o) \/ (o + 1 \in E2 /\ Waits(F2, H, L2, o))
             /\ InstructionLength(fns2, F2, o) = InstructionLength(fns, F, o)
  <2>1. Finishes(fns, F, H, L, o) \/ (o + 1 \in E /\ Waits(F, H, L, o))
    BY <1>3 DEF ChunkSound
  <2>2. CASE Finishes(fns, F, H, L, o)
    BY <1>1, <1>3, <2>2, FinishesKept
  <2>3. CASE o + 1 \in E /\ Waits(F, H, L, o)
    BY <1>1, <1>3, <2>3, WaitsKept
  <2> QED BY <2>1, <2>2, <2>3
<1>4. \A o, n \in Starts(F2, H) : o < n => o + InstructionLength(fns2, F2, o) <= n
  BY <1>1, <1>3 DEF ChunkSound
<1>5. L2 \in [DOMAIN H -> Nat]
  BY DEF Extends
<1> QED BY <1>1, <1>3, <1>4, <1>5 DEF ChunkSound

(* An instruction is appended to the code.                                 *)
Appended(fns, F, H, L, E, F2, H2, L2, E2, n, k, h, l) ==
  /\ n \in Nat /\ k \in Nat \ {0} /\ h \in Nat \ {0} /\ l \in Nat
  /\ ChunkSound(fns, F, H, L, E) /\ Len(F.code) = n /\ Len(F2.code) = n + k
  /\ \A i \in 1 .. n : F2.code[i] = F.code[i]
  /\ F2.arity = F.arity /\ F2.constants = F.constants
  /\ F2.upvalueCount = F.upvalueCount /\ F.upvalueCount \in Nat
  /\ H2 = Noted(H, n + k, h) /\ L2 = Noted(L, n + k, l) /\ E \subseteq E2
  /\ InstructionLength(fns, F2, n) = k
  /\ Finishes(fns, F2, H2, L2, n) \/ (n + 1 \in E2 /\ Waits(F2, H2, L2, n))

LEMMA ChunkEmits ==
  ASSUME NEW fns, NEW F, NEW H, NEW L, NEW E, NEW F2, NEW H2, NEW L2, NEW E2,
         NEW n, NEW k, NEW h, NEW l,
         Appended(fns, F, H, L, E, F2, H2, L2, E2, n, k, h, l)
  PROVE  ChunkSound(fns, F2, H2, L2, E2)
<1> USE DEF Appended
<1>1. DOMAIN H \subseteq 0 .. n /\ DOMAIN L = DOMAIN H /\ n \in DOMAIN H
  BY DEF ChunkSound
<1>2. /\ H2 \in [DOMAIN H \cup {n + k} -> Nat \ {0}] /\ DOMAIN H2 = DOMAIN H \cup {n + k}
      /\ L2 \in [DOMAIN H2 -> Nat] /\ H2[n + k] = h /\ L2[n + k] = l
      /\ \A o \in DOMAIN H : H2[o] = H[o] /\ L2[o] = L[o] /\ o # n + k
  BY <1>1 DEF ChunkSound, Noted
<1>3. Extends(fns, F, H, L, fns, F2, H2, L2)
  BY <1>1, <1>2 DEF Extends, ChunkSound
<1>4. Starts(F2, H2) = Starts(F, H) \cup {n}
  BY <1>1, <1>2 DEF Starts
<1>5. ASSUME NEW o \in Starts(F, H)
      PROVE  /\ Finishes(fns, F2, H2, L2, o) \/ (o + 1 \in E2 /\ Waits(F2, H2, L2, o))
             /\ InstructionLength(fns, F2, o) = InstructionLength(fns, F, o)
  <2>1. /\ o \in Nat /\ o < n /\ InstructionLength(fns, F, o) \in Nat \ {0}
        /\ o + InstructionLength(fns, F, o) <= n
    BY <1>5, LengthOfStart
  <2>2. SameBytes(fns, F, F2, o)
    BY <2>1 DEF SameBytes
  <2>3. F2.code[o + 1] = F.code[o + 1]
    BY <2>1
  <2>4. Finishes(fns, F, H, L, o) \/ (o + 1 \in E /\ Waits(F, H, L, o))
    BY <1>5 DEF ChunkSound
  <2>5. CASE Finishes(fns, F, H, L, o)
    BY <1>3, <1>5, <2>2, <2>5, FinishesKept
  <2>6. CASE o + 1 \in E /\ Waits(F, H, L, o)
    BY <1>3, <1>5, <2>3, <2>6, WaitsKept
  <2> QED BY <2>4, <2>5, <2>6
<1>6. \A o \in Starts(F2, H2) :
        Finishes(fns, F2, H2, L2, o) \/ (o + 1 \in E2 /\ Waits(F2, H2, L2, o))
  BY <1>4, <1>5
<1>7. \A o, m \in Starts(F2, H2) : o < m => o + InstructionLength(fns, F2, o) <= m
  <2> SUFFICES ASSUME NEW o \in Starts(F2, H2), NEW m \in Starts(F2, H2), o < m
               PROVE  o + InstructionLength(fns, F2, o) <= m
    OBVIOUS
  <2>1. o \in Starts(F, H)
    BY <1>1, <1>4 DEF Starts
  <2>2. CASE m = n
    BY <1>5, <2>1, <2>2, LengthOfStart
  <2>3. CASE m \in Starts(F, H)
    BY <1>5, <2>1, <2>3 DEF ChunkSound
  <2> QED BY <1>4, <2>2, <2>3
<1>8. FunctionsKnown(fns, F2)
  BY DEF ChunkSound, FunctionsKnown
<1>9. Flows(H2, 0, F2.arity + 1)
  BY <1>2 DEF ChunkSound, Flows
<1>10. Len(F2.code) \in DOMAIN H2 /\ DOMAIN H2 \subseteq 0 .. Len(F2.code)
  <2>1. Len(F2.code) = n + k /\ n \in Nat /\ k \in Nat
    OBVIOUS
  <2> HIDE DEF Appended
  <2> DEFINE D == DOMAIN H
  <2>2. DOMAIN H2 = D \cup {n + k} /\ D \subseteq 0 .. n
    BY <1>1, <1>2, Zenon
  <2> HIDE DEF D
  <2>3. D \subseteq 0 .. n + k /\ n + k \in 0 .. n + k
    BY <2>1, <2>2
  <2> QED BY <2>1, <2>2, <2>3, Zenon
<1>11. H2 \in [DOMAIN H2 -> Nat \ {0}] /\ L2 \in [DOMAIN H2 -> Nat]
  BY <1>2
<1> QED BY <1>6, <1>7, <1>8, <1>9, <1>10, <1>11, Zenon DEF ChunkSound

(* The two bytes of a number.                                              *)
LEMMA TwoBytes ==
  ASSUME NEW n \in 0 .. UINT16_MAX
  PROVE  /\ High(n) \in Nat /\ Low(n) \in Nat
         /\ (UINT8_MAX + 1) * High(n) + Low(n) = n
<1> DEFINE m == UINT8_MAX + 1
           q == n \div m
           r == (n % m)
<1>1. m \in 2 .. 256
  BY UInt8Assumption
<1>2. n \in Nat /\ n < m * m
  BY <1>1 DEF UINT16_MAX
<1> HIDE DEF m
<1>3. q \in Nat /\ r \in 0 .. m - 1 /\ n = m * q + r
  BY <1>1, <1>2
<1> HIDE DEF q, r
<1>4. q < m
  <2> SUFFICES ASSUME q >= m PROVE FALSE
    BY <1>1, <1>3
  <2>1. m * q >= m * m
    BY <1>1, <1>3
  <2> QED BY <1>1, <1>2, <1>3, <2>1
<1>5. (q % m) = q
  BY <1>1, <1>3, <1>4
<1>6. High(n) = (q % m) /\ Low(n) = r
  BY DEF High, Low, Byte8, m, q, r
<1>7. High(n) = q /\ Low(n) = r
  BY <1>5, <1>6
<1> QED BY <1>1, <1>3, <1>7 DEF m

LEMMA Byte8OfByte ==
  /\ \A n \in 0 .. UINT8_MAX : Byte8(n) = n
  /\ \A n \in Nat : Byte8(n) \in 0 .. UINT8_MAX /\ Byte8(n) <= n
<1> DEFINE m == UINT8_MAX + 1
<1>1. m \in 2 .. 256
  BY UInt8Assumption
<1>2. \A n : Byte8(n) = (n % m)
  BY DEF Byte8
<1>3. UINT8_MAX = m - 1
  BY UInt8Assumption
<1> HIDE DEF m
<1>4. ASSUME NEW n \in Nat
      PROVE  (n % m) \in 0 .. m - 1 /\ (n % m) <= n /\ (n < m => (n % m) = n)
  BY <1>1, <1>4
<1> QED BY <1>1, <1>2, <1>3, <1>4

(* A jump is patched to lead to the end of the code.                       *)
LEMMA ChunkPatches ==
  ASSUME NEW fns, NEW F, NEW H, NEW L, NEW E, NEW F2, NEW o, NEW n \in Nat,
         ChunkSound(fns, F, H, L, E), Len(F.code) = n, Len(F2.code) = n, o \in Starts(F, H),
         OpAt(F, o) \in {OP_JUMP, OP_JUMP_IF_FALSE}, n - (o + 1) - 2 <= UINT16_MAX,
         \A i \in 1 .. n : F2.code[i] = IF i = o + 2 THEN High(n - (o + 1) - 2)
                                        ELSE IF i = o + 3 THEN Low(n - (o + 1) - 2)
                                        ELSE F.code[i],
         F2.arity = F.arity, F2.constants = F.constants,
         F2.upvalueCount = F.upvalueCount, F.upvalueCount \in Nat,
         H[o] = H[n], L[n] >= L[o] \/ L[n] >= H[n]
  PROVE  ChunkSound(fns, F2, H, L, E \ {o + 1})
<1>1. /\ DOMAIN H \subseteq 0 .. n /\ n \in DOMAIN H
      /\ H \in [DOMAIN H -> Nat \ {0}] /\ L \in [DOMAIN H -> Nat]
  BY DEF ChunkSound
<1>2. InstructionLength(fns, F, o) = 3
  BY DEF InstructionLength
<1>3. o \in Nat /\ o \in DOMAIN H /\ o + 3 <= n
  BY <1>2, LengthOfStart
<1>4. Extends(fns, F, H, L, fns, F2, H, L)
  BY <1>1 DEF Extends, ChunkSound
<1>5. Starts(F2, H) = Starts(F, H)
  BY DEF Starts
<1>6. ASSUME NEW p \in Starts(F, H), p # o
      PROVE  /\ Finishes(fns, F2, H, L, p) \/ (p + 1 \in E \ {o + 1} /\ Waits(F2, H, L, p))
             /\ InstructionLength(fns, F2, p) = InstructionLength(fns, F, p)
  <2>1. /\ p \in Nat /\ InstructionLength(fns, F, p) \in Nat \ {0}
        /\ p + InstructionLength(fns, F, p) <= n
    BY <1>6, LengthOfStart
  <2>2. p + InstructionLength(fns, F, p) <= o \/ o + 3 <= p
    BY <1>2, <1>3, <1>6, <2>1 DEF ChunkSound
  <2>3. SameBytes(fns, F, F2, p)
    <3> DEFINE len == InstructionLength(fns, F, p)
    <3>1. len \in Nat \ {0} /\ p + len <= n /\ (p + len <= o \/ o + 3 <= p)
      BY <2>1, <2>2
    <3> HIDE DEF len
    <3>2. \A i \in 1 .. len : F2.code[p + i] = F.code[p + i]
      <4> SUFFICES ASSUME NEW i \in 1 .. len
                   PROVE  F2.code[p + i] = F.code[p + i]
        OBVIOUS
      <4>1. p + i \in 1 .. n /\ p + i # o + 2 /\ p + i # o + 3
        BY <1>3, <2>1, <3>1
      <4> QED BY <4>1
    <3> QED BY <3>2 DEF SameBytes, len
  <2>4. F2.code[p + 1] = F.code[p + 1]
    BY <2>1, <2>3 DEF SameBytes
  <2>5. Finishes(fns, F, H, L, p) \/ (p + 1 \in E /\ Waits(F, H, L, p))
    BY <1>6 DEF ChunkSound
  <2>6. CASE Finishes(fns, F, H, L, p)
    BY <1>4, <1>6, <2>3, <2>6, FinishesKept
  <2>7. CASE p + 1 \in E /\ Waits(F, H, L, p)
    BY <1>3, <1>4, <1>6, <2>1, <2>4, <2>7, WaitsKept
  <2> QED BY <2>5, <2>6, <2>7
<1>7. OpAt(F2, o) = OpAt(F, o) /\ InstructionLength(fns, F2, o) = 3
  <2>1. o + 1 \in 1 .. n /\ o + 1 # o + 2 /\ o + 1 # o + 3
    BY <1>3
  <2>2. OpAt(F2, o) = OpAt(F, o)
    BY <2>1 DEF OpAt
  <2> QED BY <2>2 DEF InstructionLength
<1>8. ShortOperand(F2, o) = n - (o + 3)
  <2> DEFINE jump == n - (o + 1) - 2
  <2>1. jump \in 0 .. UINT16_MAX /\ jump = n - (o + 3)
    BY <1>3, UInt8Assumption DEF UINT16_MAX
  <2>2. F2.code[o + 2] = High(jump) /\ F2.code[o + 3] = Low(jump)
    BY <1>3
  <2> HIDE DEF jump
  <2>3. (UINT8_MAX + 1) * High(jump) + Low(jump) = jump
    BY <2>1, TwoBytes
  <2> QED BY <2>1, <2>2, <2>3 DEF ShortOperand
<1>9. Finishes(fns, F2, H, L, o)
  <2>1. o + 3 + ShortOperand(F2, o) = n
    BY <1>3, <1>8
  <2>2. OpAt(F, o) = OP_JUMP_IF_FALSE => /\ H[o] >= 2 /\ Flows(H, o + 3, H[o])
                                         /\ L[o + 3] >= L[o] \/ L[o + 3] >= H[o + 3]
    <3>1. CASE Finishes(fns, F, H, L, o)
      <4>1. VerifiedAt(fns, F, H, o) /\ KeepsAt(fns, F, H, L, o)
        BY <3>1 DEF Finishes
      <4>2. OpAt(F, o) = OP_JUMP_IF_FALSE => /\ H[o] >= 2 /\ Flows(H, o + 3, H[o])
                                             /\ o + 3 \in Successors(fns, F, o)
        BY <1>2, <4>1 DEF VerifiedAt, Successors
      <4> QED BY <4>1, <4>2 DEF KeepsAt
    <3>2. CASE Waits(F, H, L, o)
      BY <3>2 DEF Waits, Flows
    <3> QED BY <3>1, <3>2 DEF ChunkSound
  <2>3. Flows(H, n, H[o])
    BY <1>1 DEF Flows
  <2>4. VerifiedAt(fns, F2, H, o)
    BY <1>3, <1>7, <2>1, <2>2, <2>3 DEF VerifiedAt
  <2>5. Successors(fns, F2, o) = IF OpAt(F, o) = OP_JUMP THEN {n} ELSE {o + 3, n}
    <3>1. OpAt(F2, o) = OP_JUMP => Successors(fns, F2, o) = {n}
      BY <1>7, <2>1 DEF Successors
    <3>2. OpAt(F2, o) = OP_JUMP_IF_FALSE => Successors(fns, F2, o) = {o + 3, n}
      BY <1>7, <2>1 DEF Successors
    <3> QED BY <1>7, <3>1, <3>2
  <2>6. KeepsAt(fns, F2, H, L, o)
    BY <1>7, <2>2, <2>5 DEF KeepsAt
  <2> QED BY <1>7, <2>4, <2>6 DEF Finishes
<1>10. \A p \in Starts(F2, H) :
         Finishes(fns, F2, H, L, p) \/ (p + 1 \in E \ {o + 1} /\ Waits(F2, H, L, p))
  BY <1>5, <1>6, <1>9
<1>11. \A p, m \in Starts(F2, H) : p < m => p + InstructionLength(fns, F2, p) <= m
  BY <1>2, <1>5, <1>6, <1>7 DEF ChunkSound
<1>12. FunctionsKnown(fns, F2)
  BY DEF ChunkSound, FunctionsKnown
<1> QED BY <1>1, <1>10, <1>11, <1>12 DEF ChunkSound

(* A function that returns at its end, with no jump that waits.            *)
LEMMA ChunkEnds ==
  ASSUME NEW fns, NEW F, NEW H, NEW L, NEW F2, NEW n \in Nat,
         ChunkSound(fns, F, H, L, {}), Len(F.code) = n, Len(F2.code) = n + 1,
         \A i \in 1 .. n : F2.code[i] = F.code[i], F2.code[n + 1] = OP_RETURN,
         F2.arity = F.arity, F2.constants = F.constants,
         F2.upvalueCount = F.upvalueCount, F.upvalueCount \in Nat, H[n] >= 2
  PROVE  /\ Verified(fns, F2, H) /\ KeepsLocals(fns, F2, H, L)
         /\ \A o \in DOMAIN H : Finishes(fns, F2, H, L, o)
         /\ FunctionsKnown(fns, F2)
<1>1. /\ DOMAIN H \subseteq 0 .. n /\ n \in DOMAIN H
      /\ H \in [DOMAIN H -> Nat \ {0}] /\ L \in [DOMAIN H -> Nat]
  BY DEF ChunkSound
<1>2. Extends(fns, F, H, L, fns, F2, H, L)
  BY <1>1 DEF Extends, ChunkSound
<1>3. ASSUME NEW o \in DOMAIN H
      PROVE  Finishes(fns, F2, H, L, o)
  <2>1. CASE o = n
    <3>1. OpAt(F2, n) = OP_RETURN /\ InstructionLength(fns, F2, n) = 1
      BY DEF OpAt, InstructionLength
    <3>2. VerifiedAt(fns, F2, H, n)
      BY <3>1 DEF VerifiedAt
    <3>3. Successors(fns, F2, n) = {}
      BY <3>1 DEF Successors
    <3>4. KeepsAt(fns, F2, H, L, n)
      BY <3>1, <3>3 DEF KeepsAt
    <3> QED BY <2>1, <3>1, <3>2, <3>4 DEF Finishes
  <2>2. CASE o # n
    <3>1. o \in Starts(F, H)
      BY <1>3, <2>2 DEF Starts
    <3>2. /\ o \in Nat /\ InstructionLength(fns, F, o) \in Nat \ {0}
          /\ o + InstructionLength(fns, F, o) <= n
      BY <3>1, LengthOfStart
    <3>3. SameBytes(fns, F, F2, o)
      BY <3>2 DEF SameBytes
    <3>4. Finishes(fns, F, H, L, o)
      BY <3>1 DEF ChunkSound
    <3> QED BY <1>2, <3>1, <3>3, <3>4, FinishesKept
  <2> QED BY <2>1, <2>2
<1>4. Verified(fns, F2, H)
  BY <1>1, <1>3 DEF Finishes, Verified, ChunkSound, Flows
<1>5. KeepsLocals(fns, F2, H, L)
  BY <1>1, <1>3 DEF Finishes, KeepsLocals, KeepsAt
<1> QED BY <1>3, <1>4, <1>5 DEF ChunkSound, FunctionsKnown

(* A finished function stays verified when functions are added.            *)
LEMMA FunctionSoundKept ==
  ASSUME NEW fns, NEW fns2, NEW F, NEW d, FunctionSound(fns, F, d),
         \A f \in DOMAIN fns : f \in DOMAIN fns2 /\ fns2[f] = fns[f]
  PROVE  FunctionSound(fns2, F, d)
<1> DEFINE H == d.heights
           L == d.locals
<1>1. /\ DOMAIN H \subseteq 0 .. Len(F.code) - 1 /\ \A o \in DOMAIN H : H[o] \in Nat \ {0}
      /\ L \in [DOMAIN H -> Nat] /\ FunctionsKnown(fns, F) /\ F.upvalueCount \in Nat
      /\ Flows(H, 0, F.arity + 1) /\ Len(F.code) \in Nat
      /\ \A o \in DOMAIN H : Finishes(fns, F, H, L, o)
  BY DEF FunctionSound, Verified, KeepsLocals
<1>2. FunctionsKnown(fns2, F)
  BY <1>1 DEF FunctionsKnown
<1>3. Extends(fns, F, H, L, fns2, F, H, L)
  BY <1>1 DEF Extends
<1>4. \A o \in DOMAIN H : o \in Starts(F, H) /\ SameBytes(fns, F, F, o)
  BY <1>1 DEF Starts, SameBytes
<1>5. \A o \in DOMAIN H : Finishes(fns2, F, H, L, o)
  BY <1>1, <1>3, <1>4, FinishesKept
<1>6. Verified(fns2, F, H)
  BY <1>1, <1>5 DEF Verified, Finishes
<1>7. KeepsLocals(fns2, F, H, L)
  BY <1>1, <1>5 DEF KeepsLocals, Finishes, KeepsAt
<1> QED BY <1>1, <1>2, <1>5, <1>6, <1>7 DEF FunctionSound

-----------------------------------------------------------------------------
(* What each instruction needs to be verified where it is emitted.         *)

(* The instruction op with the operand a, at height h above l locals.      *)
Applies(F, op, a, h, l) ==
  /\ op \notin JumpOps \cup {OP_CLOSURE}
  /\ op \in EmittedOps \/ op \in {OP_DEFINE_GLOBAL, OP_CALL, OP_CONSTANT, OP_GET_GLOBAL,
                                  OP_GET_LOCAL, OP_GET_UPVALUE}
  /\ op = OP_CONSTANT => /\ a + 1 \in DOMAIN F.constants
                         /\ F.constants[a + 1].type \in {"NUMBER", "STRING"}
  /\ op \in NameOps => /\ a + 1 \in DOMAIN F.constants
                       /\ F.constants[a + 1].type = "STRING"
  /\ op \in {OP_GET_LOCAL, OP_SET_LOCAL} => a < h
  /\ op \in {OP_GET_UPVALUE, OP_SET_UPVALUE} => a \in Nat /\ a < F.upvalueCount
  /\ op = OP_CALL => a \in Nat /\ h >= a + 2 /\ l < h - a
  /\ op \in TakingOps \cup {OP_DEFINE_GLOBAL} => h >= 2
  /\ op \in BinaryOps => h >= 3

LEMMA StraightFinishes ==
  ASSUME NEW fns, NEW F, NEW H, NEW L, NEW n \in Nat, NEW op, NEW a, NEW k,
         Applies(F, op, a, H[n], L[n]), op # OP_RETURN,
         OpAt(F, n) = op, Operand(F, n) = a, H[n] \in Nat \ {0}, L[n] \in Nat,
         k = InstructionLength(fns, F, n), n + k <= Len(F.code),
         n + k \in DOMAIN H, H[n + k] = H[n] + Growth(op, a),
         L[n + k] >= L[n] \/ L[n + k] >= H[n + k]
  PROVE  Finishes(fns, F, H, L, n)
<1> DEFINE h == H[n]
           next == n + InstructionLength(fns, F, n)
<1>1. next \in DOMAIN H /\ H[next] = h + Growth(op, a) /\ next <= Len(F.code)
  OBVIOUS
<1>2. Successors(fns, F, n) = {next}
  BY DEF Successors, Applies
<1>3. KeepsAt(fns, F, H, L, n)
  BY <1>2 DEF KeepsAt, Applies
<1>4. VerifiedAt(fns, F, H, n)
  <2>1. CASE op \in LiteralOps
    <3>1. Growth(op, a) = 1
      BY <2>1 DEF Growth
    <3> QED BY <1>1, <2>1, <3>1 DEF VerifiedAt, Flows
  <2>2. CASE op \in {OP_CONSTANT, OP_GET_GLOBAL}
    <3>1. Growth(op, a) = 1
      BY <2>2 DEF Growth
    <3> QED BY <1>1, <2>2, <3>1 DEF VerifiedAt, Flows, Applies
  <2>3. CASE op = OP_SET_GLOBAL
    <3>1. Growth(op, a) = 0
      BY <2>3 DEF Growth
    <3> QED BY <1>1, <2>3, <3>1 DEF VerifiedAt, Flows, Applies, TakingOps, SetOps
  <2>4. CASE op = OP_DEFINE_GLOBAL
    <3>1. Growth(op, a) = -1
      BY <2>4 DEF Growth
    <3> QED BY <1>1, <2>4, <3>1 DEF VerifiedAt, Flows, Applies
  <2>5. CASE op \in {OP_GET_LOCAL, OP_GET_UPVALUE}
    <3>1. Growth(op, a) = 1
      BY <2>5 DEF Growth
    <3> QED BY <1>1, <2>5, <3>1 DEF VerifiedAt, Flows, Applies
  <2>6. CASE op \in {OP_SET_LOCAL, OP_SET_UPVALUE}
    <3>1. Growth(op, a) = 0
      <4>1. op = OP_SET_LOCAL => Growth(op, a) = 0
        BY DEF Growth
      <4>2. op = OP_SET_UPVALUE => Growth(op, a) = 0
        BY DEF Growth
      <4> QED BY <2>6, <4>1, <4>2
    <3> QED BY <1>1, <2>6, <3>1 DEF VerifiedAt, Flows, Applies, TakingOps, SetOps
  <2>7. CASE op \in {OP_POP, OP_PRINT}
    <3>1. Growth(op, a) = -1
      BY <2>7 DEF Growth
    <3> QED BY <1>1, <2>7, <3>1 DEF VerifiedAt, Flows, Applies, TakingOps
  <2>8. CASE op \in {OP_NOT, OP_NEGATE}
    <3>1. Growth(op, a) = 0
      <4>1. op = OP_NOT => Growth(op, a) = 0
        BY DEF Growth
      <4>2. op = OP_NEGATE => Growth(op, a) = 0
        BY DEF Growth
      <4> QED BY <2>8, <4>1, <4>2
    <3> QED BY <1>1, <2>8, <3>1 DEF VerifiedAt, Flows, Applies, TakingOps
  <2>9. CASE op \in BinaryOps
    <3>1. Growth(op, a) = -1
      BY <2>9 DEF Growth
    <3> QED BY <1>1, <2>9, <3>1 DEF VerifiedAt, Flows, Applies
  <2>10. CASE op = OP_CALL
    <3>1. Growth(op, a) = -a
      BY <2>10 DEF Growth
    <3>2. h + Growth(op, a) = h - a
      BY <2>10, <3>1 DEF Applies
    <3> QED BY <1>1, <2>10, <3>1, <3>2 DEF VerifiedAt, Flows, Applies
  <2> QED BY <2>1, <2>2, <2>3, <2>4, <2>5, <2>6, <2>7, <2>8, <2>9, <2>10
          DEF Applies, EmittedOps, TakingOps, SetOps
<1> QED BY <1>3, <1>4 DEF Finishes, Applies

LEMMA ReturnFinishes ==
  ASSUME NEW fns, NEW F, NEW H, NEW L, NEW n \in Nat,
         OpAt(F, n) = OP_RETURN, H[n] \in Nat, H[n] >= 2, n + 1 <= Len(F.code)
  PROVE  Finishes(fns, F, H, L, n)
<1>1. InstructionLength(fns, F, n) = 1 /\ Successors(fns, F, n) = {}
  BY DEF InstructionLength, Successors
<1>2. VerifiedAt(fns, F, H, n)
  BY <1>1 DEF VerifiedAt
<1>3. KeepsAt(fns, F, H, L, n)
  BY <1>1 DEF KeepsAt
<1> QED BY <1>2, <1>3 DEF Finishes

LEMMA LoopSuccessor ==
  ASSUME NEW fns, NEW F, NEW n \in Nat, NEW start \in Nat, OpAt(F, n) = OP_LOOP,
         ShortOperand(F, n) \in Nat, n + 3 - ShortOperand(F, n) = start
  PROVE  InstructionLength(fns, F, n) = 3 /\ Successors(fns, F, n) = {start}
<1>1. InstructionLength(fns, F, n) = 3
  BY DEF InstructionLength
<1> QED BY <1>1 DEF Successors

LEMMA LoopFinishes ==
  ASSUME NEW fns, NEW F, NEW H, NEW L, NEW n \in Nat, NEW start \in 0 .. n,
         OpAt(F, n) = OP_LOOP, n + 3 <= Len(F.code), n + 3 - start <= UINT16_MAX,
         F.code[n + 2] = High(n + 3 - start), F.code[n + 3] = Low(n + 3 - start),
         Flows(H, start, H[n]), L[start] >= L[n] \/ L[start] >= H[n]
  PROVE  Finishes(fns, F, H, L, n) /\ InstructionLength(fns, F, n) = 3
<1> DEFINE jump == n + 3 - start
<1>1. jump \in 0 .. UINT16_MAX /\ n + 3 - jump = start
  <2>1. UINT16_MAX \in Nat
    BY UInt8Assumption DEF UINT16_MAX
  <2> QED BY <2>1
<1>2. F.code[n + 2] = High(jump) /\ F.code[n + 3] = Low(jump)
  OBVIOUS
<1> HIDE DEF jump
<1>3. ShortOperand(F, n) \in Nat /\ n + 3 - ShortOperand(F, n) = start
  <2>1. (UINT8_MAX + 1) * High(jump) + Low(jump) = jump
    BY <1>1, TwoBytes
  <2> QED BY <1>1, <1>2, <2>1 DEF ShortOperand
<1>4. InstructionLength(fns, F, n) = 3 /\ Successors(fns, F, n) = {start}
  BY <1>3, LoopSuccessor
<1>5. VerifiedAt(fns, F, H, n)
  BY <1>3, <1>4 DEF VerifiedAt
<1>6. KeepsAt(fns, F, H, L, n)
  BY <1>4 DEF KeepsAt, Flows
<1> QED BY <1>4, <1>5, <1>6 DEF Finishes

(* The closure of the function g, whose upvalues follow the instruction.   *)
LEMMA ClosureFinishes ==
  ASSUME NEW fns, NEW F, NEW H, NEW L, NEW n \in Nat, NEW m \in Nat, NEW g, NEW a,
         OpAt(F, n) = OP_CLOSURE, Operand(F, n) = a,
         a + 1 \in DOMAIN F.constants, F.constants[a + 1] = FunctionConstant(g),
         fns[g].upvalueCount = m, n + 2 + 2 * m <= Len(F.code),
         Flows(H, n + 2 + 2 * m, H[n] + 1), H[n] \in Nat, L[n] \in Nat,
         L[n + 2 + 2 * m] >= L[n],
         \A i \in 1 .. m :
           /\ CaptureIndex(F, n, i) \in Byte
           /\ IF CapturesLocal(F, n, i)
              THEN CaptureIndex(F, n, i) <= H[n] /\ CaptureIndex(F, n, i) \in 1 .. L[n + 2 + 2 * m] - 1
              ELSE CaptureIndex(F, n, i) < F.upvalueCount
  PROVE  Finishes(fns, F, H, L, n) /\ InstructionLength(fns, F, n) = 2 + 2 * m
<1>1. ConstantAt(F, n) = FunctionConstant(g) /\ ConstantAt(F, n).val = g
      /\ ConstantAt(F, n).type = "FUNCTION"
  BY DEF ConstantAt, FunctionConstant
<1>2. InstructionLength(fns, F, n) = 2 + 2 * m
  BY <1>1 DEF InstructionLength
<1>3. n + (2 + 2 * m) = n + 2 + 2 * m
  OBVIOUS
<1>4. Successors(fns, F, n) = {n + 2 + 2 * m}
  BY <1>2, <1>3 DEF Successors
<1>5. VerifiedAt(fns, F, H, n)
  BY <1>1, <1>2, <1>3 DEF VerifiedAt, ConstantAt
<1>6. KeepsAt(fns, F, H, L, n)
  BY <1>1, <1>4 DEF KeepsAt
<1> QED BY <1>2, <1>5, <1>6 DEF Finishes

-----------------------------------------------------------------------------
(* What the tasks that wait have found is still there.                     *)

LEMMA SituationFacts ==
  /\ \A s \in Situations :
       /\ s.height \in Nat /\ s.live \in Nat /\ s.locals \in Nat /\ s.depth \in Nat
       /\ s.kind \in {"exact", "loose", "popping"}
       /\ s.kind = "loose" => s = Loose(s.depth)
       /\ s.kind = "popping" => s = Popping(s.depth)
  /\ \A s \in Situations, h \in Nat : s.kind = "exact" =>
       LET r == [s EXCEPT !.height = h]
       IN  /\ r \in Situations /\ r.kind = "exact" /\ r.depth = s.depth
           /\ r.height = h /\ r.live = s.live /\ r.locals = s.locals
  /\ \A d, h, l, n \in Nat : Exact(d, h, l, n) \in Situations
  /\ \A d \in Nat : Loose(d) \in Situations /\ Popping(d) \in Situations
  /\ \A d, h, l, n : /\ Exact(d, h, l, n).kind = "exact" /\ Exact(d, h, l, n).depth = d
                     /\ Exact(d, h, l, n).height = h /\ Exact(d, h, l, n).live = l
                     /\ Exact(d, h, l, n).locals = n
  /\ \A d : /\ Loose(d).kind = "loose" /\ Loose(d).depth = d
           /\ Popping(d).kind = "popping" /\ Popping(d).depth = d
<1>1. \A d, h, l, n : /\ Exact(d, h, l, n).kind = "exact" /\ Exact(d, h, l, n).depth = d
                     /\ Exact(d, h, l, n).height = h /\ Exact(d, h, l, n).live = l
                     /\ Exact(d, h, l, n).locals = n
  BY DEF Exact
<1>2. \A d : /\ Loose(d).kind = "loose" /\ Loose(d).depth = d
            /\ Loose(d).height = 0 /\ Loose(d).live = 0 /\ Loose(d).locals = 0
            /\ Popping(d).kind = "popping" /\ Popping(d).depth = d
            /\ Popping(d).height = 0 /\ Popping(d).live = 0 /\ Popping(d).locals = 0
  BY DEF Loose, Popping
<1>3. \A s \in Situations :
        \/ \E d, h, l, n \in Nat : s = Exact(d, h, l, n)
        \/ \E d \in Nat : s = Loose(d)
        \/ \E d \in Nat : s = Popping(d)
  BY DEF Situations
<1>4. \A d, h, l, n \in Nat : Exact(d, h, l, n) \in Situations
  BY DEF Situations
<1>5. \A d \in Nat : Loose(d) \in Situations /\ Popping(d) \in Situations
  BY DEF Situations
<1>6. ASSUME NEW s \in Situations
      PROVE  /\ s.height \in Nat /\ s.live \in Nat /\ s.locals \in Nat /\ s.depth \in Nat
             /\ s.kind \in {"exact", "loose", "popping"}
             /\ s.kind = "loose" => s = Loose(s.depth)
             /\ s.kind = "popping" => s = Popping(s.depth)
  <2>1. CASE \E d, h, l, n \in Nat : s = Exact(d, h, l, n)
    BY <1>1, <2>1
  <2>2. CASE \E d \in Nat : s = Loose(d)
    BY <1>2, <2>2
  <2>3. CASE \E d \in Nat : s = Popping(d)
    BY <1>2, <2>3
  <2> QED BY <1>3, <2>1, <2>2, <2>3
<1>7. ASSUME NEW s \in Situations, NEW h \in Nat, s.kind = "exact"
      PROVE  LET r == [s EXCEPT !.height = h]
             IN  /\ r \in Situations /\ r.kind = "exact" /\ r.depth = s.depth
                 /\ r.height = h /\ r.live = s.live /\ r.locals = s.locals
  <2>1. PICK d \in Nat, g \in Nat, l \in Nat, n \in Nat : s = Exact(d, g, l, n)
    BY <1>2, <1>3, <1>7
  <2>2. [s EXCEPT !.height = h] = Exact(d, h, l, n)
    BY <2>1 DEF Exact
  <2>3. s.depth = d /\ s.live = l /\ s.locals = n
    BY <1>1, <2>1
  <2>4. Exact(d, h, l, n) \in Situations
    BY <1>4
  <2>5. /\ Exact(d, h, l, n).kind = "exact" /\ Exact(d, h, l, n).depth = d
        /\ Exact(d, h, l, n).height = h /\ Exact(d, h, l, n).live = l
        /\ Exact(d, h, l, n).locals = n
    BY <1>1
  <2> DEFINE r == [s EXCEPT !.height = h]
  <2>6. r = Exact(d, h, l, n)
    BY <2>2
  <2> HIDE DEF r
  <2>7. /\ r \in Situations /\ r.kind = "exact" /\ r.depth = s.depth
        /\ r.height = h /\ r.live = s.live /\ r.locals = s.locals
    BY <2>3, <2>4, <2>5, <2>6
  <2> QED BY <2>7 DEF r
<1> QED BY <1>1, <1>2, <1>4, <1>5, <1>6, <1>7

Evolves(fc, w, fc2, w2, d) ==
  /\ fc2.todo = fc.todo /\ fc2.type = fc.type
  /\ \A o \in DOMAIN Heights(fc, w) :
       /\ o \in DOMAIN Heights(fc2, w2) /\ Heights(fc2, w2)[o] = Heights(fc, w)[o]
       /\ Covered(fc, w)[o] \in Nat /\ Covered(fc2, w2)[o] \in Nat
       /\ Covered(fc2, w2)[o] >= Covered(fc, w)[o]
  /\ \A o \in DOMAIN w.heights :
       /\ o \in DOMAIN w2.heights
       /\ w2.heights[o] = w.heights[o] /\ w2.locals[o] = w.locals[o]
       /\ fc2.code[o + 1] = fc.code[o + 1]
  /\ \A i \in DOMAIN fc.constants : i \in DOMAIN fc2.constants /\ fc2.constants[i] = fc.constants[i]
  /\ Len(fc.upvalues) \in Nat /\ Len(fc2.upvalues) \in Nat /\ Len(fc.upvalues) <= Len(fc2.upvalues)
  /\ \A e \in 0 .. d : Base(fc2, e) = Base(fc, e)

LEMMA FindsKept ==
  ASSUME NEW fc, NEW w, NEW fc2, NEW w2, NEW d \in Nat, NEW t,
         NEW in \in Situations, NEW out \in Situations,
         Evolves(fc, w, fc2, w2, d), in.depth <= d, t.do \notin Immediate,
         Finds(fc, w, t, in, out)
  PROVE  Finds(fc2, w2, t, in, out)
<1>1. \A offset, h, l : JumpFrom(fc, w, offset, h, l) => JumpFrom(fc2, w2, offset, h, l)
  <2> SUFFICES ASSUME NEW offset, NEW h, NEW l, JumpFrom(fc, w, offset, h, l)
               PROVE  JumpFrom(fc2, w2, offset, h, l)
    OBVIOUS
  <2>1. offset \in Nat /\ offset - 1 \in DOMAIN w.heights /\ offset - 1 + 1 = offset
    BY DEF JumpFrom
  <2>2. fc2.code[offset] = fc.code[offset]
    BY <2>1 DEF Evolves
  <2> QED BY <2>1, <2>2 DEF JumpFrom, Evolves
<1>2. \A start : \A h \in Int : LoopTo(fc, w, start, h) => LoopTo(fc2, w2, start, h)
  <2> SUFFICES ASSUME NEW start, NEW h \in Int, LoopTo(fc, w, start, h)
               PROVE  LoopTo(fc2, w2, start, h)
    OBVIOUS
  <2>1. Flows(Heights(fc, w), start, h) /\ Covered(fc, w)[start] >= h
    BY DEF LoopTo
  <2>2. start \in DOMAIN Heights(fc, w) /\ Heights(fc, w)[start] = h
    BY <2>1 DEF Flows
  <2>3. /\ start \in DOMAIN Heights(fc2, w2) /\ Heights(fc2, w2)[start] = h
        /\ Covered(fc, w)[start] \in Nat /\ Covered(fc2, w2)[start] \in Nat
        /\ Covered(fc2, w2)[start] >= Covered(fc, w)[start]
    BY <2>2 DEF Evolves
  <2> QED BY <2>1, <2>3 DEF LoopTo, Flows
<1>3. \A a : IsString(fc, a) => IsString(fc2, a)
  BY DEF IsString, Evolves
<1>4. Base(fc2, in.depth) = Base(fc, in.depth)
  BY SituationFacts DEF Evolves
<1>5. in.height \in Nat /\ in.height - 1 \in Int
  BY SituationFacts
<1>6. CASE t.do \in {"PatchJump", "OrElse", "Else", "IfElse"}
  BY <1>1, <1>6 DEF Finds
<1>7. CASE t.do \in {"WhileBody", "ForExit"}
  BY <1>2, <1>5, <1>7 DEF Finds
<1>8. CASE t.do \in {"EndLoop", "ForBody"}
  BY <1>1, <1>2, <1>5, <1>8 DEF Finds
<1>9. CASE t.do = "ForIncrement"
  BY <1>1, <1>2, <1>5, <1>9 DEF Finds
<1>10. CASE t.do = "Emit"
  <2>1. fc2.type = fc.type
    BY DEF Evolves
  <2>2. t.args[2] \in 0 .. Len(fc.upvalues) - 1 => t.args[2] \in 0 .. Len(fc2.upvalues) - 1
    BY DEF Evolves
  <2> QED BY <1>3, <1>10, <2>1, <2>2 DEF Finds
<1>11. CASE t.do = "DefineVariable"
  BY <1>3, <1>4, <1>11 DEF Finds
<1>12. CASE t.do = "EndScope"
  BY <1>4, <1>12 DEF Finds
<1>13. CASE t.do \in {"EndCompiler", "Finish"}
  <2>1. fc2.type = fc.type
    BY DEF Evolves
  <2> QED BY <1>13, <2>1 DEF Finds
<1>14. CASE t.do \notin {"PatchJump", "OrElse", "Else", "IfElse", "WhileBody", "ForExit", "EndLoop",
                         "ForBody", "ForIncrement", "Emit", "DefineVariable", "EndScope",
                         "EndCompiler", "Finish"}
  BY <1>14 DEF Finds, Immediate
<1> QED BY <1>6, <1>7, <1>8, <1>9, <1>10, <1>11, <1>12, <1>13, <1>14

LEMMA PlannedKept ==
  ASSUME NEW fc, NEW w, NEW fc2, NEW w2, NEW out \in Situations,
         IsSequence(fc.todo), Evolves(fc, w, fc2, w2, out.depth), Planned(fc, w, out)
  PROVE  Planned(fc2, w2, out)
<1>1. PICK plan \in [0 .. Len(fc.todo) -> Situations] :
        IsPlan(fc, w, plan) /\ plan[Len(fc.todo)] = out
  BY DEF Planned
<1>2. fc2.todo = fc.todo /\ Len(fc.todo) \in Nat /\ DOMAIN fc.todo = 1 .. Len(fc.todo)
  BY SequenceFacts DEF Evolves
<1>3. ASSUME NEW i \in DOMAIN fc.todo
      PROVE  Placed(fc2, w2, fc.todo[i], i, plan[i], plan[i - 1])
  <2>1. i \in 0 .. Len(fc.todo) /\ i - 1 \in 0 .. Len(fc.todo) /\ Len(fc.todo) \in 0 .. Len(fc.todo)
    BY <1>2, <1>3
  <2>2. plan[i] \in Situations /\ plan[i - 1] \in Situations
    BY <1>1, <2>1
  <2>3. plan[i].depth <= out.depth
    <3>1. DOMAIN plan = 0 .. Len(fc.todo) /\ i <= Len(fc.todo)
      BY <1>1, <1>2, <1>3
    <3>2. \A a, b \in DOMAIN plan : a <= b => plan[a].depth <= plan[b].depth
      BY <1>1, Zenon DEF IsPlan
    <3> QED BY <1>1, <2>1, <3>1, <3>2
  <2>4. Placed(fc, w, fc.todo[i], i, plan[i], plan[i - 1]) /\ fc.todo[i].do \notin Immediate
    BY <1>1, <1>3 DEF IsPlan
  <2>5. out.depth \in Nat
    BY SituationFacts
  <2>6. Finds(fc2, w2, fc.todo[i], plan[i], plan[i - 1])
    BY <2>2, <2>3, <2>4, <2>5, FindsKept DEF Placed
  <2> QED BY <2>4, <2>6 DEF Placed
<1>4. IsPlan(fc2, w2, plan)
  BY <1>1, <1>2, <1>3 DEF IsPlan
<1> QED BY <1>1, <1>2, <1>4 DEF Planned

-----------------------------------------------------------------------------
(* Tasks are pushed and popped.                                            *)

(* Compilers that differ in nothing but their tasks.                       *)
SameButTodo(fc, fc2) ==
  /\ fc2.type = fc.type /\ fc2.arity = fc.arity /\ fc2.code = fc.code
  /\ fc2.constants = fc.constants /\ fc2.locals = fc.locals /\ fc2.upvalues = fc.upvalues
  /\ fc2.scopeDepth = fc.scopeDepth

LEMMA FindsAnyTodo ==
  ASSUME NEW fc, NEW fc2, NEW w, NEW t, NEW in, NEW out,
         SameButTodo(fc, fc2), t.do \notin Immediate, Finds(fc, w, t, in, out)
  PROVE  Finds(fc2, w, t, in, out)
<1>1. Heights(fc2, w) = Heights(fc, w) /\ Covered(fc2, w) = Covered(fc, w)
  BY DEF SameButTodo, Heights, Covered, Live
<1>2. \A offset, h, l : JumpFrom(fc, w, offset, h, l) => JumpFrom(fc2, w, offset, h, l)
  BY DEF SameButTodo, JumpFrom
<1>3. \A start, h : LoopTo(fc, w, start, h) => LoopTo(fc2, w, start, h)
  BY <1>1 DEF LoopTo
<1>4. \A a : IsString(fc, a) => IsString(fc2, a)
  BY DEF IsString, SameButTodo
<1>5. \A e : Base(fc2, e) = Base(fc, e)
  BY DEF Base, SameButTodo
<1>6. fc2.type = fc.type /\ fc2.upvalues = fc.upvalues
  BY DEF SameButTodo
<1>7. CASE t.do \in {"PatchJump", "OrElse", "Else", "IfElse"}
  BY <1>2, <1>7 DEF Finds
<1>8. CASE t.do \in {"WhileBody", "ForExit"}
  BY <1>3, <1>8 DEF Finds
<1>9. CASE t.do \in {"EndLoop", "ForBody", "ForIncrement"}
  BY <1>2, <1>3, <1>9 DEF Finds
<1>10. CASE t.do = "Emit"
  BY <1>4, <1>6, <1>10 DEF Finds
<1>11. CASE t.do \in {"DefineVariable", "EndScope"}
  BY <1>4, <1>5, <1>11 DEF Finds
<1>12. CASE t.do \in {"EndCompiler", "Finish"}
  BY <1>6, <1>12 DEF Finds
<1>13. CASE t.do \notin {"PatchJump", "OrElse", "Else", "IfElse", "WhileBody", "ForExit", "EndLoop",
                         "ForBody", "ForIncrement", "Emit", "DefineVariable", "EndScope",
                         "EndCompiler", "Finish"}
  BY <1>13 DEF Finds, Immediate
<1> QED BY <1>7, <1>8, <1>9, <1>10, <1>11, <1>12, <1>13

LEMMA PlannedPush ==
  ASSUME NEW fc, NEW fc2, NEW w, NEW t, NEW in \in Situations, NEW out \in Situations,
         IsSequence(fc.todo), SameButTodo(fc, fc2), fc2.todo = Append(fc.todo, t),
         Planned(fc, w, out), t.do \notin Immediate, Placed(fc, w, t, Len(fc.todo) + 1, in, out)
  PROVE  Planned(fc2, w, in)
<1> DEFINE n == Len(fc.todo)
<1>1. PICK plan \in [0 .. n -> Situations] : IsPlan(fc, w, plan) /\ plan[n] = out
  BY DEF Planned
<1> DEFINE plan2 == [i \in 0 .. n + 1 |-> IF i = n + 1 THEN in ELSE plan[i]]
<1>2. n \in Nat /\ DOMAIN fc.todo = 1 .. n
  BY SequenceFacts
<1>3. /\ IsSequence(fc2.todo) /\ Len(fc2.todo) = n + 1
      /\ \A i \in 1 .. n : fc2.todo[i] = fc.todo[i]
      /\ fc2.todo[n + 1] = t
  BY SequenceAppend
<1>4. DOMAIN fc2.todo = 1 .. n + 1
  BY <1>3, SequenceFacts
<1>5. plan2 \in [0 .. n + 1 -> Situations] /\ plan2[n + 1] = in
      /\ \A i \in 0 .. n : plan2[i] = plan[i]
  BY <1>1, <1>2
<1> HIDE DEF plan2
<1>6. ASSUME NEW i \in 1 .. n + 1
      PROVE  fc2.todo[i].do \notin Immediate /\ Placed(fc2, w, fc2.todo[i], i, plan2[i], plan2[i - 1])
  <2>1. CASE i = n + 1
    <3>1. i - 1 = n /\ plan2[i - 1] = out /\ plan2[i] = in /\ fc2.todo[i] = t
      BY <1>1, <1>2, <1>3, <1>5, <2>1
    <3>2. Finds(fc2, w, t, in, out)
      BY FindsAnyTodo DEF Placed
    <3> QED BY <2>1, <3>1, <3>2 DEF Placed
  <2>2. CASE i \in 1 .. n
    <3>1. i - 1 \in 0 .. n /\ i \in 0 .. n
      BY <1>2, <2>2
    <3>2. fc.todo[i].do \notin Immediate /\ Placed(fc, w, fc.todo[i], i, plan[i], plan[i - 1])
      BY <1>1, <1>2, <2>2 DEF IsPlan
    <3>3. Finds(fc2, w, fc.todo[i], plan[i], plan[i - 1])
      BY <3>2, FindsAnyTodo DEF Placed
    <3> QED BY <1>3, <1>5, <2>2, <3>1, <3>2, <3>3 DEF Placed
  <2> QED BY <1>2, <1>6, <2>1, <2>2
<1>7. ASSUME NEW i \in 0 .. n + 1, NEW j \in 0 .. n + 1, i <= j
      PROVE  plan2[i].depth <= plan2[j].depth
  <2>1. \A k \in 0 .. n : plan[k].depth \in Nat /\ plan[k].depth <= out.depth
    <3>1. n \in 0 .. n /\ DOMAIN plan = 0 .. n
      BY <1>1, <1>2
    <3>2. \A k \in 0 .. n : plan[k].depth <= plan[n].depth
      BY <1>1, <1>2, <3>1 DEF IsPlan
    <3> QED BY <1>1, <3>1, <3>2, SituationFacts
  <2>2. out.depth <= in.depth /\ in.depth \in Nat /\ out.depth \in Nat
    BY SituationFacts DEF Placed
  <2>3. CASE j = n + 1
    BY <1>2, <1>5, <1>7, <2>1, <2>2, <2>3, SMTT(30)
  <2>4. CASE j # n + 1
    BY <1>1, <1>2, <1>5, <1>7, <2>4 DEF IsPlan
  <2> QED BY <2>3, <2>4
<1>8. DOMAIN plan2 = 0 .. n + 1
  BY <1>5
<1>9. IsPlan(fc2, w, plan2)
  BY <1>4, <1>6, <1>7, <1>8 DEF IsPlan
<1> QED BY <1>3, <1>5, <1>9 DEF Planned

LEMMA PlannedPop ==
  ASSUME NEW fc, NEW fc2, NEW w, NEW in \in Situations,
         IsSequence(fc.todo), fc.todo # << >>, SameButTodo(fc, fc2), fc2.todo = Front(fc.todo),
         Planned(fc, w, in)
  PROVE  /\ Last(fc.todo).do \notin Immediate
         /\ \E out \in Situations : /\ Planned(fc2, w, out)
                                    /\ Placed(fc2, w, Last(fc.todo), Len(fc2.todo) + 1, in, out)
<1> DEFINE n == Len(fc.todo)
<1>1. PICK plan \in [0 .. n -> Situations] : IsPlan(fc, w, plan) /\ plan[n] = in
  BY DEF Planned
<1>2. n \in Nat /\ n >= 1 /\ DOMAIN fc.todo = 1 .. n
  BY SequenceFacts
<1>3. /\ IsSequence(fc2.todo) /\ Len(fc2.todo) = n - 1
      /\ \A i \in 1 .. n - 1 : fc2.todo[i] = fc.todo[i]
  BY SequenceFront
<1>4. DOMAIN fc2.todo = 1 .. n - 1
  BY <1>3, SequenceFacts
<1> DEFINE plan2 == [i \in 0 .. n - 1 |-> plan[i]]
<1>5. plan2 \in [0 .. n - 1 -> Situations] /\ \A i \in 0 .. n - 1 : plan2[i] = plan[i]
  BY <1>1, <1>2
<1> HIDE DEF plan2
<1>6. ASSUME NEW i \in 1 .. n
      PROVE  fc.todo[i].do \notin Immediate /\ Placed(fc2, w, fc.todo[i], i, plan[i], plan[i - 1])
  <2>1. fc.todo[i].do \notin Immediate /\ Placed(fc, w, fc.todo[i], i, plan[i], plan[i - 1])
    BY <1>1, <1>2 DEF IsPlan
  <2>2. Finds(fc2, w, fc.todo[i], plan[i], plan[i - 1])
    BY <2>1, FindsAnyTodo DEF Placed
  <2> QED BY <2>1, <2>2 DEF Placed
<1>7. DOMAIN plan2 = 0 .. n - 1 /\ DOMAIN plan = 0 .. n
  BY <1>1, <1>5
<1>8. ASSUME NEW i \in 1 .. n - 1
      PROVE  fc2.todo[i].do \notin Immediate /\ Placed(fc2, w, fc2.todo[i], i, plan2[i], plan2[i - 1])
  <2>1. i \in 1 .. n /\ i \in 0 .. n - 1 /\ i - 1 \in 0 .. n - 1
    BY <1>2
  <2> QED BY <1>3, <1>5, <1>6, <2>1
<1>9. \A i, j \in 0 .. n - 1 : i <= j => plan2[i].depth <= plan2[j].depth
  BY <1>1, <1>2, <1>5, <1>7 DEF IsPlan
<1>10. IsPlan(fc2, w, plan2)
  BY <1>4, <1>7, <1>8, <1>9 DEF IsPlan
<1>11. n - 1 \in 0 .. n - 1 /\ plan2[n - 1] \in Situations
  BY <1>2, <1>5
<1>12. Planned(fc2, w, plan2[n - 1])
  BY <1>3, <1>5, <1>10 DEF Planned
<1>13. Placed(fc2, w, Last(fc.todo), n - 1 + 1, in, plan2[n - 1]) /\ Last(fc.todo).do \notin Immediate
  BY <1>1, <1>2, <1>5, <1>6, <1>11 DEF Last
<1> QED BY <1>3, <1>11, <1>12, <1>13

LEMMA AwaitedAppend ==
  ASSUME NEW todo, NEW t, IsSequence(todo)
  PROVE  Awaited(Append(todo, t)) = Awaited(todo) \cup AwaitedBy(t)
<1> DEFINE s == Append(todo, t)
           n == Len(todo)
<1>1. /\ IsSequence(s) /\ Len(s) = n + 1 /\ n \in Nat
      /\ \A i \in 1 .. n : s[i] = todo[i]
      /\ s[n + 1] = t
  BY SequenceAppend, SequenceFacts
<1>2. DOMAIN s = 1 .. n + 1 /\ DOMAIN todo = 1 .. n
  BY <1>1, SequenceFacts
<1> HIDE DEF s
<1>3. \A i \in 1 .. n + 1 : i = n + 1 \/ i \in 1 .. n
  BY <1>1
<1>4. n + 1 \in 1 .. n + 1 /\ \A i \in 1 .. n : i \in 1 .. n + 1
  BY <1>1
<1>5. Awaited(s) = UNION {AwaitedBy(s[i]) : i \in 1 .. n + 1}
  BY <1>2 DEF Awaited
<1>6. Awaited(todo) = UNION {AwaitedBy(todo[i]) : i \in 1 .. n}
  BY <1>2 DEF Awaited
<1>7. ASSUME NEW x \in Awaited(s)
      PROVE  x \in Awaited(todo) \cup AwaitedBy(t)
  <2>1. PICK i \in 1 .. n + 1 : x \in AwaitedBy(s[i])
    BY <1>5
  <2> QED BY <1>1, <1>3, <1>6, <2>1
<1>8. ASSUME NEW x \in Awaited(todo) \cup AwaitedBy(t)
      PROVE  x \in Awaited(s)
  <2>1. CASE x \in AwaitedBy(t)
    BY <1>1, <1>4, <1>5, <2>1
  <2>2. CASE x \in Awaited(todo)
    <3>1. PICK i \in 1 .. n : x \in AwaitedBy(todo[i])
      BY <1>6, <2>2
    <3> QED BY <1>1, <1>4, <1>5, <3>1
  <2> QED BY <2>1, <2>2
<1>9. Awaited(s) = Awaited(todo) \cup AwaitedBy(t)
  BY <1>7, <1>8
<1> QED BY <1>9 DEF s

-----------------------------------------------------------------------------
(* Windows.                                                                *)

LEMMA LiveFacts ==
  ASSUME NEW fc, IsFunctionCompiler(fc), LocalsSound(fc)
  PROVE  /\ Len(fc.locals) \in Nat /\ Len(fc.locals) >= 1 /\ DOMAIN fc.locals = 1 .. Len(fc.locals)
         /\ Live(fc) \in Nat /\ Live(fc) >= 1
         /\ Live(fc) = Len(fc.locals) - 1 \/ Live(fc) = Len(fc.locals)
         /\ Live(fc) = Len(fc.locals) - 1 <=> fc.locals[Len(fc.locals)].depth = UINT8_MAX
<1>1. Len(fc.locals) \in Nat /\ Len(fc.locals) >= 1 /\ DOMAIN fc.locals = 1 .. Len(fc.locals)
  BY SequenceFacts DEF IsFunctionCompiler, LocalsSound
<1>2. fc.locals[1].depth = 0 /\ UINT8_MAX # 0
  <2>1. fc.locals[1] = [name |-> "", depth |-> 0]
    BY DEF LocalsSound
  <2>2. fc.locals[1].depth = [name |-> "", depth |-> 0].depth
    BY <2>1, Zenon
  <2> QED BY <2>2, UInt8Assumption
<1>3. Last(fc.locals) = fc.locals[Len(fc.locals)] /\ fc.locals # << >>
  BY DEF Last, LocalsSound
<1>4. Live(fc) = IF fc.locals[Len(fc.locals)].depth = UINT8_MAX THEN Len(fc.locals) - 1 ELSE Len(fc.locals)
  BY <1>3 DEF Live
<1> QED BY <1>1, <1>2, <1>4

LEMMA FinishedFields ==
  ASSUME NEW fc
  PROVE  /\ Finished(fc).code = fc.code /\ Finished(fc).constants = fc.constants
         /\ Finished(fc).arity = fc.arity /\ Finished(fc).upvalueCount = Len(fc.upvalues)
         /\ Finished(fc).upvalues = fc.upvalues
BY DEF Finished

LEMMA LesserFacts ==
  ASSUME NEW m \in Nat, NEW n \in Nat
  PROVE  /\ Lesser(m, n) \in Nat /\ Lesser(m, n) <= m /\ Lesser(m, n) <= n
         /\ Lesser(m, n) = m \/ Lesser(m, n) = n
BY DEF Lesser

(* The maps of a window, and those of the code so far.                     *)
Windowed(fc, w) ==
  LET n == Len(fc.code)
      H == Heights(fc, w)
      L == Covered(fc, w)
  IN  /\ n \in Nat /\ n \notin DOMAIN w.heights
      /\ DOMAIN w.locals = DOMAIN w.heights /\ DOMAIN w.heights \subseteq Nat
      /\ DOMAIN H = DOMAIN w.heights \cup {n} /\ DOMAIN L = DOMAIN H
      /\ \A o \in DOMAIN w.heights :
           /\ o < n /\ H[o] = w.heights[o] /\ L[o] = w.locals[o]
           /\ w.heights[o] \in Nat \ {0} /\ w.locals[o] \in Nat
      /\ H[n] = w.now /\ w.now \in Nat \ {0}
      /\ L[n] = Lesser(Live(fc), w.now) /\ L[n] \in Nat
      /\ Starts(Finished(fc), H) = DOMAIN w.heights

LEMMA WindowFacts ==
  ASSUME NEW fns, NEW fc, NEW w, NEW E, IsFunctionCompiler(fc), IsWindow(fc, w),
         ChunkSound(fns, Finished(fc), Heights(fc, w), Covered(fc, w), E)
  PROVE  Windowed(fc, w)
<1> DEFINE n == Len(fc.code)
           H == Heights(fc, w)
           L == Covered(fc, w)
<1>1. n \in Nat
  BY SequenceFacts DEF IsFunctionCompiler
<1>2. n \notin DOMAIN w.heights /\ DOMAIN w.locals = DOMAIN w.heights
      /\ \A o \in DOMAIN w.heights : o \in Nat /\ o < n
  BY <1>1 DEF IsWindow
<1>3. /\ DOMAIN H = DOMAIN w.heights \cup {n} /\ DOMAIN L = DOMAIN w.locals \cup {n}
      /\ H[n] = w.now /\ L[n] = Lesser(Live(fc), w.now)
      /\ \A o \in DOMAIN w.heights : H[o] = w.heights[o] /\ L[o] = w.locals[o]
  BY <1>2 DEF Heights, Covered, Noted
<1>4. H \in [DOMAIN H -> Nat \ {0}] /\ L \in [DOMAIN H -> Nat]
  BY DEF ChunkSound
<1>5. Starts(Finished(fc), H) = DOMAIN w.heights
  BY <1>2, <1>3, FinishedFields DEF Starts
<1> HIDE DEF H, L
<1>6. \A o \in DOMAIN H : H[o] \in Nat \ {0} /\ L[o] \in Nat
  BY <1>4
<1>7. \A o \in DOMAIN w.heights : w.heights[o] \in Nat \ {0} /\ w.locals[o] \in Nat
  BY <1>3, <1>6
<1>8. w.now \in Nat \ {0} /\ L[n] \in Nat
  BY <1>3, <1>6
<1> QED BY <1>1, <1>2, <1>3, <1>5, <1>7, <1>8 DEF H, L, Windowed

(* Constants, upvalues and functions are added, and locals changed that no *)
(* waiting task counts on.                                                 *)
LEMMA ReadyGrows ==
  ASSUME NEW fns, NEW fc, NEW w, NEW E, NEW out \in Situations, NEW fns2, NEW fc2,
         Ready(fns, fc, w, E, out), IsFunctionCompiler(fc2), LocalsSound(fc2),
         fc2.type = fc.type, fc2.arity = fc.arity, fc2.code = fc.code, fc2.todo = fc.todo,
         \A i \in DOMAIN fc.constants : i \in DOMAIN fc2.constants /\ fc2.constants[i] = fc.constants[i],
         Len(fc.upvalues) <= Len(fc2.upvalues),
         Lesser(Live(fc2), w.now) >= Lesser(Live(fc), w.now),
         \A e \in 0 .. out.depth : Base(fc2, e) = Base(fc, e),
         \A f \in DOMAIN fns : f \in DOMAIN fns2 /\ fns2[f] = fns[f],
         FunctionsKnown(fns2, Finished(fc2))
  PROVE  Ready(fns2, fc2, w, E, out)
<1> DEFINE n == Len(fc.code)
           H == Heights(fc, w)
           L == Covered(fc, w)
           L2 == Covered(fc2, w)
<1>1. /\ IsFunctionCompiler(fc) /\ LocalsSound(fc) /\ IsWindow(fc, w) /\ Planned(fc, w, out)
      /\ ChunkSound(fns, Finished(fc), H, L, E)
  BY DEF Ready
<1>2. IsWindow(fc2, w)
  BY <1>1 DEF IsWindow, OpAt
<1>3. Heights(fc2, w) = H
  BY DEF Heights
<1>4. /\ n \in Nat /\ n \notin DOMAIN w.heights
      /\ DOMAIN w.locals = DOMAIN w.heights /\ DOMAIN w.heights \subseteq Nat
      /\ DOMAIN H = DOMAIN w.heights \cup {n} /\ DOMAIN L = DOMAIN H
      /\ \A o \in DOMAIN w.heights :
           /\ o < n /\ H[o] = w.heights[o] /\ L[o] = w.locals[o]
           /\ w.heights[o] \in Nat \ {0} /\ w.locals[o] \in Nat
      /\ H[n] = w.now /\ w.now \in Nat \ {0}
      /\ L[n] = Lesser(Live(fc), w.now) /\ L[n] \in Nat
  <2>1. Windowed(fc, w)
    BY <1>1, WindowFacts
  <2> QED BY <2>1 DEF Windowed
<1>5. Live(fc2) \in Nat
  BY LiveFacts
<1>6. /\ DOMAIN L2 = DOMAIN w.heights \cup {n} /\ L2[n] = Lesser(Live(fc2), w.now)
      /\ \A o \in DOMAIN w.heights : L2[o] = w.locals[o]
  BY <1>4 DEF Covered, Noted
<1>7. L2[n] \in Nat /\ L2[n] >= L[n]
  BY <1>4, <1>5, <1>6, LesserFacts
<1>8. L2 \in [DOMAIN H -> Nat]
  <2>1. L2 = [o \in DOMAIN L2 |-> L2[o]]
    BY DEF Covered, Noted
  <2> HIDE DEF L2
  <2> QED BY <1>4, <1>6, <1>7, <2>1
<1>9. Len(fc.upvalues) \in Nat /\ Len(fc2.upvalues) \in Nat
  BY <1>1, SequenceFacts DEF IsFunctionCompiler
<1>10. /\ \A o \in DOMAIN H : H[o] \in Nat \ {0}
       /\ L \in [DOMAIN H -> Nat] /\ FunctionsKnown(fns, Finished(fc))
       /\ DOMAIN H \subseteq 0 .. n
  BY <1>1, FinishedFields DEF ChunkSound
<1>11. Extends(fns, Finished(fc), H, L, fns2, Finished(fc2), H, L2)
  <2>1. \A o \in DOMAIN H : L2[o] >= L[o] /\ (o # n => L2[o] = L[o])
    BY <1>4, <1>6, <1>7
  <2> HIDE DEF H, L, L2
  <2> QED BY <1>4, <1>8, <1>9, <1>10, <2>1, FinishedFields DEF Extends
<1>12. ChunkSound(fns2, Finished(fc2), H, L2, E)
  <2> HIDE DEF H, L, L2
  <2> QED BY <1>1, <1>11, FinishedFields, ChunkGrows
<1>13. Evolves(fc, w, fc2, w, out.depth)
  <2>1. \A o \in DOMAIN H : L[o] \in Nat /\ L2[o] \in Nat /\ L2[o] >= L[o]
    BY <1>4, <1>6, <1>7
  <2> QED BY <1>3, <1>9, <2>1 DEF Evolves
<1>14. Planned(fc2, w, out)
  BY <1>1, <1>13, PlannedKept DEF IsFunctionCompiler
<1> QED BY <1>2, <1>3, <1>12, <1>14 DEF Ready

(* What an emitted instruction finds, and leaves.                          *)
Emitted(fc, w, fc2, bytes, h) ==
  LET n == Len(fc.code)
      k == Len(bytes)
      w2 == After(fc, w, h)
      H == Heights(fc2, w2)
      L == Covered(fc2, w2)
  IN  /\ n \in Nat /\ k \in Nat \ {0} /\ Len(fc2.code) = n + k
      /\ H = Noted(Heights(fc, w), n + k, h)
      /\ L = Noted(Covered(fc, w), n + k, Lesser(Live(fc), h))
      /\ H[n] = w.now /\ H[n + k] = h /\ w.now \in Nat \ {0}
      /\ DOMAIN w2.heights = DOMAIN w.heights \cup {n} /\ DOMAIN w2.locals = DOMAIN w2.heights
      /\ DOMAIN H = DOMAIN w.heights \cup {n, n + k}
      /\ L[n] = Lesser(Live(fc), w.now) /\ L[n + k] = Lesser(Live(fc), h)
      /\ L[n] \in Nat /\ L[n + k] \in Nat
      /\ L[n + k] >= L[n] \/ L[n + k] >= H[n + k]
      /\ \A i \in 1 .. n : fc2.code[i] = fc.code[i]
      /\ \A i \in 1 .. k : fc2.code[n + i] = bytes[i]

LEMMA EmitFacts ==
  ASSUME NEW fns, NEW fc, NEW w, NEW E, NEW fc2, NEW bytes, NEW h,
         IsFunctionCompiler(fc), LocalsSound(fc), IsWindow(fc, w),
         ChunkSound(fns, Finished(fc), Heights(fc, w), Covered(fc, w), E),
         fc2.code = fc.code \o bytes, fc2.locals = fc.locals,
         IsSequence(bytes), bytes # << >>, h \in Nat \ {0}
  PROVE  Emitted(fc, w, fc2, bytes, h)
<1> DEFINE n == Len(fc.code)
           k == Len(bytes)
           w2 == After(fc, w, h)
           H == Heights(fc, w)
           L == Covered(fc, w)
<1>1. /\ n \in Nat /\ k \in Nat \ {0} /\ Len(fc2.code) = n + k
      /\ \A i \in 1 .. n : fc2.code[i] = fc.code[i]
      /\ \A i \in 1 .. k : fc2.code[n + i] = bytes[i]
  <2>1. IsSequence(fc.code)
    BY DEF IsFunctionCompiler
  <2> QED BY <2>1, SequenceFacts, SequenceConcat
<1>2. /\ n \in Nat /\ n \notin DOMAIN w.heights
      /\ DOMAIN w.locals = DOMAIN w.heights /\ DOMAIN w.heights \subseteq Nat
      /\ DOMAIN H = DOMAIN w.heights \cup {n} /\ DOMAIN L = DOMAIN H
      /\ \A o \in DOMAIN w.heights :
           /\ o < n /\ H[o] = w.heights[o] /\ L[o] = w.locals[o]
           /\ w.heights[o] \in Nat \ {0} /\ w.locals[o] \in Nat
      /\ H[n] = w.now /\ w.now \in Nat \ {0}
      /\ L[n] = Lesser(Live(fc), w.now) /\ L[n] \in Nat
  <2>1. Windowed(fc, w)
    BY WindowFacts
  <2> QED BY <2>1 DEF Windowed
<1>3. Live(fc2) = Live(fc)
  BY DEF Live
<1>4. w2.heights = H /\ w2.locals = L /\ w2.now = h
  BY DEF After
<1>5. Heights(fc2, w2) = Noted(H, n + k, h)
  BY <1>1, <1>4 DEF Heights
<1>6. Covered(fc2, w2) = Noted(L, n + k, Lesser(Live(fc), h))
  BY <1>1, <1>3, <1>4 DEF Covered
<1>7. n # n + k
  BY <1>1
<1>8. Live(fc) \in Nat /\ h \in Nat
  BY LiveFacts
<1>9. Lesser(Live(fc), h) \in Nat
      /\ (Lesser(Live(fc), h) >= Lesser(Live(fc), w.now) \/ Lesser(Live(fc), h) >= h)
  BY <1>2, <1>8 DEF Lesser
<1> HIDE DEF H, L, n, k
<1>10. /\ Noted(H, n + k, h)[n] = H[n] /\ Noted(H, n + k, h)[n + k] = h
       /\ DOMAIN Noted(H, n + k, h) = DOMAIN H \cup {n + k}
       /\ \A l : Noted(L, n + k, l)[n] = L[n] /\ Noted(L, n + k, l)[n + k] = l
  BY <1>2, <1>7 DEF Noted
<1>11. DOMAIN H \cup {n + k} = DOMAIN w.heights \cup {n, n + k}
  BY <1>2
<1>12. /\ Heights(fc2, w2)[n] = w.now /\ Heights(fc2, w2)[n + k] = h
       /\ DOMAIN Heights(fc2, w2) = DOMAIN w.heights \cup {n, n + k}
       /\ Covered(fc2, w2)[n] = Lesser(Live(fc), w.now) /\ Covered(fc2, w2)[n] \in Nat
       /\ Covered(fc2, w2)[n + k] = Lesser(Live(fc), h)
  BY <1>2, <1>5, <1>6, <1>10, <1>11
<1>13. DOMAIN w2.heights = DOMAIN w.heights \cup {n} /\ DOMAIN w2.locals = DOMAIN w2.heights
  BY <1>2, <1>4
<1>14. /\ Heights(fc2, w2) = Noted(Heights(fc, w), n + k, h)
       /\ Covered(fc2, w2) = Noted(Covered(fc, w), n + k, Lesser(Live(fc), h))
  BY <1>5, <1>6 DEF H, L
<1>15. w.now \in Nat \ {0}
  BY <1>2
<1> HIDE DEF w2
<1> QED BY <1>1, <1>9, <1>12, <1>13, <1>14, <1>15 DEF n, k, w2, Emitted

LEMMA EmitReady ==
  ASSUME NEW fns, NEW fc, NEW w, NEW E, NEW E2, NEW out \in Situations, NEW fc2, NEW bytes, NEW h,
         Ready(fns, fc, w, E, out), IsFunctionCompiler(fc2),
         fc2.type = fc.type, fc2.arity = fc.arity, fc2.constants = fc.constants,
         fc2.locals = fc.locals, fc2.upvalues = fc.upvalues, fc2.todo = fc.todo,
         fc2.code = fc.code \o bytes, IsSequence(bytes), bytes # << >>, h \in Nat \ {0},
         InstructionLength(fns, Finished(fc2), Len(fc.code)) = Len(bytes), E \subseteq E2,
         \/ Finishes(fns, Finished(fc2), Heights(fc2, After(fc, w, h)),
                     Covered(fc2, After(fc, w, h)), Len(fc.code))
         \/ /\ Len(fc.code) + 1 \in E2
            /\ Waits(Finished(fc2), Heights(fc2, After(fc, w, h)),
                     Covered(fc2, After(fc, w, h)), Len(fc.code)),
         fc.type = "SCRIPT" => bytes[1] # OP_RETURN
  PROVE  Ready(fns, fc2, After(fc, w, h), E2, out)
<1> DEFINE n == Len(fc.code)
           k == Len(bytes)
           w2 == After(fc, w, h)
           H == Heights(fc, w)
           L == Covered(fc, w)
           H2 == Heights(fc2, w2)
           L2 == Covered(fc2, w2)
<1>1. /\ IsFunctionCompiler(fc) /\ LocalsSound(fc) /\ IsWindow(fc, w) /\ Planned(fc, w, out)
      /\ ChunkSound(fns, Finished(fc), H, L, E)
  BY DEF Ready
<1>2. /\ n \in Nat /\ k \in Nat \ {0} /\ Len(fc2.code) = n + k
      /\ H2 = Noted(H, n + k, h)
      /\ L2 = Noted(L, n + k, Lesser(Live(fc), h))
      /\ DOMAIN w2.heights = DOMAIN w.heights \cup {n} /\ DOMAIN w2.locals = DOMAIN w2.heights
      /\ \A i \in 1 .. n : fc2.code[i] = fc.code[i]
      /\ \A i \in 1 .. k : fc2.code[n + i] = bytes[i]
  <2>1. Emitted(fc, w, fc2, bytes, h)
    BY <1>1, EmitFacts
  <2> QED BY <2>1 DEF Emitted
<1>3. Lesser(Live(fc), h) \in Nat
  BY <1>1, LiveFacts, LesserFacts
<1>4. Len(fc.upvalues) \in Nat
  BY <1>1, SequenceFacts DEF IsFunctionCompiler
<1>5. ChunkSound(fns, Finished(fc2), H2, L2, E2)
  <2> HIDE DEF H, L, H2, L2, w2
  <2> DEFINE F2 == Finished(fc2)
  <2>1. Finishes(fns, F2, H2, L2, n) \/ (n + 1 \in E2 /\ Waits(F2, H2, L2, n))
    BY DEF H2, L2, w2
  <2>2. InstructionLength(fns, F2, n) = k
    OBVIOUS
  <2> HIDE DEF n, k
  <2> DEFINE F == Finished(fc)
             l == Lesser(Live(fc), h)
  <2>3. Len(F.code) = n /\ Len(F2.code) = n + k /\ \A i \in 1 .. n : F2.code[i] = F.code[i]
    BY <1>2, FinishedFields DEF n
  <2>4. /\ F2.arity = F.arity /\ F2.constants = F.constants
        /\ F2.upvalueCount = F.upvalueCount /\ F.upvalueCount \in Nat
    BY <1>4, FinishedFields
  <2>5. n \in Nat /\ k \in Nat \ {0} /\ h \in Nat \ {0} /\ l \in Nat /\ E \subseteq E2
    BY <1>2, <1>3
  <2>6. H2 = Noted(H, n + k, h) /\ L2 = Noted(L, n + k, l)
    BY <1>2
  <2>7. ChunkSound(fns, F, H, L, E)
    BY <1>1
  <2> HIDE DEF F, F2, l
  <2>8. Appended(fns, F, H, L, E, F2, H2, L2, E2, n, k, h, l)
    BY <2>1, <2>2, <2>3, <2>4, <2>5, <2>6, <2>7 DEF Appended
  <2> QED BY <2>8, ChunkEmits DEF F2
<1>6. LocalsSound(fc2)
  BY <1>1 DEF LocalsSound
<1>7. \A o \in DOMAIN w.heights : o \in Nat /\ o < n
  BY <1>1, WindowFacts DEF Windowed
<1>8. IsWindow(fc2, w2)
  <2>1. w2 = [heights |-> w2.heights, locals |-> w2.locals, now |-> w2.now]
    BY DEF After
  <2> HIDE DEF w2
  <2>2. DOMAIN w2.heights \subseteq 0 .. Len(fc2.code) - 1
    BY <1>2, <1>7
  <2>3. ASSUME fc2.type = "SCRIPT", NEW o \in DOMAIN w2.heights
        PROVE  OpAt(fc2, o) # OP_RETURN
    <3>1. CASE o = n
      BY <1>2, <2>3, <3>1 DEF OpAt
    <3>2. CASE o \in DOMAIN w.heights
      <4>1. o + 1 \in 1 .. n
        BY <1>2, <1>7, <3>2
      <4> QED BY <1>1, <1>2, <2>3, <3>2, <4>1 DEF OpAt, IsWindow
    <3> QED BY <1>2, <2>3, <3>1, <3>2
  <2> QED BY <1>2, <2>1, <2>2, <2>3 DEF IsWindow
<1>9. Evolves(fc, w, fc2, w2, out.depth)
  <2>1. /\ n \notin DOMAIN w.heights /\ DOMAIN L = DOMAIN H
        /\ DOMAIN H = DOMAIN w.heights \cup {n}
        /\ \A o \in DOMAIN w.heights :
             /\ H[o] = w.heights[o] /\ L[o] = w.locals[o]
             /\ w.heights[o] \in Nat \ {0} /\ w.locals[o] \in Nat
        /\ L[n] \in Nat
    <3>1. Windowed(fc, w)
      BY <1>1, WindowFacts
    <3> QED BY <3>1 DEF Windowed
  <2>2. w2.heights = H /\ w2.locals = L
    BY DEF After
  <2>3. Base(fc2, 0) = Base(fc, 0) /\ \A e : Base(fc2, e) = Base(fc, e)
    BY DEF Base
  <2>4. \A o \in DOMAIN w.heights : fc2.code[o + 1] = fc.code[o + 1]
    BY <1>2, <1>7
  <2> HIDE DEF H, L, H2, L2, w2, n
  <2>5. \A o \in DOMAIN H : o # n + k
    BY <1>2, <1>7, <2>1 
  <2>6. \A o \in DOMAIN H : /\ o \in DOMAIN H2 /\ H2[o] = H[o]
                            /\ L[o] \in Nat /\ L2[o] = L[o]
    BY <1>2, <2>1, <2>5 DEF Noted
  <2>7. \A o \in DOMAIN H : /\ o \in DOMAIN H2 /\ H2[o] = H[o]
                            /\ L[o] \in Nat /\ L2[o] \in Nat /\ L2[o] >= L[o]
    BY <2>6
  <2>8. \A o \in DOMAIN w.heights :
          o \in DOMAIN w2.heights /\ w2.heights[o] = w.heights[o] /\ w2.locals[o] = w.locals[o]
    BY <2>1, <2>2
  <2>9. /\ H = Heights(fc, w) /\ L = Covered(fc, w)
        /\ H2 = Heights(fc2, w2) /\ L2 = Covered(fc2, w2)
    BY DEF H, L, H2, L2
  <2>10. fc2.todo = fc.todo /\ fc2.type = fc.type /\ fc2.upvalues = fc.upvalues
         /\ Len(fc.upvalues) <= Len(fc2.upvalues)
         /\ \A i \in DOMAIN fc.constants : i \in DOMAIN fc2.constants /\ fc2.constants[i] = fc.constants[i]
    BY <1>4
  <2> QED BY <1>4, <2>3, <2>4, <2>7, <2>8, <2>9, <2>10 DEF Evolves
<1>10. Planned(fc2, w2, out)
  BY <1>1, <1>9, PlannedKept DEF IsFunctionCompiler
<1> QED BY <1>5, <1>6, <1>8, <1>10 DEF Ready

-----------------------------------------------------------------------------
(* A FunctionCompiler at work: it stands at the situation in, and its next *)
(* task expects the situation out.  X are the offsets that are to be       *)
(* patched by tasks that are not yet there.                                *)
Running(fns, fc, w, X, in, out) ==
  /\ in \in Situations /\ out \in Situations
  /\ Ready(fns, fc, w, Awaited(fc.todo) \cup X, out)
  /\ At(fc, w.now, in)

LEMMA GrownFacts ==
  ASSUME NEW s \in Situations, NEW n \in Int, s.height + n \in Nat, s.kind = "exact"
  PROVE  /\ Grown(s, n) \in Situations /\ Grown(s, n) = [s EXCEPT !.height = s.height + n]
         /\ Grown(s, n).kind = s.kind /\ Grown(s, n).depth = s.depth
         /\ Grown(s, n).height = s.height + n
         /\ Grown(s, n).live = s.live /\ Grown(s, n).locals = s.locals
<1>1. Grown(s, n) = [s EXCEPT !.height = s.height + n]
  BY DEF Grown
<1> QED BY <1>1, SituationFacts

(* What is known of it where the code ends.                                *)
Standing(fc, w, in) ==
  /\ IsFunctionCompiler(fc) /\ LocalsSound(fc) /\ IsWindow(fc, w)
  /\ Len(fc.code) \in Nat /\ w.now \in Nat \ {0}
  /\ Live(fc) \in Nat /\ Live(fc) >= 1 /\ Len(fc.locals) \in Nat
  /\ Len(fc.upvalues) \in Nat
  /\ in.kind = "exact" => in.height = w.now /\ in.live = Live(fc) /\ in.locals = Len(fc.locals)
  /\ in.depth = fc.scopeDepth

LEMMA RunningStands ==
  ASSUME NEW fns, NEW fc, NEW w, NEW X, NEW in, NEW out, Running(fns, fc, w, X, in, out)
  PROVE  Standing(fc, w, in) /\ Windowed(fc, w)
<1>1. /\ IsFunctionCompiler(fc) /\ LocalsSound(fc) /\ IsWindow(fc, w)
      /\ ChunkSound(fns, Finished(fc), Heights(fc, w), Covered(fc, w), Awaited(fc.todo) \cup X)
      /\ At(fc, w.now, in)
  BY DEF Running, Ready
<1>2. Windowed(fc, w)
  BY <1>1, WindowFacts
<1>3. Len(fc.code) \in Nat /\ w.now \in Nat \ {0}
  BY <1>2 DEF Windowed
<1>4. Live(fc) \in Nat /\ Live(fc) >= 1 /\ Len(fc.locals) \in Nat
  BY <1>1, LiveFacts
<1>5. Len(fc.upvalues) \in Nat
  BY <1>1, SequenceFacts DEF IsFunctionCompiler
<1> QED BY <1>1, <1>2, <1>3, <1>4, <1>5 DEF Standing, At

(* Compilers that differ in their code only.                               *)
SameButCode(fc, fc2) ==
  /\ IsFunctionCompiler(fc2)
  /\ fc2.type = fc.type /\ fc2.arity = fc.arity /\ fc2.constants = fc.constants
  /\ fc2.locals = fc.locals /\ fc2.upvalues = fc.upvalues
  /\ fc2.scopeDepth = fc.scopeDepth /\ fc2.todo = fc.todo

LEMMA RunningEmits ==
  ASSUME NEW fns, NEW fc, NEW w, NEW X, NEW X2, NEW in, NEW out, NEW fc2, NEW bytes, NEW h,
         Running(fns, fc, w, X, in, out), in.kind = "exact", SameButCode(fc, fc2),
         fc2.code = fc.code \o bytes, IsSequence(bytes), bytes # << >>, h \in Nat \ {0},
         InstructionLength(fns, Finished(fc2), Len(fc.code)) = Len(bytes), X \subseteq X2,
         \/ Finishes(fns, Finished(fc2), Heights(fc2, After(fc, w, h)),
                     Covered(fc2, After(fc, w, h)), Len(fc.code))
         \/ /\ Len(fc.code) + 1 \in X2
            /\ Waits(Finished(fc2), Heights(fc2, After(fc, w, h)),
                     Covered(fc2, After(fc, w, h)), Len(fc.code)),
         fc.type = "SCRIPT" => bytes[1] # OP_RETURN
  PROVE  Running(fns, fc2, After(fc, w, h), X2, [in EXCEPT !.height = h], out)
<1> DEFINE w2 == After(fc, w, h)
           in2 == [in EXCEPT !.height = h]
           E == Awaited(fc.todo) \cup X
           E2 == Awaited(fc.todo) \cup X2
<1>1. in \in Situations /\ out \in Situations /\ Ready(fns, fc, w, E, out) /\ At(fc, w.now, in)
  BY DEF Running
<1>2. /\ IsFunctionCompiler(fc2) /\ fc2.type = fc.type /\ fc2.arity = fc.arity
      /\ fc2.constants = fc.constants /\ fc2.locals = fc.locals /\ fc2.upvalues = fc.upvalues
      /\ fc2.scopeDepth = fc.scopeDepth /\ fc2.todo = fc.todo
  BY DEF SameButCode
<1>3. E \subseteq E2 /\ (Len(fc.code) + 1 \in X2 => Len(fc.code) + 1 \in E2)
  OBVIOUS
<1>4. Ready(fns, fc2, w2, E2, out)
  <2> HIDE DEF E, E2
  <2> QED BY <1>1, <1>2, <1>3, EmitReady
<1>5. /\ in2 \in Situations /\ in2.kind = "exact" /\ in2.depth = in.depth /\ in2.height = h
      /\ in2.live = in.live /\ in2.locals = in.locals
  BY <1>1, SituationFacts
<1>6. w2.now = h
  BY DEF After
<1>7. Live(fc2) = Live(fc) /\ (Scoped(fc) => Scoped(fc2))
  BY <1>2 DEF Live, Scoped
<1> HIDE DEF w2, in2
<1>8. At(fc2, w2.now, in2)
  BY <1>1, <1>2, <1>5, <1>6, <1>7 DEF At
<1>9. Running(fns, fc2, w2, X2, in2, out)
  BY <1>1, <1>2, <1>4, <1>5, <1>8 DEF Running
<1> QED BY <1>9 DEF w2, in2

(* Without an operand.                                                     *)
LEMMA RunningEmitsOp ==
  ASSUME NEW fns, NEW fc, NEW w, NEW X, NEW in, NEW out, NEW fc2, NEW op,
         Running(fns, fc, w, X, in, out), SameButCode(fc, fc2), fc2.code = fc.code \o <<op>>,
         op \in EmittedOps \ SetOps, Values(in, Taken(op)), op = OP_RETURN => fc.type # "SCRIPT"
  PROVE  /\ Growth(op, 0) \in {-1, 0, 1} /\ w.now + Growth(op, 0) \in Nat \ {0}
         /\ \A a : Growth(op, a) = Growth(op, 0)
         /\ Running(fns, fc2, After(fc, w, w.now + Growth(op, 0)), X, Grown(in, Growth(op, 0)), out)
<1> DEFINE n == Len(fc.code)
           g == Growth(op, 0)
           h == w.now + g
           F2 == Finished(fc2)
           H2 == Heights(fc2, After(fc, w, h))
           L2 == Covered(fc2, After(fc, w, h))
<1>1. Standing(fc, w, in) /\ in \in Situations
  BY RunningStands DEF Running
<1>2. /\ in.kind = "exact" /\ in.height = w.now /\ in.height >= in.live + Taken(op) /\ in.live >= 1
      /\ in.height \in Nat \ {0} /\ in.live \in Nat /\ in.live = Live(fc)
  BY <1>1 DEF Standing, Values
<1>3. op \in LiteralOps \cup BinaryOps \cup {OP_POP, OP_PRINT, OP_NOT, OP_NEGATE, OP_RETURN}
  BY DEF EmittedOps, TakingOps, SetOps
<1>4. \A a : Growth(op, a) = g
  BY <1>3 DEF Growth
<1>5. g \in {-1, 0, 1} /\ (op \in BinaryOps => g = -1)
  BY <1>3 DEF Growth
<1>6. (g = -1 => Taken(op) >= 1) /\ Taken(op) \in {0, 1, 2} /\ (op \in BinaryOps => Taken(op) = 2)
      /\ (op \in TakingOps => Taken(op) = 1)
  <2>1. op \in LiteralOps => g = 1
    BY DEF Growth
  <2>2. op \in BinaryOps => Taken(op) = 2
    BY DEF Taken
  <2>3. op \in TakingOps => Taken(op) = 1
    BY DEF Taken, TakingOps, SetOps
  <2>4. op \in LiteralOps => Taken(op) = 0
    BY DEF Taken, TakingOps, SetOps
  <2> QED BY <1>3, <2>1, <2>2, <2>3, <2>4 DEF TakingOps
<1> HIDE DEF g
<1>7. h \in Nat \ {0}
  BY <1>2, <1>5, <1>6, SMTT(30)
<1>8. IsSequence(<<op>>) /\ <<op>> # << >> /\ Len(<<op>>) = 1 /\ <<op>>[1] = op
  BY ShortSequences
<1>9. Emitted(fc, w, fc2, <<op>>, h)
  <2>1. /\ IsFunctionCompiler(fc) /\ LocalsSound(fc) /\ IsWindow(fc, w)
        /\ ChunkSound(fns, Finished(fc), Heights(fc, w), Covered(fc, w), Awaited(fc.todo) \cup X)
    BY DEF Running, Ready
  <2>2. fc2.locals = fc.locals
    BY DEF SameButCode
  <2> HIDE DEF h
  <2> QED BY <1>7, <1>8, <2>1, <2>2, EmitFacts
<1> HIDE DEF h
<1>10. /\ n \in Nat /\ Len(fc2.code) = n + 1 /\ H2[n] = w.now /\ H2[n + 1] = h
       /\ n + 1 \in DOMAIN H2 /\ L2[n] = Lesser(Live(fc), w.now) /\ L2[n] \in Nat
       /\ L2[n + 1] >= L2[n] \/ L2[n + 1] >= H2[n + 1]
       /\ fc2.code[n + 1] = op
  BY <1>8, <1>9 DEF Emitted
<1>11. F2.code = fc2.code /\ OpAt(F2, n) = op
  BY <1>10, FinishedFields DEF OpAt
<1>12. InstructionLength(fns, F2, n) = 1
  BY <1>3, <1>11 DEF InstructionLength
<1>13. Finishes(fns, F2, H2, L2, n)
  <2> HIDE DEF F2, H2, L2, n
  <2>1. CASE op = OP_RETURN
    <3>1. H2[n] \in Nat /\ H2[n] >= 2
      BY <1>2, <1>6, <1>10, <2>1 DEF TakingOps
    <3> QED BY <1>10, <1>11, <2>1, <3>1, ReturnFinishes
  <2>2. CASE op # OP_RETURN
    <3> DEFINE a == Operand(F2, n)
    <3>1. Applies(F2, op, a, H2[n], L2[n])
      <4>1. op \in TakingOps \cup {OP_DEFINE_GLOBAL} => H2[n] >= 2
        <5>1. op # OP_DEFINE_GLOBAL
          BY <1>3
        <5>2. op \in TakingOps => Taken(op) = 1
          BY <1>6
        <5>3. w.now >= in.live + Taken(op) /\ in.live \in Nat /\ in.live >= 1 /\ H2[n] = w.now
          BY <1>2, <1>10
        <5> HIDE DEF TakingOps
        <5>4. Taken(op) = 1 => H2[n] >= 2
          BY ONLY <5>3, <1>2
        <5> QED BY <5>1, <5>2, <5>4
      <4>2. op \in BinaryOps => H2[n] >= 3
        BY <1>2, <1>6, <1>10
      <4>3. op \in EmittedOps
        OBVIOUS
      <4>4. op \in {1, 2, 3, 4, 12, 13, 14, 15, 16, 17, 18, 19, 20, 21, 27}
        BY <1>3
      <4>5. op \notin JumpOps \cup {OP_CLOSURE} /\ op \notin NameOps
            /\ op \notin {OP_CONSTANT, OP_GET_LOCAL, OP_SET_LOCAL, OP_GET_UPVALUE, OP_SET_UPVALUE, OP_CALL}
        BY <4>4
      <4> HIDE DEF JumpOps, NameOps, BinaryOps
      <4> QED BY <4>1, <4>2, <4>3, <4>5 DEF Applies
    <3>2. H2[n + 1] = H2[n] + Growth(op, a)
      BY <1>4, <1>10 DEF h
    <3>3. H2[n] \in Nat \ {0} /\ n + 1 <= Len(F2.code)
      BY <1>2, <1>10, <1>11
    <3> HIDE DEF a
    <3>4. Operand(F2, n) = a
      BY DEF a
    <3> QED BY <1>10, <1>11, <1>12, <2>2, <3>1, <3>2, <3>3, <3>4, StraightFinishes
  <2> QED BY <2>1, <2>2
<1>14. Running(fns, fc2, After(fc, w, h), X, [in EXCEPT !.height = h], out)
  BY <1>2, <1>7, <1>8, <1>12, <1>13, RunningEmits
<1>15. Grown(in, g) = [in EXCEPT !.height = h]
  BY <1>2 DEF Grown, h
<1> QED BY <1>4, <1>5, <1>7, <1>14, <1>15 DEF g, h

LEMMA RunningEmitted ==
  ASSUME NEW fns, NEW fc, NEW w, NEW X, NEW in, NEW out, NEW fc2, NEW bytes, NEW h,
         Running(fns, fc, w, X, in, out), SameButCode(fc, fc2), fc2.code = fc.code \o bytes,
         IsSequence(bytes), bytes # << >>, h \in Nat \ {0}
  PROVE  Emitted(fc, w, fc2, bytes, h)
<1>1. /\ IsFunctionCompiler(fc) /\ LocalsSound(fc) /\ IsWindow(fc, w)
      /\ ChunkSound(fns, Finished(fc), Heights(fc, w), Covered(fc, w), Awaited(fc.todo) \cup X)
  BY DEF Running, Ready
<1>2. fc2.locals = fc.locals
  BY DEF SameButCode
<1> QED BY <1>1, <1>2, EmitFacts

(* With an operand, of one byte.                                           *)
LEMMA RunningEmitsArg ==
  ASSUME NEW fns, NEW fc, NEW w, NEW X, NEW in, NEW out, NEW fc2, NEW op, NEW a, NEW h,
         Running(fns, fc, w, X, in, out), in.kind = "exact", SameButCode(fc, fc2),
         fc2.code = fc.code \o <<op, a>>, op \in ByteOps, h \in Nat \ {0},
         h = w.now + Growth(op, a),
         Applies(Finished(fc), op, a, in.height, Lesser(in.live, in.height))
  PROVE  Running(fns, fc2, After(fc, w, h), X, [in EXCEPT !.height = h], out)
<1> DEFINE n == Len(fc.code)
           F2 == Finished(fc2)
           H2 == Heights(fc2, After(fc, w, h))
           L2 == Covered(fc2, After(fc, w, h))
<1>1. Standing(fc, w, in)
  BY RunningStands
<1>2. in.height = w.now /\ in.live = Live(fc) /\ w.now \in Nat \ {0}
  BY <1>1 DEF Standing
<1>3. /\ IsSequence(<<op, a>>) /\ <<op, a>> # << >> /\ Len(<<op, a>>) = 2
      /\ <<op, a>>[1] = op /\ <<op, a>>[2] = a
  BY ShortSequences
<1>4. Emitted(fc, w, fc2, <<op, a>>, h)
  BY <1>3, RunningEmitted
<1>5. /\ n \in Nat /\ Len(fc2.code) = n + 2 /\ H2[n] = w.now /\ H2[n + 2] = h
      /\ n + 2 \in DOMAIN H2 /\ L2[n] = Lesser(Live(fc), w.now) /\ L2[n] \in Nat
      /\ L2[n + 2] >= L2[n] \/ L2[n + 2] >= H2[n + 2]
      /\ fc2.code[n + 1] = op /\ fc2.code[n + 2] = a
  <2>1. 1 \in 1 .. 2 /\ 2 \in 1 .. 2
    OBVIOUS
  <2> QED BY <1>3, <1>4, <2>1 DEF Emitted
<1>6. F2.code = fc2.code /\ OpAt(F2, n) = op /\ Operand(F2, n) = a
  BY <1>5, FinishedFields DEF OpAt, Operand
<1>7. op \notin JumpOps /\ op # OP_CLOSURE /\ op # OP_RETURN
  OBVIOUS
<1>8. InstructionLength(fns, F2, n) = 2
  BY <1>6, <1>7 DEF InstructionLength
<1>9. Applies(F2, op, a, H2[n], L2[n])
  <2>1. F2.constants = Finished(fc).constants /\ F2.upvalueCount = Finished(fc).upvalueCount
    BY FinishedFields DEF SameButCode
  <2> HIDE DEF F2, H2, L2
  <2> QED BY <1>2, <1>5, <2>1 DEF Applies
<1>10. Finishes(fns, F2, H2, L2, n)
  <2>1. H2[n + 2] = H2[n] + Growth(op, a) /\ H2[n] \in Nat \ {0} /\ n + 2 <= Len(F2.code)
    BY <1>2, <1>5, <1>6
  <2> HIDE DEF F2, H2, L2, n
  <2> QED BY <1>5, <1>6, <1>7, <1>8, <1>9, <2>1, StraightFinishes
<1>11. fc.type = "SCRIPT" => <<op, a>>[1] # OP_RETURN
  BY <1>3, <1>7
<1> QED BY <1>3, <1>8, <1>10, <1>11, RunningEmits

(* The situation at another height.                                        *)
To(s, h) == [s EXCEPT !.height = h]

(* A jump that is patched later: it finds the height of the window, and    *)
(* says to what the height falls where it does not lead.                   *)
JumpsWith(fc, fc2, op) ==
  SameButCode(fc, fc2) /\ \E x, y : fc2.code = fc.code \o <<op, x, y>>

OperandAt(fc) == Len(fc.code) + 1

LEMMA RunningJumps ==
  ASSUME NEW fns, NEW fc, NEW w, NEW X, NEW in, NEW out, NEW fc2, NEW op, NEW h,
         Running(fns, fc, w, X, in, out), in.kind = "exact", JumpsWith(fc, fc2, op),
         op \in {OP_JUMP, OP_JUMP_IF_FALSE},
         h \in Nat \ {0}, op = OP_JUMP_IF_FALSE => Values(in, 1) /\ h = in.height
  PROVE  /\ Running(fns, fc2, After(fc, w, h), X \cup {OperandAt(fc)}, To(in, h), out)
         /\ JumpFrom(fc2, After(fc, w, h), OperandAt(fc), in.height, in.live)
<1>0. PICK x, y : SameButCode(fc, fc2) /\ fc2.code = fc.code \o <<op, x, y>>
  BY DEF JumpsWith
<1> DEFINE n == Len(fc.code)
           w2 == After(fc, w, h)
           F2 == Finished(fc2)
           H2 == Heights(fc2, w2)
           L2 == Covered(fc2, w2)
           bytes == <<op, x, y>>
<1>1. Standing(fc, w, in) /\ Windowed(fc, w)
  BY RunningStands
<1>2. /\ in.height = w.now /\ in.live = Live(fc) /\ w.now \in Nat \ {0}
      /\ Live(fc) \in Nat /\ Live(fc) >= 1
  BY <1>1 DEF Standing
<1>3. IsSequence(bytes) /\ bytes # << >> /\ Len(bytes) = 3 /\ bytes[1] = op
  BY ShortSequences
<1>4. Emitted(fc, w, fc2, bytes, h)
  <2> HIDE DEF bytes
  <2>1. fc2.code = fc.code \o bytes
    BY <1>0 DEF bytes
  <2> QED BY <1>0, <1>3, <2>1, RunningEmitted
<1>5. /\ n \in Nat /\ Len(fc2.code) = n + 3 /\ H2[n] = w.now /\ H2[n + 3] = h
      /\ n + 3 \in DOMAIN H2 /\ L2[n] = Lesser(Live(fc), w.now) /\ L2[n] \in Nat
      /\ L2[n + 3] >= L2[n] \/ L2[n + 3] >= H2[n + 3]
      /\ fc2.code[n + 1] = op
  <2>1. 1 \in 1 .. 3
    OBVIOUS
  <2> QED BY <1>3, <1>4, <2>1 DEF Emitted
<1>6. F2.code = fc2.code /\ OpAt(F2, n) = op
  BY <1>5, FinishedFields DEF OpAt
<1>7. InstructionLength(fns, F2, n) = 3
  BY <1>6 DEF InstructionLength
<1>8. Waits(F2, H2, L2, n)
  <2>1. op = OP_JUMP_IF_FALSE => H2[n] >= 2 /\ H2[n + 3] = H2[n]
    BY <1>2, <1>5 DEF Values
  <2>2. n + 3 <= Len(F2.code)
    BY <1>5, <1>6
  <2> HIDE DEF F2, H2, L2, n
  <2> QED BY <1>5, <1>6, <2>1, <2>2 DEF Waits, Flows
<1>9. fc.type = "SCRIPT" => bytes[1] # OP_RETURN
  BY <1>3
<1>10. Running(fns, fc2, w2, X \cup {n + 1}, To(in, h), out)
  <2> DEFINE X2 == X \cup {n + 1}
  <2>1. X \subseteq X2 /\ n + 1 \in X2
    OBVIOUS
  <2>2. fc2.code = fc.code \o bytes
    BY <1>0
  <2> HIDE DEF X2, bytes
  <2>3. Running(fns, fc2, After(fc, w, h), X2, [in EXCEPT !.height = h], out)
    BY <1>0, <1>3, <1>7, <1>8, <1>9, <2>1, <2>2, RunningEmits
  <2> QED BY <2>3 DEF X2, To
<1>11. JumpFrom(fc2, w2, n + 1, in.height, in.live)
  <2>1. w2.heights = Heights(fc, w) /\ w2.locals = Covered(fc, w)
    BY DEF After
  <2>2. /\ n \in DOMAIN w2.heights /\ w2.heights[n] = w.now
        /\ w2.locals[n] = Lesser(Live(fc), w.now)
    BY <1>1, <2>1 DEF Windowed
  <2>3. Lesser(Live(fc), w.now) <= Live(fc)
    BY <1>2, LesserFacts
  <2> DEFINE m == n + 1
  <2>4. m \in Nat /\ m - 1 = n
    BY <1>5
  <2>5. fc2.code[m] = op
    BY <1>5
  <2> HIDE DEF w2, n, m
  <2>6. JumpFrom(fc2, w2, m, in.height, in.live)
    BY <1>2, <2>2, <2>3, <2>4, <2>5 DEF JumpFrom
  <2> QED BY <2>6 DEF m
<1> QED BY <1>5, <1>10, <1>11 DEF OperandAt

(* A jump back.                                                            *)
LEMMA RunningLoops ==
  ASSUME NEW fns, NEW fc, NEW w, NEW X, NEW in, NEW out, NEW fc2, NEW start, NEW h,
         Running(fns, fc, w, X, in, out), in.kind = "exact", SameButCode(fc, fc2),
         LoopTo(fc, w, start, in.height), h \in Nat \ {0},
         Len(fc.code) + 3 - start <= UINT16_MAX,
         fc2.code = fc.code \o <<OP_LOOP, High(Len(fc.code) + 3 - start), Low(Len(fc.code) + 3 - start)>>
  PROVE  Running(fns, fc2, After(fc, w, h), X, [in EXCEPT !.height = h], out)
<1> DEFINE n == Len(fc.code)
           w2 == After(fc, w, h)
           F2 == Finished(fc2)
           H == Heights(fc, w)
           L == Covered(fc, w)
           H2 == Heights(fc2, w2)
           L2 == Covered(fc2, w2)
           jump == n + 3 - start
           bytes == <<OP_LOOP, High(jump), Low(jump)>>
<1>1. Standing(fc, w, in) /\ Windowed(fc, w)
  BY RunningStands
<1>2. /\ in.height = w.now /\ in.live = Live(fc) /\ w.now \in Nat \ {0}
      /\ Live(fc) \in Nat /\ Live(fc) >= 1
  BY <1>1 DEF Standing
<1>3. start \in DOMAIN H /\ H[start] = w.now /\ L[start] >= w.now
  BY <1>2 DEF LoopTo, Flows
<1>4. /\ n \in Nat /\ start \in 0 .. n /\ start # n + 3
      /\ n \in DOMAIN H /\ DOMAIN H \subseteq 0 .. n
  BY <1>1, <1>3, SMTT(30) DEF Windowed
<1>5. /\ IsSequence(bytes) /\ bytes # << >> /\ Len(bytes) = 3
      /\ bytes[1] = OP_LOOP /\ bytes[2] = High(jump) /\ bytes[3] = Low(jump)
  <2> HIDE DEF jump
  <2> QED BY ShortSequences
<1>6. Emitted(fc, w, fc2, bytes, h)
  <2> HIDE DEF bytes
  <2>1. fc2.code = fc.code \o bytes
    BY DEF bytes
  <2> QED BY <1>5, <2>1, RunningEmitted
<1>7. /\ Len(fc2.code) = n + 3 /\ H2[n] = w.now
      /\ H2 = Noted(H, n + 3, h) /\ L2 = Noted(L, n + 3, Lesser(Live(fc), h))
      /\ L2[n] = Lesser(Live(fc), w.now) /\ L2[n] \in Nat
      /\ fc2.code[n + 1] = OP_LOOP /\ fc2.code[n + 2] = High(jump) /\ fc2.code[n + 3] = Low(jump)
  <2>1. 1 \in 1 .. 3 /\ 2 \in 1 .. 3 /\ 3 \in 1 .. 3
    OBVIOUS
  <2> HIDE DEF bytes, jump
  <2> QED BY <1>5, <1>6, <2>1 DEF Emitted
<1>8. F2.code = fc2.code /\ OpAt(F2, n) = OP_LOOP
  BY <1>7, FinishedFields DEF OpAt
<1>9. DOMAIN L = DOMAIN H
  BY <1>1 DEF Windowed
<1> HIDE DEF H, L, H2, L2, F2
<1>10. Flows(H2, start, H2[n])
  BY <1>3, <1>4, <1>7 DEF Flows, Noted
<1>11. L2[start] >= H2[n]
  BY <1>3, <1>4, <1>7, <1>9 DEF Noted
<1>12. Finishes(fns, F2, H2, L2, n) /\ InstructionLength(fns, F2, n) = 3
  <2>1. n + 3 <= Len(F2.code) /\ n + 3 - start <= UINT16_MAX
    BY <1>4, <1>7, <1>8
  <2>2. F2.code[n + 2] = High(n + 3 - start) /\ F2.code[n + 3] = Low(n + 3 - start)
    BY <1>7, <1>8
  <2> HIDE DEF n, jump
  <2> QED BY <1>4, <1>8, <1>10, <1>11, <2>1, <2>2, LoopFinishes
<1>13. fc.type = "SCRIPT" => bytes[1] # OP_RETURN
  BY <1>5
<1>14. X \subseteq X /\ fc2.code = fc.code \o bytes
  OBVIOUS
<1> HIDE DEF bytes, w2
<1> QED BY <1>5, <1>12, <1>13, <1>14, RunningEmits DEF F2, H2, L2, w2

(* A jump leads to where the code ends.                                    *)
LEMMA RunningPatches ==
  ASSUME NEW fns, NEW fc, NEW w, NEW X, NEW in, NEW out, NEW fc2, NEW offset,
         Running(fns, fc, w, X, in, out), in.kind = "exact", SameButCode(fc, fc2),
         JumpFrom(fc, w, offset, in.height, in.live),
         Len(fc.code) - offset - 2 <= UINT16_MAX, Len(fc2.code) = Len(fc.code),
         \A i \in 1 .. Len(fc.code) :
           fc2.code[i] = IF i = offset + 1 THEN High(Len(fc.code) - offset - 2)
                         ELSE IF i = offset + 2 THEN Low(Len(fc.code) - offset - 2)
                         ELSE fc.code[i]
  PROVE  /\ Running(fns, fc2, w, X \ {offset}, in, out)
         /\ offset + 2 <= Len(fc.code)
         /\ \A o, h, l : JumpFrom(fc, w, o, h, l) => JumpFrom(fc2, w, o, h, l)
<1> DEFINE n == Len(fc.code)
           o == offset - 1
           F == Finished(fc)
           F2 == Finished(fc2)
           H == Heights(fc, w)
           L == Covered(fc, w)
           E == Awaited(fc.todo) \cup X
           E2 == Awaited(fc.todo) \cup (X \ {offset})
<1>1. Standing(fc, w, in) /\ Windowed(fc, w)
  BY RunningStands
<1>2. /\ in.height = w.now /\ in.live = Live(fc) /\ w.now \in Nat \ {0}
      /\ Live(fc) \in Nat /\ Live(fc) >= 1 /\ Len(fc.upvalues) \in Nat
  BY <1>1 DEF Standing
<1>3. /\ IsFunctionCompiler(fc) /\ LocalsSound(fc) /\ IsWindow(fc, w) /\ Planned(fc, w, out)
      /\ ChunkSound(fns, F, H, L, E) /\ At(fc, w.now, in)
      /\ in \in Situations /\ out \in Situations
  BY DEF Running, Ready
<1>4. /\ offset \in Nat /\ o \in DOMAIN w.heights /\ fc.code[offset] \in {OP_JUMP, OP_JUMP_IF_FALSE}
      /\ w.heights[o] = in.height /\ w.locals[o] <= in.live
  BY DEF JumpFrom
<1>5. /\ n \in Nat /\ n \notin DOMAIN w.heights /\ DOMAIN w.heights \subseteq Nat
      /\ DOMAIN w.locals = DOMAIN w.heights
      /\ DOMAIN H = DOMAIN w.heights \cup {n} /\ DOMAIN L = DOMAIN H
      /\ \A p \in DOMAIN w.heights :
           /\ p < n /\ H[p] = w.heights[p] /\ L[p] = w.locals[p]
           /\ w.heights[p] \in Nat \ {0} /\ w.locals[p] \in Nat
      /\ H[n] = w.now /\ L[n] = Lesser(Live(fc), w.now) /\ L[n] \in Nat
      /\ Starts(F, H) = DOMAIN w.heights
  BY <1>1 DEF Windowed
<1>6. o \in Nat /\ o < n /\ o + 1 = offset /\ o + 2 = offset + 1 /\ o + 3 = offset + 2
  BY <1>4, <1>5
<1>7. F.code = fc.code /\ F2.code = fc2.code /\ F2.upvalueCount = F.upvalueCount
      /\ F.upvalueCount = Len(fc.upvalues) /\ F2.arity = F.arity /\ F2.constants = F.constants
  BY FinishedFields DEF SameButCode
<1>8. OpAt(F, o) \in {OP_JUMP, OP_JUMP_IF_FALSE}
  BY <1>4, <1>6, <1>7 DEF OpAt
<1>9. H[o] = H[n] /\ (L[n] >= L[o] \/ L[n] >= H[n])
  <2>1. H[o] = H[n] /\ L[o] \in Nat /\ L[o] <= Live(fc)
    BY <1>2, <1>4, <1>5
  <2>2. L[n] = Live(fc) \/ L[n] = w.now
    BY <1>2, <1>5, LesserFacts
  <2> QED BY <1>2, <1>5, <2>1, <2>2
<1> HIDE DEF F, F2, H, L
<1>10. ChunkSound(fns, F2, H, L, E \ {o + 1})
  <2> DEFINE jump == n - (o + 1) - 2
  <2>1. n - offset - 2 = jump
    BY <1>5, <1>6
  <2>2. Len(F.code) = n /\ Len(F2.code) = n /\ n - (o + 1) - 2 <= UINT16_MAX
    BY <1>7, <2>1
  <2>3. \A i \in 1 .. n : F2.code[i] = IF i = o + 2 THEN High(n - (o + 1) - 2)
                                       ELSE IF i = o + 3 THEN Low(n - (o + 1) - 2)
                                       ELSE F.code[i]
    BY <1>6, <1>7, <2>1
  <2>4. o \in Starts(F, H) /\ F.upvalueCount \in Nat
    BY <1>2, <1>4, <1>5, <1>7
  <2> HIDE DEF n, o, E, jump
  <2> QED BY <1>3, <1>5, <1>7, <1>8, <1>9, <2>2, <2>3, <2>4, ChunkPatches
<1>11. ChunkSound(fns, F2, H, L, E2)
  <2>1. E \ {o + 1} \subseteq E2
    BY <1>6
  <2> HIDE DEF E, E2, o
  <2> QED BY <1>10, <2>1 DEF ChunkSound
<1>12. o + 3 <= n
  <2>1. InstructionLength(fns, F, o) = 3
    BY <1>8 DEF InstructionLength
  <2>2. Len(F.code) \in Nat /\ o \in Starts(F, H)
    BY <1>4, <1>5, <1>7
  <2>3. o + InstructionLength(fns, F, o) <= Len(F.code)
    BY <1>3, <2>2, LengthOfStart
  <2> QED BY <1>7, <2>1, <2>3
<1>13. \A p \in DOMAIN w.heights : fc2.code[p + 1] = fc.code[p + 1]
  <2> SUFFICES ASSUME NEW p \in DOMAIN w.heights
               PROVE  fc2.code[p + 1] = fc.code[p + 1]
    OBVIOUS
  <2>1. p \in Nat /\ p < n
    BY <1>5
  <2>2. p < o \/ p = o \/ p >= o + 3
    <3>1. InstructionLength(fns, F, o) = 3
      BY <1>8 DEF InstructionLength
    <3>2. o < p => o + InstructionLength(fns, F, o) <= p
      BY <1>3, <1>4, <1>5 DEF ChunkSound
    <3> QED BY <1>6, <2>1, <3>1, <3>2
  <2>3. p + 1 \in 1 .. n /\ p + 1 # offset + 1 /\ p + 1 # offset + 2
    BY <1>6, <2>1, <2>2, SMTT(30)
  <2> QED BY <2>3
<1>14. Heights(fc2, w) = H /\ Covered(fc2, w) = L
  BY DEF Heights, Covered, Live, SameButCode, H, L
<1>15. LocalsSound(fc2)
  BY <1>3 DEF LocalsSound, SameButCode
<1>16. IsWindow(fc2, w)
  BY <1>3, <1>13 DEF IsWindow, SameButCode, OpAt
<1>17. Evolves(fc, w, fc2, w, out.depth)
  <2>1. \A p \in DOMAIN H : L[p] \in Nat /\ L[p] >= L[p]
    BY <1>5
  <2>2. \A e : Base(fc2, e) = Base(fc, e)
    BY DEF Base, SameButCode
  <2> QED BY <1>2, <1>13, <1>14, <2>1, <2>2 DEF Evolves, SameButCode, H, L
<1>18. Planned(fc2, w, out)
  BY <1>3, <1>17, PlannedKept DEF IsFunctionCompiler
<1>19. At(fc2, w.now, in)
  BY <1>3 DEF At, Scoped, Live, SameButCode
<1>20. Ready(fns, fc2, w, E2, out)
  BY <1>11, <1>14, <1>15, <1>16, <1>18 DEF Ready, SameButCode, F2
<1>21. Running(fns, fc2, w, X \ {offset}, in, out)
  BY <1>3, <1>19, <1>20 DEF Running, SameButCode
<1>22. \A p, h, l : JumpFrom(fc, w, p, h, l) => JumpFrom(fc2, w, p, h, l)
  <2> SUFFICES ASSUME NEW p, NEW h, NEW l, JumpFrom(fc, w, p, h, l)
               PROVE  JumpFrom(fc2, w, p, h, l)
    OBVIOUS
  <2>1. p \in Nat /\ p - 1 \in DOMAIN w.heights /\ p - 1 + 1 = p
    BY DEF JumpFrom
  <2>2. fc2.code[p] = fc.code[p]
    BY <1>13, <2>1
  <2> QED BY <2>2 DEF JumpFrom
<1> QED BY <1>6, <1>12, <1>21, <1>22

(* Constants, upvalues and functions are added, or locals changed.         *)
LEMMA RunningGrows ==
  ASSUME NEW fns, NEW fc, NEW w, NEW X, NEW in, NEW out, NEW fns2, NEW fc2, NEW in2,
         Running(fns, fc, w, X, in, out), IsFunctionCompiler(fc2), LocalsSound(fc2),
         fc2.type = fc.type, fc2.arity = fc.arity, fc2.code = fc.code, fc2.todo = fc.todo,
         \A i \in DOMAIN fc.constants : i \in DOMAIN fc2.constants /\ fc2.constants[i] = fc.constants[i],
         Len(fc.upvalues) <= Len(fc2.upvalues),
         Lesser(Live(fc2), w.now) >= Lesser(Live(fc), w.now),
         \A e \in 0 .. out.depth : Base(fc2, e) = Base(fc, e),
         \A f \in DOMAIN fns : f \in DOMAIN fns2 /\ fns2[f] = fns[f],
         FunctionsKnown(fns2, Finished(fc2)), in2 \in Situations, At(fc2, w.now, in2)
  PROVE  Running(fns2, fc2, w, X, in2, out)
<1> DEFINE E == Awaited(fc.todo) \cup X
<1>1. out \in Situations /\ Ready(fns, fc, w, E, out)
  BY DEF Running
<1> HIDE DEF E
<1>2. Ready(fns2, fc2, w, E, out)
  BY <1>1, ReadyGrows
<1> QED BY <1>1, <1>2 DEF Running, E

(* A constant is added.                                                    *)
LEMMA RunningAdds ==
  ASSUME NEW fns, NEW fc, NEW w, NEW X, NEW in, NEW out, NEW fc2, NEW v,
         Running(fns, fc, w, X, in, out), IsFunctionCompiler(fc2),
         fc2.type = fc.type, fc2.arity = fc.arity, fc2.code = fc.code, fc2.todo = fc.todo,
         fc2.locals = fc.locals, fc2.upvalues = fc.upvalues, fc2.scopeDepth = fc.scopeDepth,
         fc2.constants = Append(fc.constants, v),
         v.type = "FUNCTION" => v.val \in DOMAIN fns /\ fns[v.val].upvalueCount \in Nat
  PROVE  Running(fns, fc2, w, X, in, out)
<1>1. /\ IsFunctionCompiler(fc) /\ LocalsSound(fc) /\ in \in Situations /\ At(fc, w.now, in)
      /\ FunctionsKnown(fns, Finished(fc))
  BY DEF Running, Ready, ChunkSound
<1>2. Standing(fc, w, in)
  BY RunningStands
<1>3. IsSequence(fc.constants)
  BY <1>1 DEF IsFunctionCompiler
<1>4. /\ DOMAIN fc.constants = 1 .. Len(fc.constants) /\ Len(fc.constants) \in Nat
      /\ DOMAIN fc2.constants = 1 .. Len(fc.constants) + 1
      /\ \A i \in 1 .. Len(fc.constants) : fc2.constants[i] = fc.constants[i]
      /\ fc2.constants[Len(fc.constants) + 1] = v
  <2>1. IsSequence(fc2.constants) /\ Len(fc2.constants) = Len(fc.constants) + 1
    BY <1>3, SequenceAppend
  <2> QED BY <1>3, <2>1, SequenceFacts, SequenceAppend
<1>5. FunctionsKnown(fns, Finished(fc2))
  <2> SUFFICES ASSUME NEW i \in DOMAIN fc2.constants, fc2.constants[i].type = "FUNCTION"
               PROVE  /\ fc2.constants[i].val \in DOMAIN fns
                      /\ fns[fc2.constants[i].val].upvalueCount \in Nat
    BY FinishedFields DEF FunctionsKnown
  <2>1. CASE i \in 1 .. Len(fc.constants)
    BY <1>1, <1>4, <2>1, FinishedFields DEF FunctionsKnown
  <2>2. CASE i = Len(fc.constants) + 1
    BY <1>4, <2>2
  <2> QED BY <1>4, <2>1, <2>2
<1>6. LocalsSound(fc2)
  BY <1>1 DEF LocalsSound
<1>7. Live(fc2) = Live(fc) /\ (Scoped(fc) => Scoped(fc2)) /\ \A e : Base(fc2, e) = Base(fc, e)
  BY DEF Live, Scoped, Base
<1>8. At(fc2, w.now, in)
  BY <1>1, <1>7 DEF At
<1>9. Live(fc) \in Nat /\ w.now \in Nat /\ Len(fc.upvalues) \in Nat
  BY <1>2 DEF Standing
<1>10. Lesser(Live(fc2), w.now) >= Lesser(Live(fc), w.now)
  <2> DEFINE x == Lesser(Live(fc), w.now)
  <2>1. x \in Nat
    BY <1>9, LesserFacts, Zenon
  <2>2. Lesser(Live(fc2), w.now) = x
    BY <1>7, Zenon
  <2> HIDE DEF x
  <2>3. x >= x
    BY <2>1
  <2> QED BY <2>2, <2>3 DEF x
<1>11. \A i \in DOMAIN fc.constants : i \in DOMAIN fc2.constants /\ fc2.constants[i] = fc.constants[i]
  BY <1>4
<1>12. Len(fc.upvalues) <= Len(fc2.upvalues)
  BY <1>9
<1>13. /\ \A e \in 0 .. out.depth : Base(fc2, e) = Base(fc, e)
       /\ \A f \in DOMAIN fns : f \in DOMAIN fns /\ fns[f] = fns[f]
  BY <1>7
<1> QED BY <1>1, <1>5, <1>6, <1>8, <1>10, <1>11, <1>12, <1>13, RunningGrows

(* From an exact situation to the loose one, and back.                     *)
LEMMA RunningSettles ==
  ASSUME NEW fns, NEW fc, NEW w, NEW X, NEW in, NEW in2, NEW out,
         Running(fns, fc, w, X, in, out), Becomes(in, in2)
  PROVE  Running(fns, fc, w, X, in2, out)
<1>1. /\ in \in Situations /\ out \in Situations /\ At(fc, w.now, in)
      /\ Ready(fns, fc, w, Awaited(fc.todo) \cup X, out)
  BY DEF Running
<1>2. CASE in2 = in
  BY <1>2
<1>3. CASE Settled(in) /\ in2 = Loose(in.depth)
  <2>1. in2 \in Situations /\ in2.kind = "loose" /\ in2.depth = in.depth
    BY <1>1, <1>3, SituationFacts
  <2>2. At(fc, w.now, in2)
    BY <1>1, <1>3, <2>1 DEF At, Settled
  <2> QED BY <1>1, <2>1, <2>2 DEF Running
<1> QED BY <1>2, <1>3 DEF Becomes

LEMMA RunningExact ==
  ASSUME NEW fns, NEW fc, NEW w, NEW X, NEW in, NEW out,
         Running(fns, fc, w, X, in, out), Rest(in)
  PROVE  \E in2 \in Situations :
           /\ Settled(in2) /\ in2.depth = in.depth /\ in2.height >= 1
           /\ Running(fns, fc, w, X, in2, out)
           /\ \A s : Becomes(in, s) => Becomes(in2, s)
<1>1. /\ in \in Situations /\ out \in Situations /\ At(fc, w.now, in)
      /\ Ready(fns, fc, w, Awaited(fc.todo) \cup X, out)
  BY DEF Running
<1>2. Standing(fc, w, in)
  BY RunningStands
<1>3. CASE in.kind = "loose"
  <2> DEFINE m == w.now
             in2 == Exact(in.depth, m, m, m)
  <2>1. w.now \in Nat \ {0} /\ in.depth \in Nat
    BY <1>1, <1>2, SituationFacts DEF Standing
  <2>2. /\ in2 \in Situations /\ in2.kind = "exact" /\ in2.depth = in.depth
        /\ in2.height = m /\ in2.live = m /\ in2.locals = m
    BY <2>1, SituationFacts
  <2> HIDE DEF in2
  <2>3. At(fc, w.now, in2)
    BY <1>1, <1>3, <2>2 DEF At
  <2>4. Settled(in2)
    BY <2>2 DEF Settled
  <2>5. ~Settled(in)
    BY <1>3 DEF Settled
  <2>6. in = Loose(in.depth)
    BY <1>1, <1>3, SituationFacts
  <2>7. ASSUME NEW s, Becomes(in, s)
        PROVE  Becomes(in2, s)
    BY <2>2, <2>4, <2>5, <2>6, <2>7 DEF Becomes
  <2> QED BY <1>1, <2>1, <2>2, <2>3, <2>4, <2>7 DEF Running
<1>4. CASE Settled(in)
  <2>1. in.height >= 1
    BY <1>2, <1>4 DEF Standing, Settled
  <2> QED BY <1>1, <1>4, <2>1
<1> QED BY <1>3, <1>4 DEF Rest

-----------------------------------------------------------------------------
(* Its tasks.                                                              *)

LEMMA TodoSet ==
  ASSUME NEW fc, NEW todo, IsFunctionCompiler(fc), IsSequence(todo)
  PROVE  /\ IsFunctionCompiler([fc EXCEPT !.todo = todo])
         /\ SameButTodo(fc, [fc EXCEPT !.todo = todo]) /\ [fc EXCEPT !.todo = todo].todo = todo
<1> DEFINE g == [fc EXCEPT !.todo = todo]
<1>1. fc = [type |-> fc.type, arity |-> fc.arity, code |-> fc.code, lines |-> fc.lines,
            constants |-> fc.constants, locals |-> fc.locals, upvalues |-> fc.upvalues,
            scopeDepth |-> fc.scopeDepth, todo |-> fc.todo]
  BY DEF IsFunctionCompiler
<1>2. g = [type |-> fc.type, arity |-> fc.arity, code |-> fc.code, lines |-> fc.lines,
           constants |-> fc.constants, locals |-> fc.locals, upvalues |-> fc.upvalues,
           scopeDepth |-> fc.scopeDepth, todo |-> todo]
  BY <1>1
<1> HIDE DEF g
<1>3. /\ g.type = fc.type /\ g.arity = fc.arity /\ g.code = fc.code /\ g.lines = fc.lines
      /\ g.constants = fc.constants /\ g.locals = fc.locals /\ g.upvalues = fc.upvalues
      /\ g.scopeDepth = fc.scopeDepth /\ g.todo = todo
  BY <1>2
<1>4. IsFunctionCompiler(g) /\ SameButTodo(fc, g)
  BY <1>2, <1>3 DEF IsFunctionCompiler, SameButTodo
<1> QED BY <1>3, <1>4 DEF g

LEMMA PoppedFacts ==
  ASSUME NEW fc, IsFunctionCompiler(fc), fc.todo # << >>
  PROVE  /\ IsFunctionCompiler(Popped(fc)) /\ SameButTodo(fc, Popped(fc))
         /\ Popped(fc).todo = Front(fc.todo) /\ IsSequence(Front(fc.todo))
         /\ Awaited(fc.todo) = Awaited(Popped(fc).todo) \cup AwaitedBy(Last(fc.todo))
<1>1. IsSequence(fc.todo)
  BY DEF IsFunctionCompiler
<1>2. IsSequence(Front(fc.todo)) /\ fc.todo = Append(Front(fc.todo), Last(fc.todo))
  BY <1>1, SequenceFront
<1>3. Popped(fc) = [fc EXCEPT !.todo = Front(fc.todo)]
  BY DEF Popped
<1>4. Awaited(fc.todo) = Awaited(Front(fc.todo)) \cup AwaitedBy(Last(fc.todo))
  BY <1>2, AwaitedAppend
<1> QED BY <1>2, <1>3, <1>4, TodoSet

(* Nothing but the plan depends on the tasks.                              *)
LEMMA ReadyAnyTodo ==
  ASSUME NEW fns, NEW fc, NEW w, NEW E, NEW in, NEW out, NEW fc2,
         Ready(fns, fc, w, E, in), IsFunctionCompiler(fc2), SameButTodo(fc, fc2),
         Planned(fc2, w, out)
  PROVE  Ready(fns, fc2, w, E, out)
<1>1. Finished(fc2).code = fc.code /\ Live(fc2) = Live(fc)
  BY FinishedFields DEF SameButTodo, Live
<1>2. Heights(fc2, w) = Heights(fc, w) /\ Covered(fc2, w) = Covered(fc, w)
  BY <1>1 DEF SameButTodo, Heights, Covered
<1>3. LocalsSound(fc2) /\ IsWindow(fc2, w)
  BY DEF Ready, LocalsSound, IsWindow, SameButTodo, OpAt
<1> DEFINE F == Finished(fc)
           F2 == Finished(fc2)
           H == Heights(fc, w)
           L == Covered(fc, w)
<1>4. /\ F2.code = F.code /\ F2.constants = F.constants /\ F2.arity = F.arity
      /\ F2.upvalueCount = F.upvalueCount /\ F.upvalueCount \in Nat /\ Len(F.code) \in Nat
  BY FinishedFields, SequenceFacts DEF SameButTodo, Ready, IsFunctionCompiler
<1>5. ChunkSound(fns, F, H, L, E)
  BY DEF Ready
<1> HIDE DEF F, F2, H, L
<1>6. FunctionsKnown(fns, F2) /\ FunctionsKnown(fns, F)
  BY <1>4, <1>5 DEF ChunkSound, FunctionsKnown
<1>7. Extends(fns, F, H, L, fns, F2, H, L)
  <2>1. \A o \in DOMAIN H : H[o] \in Nat \ {0} /\ L[o] \in Nat
    BY <1>5 DEF ChunkSound
  <2>2. \A o \in DOMAIN H : L[o] >= L[o]
    BY <2>1
  <2> QED BY <1>4, <1>5, <1>6, <2>1, <2>2 DEF Extends, ChunkSound
<1>8. ChunkSound(fns, F2, H, L, E)
  BY <1>4, <1>5, <1>6, <1>7, ChunkGrows
<1> QED BY <1>2, <1>3, <1>8 DEF Ready, F, F2, H, L

LEMMA AtAnyTodo ==
  ASSUME NEW fc, NEW fc2, NEW now, NEW s, SameButTodo(fc, fc2), At(fc, now, s)
  PROVE  At(fc2, now, s)
BY DEF At, Scoped, Live, SameButTodo

(* A task that is pushed onto those that wait.                             *)
Waiting(fc, w, t, mid, out) ==
  /\ t.do \notin Immediate /\ mid \in Situations /\ out.depth <= mid.depth
  /\ Fits(t, mid, out) /\ Finds(fc, w, t, mid, out)

LEMMA RunningPushes ==
  ASSUME NEW fns, NEW fc, NEW w, NEW X, NEW in, NEW mid, NEW out, NEW t, NEW fc2,
         Running(fns, fc, w, X, in, out), IsFunctionCompiler(fc2), SameButTodo(fc, fc2),
         fc2.todo = Append(fc.todo, t), t.do \in Bottom <=> fc.todo = << >>,
         Waiting(fc, w, t, mid, out)
  PROVE  Running(fns, fc2, w, X \ AwaitedBy(t), in, mid) /\ fc2.todo # << >>
<1> DEFINE E == Awaited(fc.todo) \cup X
           E2 == Awaited(fc2.todo) \cup (X \ AwaitedBy(t))
<1>1. /\ in \in Situations /\ out \in Situations /\ mid \in Situations
      /\ Ready(fns, fc, w, E, out) /\ At(fc, w.now, in)
  BY DEF Running, Waiting
<1>2. IsSequence(fc.todo) /\ IsFunctionCompiler(fc)
  BY <1>1 DEF Ready, IsFunctionCompiler
<1>3. Len(fc.todo) + 1 = 1 <=> fc.todo = << >>
  BY <1>2, SequenceFacts
<1>4. Placed(fc, w, t, Len(fc.todo) + 1, mid, out)
  BY <1>3 DEF Waiting, Placed
<1>5. Planned(fc2, w, mid)
  BY <1>1, <1>2, <1>4, PlannedPush DEF Waiting, Ready
<1>6. Awaited(fc2.todo) = Awaited(fc.todo) \cup AwaitedBy(t)
  BY <1>2, AwaitedAppend
<1>7. E2 = E \cup AwaitedBy(t) /\ E \subseteq E2
  BY <1>6
<1>8. ChunkSound(fns, Finished(fc2), Heights(fc2, w), Covered(fc2, w), E2)
  <2> HIDE DEF E, E2
  <2>1. Ready(fns, fc2, w, E, mid)
    BY <1>1, <1>5, ReadyAnyTodo
  <2> QED BY <1>7, <2>1 DEF Ready, ChunkSound
<1>9. Ready(fns, fc2, w, E2, mid)
  <2> HIDE DEF E, E2
  <2>1. Ready(fns, fc2, w, E, mid)
    BY <1>1, <1>5, ReadyAnyTodo
  <2> QED BY <1>8, <2>1 DEF Ready
<1>10. At(fc2, w.now, in)
  BY <1>1, AtAnyTodo
<1>11. fc2.todo # << >>
  BY <1>2, SequenceAppend
<1> QED BY <1>1, <1>9, <1>10, <1>11 DEF Running

(* What the next task of a compiler finds.                                 *)
LEMMA RunningOfLevel ==
  ASSUME NEW fns, NEW fc, NEW w, Level(fns, fc, w)
  PROVE  \E in, out \in Situations :
           /\ Running(fns, Popped(fc), w, AwaitedBy(Last(fc.todo)), in, out)
           /\ Placed(Popped(fc), w, Last(fc.todo), Len(Popped(fc).todo) + 1, in, out)
<1>1. IsFunctionCompiler(fc) /\ fc.todo # << >>
  BY DEF Level
<1>2. PICK in \in Situations, out \in Situations :
        Before(fns, Popped(fc), w, Last(fc.todo), Awaited(fc.todo), in, out)
  BY DEF Level
<1>3. Running(fns, Popped(fc), w, AwaitedBy(Last(fc.todo)), in, out)
  BY <1>2 DEF Before, Running
<1> QED BY <1>2, <1>3 DEF Before

LEMMA LevelOfBefore ==
  ASSUME NEW fns, NEW fc, NEW w, NEW in, NEW out, IsFunctionCompiler(fc), fc.todo # << >>,
         Running(fns, Popped(fc), w, AwaitedBy(Last(fc.todo)), in, out),
         Placed(Popped(fc), w, Last(fc.todo), Len(Popped(fc).todo) + 1, in, out)
  PROVE  Level(fns, fc, w)
<1>1. Awaited(fc.todo) = Awaited(Popped(fc).todo) \cup AwaitedBy(Last(fc.todo))
  BY PoppedFacts
<1>2. Before(fns, Popped(fc), w, Last(fc.todo), Awaited(fc.todo), in, out)
  BY <1>1 DEF Before, Running
<1>3. in \in Situations /\ out \in Situations
  BY DEF Running
<1> QED BY <1>2, <1>3 DEF Level

(* The next task is one of those that wait.                                *)
LEMMA LevelOfRunning ==
  ASSUME NEW fns, NEW fc, NEW w, NEW X, NEW in,
         Running(fns, fc, w, X, in, in), X = {}, fc.todo # << >>
  PROVE  Level(fns, fc, w) /\ Last(fc.todo).do \notin Immediate
<1>1. /\ in \in Situations /\ At(fc, w.now, in) /\ Planned(fc, w, in)
      /\ Ready(fns, fc, w, Awaited(fc.todo) \cup X, in) /\ IsFunctionCompiler(fc)
  BY DEF Running, Ready
<1>2. /\ IsFunctionCompiler(Popped(fc)) /\ SameButTodo(fc, Popped(fc))
      /\ Popped(fc).todo = Front(fc.todo)
      /\ Awaited(fc.todo) = Awaited(Popped(fc).todo) \cup AwaitedBy(Last(fc.todo))
  BY <1>1, PoppedFacts
<1>3. IsSequence(fc.todo)
  BY <1>1 DEF IsFunctionCompiler
<1>4. /\ Last(fc.todo).do \notin Immediate
      /\ \E out \in Situations :
           /\ Planned(Popped(fc), w, out)
           /\ Placed(Popped(fc), w, Last(fc.todo), Len(Popped(fc).todo) + 1, in, out)
  BY <1>1, <1>2, <1>3, PlannedPop
<1>5. PICK out \in Situations :
           /\ Planned(Popped(fc), w, out)
           /\ Placed(Popped(fc), w, Last(fc.todo), Len(Popped(fc).todo) + 1, in, out)
  BY <1>4
<1>6. Ready(fns, Popped(fc), w, Awaited(fc.todo) \cup X, out)
  BY <1>1, <1>2, <1>5, ReadyAnyTodo
<1>7. Awaited(fc.todo) \cup X = Awaited(Popped(fc).todo) \cup AwaitedBy(Last(fc.todo))
  BY <1>2
<1>8. At(Popped(fc), w.now, in)
  BY <1>1, <1>2, AtAnyTodo
<1>9. Running(fns, Popped(fc), w, AwaitedBy(Last(fc.todo)), in, out)
  BY <1>1, <1>5, <1>6, <1>7, <1>8 DEF Running
<1> QED BY <1>1, <1>4, <1>5, <1>9, LevelOfBefore

(* The next task is one that has just been pushed.                         *)
LEMMA LevelOfImmediate ==
  ASSUME NEW fns, NEW fc, NEW w, NEW in, NEW out, NEW t, NEW fc2, NEW X,
         Running(fns, fc, w, X, in, out), X = {}, IsFunctionCompiler(fc2), SameButTodo(fc, fc2),
         fc2.lines = fc.lines, fc2.todo = Append(fc.todo, t), t.do \in Bottom <=> fc.todo = << >>,
         AwaitedBy(t) = {}, out.depth <= in.depth, Fits(t, in, out), Finds(fc, w, t, in, out)
  PROVE  Level(fns, fc2, w) /\ Last(fc2.todo) = t
<1>1. IsFunctionCompiler(fc)
  BY DEF Running, Ready
<1>2. IsSequence(fc.todo)
  BY <1>1 DEF IsFunctionCompiler
<1>3. Front(fc2.todo) = fc.todo /\ Last(fc2.todo) = t /\ fc2.todo # << >>
  <2> DEFINE todo == fc.todo
  <2>1. fc2.todo = Append(todo, t) /\ IsSequence(todo)
    BY <1>2
  <2> HIDE DEF todo
  <2>2. Front(Append(todo, t)) = todo /\ Last(Append(todo, t)) = t
    BY <2>1, AppendEnds
  <2>3. Append(todo, t) # << >>
    BY <2>1, SequenceAppend
  <2> QED BY <2>1, <2>2, <2>3 DEF todo
<1>4. Popped(fc2) = fc
  <2>1. /\ IsFunctionCompiler(Popped(fc2)) /\ SameButTodo(fc2, Popped(fc2))
        /\ Popped(fc2).todo = fc.todo
    BY <1>3, PoppedFacts
  <2>2. Popped(fc2).lines = fc.lines
    BY DEF Popped, IsFunctionCompiler
  <2> QED BY <1>1, <2>1, <2>2 DEF SameButTodo, IsFunctionCompiler
<1>5. Len(fc.todo) + 1 = 1 <=> fc.todo = << >>
  BY <1>2, SequenceFacts
<1>6. Placed(fc, w, t, Len(fc.todo) + 1, in, out)
  BY <1>5 DEF Placed
<1> QED BY <1>3, <1>4, <1>6, LevelOfBefore

-----------------------------------------------------------------------------
(* The procedures that the tasks are made of.                              *)

Working(d) == IsCompiler(d) /\ d.compilers # << >>

(* What they do stays in the innermost FunctionCompiler.                   *)
Inward(d, e) ==
  /\ Working(e) /\ (d.hadError => e.hadError)
  /\ e.functions = d.functions /\ e.source = d.source
  /\ Len(e.compilers) = Len(d.compilers)
  /\ \A k \in 1 .. Len(d.compilers) - 1 : e.compilers[k] = d.compilers[k]

LEMMA InwardChain ==
  ASSUME NEW d, NEW e, NEW f, Inward(d, e), Inward(e, f)
  PROVE  Inward(d, f)
BY DEF Inward

LEMMA InwardSelf ==
  ASSUME NEW d, Working(d)
  PROVE  Inward(d, d)
BY DEF Inward

LEMMA InnerLast ==
  ASSUME NEW d, Working(d)
  PROVE  /\ Len(d.compilers) \in Nat \ {0} /\ Inner(d) = d.compilers[Len(d.compilers)]
         /\ DOMAIN d.compilers = 1 .. Len(d.compilers)
BY SequenceFacts DEF Working, IsCompiler, Inner, Last

LEMMA WithFacts ==
  ASSUME NEW d, NEW fc, Working(d)
  PROVE  /\ Inward(d, With(d, fc)) /\ Inner(With(d, fc)) = fc
         /\ With(d, fc).hadError = d.hadError /\ With(d, fc).panicMode = d.panicMode
         /\ With(d, fc).previous = d.previous /\ With(d, fc).current = d.current
         /\ With(d, fc).canAssign = d.canAssign /\ With(d, fc).functions = d.functions
         /\ With(d, fc).source = d.source
<1> DEFINE n == Len(d.compilers)
           s == [d.compilers EXCEPT ![n] = fc]
           e == [d EXCEPT !.compilers = s]
<1>1. With(d, fc) = e
  BY DEF With
<1>2. IsSequence(d.compilers) /\ n \in Nat \ {0} /\ DOMAIN d.compilers = 1 .. n
  BY InnerLast DEF Working, IsCompiler
<1>3. /\ IsSequence(s) /\ Len(s) = n
      /\ \A k \in 1 .. n : s[k] = IF k = n THEN fc ELSE d.compilers[k]
  BY <1>2, SequenceExcept
<1>4. s # << >>
  BY <1>2, <1>3, ShortSequences
<1> HIDE DEF s
<1>5. d = [source |-> d.source, previous |-> d.previous, current |-> d.current,
           hadError |-> d.hadError, panicMode |-> d.panicMode, canAssign |-> d.canAssign,
           compilers |-> d.compilers, functions |-> d.functions, hangs |-> d.hangs]
      /\ (d.panicMode => d.hadError)
  BY DEF Working, IsCompiler
<1>6. e = [source |-> d.source, previous |-> d.previous, current |-> d.current,
           hadError |-> d.hadError, panicMode |-> d.panicMode, canAssign |-> d.canAssign,
           compilers |-> s, functions |-> d.functions, hangs |-> d.hangs]
  BY <1>5
<1> HIDE DEF e
<1>7. /\ e.source = d.source /\ e.previous = d.previous /\ e.current = d.current
      /\ e.hadError = d.hadError /\ e.panicMode = d.panicMode /\ e.canAssign = d.canAssign
      /\ e.compilers = s /\ e.functions = d.functions /\ e.hangs = d.hangs
  BY <1>6
<1>8. Working(e)
  BY <1>3, <1>4, <1>5, <1>6, <1>7 DEF Working, IsCompiler
<1>9. Inner(e) = fc
  BY <1>2, <1>3, <1>7, <1>8, InnerLast
<1>10. Inward(d, e)
  BY <1>2, <1>3, <1>7, <1>8 DEF Inward
<1> QED BY <1>1, <1>7, <1>9, <1>10

(* Only flags and positions change.                                        *)
Same(d, e) ==
  /\ IsCompiler(e) /\ (d.hadError => e.hadError)
  /\ e.compilers = d.compilers /\ e.functions = d.functions /\ e.source = d.source

LEMMA SameInward ==
  ASSUME NEW d, NEW e, Working(d), Same(d, e)
  PROVE  Inward(d, e) /\ Inner(e) = Inner(d) /\ Working(e)
BY DEF Same, Working, Inward, Inner

LEMMA FlagsExcept ==
  ASSUME NEW d, NEW p, NEW q, IsCompiler(d)
  PROVE  [d EXCEPT !.panicMode = p, !.hadError = q] =
          [source |-> d.source, previous |-> d.previous, current |-> d.current,
           hadError |-> q, panicMode |-> p, canAssign |-> d.canAssign,
           compilers |-> d.compilers, functions |-> d.functions, hangs |-> d.hangs]
<1> DEFINE b == [d EXCEPT !.panicMode = p]
<1>1. d = [source |-> d.source, previous |-> d.previous, current |-> d.current,
           hadError |-> d.hadError, panicMode |-> d.panicMode, canAssign |-> d.canAssign,
           compilers |-> d.compilers, functions |-> d.functions, hangs |-> d.hangs]
  BY DEF IsCompiler
<1>2. b = [source |-> d.source, previous |-> d.previous, current |-> d.current,
           hadError |-> d.hadError, panicMode |-> p, canAssign |-> d.canAssign,
           compilers |-> d.compilers, functions |-> d.functions, hangs |-> d.hangs]
  BY <1>1
<1>3. [d EXCEPT !.panicMode = p, !.hadError = q] = [b EXCEPT !.hadError = q]
  OBVIOUS
<1> HIDE DEF b
<1>4. /\ b.source = d.source /\ b.previous = d.previous /\ b.current = d.current
      /\ b.hadError = d.hadError /\ b.panicMode = p /\ b.canAssign = d.canAssign
      /\ b.compilers = d.compilers /\ b.functions = d.functions /\ b.hangs = d.hangs
  BY <1>2
<1>5. b = [source |-> b.source, previous |-> b.previous, current |-> b.current,
           hadError |-> b.hadError, panicMode |-> b.panicMode, canAssign |-> b.canAssign,
           compilers |-> b.compilers, functions |-> b.functions, hangs |-> b.hangs]
  BY <1>2, <1>4
<1>6. [b EXCEPT !.hadError = q] =
          [source |-> b.source, previous |-> b.previous, current |-> b.current,
           hadError |-> q, panicMode |-> b.panicMode, canAssign |-> b.canAssign,
           compilers |-> b.compilers, functions |-> b.functions, hangs |-> b.hangs]
  BY <1>5
<1> QED BY <1>3, <1>4, <1>6

LEMMA PositionsExcept ==
  ASSUME NEW d, NEW p, NEW q, IsCompiler(d)
  PROVE  [d EXCEPT !.previous = p, !.current = q] =
          [source |-> d.source, previous |-> p, current |-> q,
           hadError |-> d.hadError, panicMode |-> d.panicMode, canAssign |-> d.canAssign,
           compilers |-> d.compilers, functions |-> d.functions, hangs |-> d.hangs]
<1> DEFINE b == [d EXCEPT !.previous = p]
<1>1. d = [source |-> d.source, previous |-> d.previous, current |-> d.current,
           hadError |-> d.hadError, panicMode |-> d.panicMode, canAssign |-> d.canAssign,
           compilers |-> d.compilers, functions |-> d.functions, hangs |-> d.hangs]
  BY DEF IsCompiler
<1>2. b = [source |-> d.source, previous |-> p, current |-> d.current,
           hadError |-> d.hadError, panicMode |-> d.panicMode, canAssign |-> d.canAssign,
           compilers |-> d.compilers, functions |-> d.functions, hangs |-> d.hangs]
  BY <1>1
<1>3. [d EXCEPT !.previous = p, !.current = q] = [b EXCEPT !.current = q]
  OBVIOUS
<1> HIDE DEF b
<1>4. /\ b.source = d.source /\ b.previous = p /\ b.current = d.current
      /\ b.hadError = d.hadError /\ b.panicMode = d.panicMode /\ b.canAssign = d.canAssign
      /\ b.compilers = d.compilers /\ b.functions = d.functions /\ b.hangs = d.hangs
  BY <1>2
<1>5. b = [source |-> b.source, previous |-> b.previous, current |-> b.current,
           hadError |-> b.hadError, panicMode |-> b.panicMode, canAssign |-> b.canAssign,
           compilers |-> b.compilers, functions |-> b.functions, hangs |-> b.hangs]
  BY <1>2, <1>4
<1>6. [b EXCEPT !.current = q] =
          [source |-> b.source, previous |-> b.previous, current |-> q,
           hadError |-> b.hadError, panicMode |-> b.panicMode, canAssign |-> b.canAssign,
           compilers |-> b.compilers, functions |-> b.functions, hangs |-> b.hangs]
  BY <1>5
<1> QED BY <1>3, <1>4, <1>6

LEMMA ErrorSame ==
  ASSUME NEW d, IsCompiler(d)
  PROVE  /\ Same(d, Error(d)) /\ Error(d).hadError
         /\ Error(d).previous = d.previous /\ Error(d).current = d.current
         /\ Error(d).canAssign = d.canAssign
<1> DEFINE e == [d EXCEPT !.panicMode = TRUE, !.hadError = TRUE]
<1>1. d = [source |-> d.source, previous |-> d.previous, current |-> d.current,
           hadError |-> d.hadError, panicMode |-> d.panicMode, canAssign |-> d.canAssign,
           compilers |-> d.compilers, functions |-> d.functions, hangs |-> d.hangs]
      /\ (d.panicMode => d.hadError) /\ IsSequence(d.compilers)
  BY DEF IsCompiler
<1>2. e = [source |-> d.source, previous |-> d.previous, current |-> d.current,
           hadError |-> TRUE, panicMode |-> TRUE, canAssign |-> d.canAssign,
           compilers |-> d.compilers, functions |-> d.functions, hangs |-> d.hangs]
  BY FlagsExcept
<1> HIDE DEF e
<1>3. /\ e.source = d.source /\ e.previous = d.previous /\ e.current = d.current
      /\ e.hadError = TRUE /\ e.panicMode = TRUE /\ e.canAssign = d.canAssign
      /\ e.compilers = d.compilers /\ e.functions = d.functions /\ e.hangs = d.hangs
  BY <1>2
<1>4. IsCompiler(e)
  BY <1>1, <1>2, <1>3 DEF IsCompiler
<1>5. Error(d) = IF d.panicMode THEN d ELSE e
  BY DEF Error, e
<1>6. CASE d.panicMode
  BY <1>1, <1>5, <1>6 DEF Same
<1>7. CASE ~d.panicMode
  BY <1>3, <1>4, <1>5, <1>7 DEF Same
<1> QED BY <1>6, <1>7

LEMMA PositionsSame ==
  ASSUME NEW d, NEW p, NEW q, IsCompiler(d)
  PROVE  /\ Same(d, [d EXCEPT !.previous = p, !.current = q])
         /\ [d EXCEPT !.previous = p, !.current = q].hadError = d.hadError
<1> DEFINE e == [d EXCEPT !.previous = p, !.current = q]
<1>1. d = [source |-> d.source, previous |-> d.previous, current |-> d.current,
           hadError |-> d.hadError, panicMode |-> d.panicMode, canAssign |-> d.canAssign,
           compilers |-> d.compilers, functions |-> d.functions, hangs |-> d.hangs]
      /\ (d.panicMode => d.hadError) /\ IsSequence(d.compilers)
  BY DEF IsCompiler
<1>2. e = [source |-> d.source, previous |-> p, current |-> q,
           hadError |-> d.hadError, panicMode |-> d.panicMode, canAssign |-> d.canAssign,
           compilers |-> d.compilers, functions |-> d.functions, hangs |-> d.hangs]
  BY PositionsExcept
<1> HIDE DEF e
<1>3. /\ e.source = d.source /\ e.previous = p /\ e.current = q
      /\ e.hadError = d.hadError /\ e.panicMode = d.panicMode /\ e.canAssign = d.canAssign
      /\ e.compilers = d.compilers /\ e.functions = d.functions /\ e.hangs = d.hangs
  BY <1>2
<1>4. IsCompiler(e)
  BY <1>1, <1>2, <1>3 DEF IsCompiler
<1>5. Same(d, e) /\ e.hadError = d.hadError
  BY <1>3, <1>4 DEF Same
<1> QED BY <1>5 DEF e

LEMMA AdvanceSame ==
  ASSUME NEW d, IsCompiler(d)
  PROVE  /\ Same(d, Advance(d)) /\ Advance(d).previous = d.current
<1> DEFINE next == CHOOSE i \in d.current + 1 .. Len(d.source) + d.current + 1 :
                     /\ TokenAt(d, i).type # "ERROR"
                     /\ \A k \in d.current + 1 .. i - 1 : TokenAt(d, k).type = "ERROR"
           e == IF next = d.current + 1 THEN d ELSE Error(d)
<1>1. Advance(d) = [e EXCEPT !.previous = d.current, !.current = next]
  BY DEF Advance
<1> HIDE DEF next
<1>2. Same(d, e) /\ IsCompiler(e)
  BY ErrorSame DEF Same
<1> HIDE DEF e
<1>3. Same(e, [e EXCEPT !.previous = d.current, !.current = next])
  BY <1>2, PositionsSame
<1>4. [e EXCEPT !.previous = d.current, !.current = next].previous = d.current
  BY <1>2 DEF IsCompiler
<1> QED BY <1>1, <1>2, <1>3, <1>4 DEF Same

LEMMA ConsumeSame ==
  ASSUME NEW d, NEW type, IsCompiler(d)
  PROVE  /\ Same(d, Consume(d, type))
         /\ ~Consume(d, type).hadError =>
               Consume(d, type).previous = d.current /\ Current(d).type = type
BY ErrorSame, AdvanceSame DEF Consume, Check

LEMMA SameChain ==
  ASSUME NEW d, NEW e, NEW f, Same(d, e), Same(e, f)
  PROVE  Same(d, f)
BY DEF Same

(* Each procedure that the tasks call stays in it, whatever it finds.      *)

LEMMA ThenInward ==
  ASSUME NEW d, NEW tasks, Working(d)
  PROVE  /\ Inward(d, Then(d, tasks)) /\ Working(Then(d, tasks))
         /\ Then(d, tasks).hadError = d.hadError /\ Then(d, tasks).previous = d.previous
         /\ Then(d, tasks).current = d.current /\ Then(d, tasks).canAssign = d.canAssign
BY WithFacts DEF Then, Inward

LEMMA EmitInward ==
  ASSUME NEW d, NEW bytes, Working(d)
  PROVE  /\ Inward(d, Emit(d, bytes)) /\ Working(Emit(d, bytes))
         /\ Emit(d, bytes).hadError = d.hadError
BY WithFacts DEF Emit, Inward

LEMMA ErrorInward ==
  ASSUME NEW d, Working(d)
  PROVE  Inward(d, Error(d)) /\ Working(Error(d)) /\ Inner(Error(d)) = Inner(d) /\ Error(d).hadError
BY ErrorSame, SameInward DEF Working

LEMMA AdvanceInward ==
  ASSUME NEW d, Working(d)
  PROVE  /\ Inward(d, Advance(d)) /\ Working(Advance(d)) /\ Inner(Advance(d)) = Inner(d)
         /\ Advance(d).previous = d.current
BY AdvanceSame, SameInward DEF Working

LEMMA ConsumeInward ==
  ASSUME NEW d, NEW type, Working(d)
  PROVE  Inward(d, Consume(d, type)) /\ Working(Consume(d, type)) /\ Inner(Consume(d, type)) = Inner(d)
BY ConsumeSame, SameInward DEF Working

LEMMA AddConstantInward ==
  ASSUME NEW d, NEW v, Working(d)
  PROVE  Inward(d, MakeConstant(d, v)) /\ Working(MakeConstant(d, v))
<1> DEFINE e == With(d, [Inner(d) EXCEPT !.constants = Append(@, v)])
<1>1. Inward(d, e) /\ Working(e)
  BY WithFacts DEF Inward
<1>2. MakeConstant(d, v) = e \/ MakeConstant(d, v) = Error(e)
  BY DEF MakeConstant
<1> HIDE DEF e
<1> QED BY <1>1, <1>2, ErrorInward, InwardChain

LEMMA EmitConstantInward ==
  ASSUME NEW d, NEW v, Working(d)
  PROVE  Inward(d, EmitConstant(d, v)) /\ Working(EmitConstant(d, v))
BY AddConstantInward, EmitInward, InwardChain DEF EmitConstant

LEMMA EmitJumpInward ==
  ASSUME NEW d, NEW op, Working(d)
  PROVE  /\ Inward(d, EmitJump(d, op)) /\ Working(EmitJump(d, op))
         /\ EmitJump(d, op).hadError = d.hadError
BY EmitInward DEF EmitJump

LEMMA PatchJumpInward ==
  ASSUME NEW d, NEW offset, Working(d)
  PROVE  Inward(d, PatchJump(d, offset)) /\ Working(PatchJump(d, offset))
<1> DEFINE jump == Count(d) - offset - 2
           e == IF jump > UINT16_MAX THEN Error(d) ELSE d
           fc == [Inner(e) EXCEPT !.code[offset + 1] = High(jump), !.code[offset + 2] = Low(jump)]
<1>1. Inward(d, e) /\ Working(e)
  BY ErrorInward, InwardSelf
<1>2. PatchJump(d, offset) = With(e, fc)
  BY DEF PatchJump
<1> HIDE DEF e, fc
<1> QED BY <1>1, <1>2, WithFacts, InwardChain DEF Inward

LEMMA EmitLoopInward ==
  ASSUME NEW d, NEW start, Working(d)
  PROVE  Inward(d, EmitLoop(d, start)) /\ Working(EmitLoop(d, start))
BY ErrorInward, EmitInward, InwardChain DEF EmitLoop

LEMMA BeginScopeInward ==
  ASSUME NEW d, Working(d)
  PROVE  Inward(d, BeginScope(d)) /\ Working(BeginScope(d))
BY WithFacts DEF BeginScope, Inward

LEMMA PopLocalsInward ==
  ASSUME NEW d, Working(d)
  PROVE  Inward(d, PopLocals(d)) /\ Working(PopLocals(d))
<1> DEFINE e == Emit(d, <<OP_POP>>)
           f == With(e, [Inner(e) EXCEPT !.locals = Front(@)])
<1>1. Inward(d, e) /\ Working(e)
  BY EmitInward
<1>2. Inward(e, f) /\ Working(f)
  BY <1>1, WithFacts DEF Inward
<1>3. Inward(f, Then(f, <<Task("PopLocals", << >>)>>)) /\ Working(Then(f, <<Task("PopLocals", << >>)>>))
  BY <1>2, ThenInward
<1>4. PopLocals(d) = d \/ PopLocals(d) = Then(f, <<Task("PopLocals", << >>)>>)
  BY DEF PopLocals
<1> QED BY <1>1, <1>2, <1>3, <1>4, InwardSelf, InwardChain

LEMMA EndScopeInward ==
  ASSUME NEW d, Working(d)
  PROVE  Inward(d, EndScope(d)) /\ Working(EndScope(d))
BY WithFacts, PopLocalsInward, InwardChain DEF EndScope, Inward

LEMMA DeclareVariableInward ==
  ASSUME NEW d, Working(d)
  PROVE  Inward(d, DeclareVariable(d)) /\ Working(DeclareVariable(d))
<1> DEFINE fc == [Inner(d) EXCEPT !.locals =
                    Append(@, [name |-> Previous(d).lexeme, depth |-> UINT8_MAX])]
<1>1. \/ DeclareVariable(d) = d
      \/ DeclareVariable(d) = With(d, fc)
      \/ DeclareVariable(d) = With(Error(d), fc)
  BY DEF DeclareVariable
<1> HIDE DEF fc
<1> QED BY <1>1, InwardSelf, ErrorInward, WithFacts, InwardChain DEF Inward

LEMMA MarkInitializedInward ==
  ASSUME NEW d, Working(d)
  PROVE  Inward(d, MarkInitialized(d)) /\ Working(MarkInitialized(d))
BY InwardSelf, WithFacts DEF MarkInitialized, Inward

LEMMA ParseVariableInward ==
  ASSUME NEW d, Working(d)
  PROVE  Inward(d, ParseVariable(d)) /\ Working(ParseVariable(d))
<1> DEFINE e == DeclareVariable(Consume(d, "IDENTIFIER"))
<1>1. Inward(d, e) /\ Working(e)
  BY ConsumeInward, DeclareVariableInward, InwardChain
<1>2. ParseVariable(d) = e \/ \E v : ParseVariable(d) = MakeConstant(e, v)
  BY DEF ParseVariable
<1> HIDE DEF e
<1> QED BY <1>1, <1>2, AddConstantInward, InwardChain

LEMMA DefineVariableInward ==
  ASSUME NEW d, NEW global, Working(d)
  PROVE  Inward(d, DefineVariable(d, global)) /\ Working(DefineVariable(d, global))
BY MarkInitializedInward, EmitInward DEF DefineVariable

LEMMA AccessInward ==
  ASSUME NEW d, NEW get, NEW set, NEW arg, Working(d)
  PROVE  Inward(d, Access(d, get, set, arg)) /\ Working(Access(d, get, set, arg))
BY AdvanceInward, ThenInward, EmitInward, InwardChain DEF Access

LEMMA GlobalInward ==
  ASSUME NEW d, Working(d)
  PROVE  Inward(d, Global(d)) /\ Working(Global(d))
<1>1. \E v, get, set, arg : Global(d) = Access(MakeConstant(d, v), get, set, arg)
  BY DEF Global
<1> QED BY <1>1, AddConstantInward, AccessInward, InwardChain

LEMMA CallInward ==
  ASSUME NEW d, NEW n, Working(d)
  PROVE  Inward(d, Call(d)) /\ Inward(d, CountArgument(d, n))
<1>1. Inward(d, Call(d))
  BY AdvanceInward, EmitInward, ThenInward, InwardChain DEF Call
<1>2. PICK e : /\ e = d \/ e = Error(d)
               /\ \/ \E tasks : CountArgument(d, n) = Then(Advance(e), tasks)
                  \/ \E bytes : CountArgument(d, n) = Emit(Consume(e, "RIGHT_PAREN"), bytes)
  BY DEF CountArgument
<1>3. Inward(d, e) /\ Working(e)
  BY <1>2, InwardSelf, ErrorInward
<1> QED BY <1>1, <1>2, <1>3, AdvanceInward, ConsumeInward, EmitInward, ThenInward, InwardChain

LEMMA OrElseInward ==
  ASSUME NEW d, NEW offset, Working(d)
  PROVE  Inward(d, OrElse(d, offset)) /\ Inward(d, IfElse(d, offset))
BY EmitJumpInward, PatchJumpInward, ThenInward, InwardChain DEF OrElse, IfElse

LEMMA InfixInward ==
  ASSUME NEW d, Working(d)
  PROVE  Inward(d, Infix(d)) /\ Working(Infix(d))
<1>1. \/ \E tasks : Infix(d) = Then(d, tasks)
      \/ \E tasks : Infix(d) = Then(EmitJump(d, OP_JUMP_IF_FALSE), tasks)
  BY DEF Infix, And, Or, Binary
<1> QED BY <1>1, EmitJumpInward, ThenInward, InwardChain DEF Inward

LEMMA PrefixInward ==
  ASSUME NEW d, Working(d)
  PROVE  Inward(d, Prefix(d)) /\ Working(Prefix(d))
<1>1. \/ \E tasks : Prefix(d) = Then(d, tasks)
      \/ \E v : Prefix(d) = EmitConstant(d, v)
      \/ \E bytes : Prefix(d) = Emit(d, bytes)
  BY DEF Prefix, Unary, Literal
<1> QED BY <1>1, EmitInward, ThenInward, EmitConstantInward

LEMMA AssignsSame ==
  ASSUME NEW d, NEW b, IsCompiler(d)
  PROVE  /\ Same(d, [d EXCEPT !.canAssign = b])
         /\ [d EXCEPT !.canAssign = b].hadError = d.hadError
         /\ [d EXCEPT !.canAssign = b].previous = d.previous
         /\ [d EXCEPT !.canAssign = b].canAssign = b
<1> DEFINE e == [d EXCEPT !.canAssign = b]
<1>1. d = [source |-> d.source, previous |-> d.previous, current |-> d.current,
           hadError |-> d.hadError, panicMode |-> d.panicMode, canAssign |-> d.canAssign,
           compilers |-> d.compilers, functions |-> d.functions, hangs |-> d.hangs]
      /\ (d.panicMode => d.hadError) /\ IsSequence(d.compilers)
  BY DEF IsCompiler
<1>2. e = [source |-> d.source, previous |-> d.previous, current |-> d.current,
           hadError |-> d.hadError, panicMode |-> d.panicMode, canAssign |-> b,
           compilers |-> d.compilers, functions |-> d.functions, hangs |-> d.hangs]
  BY <1>1
<1> HIDE DEF e
<1>3. /\ e.source = d.source /\ e.previous = d.previous /\ e.current = d.current
      /\ e.hadError = d.hadError /\ e.panicMode = d.panicMode /\ e.canAssign = b
      /\ e.compilers = d.compilers /\ e.functions = d.functions /\ e.hangs = d.hangs
  BY <1>2
<1>4. IsCompiler(e)
  BY <1>1, <1>2, <1>3 DEF IsCompiler
<1>5. Same(d, e) /\ e.hadError = d.hadError /\ e.previous = d.previous /\ e.canAssign = b
  BY <1>3, <1>4 DEF Same
<1> QED BY <1>5 DEF e

LEMMA ParseInward ==
  ASSUME NEW d, NEW precedence, Working(d)
  PROVE  Inward(d, ParsePrecedence(d, precedence)) /\ Inward(d, ParseInfix(d, precedence))
<1>1. Inward(d, ParseInfix(d, precedence))
  <2> DEFINE e == Advance(Then(d, <<ParsingInfix(precedence)>>))
  <2>1. Inward(d, e) /\ Working(e)
    BY ThenInward, AdvanceInward, InwardChain
  <2>2. \/ ParseInfix(d, precedence) = Infix(e)
        \/ ParseInfix(d, precedence) = Error(Advance(d))
        \/ ParseInfix(d, precedence) = d
    BY DEF ParseInfix
  <2> HIDE DEF e
  <2> QED BY <2>1, <2>2, InfixInward, AdvanceInward, ErrorInward, InwardSelf, InwardChain
<1>2. Inward(d, ParsePrecedence(d, precedence))
  <2> DEFINE e == [Advance(d) EXCEPT !.canAssign = precedence <= ASSIGNMENT]
             f == Then(e, <<ParsingInfix(precedence)>>)
  <2>1. Inward(d, Advance(d)) /\ Working(Advance(d))
    BY AdvanceInward
  <2>2. Inward(Advance(d), e) /\ Working(e)
    BY <2>1, AssignsSame, SameInward DEF Working
  <2> HIDE DEF e
  <2>3. Inward(e, f) /\ Working(f)
    BY <2>2, ThenInward
  <2>4. ParsePrecedence(d, precedence) \in {Error(Advance(d)), Prefix(f)}
    BY DEF ParsePrecedence, e
  <2> HIDE DEF f
  <2> QED BY <2>1, <2>2, <2>3, <2>4, PrefixInward, ErrorInward, InwardChain
<1> QED BY <1>1, <1>2

LEMMA JumpsInward ==
  ASSUME NEW d, NEW a, NEW b, Working(d)
  PROVE  /\ Inward(d, IfThen(d)) /\ Inward(d, Else(d, a)) /\ Inward(d, WhileBody(d, a))
         /\ Inward(d, EndLoop(d, a, b)) /\ Inward(d, ForInitializer(d)) /\ Inward(d, ForCondition(d))
         /\ Inward(d, ForExit(d, a)) /\ Inward(d, ForBody(d, a, b)) /\ Inward(d, ForIncrement(d, a, b))
<1>1. Inward(d, IfThen(d)) /\ Inward(d, WhileBody(d, a)) /\ Inward(d, ForExit(d, a))
  BY EmitJumpInward, ThenInward, InwardChain DEF IfThen, WhileBody, ForExit
<1>2. Inward(d, Else(d, a))
  BY AdvanceInward, ThenInward, InwardChain DEF Else
<1>3. Inward(d, EndLoop(d, a, b)) /\ Inward(d, ForIncrement(d, a, b))
  BY EmitLoopInward, PatchJumpInward, ThenInward, InwardChain DEF EndLoop, ForIncrement
<1>4. Inward(d, ForInitializer(d)) /\ Inward(d, ForCondition(d))
  BY AdvanceInward, ThenInward, InwardChain DEF ForInitializer, ForCondition, ExpressionThen
<1>5. Inward(d, ForBody(d, a, b))
  BY AdvanceInward, EmitJumpInward, ThenInward, InwardChain DEF ForBody
<1> QED BY <1>1, <1>2, <1>3, <1>4, <1>5

LEMMA ReturnInward ==
  ASSUME NEW d, Working(d)
  PROVE  Inward(d, ReturnStatement(d))
<1>1. PICK e : /\ e = d \/ e = Error(d)
               /\ \/ \E tasks : ReturnStatement(d) = Then(Advance(e), tasks)
                  \/ \E tasks : ReturnStatement(d) = Then(e, tasks)
  BY DEF ReturnStatement, ExpressionThen
<1>2. Inward(d, e) /\ Working(e)
  BY <1>1, InwardSelf, ErrorInward
<1> QED BY <1>1, <1>2, AdvanceInward, ThenInward, InwardChain

LEMMA StatementInward ==
  ASSUME NEW d, Working(d)
  PROVE  Inward(d, Statement(d)) /\ Working(Statement(d))
<1> DEFINE e == Advance(d)
<1>1. Inward(d, e) /\ Working(e)
  BY AdvanceInward
<1>2. Inward(d, BeginScope(e)) /\ Working(BeginScope(e))
  BY <1>1, BeginScopeInward, InwardChain
<1>3. \/ \E tasks : Statement(d) = Then(e, tasks)
      \/ \E tasks : Statement(d) = Then(BeginScope(e), tasks)
      \/ \E tasks : Statement(d) = Then(d, tasks)
  <2> HIDE DEF e
  <2> QED BY SMTT(30) DEF Statement, ExpressionThen, WhileStatement, ForStatement, IfStatement, ConditionThen, e
<1> QED BY <1>1, <1>2, <1>3, ThenInward, InwardChain

LEMMA DeclarationInward ==
  ASSUME NEW d, Working(d)
  PROVE  Inward(d, Declaration(d)) /\ Working(Declaration(d))
<1> DEFINE e == Then(d, <<Task("Synchronize", << >>)>>)
<1>1. Inward(d, e) /\ Working(e)
  BY ThenInward
<1>2. \/ \E tasks : Declaration(d) = Then(Advance(e), tasks)
      \/ Declaration(d) = Statement(e)
  BY DEF Declaration
<1> HIDE DEF e
<1> QED BY <1>1, <1>2, AdvanceInward, ThenInward, StatementInward, InwardChain

LEMMA DeclarationsInward ==
  ASSUME NEW d, Working(d)
  PROVE  Inward(d, Declarations(d)) /\ Inward(d, Block(d))
BY AdvanceInward, ConsumeInward, ThenInward, DeclarationInward, InwardChain DEF Declarations, Block

LEMMA VarInward ==
  ASSUME NEW d, Working(d)
  PROVE  Inward(d, VarDeclaration(d)) /\ Inward(d, VarInitializer(d))
BY ParseVariableInward, AdvanceInward, EmitInward, ThenInward, InwardChain DEF VarDeclaration, VarInitializer

LEMMA FunctionInward ==
  ASSUME NEW d, Working(d)
  PROVE  /\ Inward(d, Function(d)) /\ Inward(d, ParameterList(d)) /\ Inward(d, Parameter(d))
         /\ Inward(d, MoreParameters(d)) /\ Inward(d, EndCompiler(d)) /\ Inward(d, Closure(d))
<1>1. Inward(d, Function(d)) /\ Inward(d, EndCompiler(d))
  BY ConsumeInward, EmitInward, ThenInward, InwardChain DEF Function, EndCompiler
<1>2. Inward(d, Parameter(d))
  <2> DEFINE e == With(d, [Inner(d) EXCEPT !.arity = Byte8(@ + 1)])
  <2>1. Inward(d, e) /\ Working(e)
    BY WithFacts DEF Inward
  <2>2. Parameter(d) = Then(DefineVariable(ParseVariable(e), 0), <<Task("MoreParameters", << >>)>>)
    BY DEF Parameter
  <2> HIDE DEF e
  <2> QED BY <2>1, <2>2, ParseVariableInward, DefineVariableInward, ThenInward, InwardChain
<1>3. Inward(d, ParameterList(d)) /\ Inward(d, MoreParameters(d))
  BY <1>2, InwardSelf, AdvanceInward, ThenInward, InwardChain DEF ParameterList, MoreParameters
<1>4. \E v, bytes : Closure(d) = Emit(MakeConstant(d, v), bytes)
  BY DEF Closure
<1>5. Inward(d, Closure(d))
  BY <1>4, AddConstantInward, EmitInward, InwardChain
<1> QED BY <1>1, <1>2, <1>3, <1>5

-----------------------------------------------------------------------------
(* A procedure at work, for the task t that d has taken from the tasks of  *)
(* its innermost FunctionCompiler, of the window w.                        *)

Window(d, t, w, e) == Recorded(w, Inner(d), t, Inner(e).code, Inner(e).arity)

Runs(d, t, w, e, X, in, out) ==
  /\ Working(d) /\ Inward(d, e)
  /\ ~e.hadError =>
       /\ Inner(e).type = Inner(d).type /\ Inner(e).upvalues = Inner(d).upvalues
       /\ Inner(e).arity = Inner(d).arity /\ Inner(e).todo # << >>
       /\ Running(d.functions, Inner(e), Window(d, t, w, e), X, in, out)

(* No instruction has been emitted yet.                                    *)
Quiet(d, t, w, e) ==
  ~e.hadError => /\ Inner(e).code = Inner(d).code /\ Live(Inner(e)) = Live(Inner(d))
                 /\ Window(d, t, w, e) = w

(* It has left what the task above it and the compiler as a whole expect.  *)
Arrives(d, t, w, e) ==
  /\ Inward(d, e)
  /\ ~e.hadError =>
       /\ Inner(e).type = Inner(d).type /\ Inner(e).upvalues = Inner(d).upvalues
       /\ Inner(d).type = "SCRIPT" => Inner(e).arity = Inner(d).arity
       /\ Level(d.functions, Inner(e), Window(d, t, w, e)) /\ NextFinds(e)

LEMMA RunsWorking ==
  ASSUME NEW d, NEW t, NEW w, NEW m, NEW X, NEW in, NEW out, Runs(d, t, w, m, X, in, out)
  PROVE  /\ Working(d) /\ Working(m) /\ Inward(d, m)
         /\ ~m.hadError => /\ Standing(Inner(m), Window(d, t, w, m), in)
                           /\ Windowed(Inner(m), Window(d, t, w, m))
                           /\ IsFunctionCompiler(Inner(m)) /\ IsSequence(Inner(m).todo)
                           /\ in \in Situations /\ out \in Situations
<1>1. Working(d) /\ Working(m) /\ Inward(d, m)
  BY DEF Runs, Inward
<1>2. ASSUME ~m.hadError
      PROVE  Running(d.functions, Inner(m), Window(d, t, w, m), X, in, out)
  BY <1>2 DEF Runs
<1>3. ASSUME ~m.hadError
      PROVE  /\ Standing(Inner(m), Window(d, t, w, m), in)
             /\ Windowed(Inner(m), Window(d, t, w, m))
             /\ in \in Situations /\ out \in Situations
  BY <1>2, <1>3, RunningStands DEF Running
<1>4. ASSUME ~m.hadError
      PROVE  IsFunctionCompiler(Inner(m)) /\ IsSequence(Inner(m).todo)
  BY <1>3, <1>4 DEF Standing, IsFunctionCompiler
<1> QED BY <1>1, <1>3, <1>4

LEMMA RunsSame ==
  ASSUME NEW d, NEW t, NEW w, NEW m, NEW X, NEW in, NEW out, NEW e,
         Runs(d, t, w, m, X, in, out), Same(m, e)
  PROVE  /\ Runs(d, t, w, e, X, in, out)
         /\ Quiet(d, t, w, m) => Quiet(d, t, w, e)
         /\ ~e.hadError => ~m.hadError /\ Inner(e) = Inner(m) /\ Window(d, t, w, e) = Window(d, t, w, m)
<1>1. Working(d) /\ Working(m) /\ Inward(d, m)
  BY RunsWorking
<1>2. Inward(m, e) /\ Inner(e) = Inner(m) /\ (~e.hadError => ~m.hadError)
  BY <1>1, SameInward DEF Same
<1>3. Window(d, t, w, e) = Window(d, t, w, m)
  BY <1>2 DEF Window
<1> QED BY <1>1, <1>2, <1>3, InwardChain DEF Runs, Quiet

LEMMA RunsError ==
  ASSUME NEW d, NEW t, NEW w, NEW m, NEW X, NEW in, NEW out, Working(d), Inward(d, m)
  PROVE  /\ Runs(d, t, w, Error(m), X, in, out) /\ Quiet(d, t, w, Error(m))
         /\ Arrives(d, t, w, Error(m))
<1>1. Working(m) /\ Inward(m, Error(m)) /\ Error(m).hadError
  BY ErrorInward DEF Inward
<1>2. Inward(d, Error(m))
  BY <1>1, InwardChain
<1> QED BY <1>1, <1>2 DEF Runs, Quiet, Arrives

LEMMA RunsAdvance ==
  ASSUME NEW d, NEW t, NEW w, NEW m, NEW X, NEW in, NEW out, Runs(d, t, w, m, X, in, out)
  PROVE  /\ Runs(d, t, w, Advance(m), X, in, out)
         /\ Quiet(d, t, w, m) => Quiet(d, t, w, Advance(m))
         /\ ~Advance(m).hadError => /\ ~m.hadError /\ Inner(Advance(m)) = Inner(m)
                                    /\ Window(d, t, w, Advance(m)) = Window(d, t, w, m)
BY RunsWorking, AdvanceSame, RunsSame DEF Working

LEMMA RunsConsume ==
  ASSUME NEW d, NEW t, NEW w, NEW m, NEW X, NEW in, NEW out, NEW type, Runs(d, t, w, m, X, in, out)
  PROVE  /\ Runs(d, t, w, Consume(m, type), X, in, out)
         /\ Quiet(d, t, w, m) => Quiet(d, t, w, Consume(m, type))
         /\ ~Consume(m, type).hadError =>
               /\ ~m.hadError /\ Inner(Consume(m, type)) = Inner(m)
               /\ Window(d, t, w, Consume(m, type)) = Window(d, t, w, m)
BY RunsWorking, ConsumeSame, RunsSame DEF Working

LEMMA RunsArrives ==
  ASSUME NEW d, NEW t, NEW w, NEW e, NEW X, NEW in, Runs(d, t, w, e, X, in, in), X = {}
  PROVE  Arrives(d, t, w, e)
<1>1. ASSUME ~e.hadError
      PROVE  Level(d.functions, Inner(e), Window(d, t, w, e)) /\ Last(Inner(e).todo).do \notin Immediate
  BY <1>1, LevelOfRunning DEF Runs
<1>2. ASSUME ~e.hadError
      PROVE  NextFinds(e)
  BY <1>1, <1>2 DEF NextFinds, Immediate
<1> QED BY <1>1, <1>2 DEF Runs, Arrives

(* Pushes of tasks that wait for what is below them.                       *)

Pushed(fns, fc, w, X, in, todo, out) ==
  /\ IsSequence(todo) /\ todo # << >>
  /\ Running(fns, [fc EXCEPT !.todo = todo], w, X, in, out)

LEMMA WaitingAnyTodo ==
  ASSUME NEW fc, NEW fc2, NEW w, NEW t, NEW mid, NEW out,
         SameButTodo(fc, fc2), Waiting(fc, w, t, mid, out)
  PROVE  Waiting(fc2, w, t, mid, out)
BY FindsAnyTodo DEF Waiting

LEMMA PushedSelf ==
  ASSUME NEW fns, NEW fc, NEW w, NEW X, NEW in, NEW out,
         Running(fns, fc, w, X, in, out), fc.todo # << >>
  PROVE  Pushed(fns, fc, w, X, in, fc.todo, out) /\ IsFunctionCompiler(fc)
<1>1. IsFunctionCompiler(fc)
  BY RunningStands DEF Standing
<1>2. [fc EXCEPT !.todo = fc.todo] = fc /\ IsSequence(fc.todo)
  BY <1>1 DEF IsFunctionCompiler
<1> QED BY <1>1, <1>2 DEF Pushed

LEMMA PushedOne ==
  ASSUME NEW fns, NEW fc, NEW w, NEW X, NEW in, NEW out, NEW todo, NEW t, NEW mid,
         IsFunctionCompiler(fc), Pushed(fns, fc, w, X, in, todo, out), t.do \notin Bottom,
         Waiting(fc, w, t, mid, out)
  PROVE  Pushed(fns, fc, w, X \ AwaitedBy(t), in, Append(todo, t), mid)
<1> DEFINE f == [fc EXCEPT !.todo = todo]
           g == [fc EXCEPT !.todo = Append(todo, t)]
<1>1. IsSequence(todo) /\ todo # << >> /\ Running(fns, f, w, X, in, out)
  BY DEF Pushed
<1>2. IsSequence(Append(todo, t)) /\ Append(todo, t) # << >>
  BY <1>1, SequenceAppend
<1>3. /\ IsFunctionCompiler(f) /\ SameButTodo(fc, f) /\ f.todo = todo
      /\ IsFunctionCompiler(g) /\ SameButTodo(fc, g) /\ g.todo = Append(todo, t)
  BY <1>1, <1>2, TodoSet
<1> HIDE DEF f, g
<1>4. SameButTodo(f, g)
  BY <1>3 DEF SameButTodo
<1>5. Waiting(f, w, t, mid, out)
  BY <1>3, WaitingAnyTodo
<1>6. Running(fns, g, w, X \ AwaitedBy(t), in, mid)
  BY <1>1, <1>3, <1>4, <1>5, RunningPushes
<1> QED BY <1>2, <1>6 DEF Pushed, g

LEMMA PushedRuns ==
  ASSUME NEW d, NEW t, NEW w, NEW m, NEW X, NEW in, NEW out, NEW tasks, NEW X2, NEW mid,
         Runs(d, t, w, m, X, in, out),
         ~m.hadError => Pushed(d.functions, Inner(m), Window(d, t, w, m), X2, in,
                               Inner(m).todo \o Reverse(tasks), mid)
  PROVE  /\ Runs(d, t, w, Then(m, tasks), X2, in, mid)
         /\ Quiet(d, t, w, m) => Quiet(d, t, w, Then(m, tasks))
         /\ ~Then(m, tasks).hadError =>
               /\ ~m.hadError /\ SameButTodo(Inner(m), Inner(Then(m, tasks)))
               /\ Window(d, t, w, Then(m, tasks)) = Window(d, t, w, m)
<1> DEFINE e == Then(m, tasks)
           todo == Inner(m).todo \o Reverse(tasks)
           fc == [Inner(m) EXCEPT !.todo = todo]
<1>1. Working(d) /\ Working(m) /\ Inward(d, m) /\ (~m.hadError => IsFunctionCompiler(Inner(m)))
  BY RunsWorking
<1>2. e = With(m, fc)
  BY DEF Then
<1>3. Inward(m, e) /\ Inner(e) = fc /\ e.hadError = m.hadError
  BY <1>1, <1>2, WithFacts
<1>4. Inward(d, e)
  BY <1>1, <1>3, InwardChain
<1> HIDE DEF e
<1>5. ASSUME ~e.hadError
      PROVE  /\ ~m.hadError /\ IsSequence(todo) /\ todo # << >>
             /\ Running(d.functions, fc, Window(d, t, w, m), X2, in, mid)
  BY <1>3, <1>5 DEF Pushed
<1>6. ASSUME ~e.hadError
      PROVE  SameButTodo(Inner(m), fc) /\ fc.todo = todo
  BY <1>1, <1>5, <1>6, TodoSet
<1> HIDE DEF fc, todo
<1>7. ASSUME ~e.hadError
      PROVE  Window(d, t, w, e) = Window(d, t, w, m) /\ Live(Inner(e)) = Live(Inner(m))
             /\ SameButTodo(Inner(m), Inner(e))
  BY <1>3, <1>6, <1>7 DEF Window, SameButTodo, Live
<1>8. ASSUME ~e.hadError
      PROVE  /\ Inner(e).type = Inner(d).type /\ Inner(e).upvalues = Inner(d).upvalues
             /\ Inner(e).arity = Inner(d).arity /\ Inner(e).todo # << >>
             /\ Inner(e).code = Inner(m).code
  BY <1>3, <1>5, <1>6, <1>7, <1>8 DEF Runs, SameButTodo
<1>9. Runs(d, t, w, e, X2, in, mid)
  BY <1>1, <1>3, <1>4, <1>5, <1>7, <1>8 DEF Runs
<1>10. Quiet(d, t, w, m) => Quiet(d, t, w, e)
  BY <1>5, <1>7, <1>8 DEF Quiet
<1> QED BY <1>5, <1>7, <1>9, <1>10 DEF e

(* What is put before the next task: a, b, ... in their order.             *)

Ahead(d, t, w, m, u, mid, out) ==
  u.do \notin Bottom /\ (~m.hadError => Waiting(Inner(m), Window(d, t, w, m), u, mid, out))

LEMMA ThenOne ==
  ASSUME NEW d, NEW t, NEW w, NEW m, NEW X, NEW in, NEW out, NEW a, NEW m1,
         Runs(d, t, w, m, X, in, out), Ahead(d, t, w, m, a, m1, out)
  PROVE  /\ Runs(d, t, w, Then(m, <<a>>), X \ AwaitedBy(a), in, m1)
         /\ Quiet(d, t, w, m) => Quiet(d, t, w, Then(m, <<a>>))
         /\ ~Then(m, <<a>>).hadError =>
               /\ ~m.hadError /\ SameButTodo(Inner(m), Inner(Then(m, <<a>>)))
               /\ Window(d, t, w, Then(m, <<a>>)) = Window(d, t, w, m)
<1> DEFINE fc == Inner(m)
<1>1. ASSUME ~m.hadError
      PROVE  Pushed(d.functions, fc, Window(d, t, w, m), X \ AwaitedBy(a), in,
                    fc.todo \o Reverse(<<a>>), m1)
  <2>1. /\ Pushed(d.functions, fc, Window(d, t, w, m), X, in, fc.todo, out)
        /\ IsFunctionCompiler(fc) /\ IsSequence(fc.todo)
    BY <1>1, PushedSelf, RunsWorking DEF Runs
  <2>2. a.do \notin Bottom /\ Waiting(fc, Window(d, t, w, m), a, m1, out)
    BY <1>1 DEF Ahead
  <2> HIDE DEF fc
  <2>3. Reverse(<<a>>) = <<a>>
    BY ReversedTasks
  <2>4. fc.todo \o <<a>> = Append(fc.todo, a)
    BY <2>1, PushedTasks
  <2>5. Pushed(d.functions, fc, Window(d, t, w, m), X \ AwaitedBy(a), in, Append(fc.todo, a), m1)
    BY <2>1, <2>2, PushedOne
  <2> QED BY <2>3, <2>4, <2>5
<1> HIDE DEF fc
<1> QED BY <1>1, PushedRuns DEF fc

LEMMA ThenTwo ==
  ASSUME NEW d, NEW t, NEW w, NEW m, NEW X, NEW in, NEW out,
         NEW a, NEW m1, NEW b, NEW m2,
         Runs(d, t, w, m, X, in, out),
         Ahead(d, t, w, m, a, m1, m2), Ahead(d, t, w, m, b, m2, out)
  PROVE  Runs(d, t, w, Then(m, <<a, b>>), X \ (AwaitedBy(a) \cup AwaitedBy(b)), in, m1)
<1> DEFINE fc == Inner(m)
           u == Window(d, t, w, m)
           s1 == Append(fc.todo, b)
           X1 == X \ AwaitedBy(b)
           s2 == Append(s1, a)
           X2 == X1 \ AwaitedBy(a)
<1>1. X2 = X \ (AwaitedBy(a) \cup AwaitedBy(b))
  OBVIOUS
<1>2. ASSUME ~m.hadError
      PROVE  Pushed(d.functions, fc, u, X2, in, fc.todo \o Reverse(<<a, b>>), m1)
  <2>1. /\ Pushed(d.functions, fc, u, X, in, fc.todo, out)
        /\ IsFunctionCompiler(fc) /\ IsSequence(fc.todo)
    BY <1>2, PushedSelf, RunsWorking DEF Runs
  <2>3. /\ a.do \notin Bottom /\ Waiting(fc, u, a, m1, m2)
        /\ b.do \notin Bottom /\ Waiting(fc, u, b, m2, out)
    BY <1>2 DEF Ahead
  <2> HIDE DEF fc, u
  <2>4. Reverse(<<a, b>>) = <<b, a>>
    BY ReversedTasks
  <2>2. fc.todo \o <<b, a>> = s2
    BY <2>1, PushedTasks
  <2>5. Pushed(d.functions, fc, u, X1, in, s1, m2)
    BY <2>1, <2>3, PushedOne
  <2> HIDE DEF s1, X1
  <2>6. Pushed(d.functions, fc, u, X2, in, s2, m1)
    BY <2>1, <2>3, <2>5, PushedOne
  <2> QED BY <2>2, <2>4, <2>6
<1> HIDE DEF fc, u
<1> QED BY <1>1, <1>2, PushedRuns DEF fc, u

LEMMA ThenThree ==
  ASSUME NEW d, NEW t, NEW w, NEW m, NEW X, NEW in, NEW out,
         NEW a, NEW m1, NEW b, NEW m2, NEW p, NEW m3,
         Runs(d, t, w, m, X, in, out),
         Ahead(d, t, w, m, a, m1, m2), Ahead(d, t, w, m, b, m2, m3),
         Ahead(d, t, w, m, p, m3, out)
  PROVE  Runs(d, t, w, Then(m, <<a, b, p>>), X \ (AwaitedBy(a) \cup AwaitedBy(b) \cup AwaitedBy(p)), in, m1)
<1> DEFINE fc == Inner(m)
           u == Window(d, t, w, m)
           s1 == Append(fc.todo, p)
           X1 == X \ AwaitedBy(p)
           s2 == Append(s1, b)
           X2 == X1 \ AwaitedBy(b)
           s3 == Append(s2, a)
           X3 == X2 \ AwaitedBy(a)
<1>1. X3 = X \ (AwaitedBy(a) \cup AwaitedBy(b) \cup AwaitedBy(p))
  OBVIOUS
<1>2. ASSUME ~m.hadError
      PROVE  Pushed(d.functions, fc, u, X3, in, fc.todo \o Reverse(<<a, b, p>>), m1)
  <2>1. /\ Pushed(d.functions, fc, u, X, in, fc.todo, out)
        /\ IsFunctionCompiler(fc) /\ IsSequence(fc.todo)
    BY <1>2, PushedSelf, RunsWorking DEF Runs
  <2>3. /\ a.do \notin Bottom /\ Waiting(fc, u, a, m1, m2)
        /\ b.do \notin Bottom /\ Waiting(fc, u, b, m2, m3)
        /\ p.do \notin Bottom /\ Waiting(fc, u, p, m3, out)
    BY <1>2 DEF Ahead
  <2> HIDE DEF fc, u
  <2>4. Reverse(<<a, b, p>>) = <<p, b, a>>
    BY ReversedTasks
  <2>2. fc.todo \o <<p, b, a>> = s3
    <3> DEFINE q == fc.todo
    <3>1. IsSequence(q)
      BY <2>1
    <3> HIDE DEF q
    <3>2. q \o <<p, b, a>> = Append(Append(Append(q, p), b), a)
      BY <3>1, PushedTasks
    <3> QED BY <3>2 DEF q
  <2>5. Pushed(d.functions, fc, u, X1, in, s1, m3)
    BY <2>1, <2>3, PushedOne
  <2> HIDE DEF s1, X1
  <2>6. Pushed(d.functions, fc, u, X2, in, s2, m2)
    BY <2>1, <2>3, <2>5, PushedOne
  <2> HIDE DEF s2, X2
  <2>7. Pushed(d.functions, fc, u, X3, in, s3, m1)
    BY <2>1, <2>3, <2>6, PushedOne
  <2> QED BY <2>2, <2>4, <2>7
<1> HIDE DEF fc, u
<1> QED BY <1>1, <1>2, PushedRuns DEF fc, u

LEMMA ThenFour ==
  ASSUME NEW d, NEW t, NEW w, NEW m, NEW X, NEW in, NEW out,
         NEW a, NEW m1, NEW b, NEW m2, NEW p, NEW m3, NEW q, NEW m4,
         Runs(d, t, w, m, X, in, out),
         Ahead(d, t, w, m, a, m1, m2), Ahead(d, t, w, m, b, m2, m3),
         Ahead(d, t, w, m, p, m3, m4), Ahead(d, t, w, m, q, m4, out)
  PROVE  Runs(d, t, w, Then(m, <<a, b, p, q>>), 
              X \ (AwaitedBy(a) \cup AwaitedBy(b) \cup AwaitedBy(p) \cup AwaitedBy(q)), in, m1)
<1> DEFINE fc == Inner(m)
           u == Window(d, t, w, m)
           s1 == Append(fc.todo, q)
           X1 == X \ AwaitedBy(q)
           s2 == Append(s1, p)
           X2 == X1 \ AwaitedBy(p)
           s3 == Append(s2, b)
           X3 == X2 \ AwaitedBy(b)
           s4 == Append(s3, a)
           X4 == X3 \ AwaitedBy(a)
<1>1. X4 = X \ (AwaitedBy(a) \cup AwaitedBy(b) \cup AwaitedBy(p) \cup AwaitedBy(q))
  OBVIOUS
<1>2. ASSUME ~m.hadError
      PROVE  Pushed(d.functions, fc, u, X4, in, fc.todo \o Reverse(<<a, b, p, q>>), m1)
  <2>1. /\ Pushed(d.functions, fc, u, X, in, fc.todo, out)
        /\ IsFunctionCompiler(fc) /\ IsSequence(fc.todo)
    BY <1>2, PushedSelf, RunsWorking DEF Runs
  <2>3. /\ a.do \notin Bottom /\ Waiting(fc, u, a, m1, m2)
        /\ b.do \notin Bottom /\ Waiting(fc, u, b, m2, m3)
        /\ p.do \notin Bottom /\ Waiting(fc, u, p, m3, m4)
        /\ q.do \notin Bottom /\ Waiting(fc, u, q, m4, out)
    BY <1>2 DEF Ahead
  <2> HIDE DEF fc, u
  <2>4. Reverse(<<a, b, p, q>>) = <<q, p, b, a>>
    BY ReversedTasks
  <2>2. fc.todo \o <<q, p, b, a>> = s4
    BY <2>1, PushedTasks, SMTT(30)
  <2>5. Pushed(d.functions, fc, u, X1, in, s1, m4)
    BY <2>1, <2>3, PushedOne
  <2> HIDE DEF s1, X1
  <2>6. Pushed(d.functions, fc, u, X2, in, s2, m3)
    BY <2>1, <2>3, <2>5, PushedOne
  <2> HIDE DEF s2, X2
  <2>7. Pushed(d.functions, fc, u, X3, in, s3, m2)
    BY <2>1, <2>3, <2>6, PushedOne
  <2> HIDE DEF s3, X3
  <2>8. Pushed(d.functions, fc, u, X4, in, s4, m1)
    BY <2>1, <2>3, <2>7, PushedOne
  <2> QED BY <2>2, <2>4, <2>8
<1> HIDE DEF fc, u
<1> QED BY <1>1, <1>2, PushedRuns DEF fc, u

LEMMA ThenSix ==
  ASSUME NEW d, NEW t, NEW w, NEW m, NEW X, NEW in, NEW out,
         NEW a, NEW m1, NEW b, NEW m2, NEW p, NEW m3, NEW q, NEW m4, NEW r, NEW m5, NEW v, NEW m6,
         Runs(d, t, w, m, X, in, out),
         Ahead(d, t, w, m, a, m1, m2), Ahead(d, t, w, m, b, m2, m3),
         Ahead(d, t, w, m, p, m3, m4), Ahead(d, t, w, m, q, m4, m5),
         Ahead(d, t, w, m, r, m5, m6), Ahead(d, t, w, m, v, m6, out)
  PROVE  Runs(d, t, w, Then(m, <<a, b, p, q, r, v>>), 
              X \ (AwaitedBy(a) \cup AwaitedBy(b) \cup AwaitedBy(p)
                \cup AwaitedBy(q) \cup AwaitedBy(r) \cup AwaitedBy(v)), in, m1)
<1> DEFINE fc == Inner(m)
           u == Window(d, t, w, m)
           s1 == Append(fc.todo, v)
           X1 == X \ AwaitedBy(v)
           s2 == Append(s1, r)
           X2 == X1 \ AwaitedBy(r)
           s3 == Append(s2, q)
           X3 == X2 \ AwaitedBy(q)
           s4 == Append(s3, p)
           X4 == X3 \ AwaitedBy(p)
           s5 == Append(s4, b)
           X5 == X4 \ AwaitedBy(b)
           s6 == Append(s5, a)
           X6 == X5 \ AwaitedBy(a)
<1>1. X6 = X \ (AwaitedBy(a) \cup AwaitedBy(b) \cup AwaitedBy(p)
               \cup AwaitedBy(q) \cup AwaitedBy(r) \cup AwaitedBy(v))
  OBVIOUS
<1>2. ASSUME ~m.hadError
      PROVE  Pushed(d.functions, fc, u, X6, in, fc.todo \o Reverse(<<a, b, p, q, r, v>>), m1)
  <2>1. /\ Pushed(d.functions, fc, u, X, in, fc.todo, out)
        /\ IsFunctionCompiler(fc) /\ IsSequence(fc.todo)
    BY <1>2, PushedSelf, RunsWorking DEF Runs
  <2>3. /\ a.do \notin Bottom /\ Waiting(fc, u, a, m1, m2)
        /\ b.do \notin Bottom /\ Waiting(fc, u, b, m2, m3)
        /\ p.do \notin Bottom /\ Waiting(fc, u, p, m3, m4)
        /\ q.do \notin Bottom /\ Waiting(fc, u, q, m4, m5)
        /\ r.do \notin Bottom /\ Waiting(fc, u, r, m5, m6)
        /\ v.do \notin Bottom /\ Waiting(fc, u, v, m6, out)
    BY <1>2 DEF Ahead
  <2> HIDE DEF fc, u
  <2>4. Reverse(<<a, b, p, q, r, v>>) = <<v, r, q, p, b, a>>
    BY ReversedTasks
  <2>2. fc.todo \o <<v, r, q, p, b, a>> = s6
    BY <2>1, SixPushed, SMTT(60)
  <2>5. Pushed(d.functions, fc, u, X1, in, s1, m6)
    BY <2>1, <2>3, PushedOne
  <2> HIDE DEF s1, X1
  <2>6. Pushed(d.functions, fc, u, X2, in, s2, m5)
    BY <2>1, <2>3, <2>5, PushedOne
  <2> HIDE DEF s2, X2
  <2>7. Pushed(d.functions, fc, u, X3, in, s3, m4)
    BY <2>1, <2>3, <2>6, PushedOne
  <2> HIDE DEF s3, X3
  <2>8. Pushed(d.functions, fc, u, X4, in, s4, m3)
    BY <2>1, <2>3, <2>7, PushedOne
  <2> HIDE DEF s4, X4
  <2>9. Pushed(d.functions, fc, u, X5, in, s5, m2)
    BY <2>1, <2>3, <2>8, PushedOne
  <2> HIDE DEF s5, X5
  <2>10. Pushed(d.functions, fc, u, X6, in, s6, m1)
    BY <2>1, <2>3, <2>9, PushedOne
  <2> QED BY <2>2, <2>4, <2>10
<1> HIDE DEF fc, u
<1> QED BY <1>1, <1>2, PushedRuns DEF fc, u

LEMMA ToFacts ==
  ASSUME NEW s \in Situations, s.kind = "exact", NEW h \in Nat
  PROVE  /\ To(s, h) \in Situations /\ To(s, h).kind = "exact" /\ To(s, h).depth = s.depth
         /\ To(s, h).height = h /\ To(s, h).live = s.live /\ To(s, h).locals = s.locals
<1> DEFINE r == [s EXCEPT !.height = h]
<1>1. /\ r \in Situations /\ r.kind = "exact" /\ r.depth = s.depth
      /\ r.height = h /\ r.live = s.live /\ r.locals = s.locals
  BY SituationFacts
<1>2. To(s, h) = r
  BY DEF To
<1> QED BY <1>1, <1>2

LEMMA ToGrown ==
  ASSUME NEW s \in Situations, s.kind = "exact", NEW n \in Int, s.height + n \in Nat
  PROVE  Grown(s, n) = To(s, s.height + n)
BY GrownFacts DEF To

LEMMA ToAgain ==
  ASSUME NEW s \in Situations, s.kind = "exact"
  PROVE  /\ s.height \in Nat /\ s.live \in Nat /\ s.locals \in Nat /\ s.depth \in Nat
         /\ \A h, g : To(To(s, h), g) = To(s, g)
         /\ To(s, s.height) = s
<1>1. PICK d \in Nat, h \in Nat, l \in Nat, n \in Nat : s = Exact(d, h, l, n)
  BY SituationFacts DEF Situations, Loose, Popping
<1>2. \A g : To(s, g) = Exact(d, g, l, n)
  BY <1>1 DEF To, Exact
<1>3. \A f, g : To(Exact(d, f, l, n), g) = Exact(d, g, l, n)
  BY DEF To, Exact
<1>4. s.height = h /\ s.live = l /\ s.locals = n /\ s.depth = d
  BY <1>1 DEF Exact
<1> QED BY <1>1, <1>2, <1>3, <1>4

(* Tasks that find nothing in the chunk.                                   *)

PlainTasks == {"ParsePrecedence", "ParseInfix", "Consume", "CountArgument", "Statement", "IfThen",
               "ForInitializer", "ForCondition", "Declarations", "VarDeclaration",
               "FunDeclaration", "Synchronize", "VarInitializer", "Block", "ReturnStatement"}

LEMMA AheadPlain ==
  ASSUME NEW d, NEW t, NEW w, NEW m, NEW u, NEW mid \in Situations, NEW out,
         u.do \in PlainTasks, Fits(u, mid, out), out.depth <= mid.depth
  PROVE  Ahead(d, t, w, m, u, mid, out) /\ AwaitedBy(u) = {}
<1>1. u.do \notin Immediate /\ u.do \notin Bottom
  BY DEF PlainTasks, Immediate, Bottom
<1>2. \A fc, v : Finds(fc, v, u, mid, out)
  BY DEF PlainTasks, Finds
<1>3. AwaitedBy(u) = {}
  BY DEF PlainTasks, AwaitedBy
<1> QED BY <1>1, <1>2, <1>3 DEF Ahead, Waiting

LEMMA AheadParsing ==
  ASSUME NEW d, NEW t, NEW w, NEW m, NEW mid \in Situations, NEW p \in 1 .. 9, Values(mid, 0)
  PROVE  /\ Ahead(d, t, w, m, Parsing(p), mid, To(mid, mid.height + 1))
         /\ AwaitedBy(Parsing(p)) = {}
<1>1. Parsing(p).do = "ParsePrecedence" /\ Parsing(p).args[1] = p
  BY DEF Parsing, Task
<1>2. mid.kind = "exact" /\ mid.height \in Nat /\ mid.depth \in Nat
  BY SituationFacts DEF Values
<1>3. Grown(mid, 1) = To(mid, mid.height + 1) /\ To(mid, mid.height + 1).depth = mid.depth
  <2>1. mid.height + 1 \in Nat /\ mid.height + 1 = mid.height + 1
    BY <1>2
  <2>2. Grown(mid, 1) = To(mid, mid.height + 1)
    BY <1>2, <2>1, ToGrown
  <2>3. To(mid, mid.height + 1).depth = mid.depth
    BY <1>2, <2>1, ToFacts
  <2> QED BY <2>2, <2>3
<1>4. Fits(Parsing(p), mid, To(mid, mid.height + 1))
  BY <1>1, <1>3 DEF Fits
<1> QED BY <1>1, <1>2, <1>3, <1>4, AheadPlain DEF PlainTasks

LEMMA AheadConsuming ==
  ASSUME NEW d, NEW t, NEW w, NEW m, NEW mid \in Situations, NEW type
  PROVE  Ahead(d, t, w, m, Consuming(type), mid, mid) /\ AwaitedBy(Consuming(type)) = {}
<1>1. Consuming(type).do = "Consume"
  BY DEF Consuming, Task
<1>2. Fits(Consuming(type), mid, mid) /\ mid.depth <= mid.depth
  BY <1>1, SituationFacts DEF Fits
<1>3. Consuming(type).do \in PlainTasks
  BY <1>1 DEF PlainTasks
<1> QED BY <1>2, <1>3, AheadPlain

LEMMA OpFacts ==
  /\ \A a : /\ Growth(OP_POP, a) = -1 /\ Growth(OP_PRINT, a) = -1 /\ Growth(OP_NIL, a) = 1
            /\ Growth(OP_NOT, a) = 0 /\ Growth(OP_NEGATE, a) = 0 /\ Growth(OP_RETURN, a) = -1
            /\ Growth(OP_JUMP, a) = 0 /\ Growth(OP_JUMP_IF_FALSE, a) = 0 /\ Growth(OP_LOOP, a) = 0
            /\ Growth(OP_CALL, a) = -a /\ Growth(OP_DEFINE_GLOBAL, a) = -1
  /\ \A a : \A op \in BinaryOps : Growth(op, a) = -1
  /\ \A a : \A op \in LiteralOps : Growth(op, a) = 1
  /\ \A a : \A op \in {OP_CONSTANT, OP_GET_GLOBAL, OP_GET_LOCAL, OP_GET_UPVALUE, OP_CLOSURE} :
       Growth(op, a) = 1
  /\ \A a : \A op \in SetOps : Growth(op, a) = 0
  /\ Taken(OP_POP) = 1 /\ Taken(OP_PRINT) = 1 /\ Taken(OP_NIL) = 0 /\ Taken(OP_NOT) = 1
  /\ Taken(OP_NEGATE) = 1 /\ Taken(OP_RETURN) = 1
  /\ \A op \in BinaryOps : Taken(op) = 2
  /\ \A op \in LiteralOps : Taken(op) = 0
  /\ \A op \in SetOps : Taken(op) = 1
  /\ {OP_POP, OP_PRINT, OP_NIL, OP_NOT, OP_NEGATE, OP_RETURN} \cup BinaryOps \cup LiteralOps
       \subseteq EmittedOps \ SetOps
<1> USE DEF OP_POP, OP_PRINT, OP_NIL, OP_NOT, OP_NEGATE, OP_RETURN, OP_JUMP, OP_JUMP_IF_FALSE,
            OP_LOOP, OP_CALL, OP_CONSTANT, OP_GET_GLOBAL, OP_GET_LOCAL, OP_GET_UPVALUE, OP_CLOSURE,
            OP_DEFINE_GLOBAL, OP_TRUE, OP_FALSE, OP_SET_GLOBAL, OP_SET_LOCAL, OP_SET_UPVALUE,
            OP_EQUAL, OP_GREATER, OP_LESS, OP_ADD, OP_SUBTRACT, OP_MULTIPLY, OP_DIVIDE,
            LiteralOps, ArithmeticOps, BinaryOps, SetOps, TakingOps, EmittedOps
<1>1. ASSUME NEW a
      PROVE  /\ Growth(OP_POP, a) = -1 /\ Growth(OP_PRINT, a) = -1 /\ Growth(OP_NIL, a) = 1
             /\ Growth(OP_NOT, a) = 0 /\ Growth(OP_NEGATE, a) = 0 /\ Growth(OP_RETURN, a) = -1
             /\ Growth(OP_JUMP, a) = 0 /\ Growth(OP_JUMP_IF_FALSE, a) = 0 /\ Growth(OP_LOOP, a) = 0
             /\ Growth(OP_CALL, a) = -a /\ Growth(OP_DEFINE_GLOBAL, a) = -1
  BY DEF Growth
<1>2. ASSUME NEW a, NEW op \in BinaryOps
      PROVE  Growth(op, a) = -1
  BY <1>2 DEF Growth
<1>3. ASSUME NEW a, NEW op \in LiteralOps
      PROVE  Growth(op, a) = 1
  BY <1>3 DEF Growth
<1>4. ASSUME NEW a, NEW op \in {OP_CONSTANT, OP_GET_GLOBAL, OP_GET_LOCAL, OP_GET_UPVALUE, OP_CLOSURE}
      PROVE  Growth(op, a) = 1
  BY <1>4 DEF Growth
<1>5. ASSUME NEW a, NEW op \in SetOps
      PROVE  Growth(op, a) = 0
  BY <1>5 DEF Growth
<1>6. /\ Taken(OP_POP) = 1 /\ Taken(OP_PRINT) = 1 /\ Taken(OP_NIL) = 0 /\ Taken(OP_NOT) = 1
      /\ Taken(OP_NEGATE) = 1 /\ Taken(OP_RETURN) = 1
      /\ \A op \in BinaryOps : Taken(op) = 2
      /\ \A op \in LiteralOps : Taken(op) = 0
      /\ \A op \in SetOps : Taken(op) = 1
  BY DEF Taken
<1>7. {OP_POP, OP_PRINT, OP_NIL, OP_NOT, OP_NEGATE, OP_RETURN} \cup BinaryOps \cup LiteralOps
        \subseteq EmittedOps \ SetOps
  OBVIOUS
<1> QED BY <1>1, <1>2, <1>3, <1>4, <1>5, <1>6, <1>7

LEMMA AheadEmitting ==
  ASSUME NEW d, NEW t, NEW w, NEW m, NEW X, NEW i, NEW o, NEW mid \in Situations, NEW out, NEW op,
         Runs(d, t, w, m, X, i, o), op \in EmittedOps \ SetOps, Growth(op, 0) \in {-1, 0, 1},
         Values(mid, Taken(op)), mid.height + Growth(op, 0) \in Nat,
         Becomes(To(mid, mid.height + Growth(op, 0)), out),
         op = OP_RETURN => Inner(d).type # "SCRIPT"
  PROVE  Ahead(d, t, w, m, Emitting(<<op>>), mid, out) /\ AwaitedBy(Emitting(<<op>>)) = {}
<1> DEFINE u == Emitting(<<op>>)
           s == To(mid, mid.height + Growth(op, 0))
<1>1. u.do = "Emit" /\ u.args = <<op>>
  BY DEF Emitting, Task
<1>2. u.args[1] = op
  BY <1>1
<1>3. mid.kind = "exact" /\ mid.height \in Nat /\ mid.depth \in Nat
  BY SituationFacts DEF Values
<1>4. Grown(mid, Growth(op, 0)) = s /\ s.depth = mid.depth
  <2>1. Growth(op, 0) \in Int
    OBVIOUS
  <2>2. Grown(mid, Growth(op, 0)) = s
    BY <1>3, <2>1, ToGrown
  <2>3. s.depth = mid.depth
    BY <1>3, ToFacts
  <2> QED BY <2>2, <2>3
<1> HIDE DEF u, s
<1>5. Fits(u, mid, out)
  BY <1>1, <1>2, <1>4 DEF Fits, s
<1>6. out.depth = mid.depth
  BY <1>4, SituationFacts DEF Becomes, s
<1>7. ASSUME ~m.hadError
      PROVE  Finds(Inner(m), Window(d, t, w, m), u, mid, out)
  BY <1>1, <1>2, <1>7 DEF Finds, Runs
<1>8. u.do \notin Bottom /\ u.do \notin Immediate /\ AwaitedBy(u) = {}
  BY <1>1 DEF Bottom, Immediate, AwaitedBy
<1> QED BY <1>3, <1>5, <1>6, <1>7, <1>8 DEF Ahead, Waiting, u

(* Instructions are emitted.                                               *)

LEMMA CodeSet ==
  ASSUME NEW fc, NEW code, NEW lines, IsFunctionCompiler(fc), IsSequence(code)
  PROVE  /\ SameButCode(fc, [fc EXCEPT !.code = code, !.lines = lines])
         /\ [fc EXCEPT !.code = code, !.lines = lines].code = code
<1> DEFINE b == [fc EXCEPT !.code = code]
           g == [fc EXCEPT !.code = code, !.lines = lines]
<1>1. fc = [type |-> fc.type, arity |-> fc.arity, code |-> fc.code, lines |-> fc.lines,
            constants |-> fc.constants, locals |-> fc.locals, upvalues |-> fc.upvalues,
            scopeDepth |-> fc.scopeDepth, todo |-> fc.todo]
  BY DEF IsFunctionCompiler
<1>2. b = [type |-> fc.type, arity |-> fc.arity, code |-> code, lines |-> fc.lines,
           constants |-> fc.constants, locals |-> fc.locals, upvalues |-> fc.upvalues,
           scopeDepth |-> fc.scopeDepth, todo |-> fc.todo]
  BY <1>1
<1>3. g = [b EXCEPT !.lines = lines]
  OBVIOUS
<1> HIDE DEF b, g
<1>4. /\ b.type = fc.type /\ b.arity = fc.arity /\ b.code = code /\ b.lines = fc.lines
      /\ b.constants = fc.constants /\ b.locals = fc.locals /\ b.upvalues = fc.upvalues
      /\ b.scopeDepth = fc.scopeDepth /\ b.todo = fc.todo
  BY <1>2
<1>5. b = [type |-> b.type, arity |-> b.arity, code |-> b.code, lines |-> b.lines,
           constants |-> b.constants, locals |-> b.locals, upvalues |-> b.upvalues,
           scopeDepth |-> b.scopeDepth, todo |-> b.todo]
  BY <1>2, <1>4
<1>6. g = [type |-> b.type, arity |-> b.arity, code |-> b.code, lines |-> lines,
           constants |-> b.constants, locals |-> b.locals, upvalues |-> b.upvalues,
           scopeDepth |-> b.scopeDepth, todo |-> b.todo]
  BY <1>3, <1>5
<1>7. /\ g.type = b.type /\ g.arity = b.arity /\ g.code = b.code /\ g.lines = lines
      /\ g.constants = b.constants /\ g.locals = b.locals /\ g.upvalues = b.upvalues
      /\ g.scopeDepth = b.scopeDepth /\ g.todo = b.todo
  BY <1>6
<1>8. IsFunctionCompiler(g)
  BY <1>4, <1>6, <1>7 DEF IsFunctionCompiler
<1> QED BY <1>4, <1>7, <1>8 DEF SameButCode, g

LEMMA EmitFields ==
  ASSUME NEW m, NEW bytes, Working(m), IsFunctionCompiler(Inner(m)), IsSequence(bytes)
  PROVE  /\ SameButCode(Inner(m), Inner(Emit(m, bytes)))
         /\ Inner(Emit(m, bytes)).code = Inner(m).code \o bytes
         /\ Emit(m, bytes).hadError = m.hadError
<1> DEFINE code == Inner(m).code \o bytes
           lines == Inner(m).lines \o [i \in DOMAIN bytes |-> m.previous]
           g == [Inner(m) EXCEPT !.code = code, !.lines = lines]
<1>1. IsSequence(code)
  BY SequenceConcat DEF IsFunctionCompiler
<1>2. Emit(m, bytes) = With(m, g)
  BY DEF Emit
<1> HIDE DEF code, lines
<1>3. SameButCode(Inner(m), g) /\ g.code = code
  BY <1>1, CodeSet
<1> HIDE DEF g
<1>4. Inner(With(m, g)) = g /\ With(m, g).hadError = m.hadError
  BY WithFacts
<1> QED BY <1>2, <1>3, <1>4 DEF code

(* What the history then says of the window.                               *)
NextHeight(w, t, op, arg) ==
  IF JumpHere(t) # 0 THEN w.heights[JumpHere(t) - 1] ELSE w.now + Growth(op, arg)

(* The code is that of fc and then the bytes; a is the operand's place.    *)
Appends(fc, bytes, code, a) ==
  /\ IsSequence(fc.code) /\ IsSequence(bytes) /\ bytes # << >>
  /\ code = fc.code \o bytes /\ a = code[Len(fc.code) + 2]

LEMMA RecordedEmits ==
  ASSUME NEW fc, NEW w, NEW t, NEW bytes, NEW arity, NEW code, NEW a, Appends(fc, bytes, code, a)
  PROVE  /\ Recorded(w, fc, t, code, arity) = After(fc, w, NextHeight(w, t, bytes[1], a))
         /\ Len(bytes) >= 2 => a = bytes[2]
<1> DEFINE s == fc.code
           u == s \o bytes
           n == Len(s)
<1>1. IsSequence(s) /\ IsSequence(bytes) /\ bytes # << >> /\ code = u /\ a = code[n + 2]
  BY DEF Appends
<1> HIDE DEF s
<1>2. /\ IsSequence(u) /\ Len(u) = n + Len(bytes)
      /\ \A i \in 1 .. Len(bytes) : u[n + i] = bytes[i]
      /\ n \in Nat /\ Len(bytes) \in Nat /\ Len(bytes) >= 1
  BY <1>1, SequenceConcat, SequenceFacts
<1> HIDE DEF u, n
<1>3. /\ Len(u) # n /\ u # << >> /\ u[n + 1] = bytes[1]
      /\ Len(bytes) >= 2 => u[n + 2] = bytes[2]
  BY <1>2, ShortSequences
<1>4. /\ Len(code) # n /\ code # << >> /\ code[n + 1] = bytes[1] /\ code[n + 2] = a
      /\ Len(bytes) >= 2 => a = bytes[2]
  BY <1>1, <1>3
<1>5. Recorded(w, fc, t, code, arity)
        = [heights |-> Noted(w.heights, n, w.now),
           locals |-> Noted(w.locals, n, Lesser(Live(fc), w.now)),
           now |-> NextHeight(w, t, bytes[1], a)]
  BY <1>4 DEF Recorded, NextHeight, n, s
<1>6. After(fc, w, NextHeight(w, t, bytes[1], a))
        = [heights |-> Noted(w.heights, n, w.now),
           locals |-> Noted(w.locals, n, Lesser(Live(fc), w.now)),
           now |-> NextHeight(w, t, bytes[1], a)]
  BY DEF After, Heights, Covered, n, s
<1> QED BY <1>4, <1>5, <1>6

Emission(d, t, w, m, X, in, out, bytes, e) ==
  /\ Inward(d, e) /\ e.hadError = m.hadError
  /\ ~e.hadError =>
       /\ SameButCode(Inner(m), Inner(e)) /\ Inner(e).code = Inner(m).code \o bytes
       /\ Running(d.functions, Inner(m), w, X, in, out)
       /\ Standing(Inner(m), w, in) /\ Windowed(Inner(m), w)
       /\ \E a : /\ Window(d, t, w, e) = After(Inner(m), w, NextHeight(w, t, bytes[1], a))
                 /\ Len(bytes) >= 2 => a = bytes[2]
       /\ \A X2, in2, out2 :
            Running(d.functions, Inner(e), Window(d, t, w, e), X2, in2, out2)
              => Runs(d, t, w, e, X2, in2, out2)

LEMMA RunsEmission ==
  ASSUME NEW d, NEW t, NEW w, NEW m, NEW X, NEW in, NEW out, NEW bytes,
         Runs(d, t, w, m, X, in, out), Quiet(d, t, w, m), IsSequence(bytes), bytes # << >>
  PROVE  Emission(d, t, w, m, X, in, out, bytes, Emit(m, bytes))
<1> DEFINE e == Emit(m, bytes)
           a == Inner(e).code[Len(Inner(m).code) + 2]
           h == NextHeight(w, t, bytes[1], a)
<1>1. Working(d) /\ Working(m) /\ Inward(d, m)
  BY RunsWorking
<1>2. Inward(d, e) /\ e.hadError = m.hadError
  BY <1>1, EmitInward, InwardChain
<1>3. ASSUME ~e.hadError
      PROVE  /\ Standing(Inner(m), w, in) /\ Windowed(Inner(m), w)
             /\ IsFunctionCompiler(Inner(m)) /\ IsSequence(Inner(m).code)
             /\ Running(d.functions, Inner(m), w, X, in, out)
             /\ Inner(m).code = Inner(d).code /\ Live(Inner(m)) = Live(Inner(d))
             /\ Inner(m).type = Inner(d).type /\ Inner(m).upvalues = Inner(d).upvalues
             /\ Inner(m).arity = Inner(d).arity /\ Inner(m).todo # << >>
  <2>1. Window(d, t, w, m) = w /\ Inner(m).code = Inner(d).code /\ Live(Inner(m)) = Live(Inner(d))
    BY <1>2, <1>3 DEF Quiet
  <2>2. /\ Standing(Inner(m), w, in) /\ Windowed(Inner(m), w) /\ IsFunctionCompiler(Inner(m))
    BY <1>2, <1>3, <2>1, RunsWorking
  <2>3. IsSequence(Inner(m).code)
    BY <2>2 DEF IsFunctionCompiler
  <2> QED BY <1>2, <1>3, <2>1, <2>2, <2>3 DEF Runs
<1>4. ASSUME ~e.hadError
      PROVE  SameButCode(Inner(m), Inner(e)) /\ Inner(e).code = Inner(m).code \o bytes
  BY <1>1, <1>3, <1>4, EmitFields
<1> HIDE DEF e
<1>5. ASSUME ~e.hadError
      PROVE  /\ Window(d, t, w, e) = After(Inner(m), w, h)
             /\ Len(bytes) >= 2 => a = bytes[2]
  <2>1. /\ Recorded(w, Inner(m), t, Inner(e).code, Inner(e).arity)
             = After(Inner(m), w, h)
        /\ Len(bytes) >= 2 => a = bytes[2]
    <3> DEFINE code == Inner(e).code
               fc == Inner(m)
               arity == Inner(e).arity
    <3>1. Appends(fc, bytes, code, a)
      BY <1>3, <1>4, <1>5 DEF Appends
    <3> HIDE DEF code, fc, arity, a
    <3>2. /\ Recorded(w, fc, t, code, arity) = After(fc, w, h)
          /\ Len(bytes) >= 2 => a = bytes[2]
      BY ONLY <3>1, RecordedEmits
    <3> QED BY <3>2 DEF code, fc, arity
  <2>2. Recorded(w, Inner(m), t, Inner(e).code, Inner(e).arity)
          = Recorded(w, Inner(d), t, Inner(e).code, Inner(e).arity)
    BY <1>3, <1>5 DEF Recorded
  <2> QED BY <2>1, <2>2 DEF Window
<1>6. ASSUME ~e.hadError, NEW X2, NEW in2, NEW out2,
             Running(d.functions, Inner(e), Window(d, t, w, e), X2, in2, out2)
      PROVE  Runs(d, t, w, e, X2, in2, out2)
  BY <1>1, <1>2, <1>3, <1>4, <1>6 DEF Runs, SameButCode
<1> HIDE DEF a
<1> QED BY <1>2, <1>3, <1>4, <1>5, <1>6 DEF e, Emission

LEMMA RunsOp ==
  ASSUME NEW d, NEW t, NEW w, NEW m, NEW X, NEW in, NEW out, NEW op,
         Runs(d, t, w, m, X, in, out), Quiet(d, t, w, m), JumpHere(t) = 0,
         op \in EmittedOps \ SetOps, Values(in, Taken(op)), op = OP_RETURN => Inner(d).type # "SCRIPT"
  PROVE  Runs(d, t, w, Emit(m, <<op>>), X, Grown(in, Growth(op, 0)), out)
<1> DEFINE e == Emit(m, <<op>>)
<1>1. Emission(d, t, w, m, X, in, out, <<op>>, e)
  BY ShortSequences, RunsEmission
<1> HIDE DEF e
<1>2. ASSUME e.hadError
      PROVE  Runs(d, t, w, e, X, Grown(in, Growth(op, 0)), out)
  BY <1>1, <1>2 DEF Emission, Runs
<1>3. ASSUME ~e.hadError
      PROVE  Runs(d, t, w, e, X, Grown(in, Growth(op, 0)), out)
  <2>1. /\ SameButCode(Inner(m), Inner(e)) /\ Inner(e).code = Inner(m).code \o <<op>>
        /\ Running(d.functions, Inner(m), w, X, in, out) /\ ~m.hadError
    BY <1>1, <1>3 DEF Emission
  <2>2. PICK a : Window(d, t, w, e) = After(Inner(m), w, NextHeight(w, t, op, a))
    BY <1>1, <1>3 DEF Emission
  <2>3. Inner(m).type = Inner(d).type
    BY <2>1 DEF Runs
  <2>4. /\ Growth(op, a) = Growth(op, 0)
        /\ Running(d.functions, Inner(e), After(Inner(m), w, w.now + Growth(op, 0)), X,
                   Grown(in, Growth(op, 0)), out)
    BY <2>1, <2>3, RunningEmitsOp
  <2>5. Running(d.functions, Inner(e), Window(d, t, w, e), X, Grown(in, Growth(op, 0)), out)
    BY <2>2, <2>4 DEF NextHeight
  <2> QED BY <1>1, <1>3, <2>5 DEF Emission
<1> QED BY <1>2, <1>3 DEF e

LEMMA RunsByte ==
  ASSUME NEW d, NEW t, NEW w, NEW m, NEW X, NEW in, NEW out, NEW op, NEW a,
         Runs(d, t, w, m, X, in, out), Quiet(d, t, w, m), JumpHere(t) = 0, op \in ByteOps,
         in.kind = "exact", in.height + Growth(op, a) \in Nat \ {0},
         ~m.hadError => Applies(Finished(Inner(m)), op, a, in.height, Lesser(in.live, in.height))
  PROVE  Runs(d, t, w, Emit(m, <<op, a>>), X, To(in, in.height + Growth(op, a)), out)
<1> DEFINE e == Emit(m, <<op, a>>)
           h == in.height + Growth(op, a)
<1>1. Emission(d, t, w, m, X, in, out, <<op, a>>, e)
  BY ShortSequences, RunsEmission
<1> HIDE DEF e
<1>2. ASSUME e.hadError
      PROVE  Runs(d, t, w, e, X, To(in, h), out)
  BY <1>1, <1>2 DEF Emission, Runs
<1>3. ASSUME ~e.hadError
      PROVE  Runs(d, t, w, e, X, To(in, h), out)
  <2>1. /\ SameButCode(Inner(m), Inner(e)) /\ Inner(e).code = Inner(m).code \o <<op, a>>
        /\ Running(d.functions, Inner(m), w, X, in, out) /\ ~m.hadError
        /\ Standing(Inner(m), w, in)
    BY <1>1, <1>3 DEF Emission
  <2>2. PICK b : /\ Window(d, t, w, e) = After(Inner(m), w, NextHeight(w, t, <<op, a>>[1], b))
                 /\ Len(<<op, a>>) >= 2 => b = <<op, a>>[2]
    BY <1>1, <1>3 DEF Emission
  <2>3. b = a /\ <<op, a>>[1] = op
    BY <2>2, ShortSequences
  <2>4. in.height = w.now
    BY <2>1 DEF Standing
  <2>5. Window(d, t, w, e) = After(Inner(m), w, h)
    BY <2>2, <2>3, <2>4 DEF NextHeight
  <2>6. h \in Nat \ {0} /\ h = w.now + Growth(op, a)
    BY <2>4
  <2> HIDE DEF h
  <2>7. Running(d.functions, Inner(e), After(Inner(m), w, h), X, [in EXCEPT !.height = h], out)
    BY <2>1, <2>6, RunningEmitsArg
  <2>8. Running(d.functions, Inner(e), Window(d, t, w, e), X, To(in, h), out)
    BY <2>5, <2>7 DEF To
  <2> QED BY <1>1, <1>3, <2>8 DEF Emission
<1> QED BY <1>2, <1>3 DEF e

(* Jumps, loops and their operands.                                        *)

(* What tasks have found in the chunk is still there.                      *)
Keeps(fc, w, fc2, w2) ==
  /\ \A o, h, l : JumpFrom(fc, w, o, h, l) => JumpFrom(fc2, w2, o, h, l)
  /\ \A start : \A h \in Nat : LoopTo(fc, w, start, h) => LoopTo(fc2, w2, start, h)

LEMMA EmittedKeeps ==
  ASSUME NEW fc, NEW w, NEW fc2, NEW bytes, NEW h,
         Windowed(fc, w), Emitted(fc, w, fc2, bytes, h)
  PROVE  Keeps(fc, w, fc2, After(fc, w, h))
<1> DEFINE w2 == After(fc, w, h)
           n == Len(fc.code)
           H == Heights(fc, w)
           L == Covered(fc, w)
           k == Len(bytes)
<1>1. /\ n \in Nat /\ DOMAIN H = DOMAIN w.heights \cup {n} /\ DOMAIN L = DOMAIN H
      /\ \A o \in DOMAIN w.heights : o \in Nat /\ o < n /\ H[o] = w.heights[o] /\ L[o] = w.locals[o]
      /\ H[n] = w.now
  BY DEF Windowed
<1>2. /\ k \in Nat \ {0} /\ Heights(fc2, w2) = Noted(H, n + k, h)
      /\ Covered(fc2, w2) = Noted(L, n + k, Lesser(Live(fc), h))
      /\ \A i \in 1 .. n : fc2.code[i] = fc.code[i]
  BY DEF Emitted
<1>3. w2.heights = H /\ w2.locals = L
  BY DEF After
<1> HIDE DEF w2, H, L, n, k
<1>4. ASSUME NEW o, NEW g, NEW l, JumpFrom(fc, w, o, g, l)
      PROVE  JumpFrom(fc2, w2, o, g, l)
  <2>1. /\ o \in Nat /\ o - 1 \in DOMAIN w.heights
        /\ fc.code[o] \in {OP_JUMP, OP_JUMP_IF_FALSE}
        /\ w.heights[o - 1] = g /\ w.locals[o - 1] <= l
    BY <1>4 DEF JumpFrom
  <2>2. o \in 1 .. n
    BY <1>1, <2>1
  <2>3. o - 1 \in DOMAIN w2.heights /\ w2.heights[o - 1] = g /\ w2.locals[o - 1] = w.locals[o - 1]
    BY <1>1, <1>3, <2>1
  <2> QED BY <1>2, <2>1, <2>2, <2>3 DEF JumpFrom
<1>5. ASSUME NEW start, NEW g \in Nat, LoopTo(fc, w, start, g)
      PROVE  LoopTo(fc2, w2, start, g)
  <2>1. start \in DOMAIN H /\ H[start] = g /\ L[start] >= g
    BY <1>5 DEF LoopTo, Flows, H, L
  <2>2. start # n + k
    BY <1>1, <1>2, <2>1
  <2>3. /\ start \in DOMAIN Heights(fc2, w2) /\ Heights(fc2, w2)[start] = g
        /\ Covered(fc2, w2)[start] = L[start]
    BY <1>1, <1>2, <2>1, <2>2 DEF Noted
  <2> QED BY <2>1, <2>3 DEF LoopTo, Flows
<1> QED BY <1>4, <1>5 DEF Keeps, w2

(* How high the window is after a jump from height h.                      *)
JumpHeight(w, t, h) == IF JumpHere(t) # 0 THEN w.heights[JumpHere(t) - 1] ELSE h

LEMMA RunsJump ==
  ASSUME NEW d, NEW t, NEW w, NEW m, NEW X, NEW in, NEW out, NEW op, NEW h, NEW e,
         Runs(d, t, w, m, X, in, out), Quiet(d, t, w, m), e = EmitJump(m, op),
         op \in {OP_JUMP, OP_JUMP_IF_FALSE}, in.kind = "exact", h \in Nat \ {0},
         ~m.hadError => h = JumpHeight(w, t, in.height),
         op = OP_JUMP_IF_FALSE => Values(in, 1) /\ h = in.height
  PROVE  /\ Runs(d, t, w, e, X \cup {JumpOperand(e)}, To(in, h), out)
         /\ e.hadError = m.hadError
         /\ ~e.hadError =>
              /\ JumpFrom(Inner(e), Window(d, t, w, e), JumpOperand(e), in.height, in.live)
              /\ Keeps(Inner(m), w, Inner(e), Window(d, t, w, e))
              /\ JumpOperand(e) \in Nat \ {0} /\ Count(e) = Count(m) + 3 /\ Count(m) \in Nat
              /\ Inner(e).code # << >>
              /\ LoopTo(Inner(e), Window(d, t, w, e), Count(e), h) <=> h <= in.live
<1> DEFINE bytes == <<op, UINT8_MAX, UINT8_MAX>>
<1>1. e = Emit(m, bytes)
  BY DEF EmitJump
<1>2. IsSequence(bytes) /\ Len(bytes) = 3 /\ bytes[1] = op /\ bytes # << >>
  BY ShortSequences
<1> HIDE DEF bytes
<1>3. Emission(d, t, w, m, X, in, out, bytes, e)
  BY <1>1, <1>2, RunsEmission
<1>4. CASE e.hadError
  BY <1>3, <1>4 DEF Emission, Runs
<1>5. CASE ~e.hadError
  <2>1. /\ SameButCode(Inner(m), Inner(e)) /\ Inner(e).code = Inner(m).code \o bytes
        /\ Running(d.functions, Inner(m), w, X, in, out) /\ ~m.hadError
        /\ Standing(Inner(m), w, in) /\ Windowed(Inner(m), w)
    BY <1>3, <1>5 DEF Emission
  <2>2. PICK a : Window(d, t, w, e) = After(Inner(m), w, NextHeight(w, t, op, a))
    BY <1>2, <1>3, <1>5 DEF Emission
  <2>3. in.height = w.now /\ in.height \in Nat
    BY <2>1 DEF Standing
  <2>4. Growth(op, a) = 0
    BY OpFacts
  <2>5. Window(d, t, w, e) = After(Inner(m), w, h)
    BY <2>1, <2>2, <2>3, <2>4 DEF NextHeight, JumpHeight
  <2>6. /\ Running(d.functions, Inner(e), After(Inner(m), w, h), X \cup {Len(Inner(m).code) + 1},
                   To(in, h), out)
        /\ JumpFrom(Inner(e), After(Inner(m), w, h), Len(Inner(m).code) + 1, in.height, in.live)
    <3>1. Inner(e).code = Inner(m).code \o <<op, UINT8_MAX, UINT8_MAX>>
      BY <2>1 DEF bytes
    <3>2. op = OP_JUMP_IF_FALSE => Values(in, 1) /\ h = in.height
      OBVIOUS
    <3> DEFINE fc == Inner(m)
               fc2 == Inner(e)
    <3>3. Running(d.functions, fc, w, X, in, out) /\ JumpsWith(fc, fc2, op)
      BY <2>1, <3>1 DEF JumpsWith
    <3> HIDE DEF fc, fc2
    <3>4. Running(d.functions, fc2, After(fc, w, h), X \cup {OperandAt(fc)}, To(in, h), out)
      BY <3>2, <3>3, RunningJumps
    <3>5. JumpFrom(fc2, After(fc, w, h), OperandAt(fc), in.height, in.live)
      BY <3>2, <3>3, RunningJumps
    <3> QED BY <3>4, <3>5 DEF fc, fc2, OperandAt
  <2>7. Emitted(Inner(m), w, Inner(e), bytes, h) /\ Len(Inner(e).code) = Len(Inner(m).code) + 3
    <3>1. Emitted(Inner(m), w, Inner(e), bytes, h)
      BY <1>2, <2>1, RunningEmitted
    <3> QED BY <1>2, <3>1 DEF Emitted
  <2>8. Keeps(Inner(m), w, Inner(e), Window(d, t, w, e))
    BY <2>1, <2>5, <2>7, EmittedKeeps
  <2>9. Len(Inner(m).code) \in Nat
    BY <2>1 DEF Standing
  <2>10. /\ JumpOperand(e) = Len(Inner(m).code) + 1 /\ Count(e) = Count(m) + 3 /\ Count(m) \in Nat
         /\ JumpOperand(e) \in Nat \ {0}
    BY <2>7, <2>9 DEF JumpOperand, Count
  <2>11. Inner(e).code # << >>
    BY <2>7, <2>9, ShortSequences
  <2>12. Running(d.functions, Inner(e), Window(d, t, w, e), X \cup {JumpOperand(e)}, To(in, h), out)
    BY <2>5, <2>6, <2>10
  <2>13. Runs(d, t, w, e, X \cup {JumpOperand(e)}, To(in, h), out)
    BY <1>3, <1>5, <2>12 DEF Emission
  <2>14. e.hadError = m.hadError
    BY <1>3 DEF Emission
  <2>15. LoopTo(Inner(e), Window(d, t, w, e), Count(e), h) <=> h <= in.live
    <3> DEFINE w2 == After(Inner(m), w, h)
               n == Len(Inner(e).code)
               H == Heights(Inner(e), w2)
               L == Covered(Inner(e), w2)
    <3>1. Standing(Inner(e), w2, To(in, h)) /\ Windowed(Inner(e), w2)
      BY <2>5, <2>12, RunningStands
    <3>2. n \in DOMAIN H /\ H[n] = w2.now /\ L[n] = Lesser(Live(Inner(e)), w2.now)
      BY <3>1 DEF Windowed
    <3>3. w2.now = h
      BY DEF After
    <3>4. in.live = Live(Inner(m)) /\ Live(Inner(m)) \in Nat
      BY <2>1 DEF Standing
    <3>5. Live(Inner(e)) = Live(Inner(m))
      BY <2>1 DEF SameButCode, Live
    <3> HIDE DEF w2, H, L
    <3>6. LoopTo(Inner(e), w2, n, h) <=> Lesser(in.live, h) >= h
      BY <3>2, <3>3, <3>4, <3>5 DEF LoopTo, Flows, H, L
    <3>7. Lesser(in.live, h) >= h <=> h <= in.live
      BY <3>4 DEF Lesser
    <3> QED BY <2>5, <3>6, <3>7 DEF Count, w2
  <2> QED BY <2>5, <2>6, <2>8, <2>10, <2>11, <2>13, <2>14, <2>15
<1> QED BY <1>4, <1>5

LEMMA RunsLoop ==
  ASSUME NEW d, NEW t, NEW w, NEW m, NEW X, NEW in, NEW out, NEW start, NEW h, NEW e,
         Runs(d, t, w, m, X, in, out), Quiet(d, t, w, m), e = EmitLoop(m, start),
         in.kind = "exact", h \in Nat \ {0},
         ~m.hadError => h = JumpHeight(w, t, in.height),
         ~m.hadError => LoopTo(Inner(m), w, start, in.height)
  PROVE  /\ Runs(d, t, w, e, X, To(in, h), out)
         /\ ~e.hadError => ~m.hadError /\ Keeps(Inner(m), w, Inner(e), Window(d, t, w, e))
<1> DEFINE offset == Count(m) + 1 - start + 2
           bytes == <<OP_LOOP, High(offset), Low(offset)>>
<1>1. IsSequence(bytes) /\ Len(bytes) = 3 /\ bytes[1] = OP_LOOP /\ bytes # << >>
  BY ShortSequences
<1>2. e = Emit(IF offset > UINT16_MAX THEN Error(m) ELSE m, bytes)
  BY DEF EmitLoop
<1> HIDE DEF bytes
<1>3. CASE offset > UINT16_MAX
  <2>1. e = Emit(Error(m), bytes)
    BY <1>2, <1>3
  <2>2. Working(d) /\ Working(m) /\ Inward(d, m)
    BY RunsWorking
  <2>3. Inward(d, Error(m)) /\ Working(Error(m)) /\ Error(m).hadError
    BY <2>2, ErrorInward, InwardChain
  <2>4. Inward(d, e) /\ e.hadError
    BY <2>1, <2>3, EmitInward, InwardChain
  <2> QED BY <2>2, <2>4 DEF Runs
<1>4. CASE ~(offset > UINT16_MAX)
  <2>1. e = Emit(m, bytes)
    BY <1>2, <1>4
  <2>2. Emission(d, t, w, m, X, in, out, bytes, e)
    BY <1>1, <2>1, RunsEmission
  <2>3. CASE e.hadError
    BY <2>2, <2>3 DEF Emission, Runs
  <2>4. CASE ~e.hadError
    <3> DEFINE fc == Inner(m)
               fc2 == Inner(e)
    <3>1. /\ SameButCode(fc, fc2) /\ fc2.code = fc.code \o bytes
          /\ Running(d.functions, fc, w, X, in, out) /\ ~m.hadError
          /\ Standing(fc, w, in) /\ Windowed(fc, w)
      BY <2>2, <2>4 DEF Emission
    <3>2. PICK a : Window(d, t, w, e) = After(fc, w, NextHeight(w, t, OP_LOOP, a))
      BY <1>1, <2>2, <2>4 DEF Emission
    <3>3. in.height = w.now /\ Growth(OP_LOOP, a) = 0 /\ Len(fc.code) \in Nat /\ in.height \in Nat
      BY <3>1, OpFacts DEF Standing
    <3>4. Window(d, t, w, e) = After(fc, w, h)
      BY <3>1, <3>2, <3>3 DEF NextHeight, JumpHeight
    <3>5. LoopTo(fc, w, start, in.height)
      BY <3>1
    <3>6. start \in Nat
      BY <3>1, <3>5 DEF LoopTo, Flows, Windowed
    <3>7. Count(m) = Len(fc.code)
      BY DEF Count
    <3> HIDE DEF fc, fc2
    <3>8. offset = Len(fc.code) + 3 - start
      BY <3>3, <3>6, <3>7
    <3>9. /\ fc2.code = fc.code \o <<OP_LOOP, High(Len(fc.code) + 3 - start), Low(Len(fc.code) + 3 - start)>>
      BY <3>1, <3>8 DEF bytes
    <3>10. Len(fc.code) + 3 - start <= UINT16_MAX
      <4>1. UINT16_MAX \in Nat
        BY UInt8Assumption DEF UINT16_MAX
      <4> QED BY <1>4, <3>3, <3>6, <3>8, <4>1
    <3>11. Running(d.functions, fc2, After(fc, w, h), X, [in EXCEPT !.height = h], out)
      BY <3>1, <3>5, <3>9, <3>10, RunningLoops
    <3>12. Running(d.functions, fc2, Window(d, t, w, e), X, To(in, h), out)
      BY <3>4, <3>11 DEF To
    <3>13. Runs(d, t, w, e, X, To(in, h), out)
      BY <2>2, <2>4, <3>12 DEF Emission, fc2
    <3>14. Emitted(fc, w, fc2, bytes, h)
      BY <1>1, <3>1, RunningEmitted
    <3>15. Keeps(fc, w, fc2, Window(d, t, w, e))
      BY <3>1, <3>4, <3>14, EmittedKeeps
    <3> QED BY <3>1, <3>13, <3>15 DEF fc, fc2
  <2> QED BY <2>3, <2>4
<1> QED BY <1>3, <1>4

LEMMA RecordedPatched ==
  ASSUME NEW fc, NEW w, NEW t, NEW code, NEW code2, NEW arity,
         Len(code2) = Len(code), code2 = << >> <=> code = << >>,
         JumpHere(t) # 0 \/ Len(code) = Len(fc.code)
  PROVE  Recorded(w, fc, t, code2, arity) = Recorded(w, fc, t, code, arity)
BY DEF Recorded

Patched(fc, i, j, x, y, g) ==
  /\ SameButCode(fc, g) /\ Len(g.code) = Len(fc.code)
  /\ g.code = << >> <=> fc.code = << >>
  /\ \A k \in 1 .. Len(fc.code) : g.code[k] = IF k = j THEN y ELSE IF k = i THEN x ELSE fc.code[k]

LEMMA PatchFields ==
  ASSUME NEW fc, NEW i, NEW j, NEW x, NEW y, IsFunctionCompiler(fc)
  PROVE  Patched(fc, i, j, x, y, [fc EXCEPT !.code[i] = x, !.code[j] = y])
<1> DEFINE code1 == [fc.code EXCEPT ![i] = x]
           code == [code1 EXCEPT ![j] = y]
           b == [fc EXCEPT !.code = code1]
           g == [fc EXCEPT !.code[i] = x, !.code[j] = y]
<1>1. fc = [type |-> fc.type, arity |-> fc.arity, code |-> fc.code, lines |-> fc.lines,
            constants |-> fc.constants, locals |-> fc.locals, upvalues |-> fc.upvalues,
            scopeDepth |-> fc.scopeDepth, todo |-> fc.todo]
  BY DEF IsFunctionCompiler
<1>13. IsSequence(fc.code)
  BY DEF IsFunctionCompiler
<1>2. g = [b EXCEPT !.code = [b.code EXCEPT ![j] = y]]
  OBVIOUS
<1>3. IsSequence(code1) /\ Len(code1) = Len(fc.code)
      /\ \A k \in 1 .. Len(fc.code) : code1[k] = IF k = i THEN x ELSE fc.code[k]
  <2> DEFINE q == fc.code
             r == [q EXCEPT ![i] = x]
  <2>1. IsSequence(q)
    BY <1>13
  <2> HIDE DEF q
  <2>2. IsSequence(r) /\ Len(r) = Len(q)
    BY <2>1, SequenceExcept
  <2>3. \A k \in 1 .. Len(q) : r[k] = IF k = i THEN x ELSE q[k]
    BY <2>1, SequenceFacts
  <2> QED BY <2>2, <2>3 DEF q
<1> HIDE DEF code1
<1>4. IsSequence(code) /\ Len(code) = Len(fc.code)
      /\ \A k \in 1 .. Len(fc.code) : code[k] = IF k = j THEN y ELSE code1[k]
  <2>1. IsSequence(code1)
    BY <1>3
  <2>2. IsSequence(code) /\ Len(code) = Len(code1)
    BY <2>1, SequenceExcept
  <2>3. \A k \in 1 .. Len(code1) : code[k] = IF k = j THEN y ELSE code1[k]
    BY <2>1, SequenceFacts
  <2> QED BY <1>3, <2>2, <2>3
<1>5. code = << >> <=> fc.code = << >>
  BY <1>13, <1>4, SequenceFacts
<1>6. b = [type |-> fc.type, arity |-> fc.arity, code |-> code1, lines |-> fc.lines,
           constants |-> fc.constants, locals |-> fc.locals, upvalues |-> fc.upvalues,
           scopeDepth |-> fc.scopeDepth, todo |-> fc.todo]
  BY <1>1
<1> HIDE DEF b
<1>7. b.code = code1
  BY <1>6
<1>8. g = [b EXCEPT !.code = code]
  BY <1>2, <1>7
<1> HIDE DEF g, code
<1>9. g = [type |-> fc.type, arity |-> fc.arity, code |-> code, lines |-> fc.lines,
           constants |-> fc.constants, locals |-> fc.locals, upvalues |-> fc.upvalues,
           scopeDepth |-> fc.scopeDepth, todo |-> fc.todo]
  BY <1>6, <1>8
<1>10. /\ g.type = fc.type /\ g.arity = fc.arity /\ g.code = code /\ g.lines = fc.lines
       /\ g.constants = fc.constants /\ g.locals = fc.locals /\ g.upvalues = fc.upvalues
       /\ g.scopeDepth = fc.scopeDepth /\ g.todo = fc.todo
  BY <1>9
<1>11. SameButCode(fc, g)
  BY <1>4, <1>9, <1>10 DEF IsFunctionCompiler, SameButCode
<1>12. \A k \in 1 .. Len(fc.code) : g.code[k] = IF k = j THEN y ELSE IF k = i THEN x ELSE fc.code[k]
  BY <1>3, <1>4, <1>10
<1> QED BY <1>4, <1>5, <1>10, <1>11, <1>12 DEF Patched, g

LEMMA RunsPatch ==
  ASSUME NEW d, NEW t, NEW w, NEW m, NEW X, NEW in, NEW out, NEW offset, NEW e,
         Runs(d, t, w, m, X, in, out), Quiet(d, t, w, m) \/ JumpHere(t) # 0,
         e = PatchJump(m, offset), in.kind = "exact",
         ~m.hadError => JumpFrom(Inner(m), Window(d, t, w, m), offset, in.height, in.live)
  PROVE  /\ Runs(d, t, w, e, X \ {offset}, in, out)
         /\ ~e.hadError =>
              /\ ~m.hadError
              /\ \A o, h, l : JumpFrom(Inner(m), Window(d, t, w, m), o, h, l)
                                => JumpFrom(Inner(e), Window(d, t, w, e), o, h, l)
<1> DEFINE jump == Count(m) - offset - 2
           n == IF jump > UINT16_MAX THEN Error(m) ELSE m
           fc == Inner(n)
           fc2 == [fc EXCEPT !.code[offset + 1] = High(jump), !.code[offset + 2] = Low(jump)]
<1>1. e = With(n, fc2)
  BY DEF PatchJump
<1>2. Working(d) /\ Working(m) /\ Inward(d, m)
  BY RunsWorking
<1>3. Working(n) /\ Inward(d, n)
  BY <1>2, ErrorInward, InwardChain
<1> HIDE DEF fc2
<1>4. Inward(d, e) /\ e.hadError = n.hadError /\ Inner(e) = fc2
  BY <1>1, <1>3, WithFacts, InwardChain
<1>5. CASE e.hadError
  BY <1>2, <1>4, <1>5 DEF Runs
<1>6. CASE ~e.hadError
  <2>1. n = m /\ ~(jump > UINT16_MAX) /\ ~m.hadError
    BY <1>2, <1>4, <1>6, ErrorInward
  <2>2. /\ Running(d.functions, fc, Window(d, t, w, m), X, in, out)
        /\ Standing(fc, Window(d, t, w, m), in) /\ Windowed(fc, Window(d, t, w, m))
        /\ IsFunctionCompiler(fc) /\ IsSequence(fc.code) /\ fc = Inner(m)
    BY <2>1, RunsWorking DEF Runs, IsFunctionCompiler
  <2>3. /\ JumpFrom(fc, Window(d, t, w, m), offset, in.height, in.live)
        /\ offset \in Nat /\ Len(fc.code) \in Nat
    BY <2>1, <2>2 DEF JumpFrom, Standing
  <2>4. jump = Len(fc.code) - offset - 2 /\ UINT16_MAX \in Nat
    BY <2>2, UInt8Assumption DEF Count, UINT16_MAX
  <2> HIDE DEF n, fc, jump
  <2>5. /\ SameButCode(fc, fc2) /\ Len(fc2.code) = Len(fc.code)
        /\ fc2.code = << >> <=> fc.code = << >>
        /\ \A k \in 1 .. Len(fc.code) :
             fc2.code[k] = IF k = offset + 2 THEN Low(jump) ELSE IF k = offset + 1 THEN High(jump)
                           ELSE fc.code[k]
    <3>1. Patched(fc, offset + 1, offset + 2, High(jump), Low(jump), fc2)
      <4>1. IsFunctionCompiler(fc)
        BY <2>2
      <4> DEFINE i == offset + 1
                 j == offset + 2
                 x == High(jump)
                 y == Low(jump)
      <4> HIDE DEF i, j, x, y
      <4>2. Patched(fc, i, j, x, y, [fc EXCEPT !.code[i] = x, !.code[j] = y])
        BY <4>1, PatchFields, Zenon
      <4> QED BY <4>2 DEF fc2, i, j, x, y
    <3> QED BY <3>1 DEF Patched
  <2>6. /\ Len(fc.code) - offset - 2 <= UINT16_MAX
        /\ \A i \in 1 .. Len(fc.code) :
             fc2.code[i] = IF i = offset + 1 THEN High(Len(fc.code) - offset - 2)
                           ELSE IF i = offset + 2 THEN Low(Len(fc.code) - offset - 2)
                           ELSE fc.code[i]
    <3>1. offset + 1 # offset + 2
      BY <2>3
    <3> QED BY <2>1, <2>3, <2>4, <2>5, <3>1
  <2>7. /\ Running(d.functions, fc2, Window(d, t, w, m), X \ {offset}, in, out)
        /\ \A o, h, l : JumpFrom(fc, Window(d, t, w, m), o, h, l)
                          => JumpFrom(fc2, Window(d, t, w, m), o, h, l)
    <3> DEFINE u == Window(d, t, w, m)
    <3>1. Running(d.functions, fc, u, X, in, out) /\ JumpFrom(fc, u, offset, in.height, in.live)
      BY <2>2, <2>3
    <3> HIDE DEF u
    <3>2. Running(d.functions, fc2, u, X \ {offset}, in, out)
      BY <3>1, <2>5, <2>6, RunningPatches
    <3>3. \A o, h, l : JumpFrom(fc, u, o, h, l) => JumpFrom(fc2, u, o, h, l)
      BY <3>1, <2>5, <2>6, RunningPatches
    <3> QED BY <3>2, <3>3 DEF u
  <2>8. Window(d, t, w, e) = Window(d, t, w, m)
    <3>1. JumpHere(t) # 0 \/ Len(fc.code) = Len(Inner(d).code)
      BY <2>1, <2>2 DEF Quiet
    <3>2. Recorded(w, Inner(d), t, fc2.code, fc.arity) = Recorded(w, Inner(d), t, fc.code, fc.arity)
      <4> DEFINE code == fc.code
                 code2 == fc2.code
                 g == Inner(d)
      <4>1. /\ Len(code2) = Len(code)
            /\ code2 = << >> <=> code = << >>
            /\ JumpHere(t) # 0 \/ Len(code) = Len(g.code)
        BY <2>5, <3>1
      <4> HIDE DEF code, code2, g
      <4>2. Recorded(w, g, t, code2, fc.arity) = Recorded(w, g, t, code, fc.arity)
        BY <4>1, RecordedPatched
      <4> QED BY <4>2 DEF code, code2, g
    <3>3. fc2.arity = fc.arity
      BY <2>5 DEF SameButCode
    <3> QED BY <1>4, <2>2, <3>2, <3>3 DEF Window
  <2>9. /\ fc2.type = Inner(d).type /\ fc2.upvalues = Inner(d).upvalues
        /\ fc2.arity = Inner(d).arity /\ fc2.todo # << >>
    BY <2>1, <2>2, <2>5 DEF SameButCode, Runs
  <2>10. Runs(d, t, w, e, X \ {offset}, in, out)
    BY <1>2, <1>4, <2>7, <2>8, <2>9 DEF Runs
  <2> QED BY <1>4, <2>1, <2>2, <2>7, <2>8, <2>10
<1> QED BY <1>5, <1>6

(* Constants.                                                              *)

SameButConstants(fc, g, constants) ==
  /\ IsFunctionCompiler(g) /\ g.type = fc.type /\ g.arity = fc.arity /\ g.code = fc.code
  /\ g.todo = fc.todo /\ g.locals = fc.locals /\ g.upvalues = fc.upvalues
  /\ g.scopeDepth = fc.scopeDepth /\ g.constants = constants /\ g.lines = fc.lines

LEMMA ConstantsSet ==
  ASSUME NEW fc, NEW constants, IsFunctionCompiler(fc), IsSequence(constants)
  PROVE  SameButConstants(fc, [fc EXCEPT !.constants = constants], constants)
<1> DEFINE g == [fc EXCEPT !.constants = constants]
<1>1. fc = [type |-> fc.type, arity |-> fc.arity, code |-> fc.code, lines |-> fc.lines,
            constants |-> fc.constants, locals |-> fc.locals, upvalues |-> fc.upvalues,
            scopeDepth |-> fc.scopeDepth, todo |-> fc.todo]
  BY DEF IsFunctionCompiler
<1>2. g = [type |-> fc.type, arity |-> fc.arity, code |-> fc.code, lines |-> fc.lines,
           constants |-> constants, locals |-> fc.locals, upvalues |-> fc.upvalues,
           scopeDepth |-> fc.scopeDepth, todo |-> fc.todo]
  BY <1>1
<1> HIDE DEF g
<1>3. /\ g.type = fc.type /\ g.arity = fc.arity /\ g.code = fc.code /\ g.lines = fc.lines
      /\ g.constants = constants /\ g.locals = fc.locals /\ g.upvalues = fc.upvalues
      /\ g.scopeDepth = fc.scopeDepth /\ g.todo = fc.todo
  BY <1>2
<1>4. IsFunctionCompiler(g)
  BY <1>2, <1>3 DEF IsFunctionCompiler
<1> QED BY <1>3, <1>4 DEF g, SameButConstants

(* makeConstant has put v at the index that it returns.                    *)
Has(e, k, v) ==
  k \in 0 .. UINT8_MAX /\ k + 1 \in DOMAIN Inner(e).constants /\ Inner(e).constants[k + 1] = v

LEMMA RunsConstant ==
  ASSUME NEW d, NEW t, NEW w, NEW m, NEW X, NEW in, NEW out, NEW v, NEW e,
         Runs(d, t, w, m, X, in, out), e = MakeConstant(m, v),
         ~m.hadError => (v.type = "FUNCTION" => /\ v.val \in DOMAIN d.functions
                                               /\ d.functions[v.val].upvalueCount \in Nat)
  PROVE  /\ Runs(d, t, w, e, X, in, out)
         /\ Quiet(d, t, w, m) => Quiet(d, t, w, e)
         /\ ~e.hadError =>
              /\ ~m.hadError /\ Has(e, ConstantIndex(e), v) /\ Window(d, t, w, e) = Window(d, t, w, m)
              /\ Inner(e).locals = Inner(m).locals /\ Inner(e).scopeDepth = Inner(m).scopeDepth
              /\ Inner(e).upvalues = Inner(m).upvalues /\ Inner(e).code = Inner(m).code
              /\ Inner(e).type = Inner(m).type
<1> DEFINE fc == Inner(m)
           constants == Append(fc.constants, v)
           fc2 == [fc EXCEPT !.constants = constants]
           n == With(m, fc2)
<1>1. Working(d) /\ Working(m) /\ Inward(d, m)
  BY RunsWorking
<1>2. Inward(m, n) /\ Working(n) /\ Inner(n) = fc2 /\ n.hadError = m.hadError
  BY <1>1, WithFacts DEF Inward
<1>3. e = IF Len(fc2.constants) - 1 > UINT8_MAX THEN Error(n) ELSE n
  BY <1>2 DEF MakeConstant
<1> HIDE DEF n, fc2
<1>4. Inward(d, n) /\ Inward(d, e)
  BY <1>1, <1>2, <1>3, ErrorInward, InwardChain
<1>5. CASE e.hadError
  BY <1>1, <1>4, <1>5 DEF Runs, Quiet
<1>6. CASE ~e.hadError
  <2>1. e = n /\ ~m.hadError /\ ~(Len(fc2.constants) - 1 > UINT8_MAX)
    BY <1>2, <1>3, <1>6, ErrorInward
  <2>2. /\ Running(d.functions, fc, Window(d, t, w, m), X, in, out)
        /\ fc.type = Inner(d).type /\ fc.upvalues = Inner(d).upvalues
        /\ fc.arity = Inner(d).arity /\ fc.todo # << >>
        /\ IsFunctionCompiler(fc) /\ IsSequence(fc.constants)
    BY <2>1, RunsWorking DEF Runs, IsFunctionCompiler
  <2>3. /\ IsSequence(constants) /\ Len(constants) = Len(fc.constants) + 1
        /\ constants[Len(fc.constants) + 1] = v /\ Len(fc.constants) \in Nat
        /\ DOMAIN constants = 1 .. Len(constants)
    BY <2>2, SequenceAppend, SequenceFacts
  <2> HIDE DEF fc
  <2>4. /\ IsFunctionCompiler(fc2) /\ fc2.type = fc.type /\ fc2.arity = fc.arity /\ fc2.code = fc.code
        /\ fc2.todo = fc.todo /\ fc2.locals = fc.locals /\ fc2.upvalues = fc.upvalues
        /\ fc2.scopeDepth = fc.scopeDepth /\ fc2.constants = Append(fc.constants, v)
    <3>1. SameButConstants(fc, fc2, constants)
      BY <2>2, <2>3, ConstantsSet DEF fc2
    <3> QED BY <3>1 DEF SameButConstants
  <2> DEFINE u == Window(d, t, w, m)
  <2>5. Running(d.functions, fc, u, X, in, out)
    BY <2>2
  <2> HIDE DEF u
  <2>6. Running(d.functions, fc2, u, X, in, out)
    BY <2>1, <2>2, <2>4, <2>5, RunningAdds
  <2>7. Window(d, t, w, e) = u
    BY <1>2, <2>1, <2>4 DEF Window, u, fc
  <2>8. Runs(d, t, w, e, X, in, out)
    BY <1>1, <1>2, <1>4, <2>1, <2>2, <2>4, <2>6, <2>7 DEF Runs
  <2>9. Live(fc2) = Live(fc)
    BY <2>4 DEF Live
  <2>10. Quiet(d, t, w, m) => Quiet(d, t, w, e)
    BY <1>2, <2>1, <2>4, <2>7, <2>9 DEF Quiet, u, fc
  <2>11. ConstantIndex(e) = Len(fc.constants)
    BY <1>2, <2>1, <2>3, <2>4, UInt8Assumption DEF ConstantIndex
  <2>12. Has(e, ConstantIndex(e), v)
    BY <1>2, <2>1, <2>3, <2>4, <2>11, UInt8Assumption DEF Has
  <2> QED BY <1>2, <2>1, <2>4, <2>7, <2>8, <2>10, <2>12 DEF fc, u
<1> QED BY <1>5, <1>6

LEMMA RunsEmitConstant ==
  ASSUME NEW d, NEW t, NEW w, NEW m, NEW X, NEW in, NEW out, NEW v,
         Runs(d, t, w, m, X, in, out), Quiet(d, t, w, m), JumpHere(t) = 0,
         v.type \in {"STRING", "NUMBER"}, in.kind = "exact", in.height \in Nat
  PROVE  Runs(d, t, w, EmitConstant(m, v), X, To(in, in.height + 1), out)
<1> DEFINE e == MakeConstant(m, v)
           k == ConstantIndex(e)
<1>1. /\ Runs(d, t, w, e, X, in, out) /\ Quiet(d, t, w, e)
      /\ ~e.hadError => Has(e, k, v)
  BY RunsConstant
<1>2. EmitConstant(m, v) = Emit(e, <<OP_CONSTANT, k>>)
  BY DEF EmitConstant
<1> HIDE DEF e, k
<1>3. ASSUME ~e.hadError
      PROVE  Applies(Finished(Inner(e)), OP_CONSTANT, k, in.height, Lesser(in.live, in.height))
  <2>1. k + 1 \in DOMAIN Finished(Inner(e)).constants /\ Finished(Inner(e)).constants[k + 1] = v
    BY <1>1, <1>3, FinishedFields DEF Has
  <2> QED BY <2>1 DEF Applies, OP_CONSTANT, JumpOps, OP_JUMP, OP_JUMP_IF_FALSE, OP_LOOP, OP_CLOSURE,
                NameOps, OP_GET_GLOBAL, OP_SET_GLOBAL, OP_DEFINE_GLOBAL, OP_GET_LOCAL, OP_SET_LOCAL,
                OP_GET_UPVALUE, OP_SET_UPVALUE, OP_CALL, TakingOps, OP_POP, OP_PRINT, OP_NOT,
                OP_NEGATE, OP_RETURN, SetOps, BinaryOps, ArithmeticOps, OP_SUBTRACT, OP_MULTIPLY,
                OP_DIVIDE, OP_GREATER, OP_ADD, OP_LESS, OP_EQUAL
<1>4. Growth(OP_CONSTANT, k) = 1 /\ OP_CONSTANT \in ByteOps
  BY OpFacts DEF ByteOps
<1>5. Runs(d, t, w, Emit(e, <<OP_CONSTANT, k>>), X, To(in, in.height + Growth(OP_CONSTANT, k)), out)
  <2>1. in.height + Growth(OP_CONSTANT, k) \in Nat \ {0}
    BY <1>4
  <2> QED BY <1>1, <1>3, <1>4, <2>1, RunsByte
<1> QED BY <1>2, <1>4, <1>5
-----------------------------------------------------------------------------
(* The tasks.  Each one finds what it expects, and leaves what is expected *)
(* by the next.                                                            *)

Turn(d, t, w, in, out) ==
  /\ Runs(d, t, w, d, AwaitedBy(t), in, out) /\ Quiet(d, t, w, d) /\ ~d.hadError
  /\ in \in Situations /\ out \in Situations
  /\ Fits(t, in, out) /\ Finds(Inner(d), w, t, in, out) /\ out.depth <= in.depth

LEMMA TurnFacts ==
  ASSUME NEW d, NEW t, NEW w, NEW in, NEW out, Turn(d, t, w, in, out)
  PROVE  /\ Runs(d, t, w, d, AwaitedBy(t), in, out) /\ Quiet(d, t, w, d) /\ ~d.hadError
         /\ in \in Situations /\ out \in Situations
         /\ Working(d) /\ Inward(d, d) /\ Window(d, t, w, d) = w
         /\ Standing(Inner(d), w, in) /\ Windowed(Inner(d), w)
<1>1. /\ Runs(d, t, w, d, AwaitedBy(t), in, out) /\ Quiet(d, t, w, d) /\ ~d.hadError
      /\ in \in Situations /\ out \in Situations
  BY DEF Turn
<1>2. Working(d) /\ Inward(d, d)
  BY <1>1, RunsWorking
<1>3. Window(d, t, w, d) = w
  BY <1>1 DEF Quiet
<1>4. Standing(Inner(d), w, in) /\ Windowed(Inner(d), w)
  BY <1>1, <1>3, RunsWorking
<1> QED BY <1>1, <1>2, <1>3, <1>4

(* What has come to rest, and what is above it.                            *)

LEMMA SettledFacts ==
  ASSUME NEW s \in Situations, Settled(s)
  PROVE  /\ s.kind = "exact" /\ Values(s, 0) /\ Rest(s) /\ s.height = s.live /\ s.live = s.locals
         /\ s.height \in Nat /\ s.depth \in Nat /\ Becomes(s, s)
BY SituationFacts DEF Settled, Values, Rest, Becomes

LEMMA ToMore ==
  ASSUME NEW s \in Situations, NEW n \in Nat, NEW k \in Nat, Values(s, n)
  PROVE  /\ s.kind = "exact" /\ To(s, s.height + k) \in Situations
         /\ Values(To(s, s.height + k), n + k) /\ To(s, s.height + k).height = s.height + k
         /\ To(s, s.height + k).depth = s.depth /\ s.height \in Nat /\ s.depth \in Nat
<1>1. s.kind = "exact" /\ s.height >= s.live + n /\ s.height \in Nat /\ s.live \in Nat /\ s.depth \in Nat
  BY SituationFacts DEF Values
<1>2. s.height + k \in Nat /\ s.height + k >= s.live + (n + k)
  BY <1>1
<1> DEFINE r == To(s, s.height + k)
<1>3. r \in Situations /\ r.kind = "exact" /\ r.depth = s.depth /\ r.height = s.height + k /\ r.live = s.live
  BY <1>1, <1>2, ToFacts
<1> HIDE DEF r
<1>4. Values(r, n + k)
  BY <1>2, <1>3 DEF Values
<1> QED BY <1>1, <1>3, <1>4 DEF r

LEMMA ToLess ==
  ASSUME NEW s \in Situations, Values(s, 1)
  PROVE  /\ s.kind = "exact" /\ s.height - 1 \in Nat /\ s.height \in Nat /\ s.height - 1 + 1 = s.height
         /\ Grown(s, -1) = To(s, s.height - 1) /\ To(s, s.height - 1) \in Situations
         /\ To(s, s.height - 1).kind = "exact"
         /\ To(s, s.height - 1).height = s.height - 1 /\ To(s, s.height - 1).depth = s.depth
         /\ To(s, s.height - 1).live = s.live /\ To(s, s.height - 1).locals = s.locals
         /\ Values(To(s, s.height - 1), 0) /\ To(To(s, s.height - 1), s.height) = s
<1>1. s.kind = "exact" /\ s.height >= s.live + 1 /\ s.height \in Nat /\ s.live \in Nat
  BY SituationFacts DEF Values
<1> DEFINE h == s.height - 1
<1>2. h \in Nat /\ h + 1 = s.height /\ h >= s.live + 0 /\ s.height + (-1) = h
  BY <1>1
<1>3. Grown(s, -1) = To(s, h)
  BY <1>1, <1>2, ToGrown
<1> HIDE DEF h
<1>4. /\ To(s, h) \in Situations /\ To(s, h).kind = "exact" /\ To(s, h).depth = s.depth
      /\ To(s, h).height = h /\ To(s, h).live = s.live /\ To(s, h).locals = s.locals
  BY <1>1, <1>2, ToFacts
<1>5. Values(To(s, h), 0)
  BY <1>2, <1>4 DEF Values
<1>6. To(To(s, h), s.height) = s
  BY <1>1, ToAgain
<1> QED BY <1>1, <1>2, <1>3, <1>4, <1>5, <1>6 DEF h

LEMMA AheadPopping ==
  ASSUME NEW d, NEW t, NEW w, NEW m, NEW X, NEW i, NEW o, NEW mid \in Situations, NEW out,
         Runs(d, t, w, m, X, i, o), Values(mid, 1), Becomes(To(mid, mid.height - 1), out)
  PROVE  Ahead(d, t, w, m, Emitting(<<OP_POP>>), mid, out) /\ AwaitedBy(Emitting(<<OP_POP>>)) = {}
<1>1. mid.height - 1 \in Nat /\ mid.height \in Nat
  BY ToLess
<1>2. Growth(OP_POP, 0) = -1 /\ Taken(OP_POP) = 1 /\ OP_POP \in EmittedOps \ SetOps
  BY OpFacts
<1>3. mid.height + Growth(OP_POP, 0) = mid.height - 1
  BY <1>1, <1>2
<1>4. OP_POP # OP_RETURN
  OBVIOUS
<1> QED BY <1>1, <1>2, <1>3, <1>4, AheadEmitting

LEMMA RunsSettles ==
  ASSUME NEW d, NEW t, NEW w, NEW m, NEW X, NEW in, NEW out, NEW in2,
         Runs(d, t, w, m, X, in, out), Becomes(in, in2)
  PROVE  Runs(d, t, w, m, X, in2, out)
BY RunningSettles DEF Runs

LEMMA RunsExact ==
  ASSUME NEW d, NEW t, NEW w, NEW m, NEW X, NEW in, NEW out,
         Runs(d, t, w, m, X, in, out), Rest(in), ~m.hadError
  PROVE  \E in2 \in Situations :
           /\ Settled(in2) /\ in2.depth = in.depth /\ in2.height >= 1
           /\ Runs(d, t, w, m, X, in2, out)
           /\ \A s : Becomes(in, s) => Becomes(in2, s)
BY RunningExact DEF Runs

(* A task that is done at once.                                            *)
LEMMA RunsImmediate ==
  ASSUME NEW d, NEW t, NEW w, NEW m, NEW X, NEW in, NEW out, NEW u,
         Runs(d, t, w, m, X, in, out), X = {}, u.do \notin Bottom, AwaitedBy(u) = {},
         out.depth <= in.depth, Fits(u, in, out),
         ~m.hadError => Finds(Inner(m), Window(d, t, w, m), u, in, out),
         ~m.hadError => NextFinds(Then(m, <<u>>))
  PROVE  Arrives(d, t, w, Then(m, <<u>>))
<1> DEFINE e == Then(m, <<u>>)
           fc == Inner(m)
           fc2 == [fc EXCEPT !.todo = fc.todo \o <<u>>]
<1>1. Working(d) /\ Working(m) /\ Inward(d, m)
  BY RunsWorking
<1>2. Inward(d, e) /\ e.hadError = m.hadError
  BY <1>1, ThenInward, InwardChain
<1>3. Inner(e) = fc2
  BY <1>1, ReversedTasks, WithFacts DEF Then
<1> HIDE DEF e
<1>4. CASE e.hadError
  BY <1>2, <1>4 DEF Arrives, e
<1>5. CASE ~e.hadError
  <2>1. /\ Running(d.functions, fc, Window(d, t, w, m), X, in, out) /\ fc.todo # << >>
        /\ fc.type = Inner(d).type /\ fc.upvalues = Inner(d).upvalues /\ fc.arity = Inner(d).arity
        /\ IsFunctionCompiler(fc) /\ IsSequence(fc.todo)
    BY <1>2, <1>5, RunsWorking DEF Runs
  <2>2. fc.todo \o <<u>> = Append(fc.todo, u) /\ IsSequence(Append(fc.todo, u))
    BY <2>1, PushedTasks, SequenceAppend
  <2>3. IsFunctionCompiler(fc2) /\ SameButTodo(fc, fc2) /\ fc2.todo = Append(fc.todo, u)
    BY <2>1, <2>2, TodoSet
  <2>4. fc2.lines = fc.lines
    BY <2>1 DEF IsFunctionCompiler
  <2> HIDE DEF fc2
  <2>5. Window(d, t, w, e) = Window(d, t, w, m)
    BY <1>3, <2>3 DEF Window, SameButTodo
  <2>6. Level(d.functions, fc2, Window(d, t, w, m))
    <3> DEFINE v == Window(d, t, w, m)
    <3>1. Running(d.functions, fc, v, X, in, out) /\ Finds(fc, v, u, in, out)
      BY <1>2, <1>5, <2>1
    <3> HIDE DEF v, fc
    <3>2. Level(d.functions, fc2, v)
      BY <2>1, <2>3, <2>4, <3>1, LevelOfImmediate
    <3> QED BY <3>2 DEF v
  <2>7. NextFinds(e)
    BY <1>2, <1>5 DEF e
  <2> QED BY <1>2, <1>3, <2>1, <2>3, <2>5, <2>6, <2>7 DEF Arrives, SameButTodo, e
<1> QED BY <1>4, <1>5 DEF e

LEMMA ErrorArrives ==
  ASSUME NEW d, NEW t, NEW w, NEW m, Working(d), Inward(d, m)
  PROVE  Arrives(d, t, w, Error(m))
BY RunsError

LEMMA FailedArrives ==
  ASSUME NEW d, NEW t, NEW w, NEW m, NEW e, Inward(d, m), Inward(m, e), m.hadError
  PROVE  Arrives(d, t, w, e)
BY InwardChain DEF Arrives, Inward

(* Tasks that are put before the next, the first of which finds what is     *)
(* there.                                                                  *)

LEMMA ThenOneArrives ==
  ASSUME NEW d, NEW t, NEW w, NEW m, NEW X, NEW in, NEW out,
         NEW a,
         Runs(d, t, w, m, X, in, out), X \subseteq AwaitedBy(a),
         Ahead(d, t, w, m, a, in, out)
  PROVE  Arrives(d, t, w, Then(m, <<a>>))
<1>1. Runs(d, t, w, Then(m, <<a>>), X \ (AwaitedBy(a)), in, in)
  BY ThenOne
<1>2. X \ (AwaitedBy(a)) = {}
  OBVIOUS
<1> QED BY <1>1, <1>2, RunsArrives

LEMMA ThenTwoArrives ==
  ASSUME NEW d, NEW t, NEW w, NEW m, NEW X, NEW in, NEW out,
         NEW a, NEW b, NEW m2,
         Runs(d, t, w, m, X, in, out), X \subseteq AwaitedBy(a) \cup AwaitedBy(b),
         Ahead(d, t, w, m, a, in, m2),
         Ahead(d, t, w, m, b, m2, out)
  PROVE  Arrives(d, t, w, Then(m, <<a, b>>))
<1>1. Runs(d, t, w, Then(m, <<a, b>>), X \ (AwaitedBy(a) \cup AwaitedBy(b)), in, in)
  BY ThenTwo
<1>2. X \ (AwaitedBy(a) \cup AwaitedBy(b)) = {}
  OBVIOUS
<1> QED BY <1>1, <1>2, RunsArrives

LEMMA ThenThreeArrives ==
  ASSUME NEW d, NEW t, NEW w, NEW m, NEW X, NEW in, NEW out,
         NEW a, NEW b, NEW p, NEW m2, NEW m3,
         Runs(d, t, w, m, X, in, out), X \subseteq AwaitedBy(a) \cup AwaitedBy(b) \cup AwaitedBy(p),
         Ahead(d, t, w, m, a, in, m2),
         Ahead(d, t, w, m, b, m2, m3),
         Ahead(d, t, w, m, p, m3, out)
  PROVE  Arrives(d, t, w, Then(m, <<a, b, p>>))
<1>1. Runs(d, t, w, Then(m, <<a, b, p>>), X \ (AwaitedBy(a) \cup AwaitedBy(b) \cup AwaitedBy(p)), in, in)
  BY ThenThree
<1>2. X \ (AwaitedBy(a) \cup AwaitedBy(b) \cup AwaitedBy(p)) = {}
  OBVIOUS
<1> QED BY <1>1, <1>2, RunsArrives

LEMMA ThenFourArrives ==
  ASSUME NEW d, NEW t, NEW w, NEW m, NEW X, NEW in, NEW out,
         NEW a, NEW b, NEW p, NEW q, NEW m2, NEW m3, NEW m4,
         Runs(d, t, w, m, X, in, out), X \subseteq AwaitedBy(a) \cup AwaitedBy(b) \cup AwaitedBy(p)
            \cup AwaitedBy(q),
         Ahead(d, t, w, m, a, in, m2),
         Ahead(d, t, w, m, b, m2, m3),
         Ahead(d, t, w, m, p, m3, m4),
         Ahead(d, t, w, m, q, m4, out)
  PROVE  Arrives(d, t, w, Then(m, <<a, b, p, q>>))
<1>1. Runs(d, t, w, Then(m, <<a, b, p, q>>), X \ (AwaitedBy(a) \cup AwaitedBy(b) \cup AwaitedBy(p)
      \cup AwaitedBy(q)), in, in)
  BY ThenFour
<1>2. X \ (AwaitedBy(a) \cup AwaitedBy(b) \cup AwaitedBy(p)
      \cup AwaitedBy(q)) = {}
  OBVIOUS
<1> QED BY <1>1, <1>2, RunsArrives

LEMMA ThenSixArrives ==
  ASSUME NEW d, NEW t, NEW w, NEW m, NEW X, NEW in, NEW out,
         NEW a, NEW b, NEW p, NEW q, NEW r, NEW v, NEW m2, NEW m3, NEW m4, NEW m5, NEW m6,
         Runs(d, t, w, m, X, in, out), X \subseteq AwaitedBy(a) \cup AwaitedBy(b) \cup AwaitedBy(p)
            \cup AwaitedBy(q) \cup AwaitedBy(r) \cup AwaitedBy(v),
         Ahead(d, t, w, m, a, in, m2),
         Ahead(d, t, w, m, b, m2, m3),
         Ahead(d, t, w, m, p, m3, m4),
         Ahead(d, t, w, m, q, m4, m5),
         Ahead(d, t, w, m, r, m5, m6),
         Ahead(d, t, w, m, v, m6, out)
  PROVE  Arrives(d, t, w, Then(m, <<a, b, p, q, r, v>>))
<1>1. Runs(d, t, w, Then(m, <<a, b, p, q, r, v>>), X \ (AwaitedBy(a) \cup AwaitedBy(b) \cup AwaitedBy(p)
      \cup AwaitedBy(q) \cup AwaitedBy(r) \cup AwaitedBy(v)), in, in)
  BY ThenSix
<1>2. X \ (AwaitedBy(a) \cup AwaitedBy(b) \cup AwaitedBy(p)
      \cup AwaitedBy(q) \cup AwaitedBy(r) \cup AwaitedBy(v)) = {}
  OBVIOUS
<1> QED BY <1>1, <1>2, RunsArrives

(* Expressions.                                                            *)

LEMMA NextPushed ==
  ASSUME NEW m, NEW u, Working(m), IsFunctionCompiler(Inner(m))
  PROVE  /\ Last(Inner(Then(m, <<u>>)).todo) = u /\ Previous(Then(m, <<u>>)) = Previous(m)
         /\ Then(m, <<u>>).functions = m.functions
         /\ Len(Then(m, <<u>>).compilers) = Len(m.compilers)
         /\ SameButTodo(Inner(m), Inner(Then(m, <<u>>)))
<1> DEFINE fc == Inner(m)
           fc2 == [fc EXCEPT !.todo = fc.todo \o <<u>>]
           e == Then(m, <<u>>)
<1>1. IsSequence(fc.todo)
  BY DEF IsFunctionCompiler
<1>2. /\ fc.todo \o <<u>> = Append(fc.todo, u) /\ IsSequence(Append(fc.todo, u))
      /\ Last(Append(fc.todo, u)) = u
  BY <1>1, PushedTasks, SequenceAppend, AppendEnds
<1>3. fc2.todo = Append(fc.todo, u) /\ SameButTodo(fc, fc2)
  BY <1>2, TodoSet
<1>4. e = With(m, fc2)
  BY ReversedTasks DEF Then
<1>5. /\ Inner(e) = fc2 /\ e.previous = m.previous /\ e.source = m.source /\ Inward(m, e)
  BY <1>4, WithFacts
<1> HIDE DEF e, fc2
<1>6. Previous(e) = Previous(m)
  BY <1>5 DEF Previous, TokenAt
<1> QED BY <1>2, <1>3, <1>5, <1>6 DEF Inward, e

LEMMA PrefixArrives ==
  ASSUME NEW d, NEW t, NEW w, NEW m, NEW in \in Situations,
         Runs(d, t, w, m, {}, in, To(in, in.height + 1)), Quiet(d, t, w, m), JumpHere(t) = 0,
         Values(in, 0), Previous(m).type \in HasPrefix
  PROVE  Arrives(d, t, w, Prefix(m))
<1> DEFINE out == To(in, in.height + 1)
<1>1. /\ in.kind = "exact" /\ out \in Situations /\ Values(out, 1) /\ out.height = in.height + 1
      /\ out.depth = in.depth /\ in.height \in Nat /\ in.depth \in Nat
  <2>1. 0 + 1 = 1
    OBVIOUS
  <2> QED BY <2>1, ToMore
<1>2. Runs(d, t, w, m, {}, in, out)
  OBVIOUS
<1> HIDE DEF out
<1>3. /\ Ahead(d, t, w, m, Expression, in, out) /\ AwaitedBy(Expression) = {}
      /\ Ahead(d, t, w, m, Parsing(UNARY), in, out) /\ AwaitedBy(Parsing(UNARY)) = {}
  <2>1. ASSIGNMENT \in 1 .. 9 /\ UNARY \in 1 .. 9
    BY DEF ASSIGNMENT, UNARY
  <2> QED BY <2>1, AheadParsing DEF out, Expression
<1>4. CASE Previous(m).type = "LEFT_PAREN"
  <2>1. Ahead(d, t, w, m, Consuming("RIGHT_PAREN"), out, out)
    BY <1>1, AheadConsuming
  <2>2. Prefix(m) = Then(m, <<Expression, Consuming("RIGHT_PAREN")>>)
    BY <1>4 DEF Prefix
  <2> QED BY <1>2, <1>3, <2>1, <2>2, ThenTwoArrives
<1>5. CASE Previous(m).type \in {"MINUS", "BANG"}
  <2>1. PICK op : op \in {OP_NOT, OP_NEGATE} /\ Prefix(m) = Then(m, <<Parsing(UNARY), Emitting(<<op>>)>>)
    BY <1>5 DEF Prefix, Unary
  <2>2. /\ Growth(op, 0) = 0 /\ Taken(op) = 1 /\ op \in EmittedOps \ SetOps /\ op # OP_RETURN
        /\ out.height + Growth(op, 0) = out.height /\ out.height \in Nat /\ To(out, out.height) = out
    <3>1. out.kind = "exact" /\ out.height \in Nat
      BY <1>1 DEF Values
    <3>2. To(out, out.height) = out
      BY <1>1, <3>1, ToAgain
    <3>3. Growth(op, 0) = 0 /\ Taken(op) = 1 /\ op \in EmittedOps \ SetOps /\ op # OP_RETURN
      BY <2>1, OpFacts
    <3> QED BY <3>1, <3>2, <3>3
  <2>3. Becomes(out, out)
    BY DEF Becomes
  <2>4. Ahead(d, t, w, m, Emitting(<<op>>), out, out)
    BY <1>1, <1>2, <2>2, <2>3, AheadEmitting
  <2> QED BY <1>2, <1>3, <2>1, <2>4, ThenTwoArrives
<1>6. CASE Previous(m).type = "IDENTIFIER"
  <2> DEFINE u == Task("Variable", << >>)
  <2>1. Prefix(m) = Then(m, <<u>>)
    BY <1>6 DEF Prefix
  <2>2. u.do = "Variable" /\ u.do \notin Bottom /\ AwaitedBy(u) = {}
    BY DEF Task, Bottom, AwaitedBy
  <2>3. Grown(in, 1) = out
    BY <1>1, ToGrown DEF out
  <2> HIDE DEF u
  <2>4. Fits(u, in, out) /\ Finds(Inner(m), Window(d, t, w, m), u, in, out)
    BY <2>2, <2>3 DEF Fits, Finds
  <2>5. Working(m) /\ (~m.hadError => IsFunctionCompiler(Inner(m)))
    BY <1>2, RunsWorking
  <2>6. ~m.hadError => NextFinds(Then(m, <<u>>))
    BY <1>6, <2>2, <2>5, NextPushed DEF NextFinds
  <2> QED BY <1>1, <1>2, <2>1, <2>2, <2>4, <2>6, RunsImmediate
<1>7. CASE Previous(m).type \in {"STRING", "NUMBER"}
  <2>1. PICK v : v.type \in {"STRING", "NUMBER"} /\ Prefix(m) = EmitConstant(m, v)
    BY <1>7 DEF Prefix, StringConstant, NumberConstant
  <2>2. Runs(d, t, w, EmitConstant(m, v), {}, out, out)
    BY <1>1, <1>2, <2>1, RunsEmitConstant DEF out
  <2> QED BY <2>1, <2>2, RunsArrives
<1>8. CASE Previous(m).type \in {"FALSE", "NIL", "TRUE"}
  <2>1. PICK op : op \in LiteralOps /\ Prefix(m) = Emit(m, <<op>>)
    BY <1>8 DEF Prefix, Literal
  <2>2. Growth(op, 0) = 1 /\ Taken(op) = 0 /\ op \in EmittedOps \ SetOps /\ op # OP_RETURN
    BY <2>1, OpFacts
  <2>3. Grown(in, 1) = out
    BY <1>1, ToGrown DEF out
  <2>4. Runs(d, t, w, Emit(m, <<op>>), {}, out, out)
    BY <1>2, <2>2, <2>3, RunsOp
  <2> QED BY <2>1, <2>4, RunsArrives
<1> QED BY <1>4, <1>5, <1>6, <1>7, <1>8 DEF HasPrefix

LEMMA ParsePrecedenceArrives ==
  ASSUME NEW d, NEW t, NEW w, NEW in, NEW out, Turn(d, t, w, in, out), t.do = "ParsePrecedence"
  PROVE  Arrives(d, t, w, ParsePrecedence(d, t.args[1]))
<1> DEFINE p == t.args[1]
           a == Advance(d)
           e == [a EXCEPT !.canAssign = p <= ASSIGNMENT]
           m == Then(e, <<ParsingInfix(p)>>)
<1>1. /\ Runs(d, t, w, d, {}, in, out) /\ Quiet(d, t, w, d) /\ in \in Situations /\ out \in Situations
      /\ JumpHere(t) = 0
  BY TurnFacts DEF AwaitedBy, JumpHere
<1>2. p \in 1 .. 9 /\ Values(in, 0) /\ out = Grown(in, 1)
  BY DEF Turn, Fits
<1>3. out = To(in, in.height + 1) /\ Values(out, 1)
  <2>1. 0 + 1 = 1 /\ in.height \in Nat /\ in.kind = "exact"
    BY <1>1, <1>2, ToMore
  <2>2. Grown(in, 1) = To(in, in.height + 1)
    BY <1>1, <2>1, ToGrown
  <2> QED BY <1>1, <1>2, <2>1, <2>2, ToMore
<1>4. Runs(d, t, w, a, {}, in, out) /\ Quiet(d, t, w, a) /\ Inward(d, a)
  BY <1>1, RunsAdvance, RunsWorking
<1> HIDE DEF a
<1>5. Runs(d, t, w, e, {}, in, out) /\ Quiet(d, t, w, e) /\ e.previous = a.previous /\ e.source = a.source
  <2>1. IsCompiler(a)
    BY <1>4 DEF Inward, Working
  <2>2. Same(a, e) /\ e.previous = a.previous
    BY <2>1, AssignsSame
  <2>3. e.source = a.source
    BY <2>2 DEF Same
  <2> QED BY <1>4, <2>2, <2>3, RunsSame
<1> HIDE DEF e
<1>6. Ahead(d, t, w, e, ParsingInfix(p), out, out) /\ AwaitedBy(ParsingInfix(p)) = {}
  <2>1. ParsingInfix(p).do = "ParseInfix" /\ ParsingInfix(p).args[1] = p
    BY DEF ParsingInfix, Task
  <2>2. Fits(ParsingInfix(p), out, out) /\ out.depth <= out.depth
    BY <1>1, <1>2, <1>3, <2>1, SituationFacts DEF Fits
  <2> QED BY <1>1, <2>1, <2>2, AheadPlain DEF PlainTasks
<1>7. Runs(d, t, w, m, {} \ AwaitedBy(ParsingInfix(p)), in, out) /\ Quiet(d, t, w, m)
  BY <1>5, <1>6, ThenOne
<1>8. Runs(d, t, w, m, {}, in, To(in, in.height + 1)) /\ Quiet(d, t, w, m)
  BY <1>3, <1>6, <1>7
<1>9. Previous(m) = Previous(a)
  <2>1. Working(e)
    BY <1>5, RunsWorking
  <2>2. m.previous = e.previous /\ m.source = e.source
    BY <2>1, ThenInward DEF Inward
  <2> QED BY <1>5, <2>2 DEF Previous, TokenAt
<1>10. CASE Previous(a).type \notin HasPrefix
  <2>1. ParsePrecedence(d, p) = Error(a)
    BY <1>10 DEF ParsePrecedence, a
  <2> QED BY <1>4, <2>1, ErrorArrives, RunsWorking
<1>11. CASE Previous(a).type \in HasPrefix
  <2>1. ParsePrecedence(d, p) = Prefix(m)
    BY <1>11 DEF ParsePrecedence, a, e
  <2> HIDE DEF m
  <2>2. Arrives(d, t, w, Prefix(m))
    BY <1>1, <1>2, <1>8, <1>9, <1>11, PrefixArrives
  <2> QED BY <2>1, <2>2
<1> QED BY <1>10, <1>11

LEMMA PatchAwaited ==
  ASSUME NEW j
  PROVE  AwaitedBy(Patching(j)) = {j}
BY DEF Patching, Task, AwaitedBy

LEMMA PatchAhead ==
  ASSUME NEW d, NEW t, NEW w, NEW e, NEW mid \in Situations, NEW out, NEW j, mid.kind = "exact",
         Becomes(mid, out),
         ~e.hadError => JumpFrom(Inner(e), Window(d, t, w, e), j, mid.height, mid.live)
  PROVE  Ahead(d, t, w, e, Patching(j), mid, out)
<1> DEFINE u == Patching(j)
<1>1. u.do = "PatchJump" /\ u.args[1] = j
  BY DEF Patching, Task
<1> HIDE DEF u
<1>2. u.do \notin Bottom /\ u.do \notin Immediate /\ AwaitedBy(u) = {j} /\ Fits(u, mid, out)
  BY <1>1 DEF Bottom, Immediate, AwaitedBy, Fits
<1>3. ~e.hadError => Finds(Inner(e), Window(d, t, w, e), u, mid, out)
  BY <1>1 DEF Finds
<1>4. out.depth <= mid.depth
  BY SituationFacts DEF Becomes
<1> QED BY <1>2, <1>3, <1>4 DEF Ahead, Waiting, u

LEMMA AndArrives ==
  ASSUME NEW d, NEW t, NEW w, NEW m, NEW in \in Situations, Runs(d, t, w, m, {}, in, in),
         Quiet(d, t, w, m), JumpHere(t) = 0, Values(in, 1)
  PROVE  Arrives(d, t, w, And(m)) /\ Arrives(d, t, w, Or(m))
<1> DEFINE e == EmitJump(m, OP_JUMP_IF_FALSE)
           j == JumpOperand(e)
           mid == To(in, in.height - 1)
           u == Task("OrElse", <<j>>)
<1>1. /\ in.kind = "exact" /\ in.height \in Nat \ {0} /\ To(in, in.height) = in
      /\ mid \in Situations /\ mid.height = in.height - 1 /\ mid.depth = in.depth /\ Values(mid, 0)
      /\ mid.height + 1 = in.height /\ To(mid, mid.height + 1) = in
  <2>1. in.height >= 1
    BY SituationFacts DEF Values
  <2> QED BY <2>1, ToLess, ToAgain
<1>2. /\ Runs(d, t, w, e, {} \cup {j}, in, in)
      /\ ~e.hadError => JumpFrom(Inner(e), Window(d, t, w, e), j, in.height, in.live)
  <2>1. in.height = JumpHeight(w, t, in.height)
    BY DEF JumpHeight
  <2>2. /\ Runs(d, t, w, e, {} \cup {j}, To(in, in.height), in)
        /\ ~e.hadError => JumpFrom(Inner(e), Window(d, t, w, e), j, in.height, in.live)
    <3> DEFINE op == OP_JUMP_IF_FALSE
               h == in.height
    <3>1. e = EmitJump(m, op) /\ op \in {OP_JUMP, OP_JUMP_IF_FALSE} /\ j = JumpOperand(e)
          /\ h = JumpHeight(w, t, in.height) /\ h = in.height /\ h \in Nat \ {0}
      BY <1>1, <2>1
    <3> HIDE DEF e, op, h, j
    <3>2. /\ Runs(d, t, w, e, {} \cup {j}, To(in, h), in)
          /\ ~e.hadError => JumpFrom(Inner(e), Window(d, t, w, e), j, in.height, in.live)
      BY <1>1, <3>1, RunsJump, Zenon
    <3> QED BY <3>1, <3>2
  <2> QED BY <1>1, <2>2
<1>3. And(m) = Then(e, <<Emitting(<<OP_POP>>), Parsing(AND), Patching(j)>>)
  BY DEF And
<1>4. Or(m) = Then(e, <<u>>)
  BY DEF Or
<1> HIDE DEF e, j, mid
<1>5. Ahead(d, t, w, e, Emitting(<<OP_POP>>), in, mid)
  <2>1. Becomes(To(in, in.height - 1), mid)
    BY DEF Becomes, mid
  <2> QED BY <1>2, <2>1, AheadPopping
<1>6. Ahead(d, t, w, e, Parsing(AND), mid, in)
  <2>1. AND \in 1 .. 9
    BY DEF AND
  <2> QED BY <1>1, <2>1, AheadParsing
<1>7. Ahead(d, t, w, e, Patching(j), in, in) /\ AwaitedBy(Patching(j)) = {j}
  <2>1. Becomes(in, in)
    BY DEF Becomes
  <2>2. in.kind = "exact"
    BY <1>1
  <2>3. ~e.hadError => JumpFrom(Inner(e), Window(d, t, w, e), j, in.height, in.live)
    BY <1>2
  <2>4. Ahead(d, t, w, e, Patching(j), in, in)
    BY <2>1, <2>2, <2>3, PatchAhead
  <2>5. AwaitedBy(Patching(j)) = {j}
    BY PatchAwaited
  <2> QED BY <2>4, <2>5
<1>8. Ahead(d, t, w, e, u, in, in) /\ AwaitedBy(u) = {j}
  <2>1. u.do = "OrElse" /\ u.args[1] = j
    BY DEF Task
  <2> HIDE DEF u
  <2>2. u.do \notin Bottom /\ u.do \notin Immediate /\ AwaitedBy(u) = {j} /\ Fits(u, in, in)
    BY <2>1 DEF Bottom, Immediate, AwaitedBy, Fits
  <2>3. ~e.hadError => Finds(Inner(e), Window(d, t, w, e), u, in, in)
    BY <1>2, <2>1 DEF Finds
  <2> QED BY <2>2, <2>3, SituationFacts DEF Ahead, Waiting
<1>9. Arrives(d, t, w, And(m))
  BY <1>2, <1>3, <1>5, <1>6, <1>7, ThenThreeArrives
<1>10. Arrives(d, t, w, Or(m))
  BY <1>2, <1>4, <1>8, ThenOneArrives
<1> QED BY <1>9, <1>10

Emits(code) == [i \in DOMAIN code |-> Emitting(<<code[i]>>)]

LEMMA BinaryTasks ==
  ASSUME NEW p
  PROVE  /\ \A x : <<p>> \o Emits(<<x>>) = <<p, Emitting(<<x>>)>>
         /\ \A x, y : <<p>> \o Emits(<<x, y>>) = <<p, Emitting(<<x>>), Emitting(<<y>>)>>
<1>1. ASSUME NEW x
      PROVE  Emits(<<x>>) = <<Emitting(<<x>>)>>
  BY DEF Emits
<1>2. ASSUME NEW x, NEW y
      PROVE  Emits(<<x, y>>) = <<Emitting(<<x>>), Emitting(<<y>>)>>
  BY DEF Emits
<1>3. ASSUME NEW x
      PROVE  <<p>> \o <<x>> = <<p, x>>
  <2> DEFINE s == <<p>> \o <<x>>
             r == <<p, x>>
  <2>1. IsSequence(s) /\ Len(s) = 1 + 1 /\ s[1] = p /\ s[1 + 1] = x
    <3>1. IsSequence(<<p>>) /\ IsSequence(<<x>>) /\ Len(<<p>>) = 1 /\ Len(<<x>>) = 1
          /\ <<p>>[1] = p /\ <<x>>[1] = x
      BY ShortSequences
    <3>2. 1 \in 1 .. 1
      OBVIOUS
    <3> QED BY <3>1, <3>2, SequenceConcat
  <2>2. IsSequence(r) /\ Len(r) = 2 /\ r[1] = p /\ r[2] = x
    BY ShortSequences
  <2> HIDE DEF s, r
  <2>3. Len(s) = 2 /\ s[2] = x
    BY <2>1
  <2>4. \A i \in 1 .. Len(s) : s[i] = r[i]
    BY <2>1, <2>2, <2>3
  <2> QED BY <2>1, <2>2, <2>3, <2>4, SequencesEqual DEF s, r
<1>4. ASSUME NEW x, NEW y
      PROVE  <<p>> \o <<x, y>> = <<p, x, y>>
  <2> DEFINE s == <<p>> \o <<x, y>>
             r == <<p, x, y>>
  <2>1. IsSequence(s) /\ Len(s) = 1 + 2 /\ s[1] = p /\ s[1 + 1] = x /\ s[1 + 2] = y
    <3>1. IsSequence(<<p>>) /\ IsSequence(<<x, y>>) /\ Len(<<p>>) = 1 /\ Len(<<x, y>>) = 2
          /\ <<p>>[1] = p /\ <<x, y>>[1] = x /\ <<x, y>>[2] = y
      BY ShortSequences
    <3>2. 1 \in 1 .. 1 /\ 1 \in 1 .. 2 /\ 2 \in 1 .. 2
      OBVIOUS
    <3> QED BY <3>1, <3>2, SequenceConcat
  <2>2. IsSequence(r) /\ Len(r) = 3 /\ r[1] = p /\ r[2] = x /\ r[3] = y
    BY ShortSequences
  <2> HIDE DEF s, r
  <2>3. Len(s) = 3 /\ s[2] = x /\ s[3] = y
    BY <2>1
  <2>4. \A i \in 1 .. Len(s) : s[i] = r[i]
    BY <2>1, <2>2, <2>3
  <2> QED BY <2>1, <2>2, <2>3, <2>4, SequencesEqual DEF s, r
<1> QED BY <1>1, <1>2, <1>3, <1>4

InfixTypes == {"PLUS", "MINUS", "STAR", "SLASH", "BANG_EQUAL", "EQUAL_EQUAL", "GREATER",
               "GREATER_EQUAL", "LESS", "LESS_EQUAL", "AND", "OR", "LEFT_PAREN"}

LEMMA InfixTypeFacts ==
  ASSUME NEW type, Precedence(type) >= 1
  PROVE  type \in InfixTypes
BY DEF Precedence, InfixTypes, OR, AND

LEMMA BinaryCode ==
  ASSUME NEW m, Previous(m).type \in InfixTypes \ {"AND", "OR", "LEFT_PAREN"}
  PROVE  \E q \in 1 .. 9, op \in BinaryOps :
           \/ Binary(m) = Then(m, <<Parsing(q), Emitting(<<op>>)>>)
           \/ Binary(m) = Then(m, <<Parsing(q), Emitting(<<op>>), Emitting(<<OP_NOT>>)>>)
<1> DEFINE type == Previous(m).type
           q == Precedence(type) + 1
<1>1. q \in 1 .. 9
  BY DEF Precedence, InfixTypes
<1>2. PICK op \in BinaryOps : InfixCode(type) = <<op>> \/ InfixCode(type) = <<op, OP_NOT>>
  BY DEF InfixCode, InfixTypes
<1>3. Binary(m) = Then(m, <<Parsing(q)>> \o Emits(InfixCode(type)))
  BY DEF Binary, Emits
<1> HIDE DEF q, type
<1>4. CASE InfixCode(type) = <<op>>
  <2>1. Binary(m) = Then(m, <<Parsing(q), Emitting(<<op>>)>>)
    BY <1>3, <1>4, BinaryTasks
  <2> QED BY <1>1, <2>1
<1>5. CASE InfixCode(type) = <<op, OP_NOT>>
  <2>1. Binary(m) = Then(m, <<Parsing(q), Emitting(<<op>>), Emitting(<<OP_NOT>>)>>)
    BY <1>3, <1>5, BinaryTasks
  <2> QED BY <1>1, <2>1
<1> QED BY <1>2, <1>4, <1>5

LEMMA BinaryArrives ==
  ASSUME NEW d, NEW t, NEW w, NEW m, NEW in \in Situations, Runs(d, t, w, m, {}, in, in),
         Values(in, 1), Previous(m).type \in InfixTypes \ {"AND", "OR", "LEFT_PAREN"}
  PROVE  Arrives(d, t, w, Binary(m))
<1> DEFINE mid == To(in, in.height + 1)
<1>1. PICK q \in 1 .. 9, op \in BinaryOps :
           \/ Binary(m) = Then(m, <<Parsing(q), Emitting(<<op>>)>>)
           \/ Binary(m) = Then(m, <<Parsing(q), Emitting(<<op>>), Emitting(<<OP_NOT>>)>>)
  BY BinaryCode
<1>2. /\ mid \in Situations /\ Values(mid, 2) /\ mid.height = in.height + 1 /\ in.kind = "exact"
      /\ in.height \in Nat /\ mid.depth = in.depth
  <2>1. 1 + 1 = 2
    OBVIOUS
  <2> QED BY <2>1, ToMore
<1>3. Values(in, 0)
  BY SituationFacts DEF Values
<1>4. Ahead(d, t, w, m, Parsing(q), in, mid)
  BY <1>1, <1>3, AheadParsing
<1>5. To(mid, mid.height - 1) = in
  <2>1. mid.height - 1 = in.height
    BY <1>2
  <2> QED BY <1>2, <2>1, ToAgain
<1> HIDE DEF mid
<1>6. Ahead(d, t, w, m, Emitting(<<op>>), mid, in)
  <2>1. Growth(op, 0) = -1 /\ Taken(op) = 2 /\ op \in EmittedOps \ SetOps /\ op # OP_RETURN
    BY OpFacts
  <2>2. mid.height + Growth(op, 0) = mid.height - 1 /\ mid.height - 1 \in Nat
    BY <1>2, <2>1
  <2>3. Becomes(To(mid, mid.height + Growth(op, 0)), in)
    BY <1>5, <2>2 DEF Becomes
  <2> QED BY <1>2, <2>1, <2>2, <2>3, AheadEmitting
<1>7. Ahead(d, t, w, m, Emitting(<<OP_NOT>>), in, in)
  <2>1. Growth(OP_NOT, 0) = 0 /\ Taken(OP_NOT) = 1 /\ OP_NOT \in EmittedOps \ SetOps /\ OP_NOT # OP_RETURN
    BY OpFacts
  <2>2. in.height + Growth(OP_NOT, 0) = in.height
    BY <1>2, <2>1
  <2>3. Becomes(To(in, in.height), in)
    BY <1>2, ToAgain DEF Becomes
  <2> QED BY <1>2, <2>1, <2>2, <2>3, AheadEmitting
<1>8. CASE Binary(m) = Then(m, <<Parsing(q), Emitting(<<op>>)>>)
  BY <1>4, <1>6, <1>8, ThenTwoArrives
<1>9. CASE Binary(m) = Then(m, <<Parsing(q), Emitting(<<op>>), Emitting(<<OP_NOT>>)>>)
  BY <1>4, <1>6, <1>7, <1>9, ThenThreeArrives
<1> QED BY <1>1, <1>8, <1>9

LEMMA InfixArrives ==
  ASSUME NEW d, NEW t, NEW w, NEW m, NEW in \in Situations, Runs(d, t, w, m, {}, in, in),
         Quiet(d, t, w, m), JumpHere(t) = 0, Values(in, 1), Previous(m).type \in InfixTypes
  PROVE  Arrives(d, t, w, Infix(m))
<1>1. CASE Previous(m).type = "LEFT_PAREN"
  <2> DEFINE u == Task("Call", << >>)
  <2>1. Infix(m) = Then(m, <<u>>)
    BY <1>1 DEF Infix
  <2>2. u.do = "Call" /\ u.do \notin Bottom /\ AwaitedBy(u) = {}
    BY DEF Task, Bottom, AwaitedBy
  <2> HIDE DEF u
  <2>3. Fits(u, in, in) /\ Finds(Inner(m), Window(d, t, w, m), u, in, in) /\ in.depth <= in.depth
    BY <2>2, SituationFacts DEF Fits, Finds
  <2>4. Working(m) /\ (~m.hadError => IsFunctionCompiler(Inner(m)))
    BY RunsWorking
  <2>5. ~m.hadError => NextFinds(Then(m, <<u>>))
    BY <2>2, <2>4, NextPushed DEF NextFinds
  <2> QED BY <2>1, <2>2, <2>3, <2>5, RunsImmediate
<1>2. CASE Previous(m).type = "AND"
  BY <1>2, AndArrives DEF Infix
<1>3. CASE Previous(m).type = "OR"
  BY <1>3, AndArrives DEF Infix
<1>4. CASE Previous(m).type \notin {"LEFT_PAREN", "AND", "OR"}
  <2>1. Infix(m) = Binary(m)
    BY <1>4 DEF Infix
  <2> QED BY <1>4, <2>1, BinaryArrives
<1> QED BY <1>1, <1>2, <1>3, <1>4

LEMMA ParseInfixArrives ==
  ASSUME NEW d, NEW t, NEW w, NEW in, NEW out, Turn(d, t, w, in, out), t.do = "ParseInfix"
  PROVE  Arrives(d, t, w, ParseInfix(d, t.args[1]))
<1> DEFINE p == t.args[1]
           e == Then(d, <<ParsingInfix(p)>>)
           m == Advance(e)
<1>1. /\ Runs(d, t, w, d, {}, in, out) /\ Quiet(d, t, w, d) /\ in \in Situations /\ Working(d) /\ Inward(d, d)
      /\ JumpHere(t) = 0
  BY TurnFacts DEF AwaitedBy, JumpHere
<1>2. p \in 1 .. 9 /\ Values(in, 1) /\ out = in
  BY DEF Turn, Fits
<1>3. Ahead(d, t, w, d, ParsingInfix(p), in, in) /\ AwaitedBy(ParsingInfix(p)) = {}
  <2>1. ParsingInfix(p).do = "ParseInfix" /\ ParsingInfix(p).args[1] = p
    BY DEF ParsingInfix, Task
  <2>2. Fits(ParsingInfix(p), in, in) /\ in.depth <= in.depth
    BY <1>1, <1>2, <2>1, SituationFacts DEF Fits
  <2> QED BY <1>1, <2>1, <2>2, AheadPlain DEF PlainTasks
<1>4. Runs(d, t, w, e, {}, in, in) /\ Quiet(d, t, w, e)
  <2>1. Runs(d, t, w, e, {} \ AwaitedBy(ParsingInfix(p)), in, in) /\ Quiet(d, t, w, e)
    BY <1>1, <1>2, <1>3, ThenOne
  <2> QED BY <1>3, <2>1
<1>5. Current(e) = Current(d) /\ Working(e)
  BY <1>1, ThenInward DEF Current, TokenAt, Inward
<1> HIDE DEF e
<1>6. Runs(d, t, w, m, {}, in, in) /\ Quiet(d, t, w, m)
  BY <1>4, RunsAdvance
<1>7. Previous(m) = Current(e)
  BY <1>5, AdvanceInward DEF Previous, Current, TokenAt, Inward
<1> HIDE DEF m
<1>8. CASE p <= Precedence(Current(d).type)
  <2>1. ParseInfix(d, p) = Infix(m)
    BY <1>8 DEF ParseInfix, e, m
  <2>2. Precedence(Previous(m).type) >= 1
    <3>1. Precedence(Current(d).type) \in Nat
      BY DEF Precedence, OR, AND
    <3> QED BY <1>2, <1>5, <1>7, <1>8, <3>1
  <2>3. Previous(m).type \in InfixTypes
    BY <2>2, InfixTypeFacts
  <2> QED BY <1>1, <1>2, <1>6, <2>1, <2>3, InfixArrives
<1>9. CASE ~(p <= Precedence(Current(d).type)) /\ (d.canAssign /\ Check(d, "EQUAL"))
  <2>1. ParseInfix(d, p) = Error(Advance(d))
    BY <1>9 DEF ParseInfix
  <2>2. Inward(d, Advance(d))
    BY <1>1, AdvanceInward
  <2> QED BY <1>1, <2>1, <2>2, ErrorArrives
<1>10. CASE ~(p <= Precedence(Current(d).type)) /\ ~(d.canAssign /\ Check(d, "EQUAL"))
  <2>1. ParseInfix(d, p) = d
    BY <1>10 DEF ParseInfix
  <2> QED BY <1>1, <1>2, <2>1, RunsArrives
<1> QED BY <1>8, <1>9, <1>10

(* Variables.                                                              *)
Accessible(fc, in, get, set, arg) ==
  \/ get = OP_GET_GLOBAL /\ set = OP_SET_GLOBAL /\ IsString(fc, arg)
  \/ get = OP_GET_LOCAL /\ set = OP_SET_LOCAL /\ arg \in 0 .. in.live - 1
  \/ get = OP_GET_UPVALUE /\ set = OP_SET_UPVALUE /\ arg \in 0 .. Len(fc.upvalues) - 1

LEMMA AccessArrives ==
  ASSUME NEW d, NEW t, NEW w, NEW m, NEW in \in Situations, NEW get, NEW set, NEW arg,
         Runs(d, t, w, m, {}, in, To(in, in.height + 1)), Quiet(d, t, w, m), JumpHere(t) = 0,
         Values(in, 0), get \in {OP_GET_GLOBAL, OP_GET_LOCAL, OP_GET_UPVALUE},
         ~m.hadError => Accessible(Inner(m), in, get, set, arg)
  PROVE  Arrives(d, t, w, Access(m, get, set, arg))
<1> DEFINE out == To(in, in.height + 1)
           e == Advance(m)
           u == Emitting(<<set, arg>>)
<1>1. /\ in.kind = "exact" /\ out \in Situations /\ Values(out, 1) /\ out.height = in.height + 1
      /\ out.depth = in.depth /\ in.height \in Nat /\ in.live \in Nat /\ in.height >= in.live
      /\ out.live = in.live /\ out.kind = "exact"
  <2>1. 0 + 1 = 1
    OBVIOUS
  <2>2. in.kind = "exact" /\ in.height \in Nat /\ in.live \in Nat /\ in.height >= in.live
    BY SituationFacts DEF Values
  <2>3. out.live = in.live /\ out.kind = "exact"
    <3>1. in.height + 1 \in Nat
      BY <2>2
    <3> QED BY <2>2, <3>1, ToFacts
  <2> QED BY <2>1, <2>2, <2>3, ToMore
<1>2. Runs(d, t, w, m, {}, in, out)
  OBVIOUS
<1> HIDE DEF out
<1>3. CASE m.canAssign /\ Check(m, "EQUAL")
  <2>1. Runs(d, t, w, e, {}, in, out) /\ (~e.hadError => ~m.hadError /\ Inner(e) = Inner(m))
    BY <1>2, RunsAdvance
  <2>2. Access(m, get, set, arg) = Then(e, <<Expression, u>>)
    BY <1>3 DEF Access
  <2> HIDE DEF e
  <2>3. CASE e.hadError
    <3>1. Inward(d, e) /\ Working(e) /\ Inward(e, Then(e, <<Expression, u>>))
      BY <2>1, RunsWorking, ThenInward
    <3> QED BY <2>2, <2>3, <3>1, FailedArrives
  <2>4. CASE ~e.hadError
    <3>1. Accessible(Inner(e), in, get, set, arg)
      BY <2>1, <2>4
    <3>2. Ahead(d, t, w, e, Expression, in, out)
      <4>1. ASSIGNMENT \in 1 .. 9
        BY DEF ASSIGNMENT
      <4> QED BY <4>1, AheadParsing DEF out, Expression
    <3>3. u.do = "Emit" /\ u.args = <<set, arg>> /\ u.args[1] = set /\ u.args[2] = arg
      BY DEF Emitting, Task
    <3> HIDE DEF u
    <3>4. set \in SetOps /\ Taken(set) = 1 /\ Growth(set, 0) = 0 /\ set \in EmittedOps
      <4>1. set \in SetOps
        BY <3>1 DEF Accessible, SetOps
      <4> QED BY <4>1, OpFacts DEF EmittedOps, TakingOps
    <3>5. Fits(u, out, out)
      <4>1. Grown(out, 0) = out
        <5>1. out.height \in Nat /\ out.height + 0 = out.height
          BY <1>1
        <5>2. To(out, out.height) = out
          BY <1>1, ToAgain
        <5> QED BY <1>1, <5>1, <5>2, ToGrown
      <4> QED BY <1>1, <3>3, <3>4, <4>1 DEF Fits, Becomes
    <3>6. Finds(Inner(e), Window(d, t, w, e), u, out, out)
      BY <1>1, <3>1, <3>3, <3>4 DEF Finds, Accessible
    <3>7. Ahead(d, t, w, e, u, out, out)
      BY <1>1, <3>3, <3>5, <3>6, SituationFacts DEF Ahead, Waiting, Bottom, Immediate
    <3> QED BY <2>1, <2>2, <3>2, <3>7, ThenTwoArrives
  <2> QED BY <2>3, <2>4
<1>4. CASE ~(m.canAssign /\ Check(m, "EQUAL"))
  <2>1. Access(m, get, set, arg) = Emit(m, <<get, arg>>)
    BY <1>4 DEF Access
  <2>2. Growth(get, arg) = 1 /\ get \in ByteOps
    BY OpFacts
  <2>3. in.height + Growth(get, arg) \in Nat \ {0}
    BY <1>1, <2>2
  <2>4. ASSUME ~m.hadError
        PROVE  Applies(Finished(Inner(m)), get, arg, in.height, Lesser(in.live, in.height))
    <3> DEFINE F == Finished(Inner(m))
    <3>1. F.constants = Inner(m).constants /\ F.upvalueCount = Len(Inner(m).upvalues)
      BY FinishedFields
    <3>2. Len(Inner(m).upvalues) \in Nat
      BY <1>2, <2>4, RunsWorking DEF Standing
    <3>3. Accessible(Inner(m), in, get, set, arg)
      BY <2>4
    <3> HIDE DEF F
    <3>4. CASE get = OP_GET_GLOBAL /\ IsString(Inner(m), arg)
      BY <3>1, <3>4 DEF Applies, IsString, EmittedOps, TakingOps, SetOps, F
    <3>5. CASE get = OP_GET_LOCAL /\ arg \in 0 .. in.live - 1
      BY <1>1, <3>5 DEF Applies, EmittedOps, TakingOps, SetOps
    <3>6. CASE get = OP_GET_UPVALUE /\ arg \in 0 .. Len(Inner(m).upvalues) - 1
      BY <3>1, <3>2, <3>6 DEF Applies, EmittedOps, TakingOps, SetOps, F
    <3> QED BY <3>3, <3>4, <3>5, <3>6 DEF Accessible, F
  <2>5. Runs(d, t, w, Emit(m, <<get, arg>>), {}, To(in, in.height + Growth(get, arg)), out)
    BY <1>1, <1>2, <2>2, <2>3, <2>4, RunsByte
  <2>6. Runs(d, t, w, Emit(m, <<get, arg>>), {}, out, out)
    BY <2>2, <2>5 DEF out
  <2> QED BY <2>1, <2>6, RunsArrives
<1> QED BY <1>3, <1>4

LEMMA GlobalArrives ==
  ASSUME NEW d, NEW t, NEW w, NEW m, NEW in \in Situations,
         Runs(d, t, w, m, {}, in, To(in, in.height + 1)), Quiet(d, t, w, m), JumpHere(t) = 0,
         Values(in, 0)
  PROVE  Arrives(d, t, w, Global(m))
<1> DEFINE v == StringConstant(Previous(m).lexeme)
           e == MakeConstant(m, v)
           k == ConstantIndex(e)
           out == To(in, in.height + 1)
<1>1. v.type = "STRING"
  BY DEF StringConstant
<1>2. Global(m) = Access(e, OP_GET_GLOBAL, OP_SET_GLOBAL, k)
  BY DEF Global
<1>3. Runs(d, t, w, m, {}, in, out)
  OBVIOUS
<1> HIDE DEF v, out
<1>4. /\ Runs(d, t, w, e, {}, in, out) /\ Quiet(d, t, w, e)
      /\ ~e.hadError => Has(e, k, v)
  BY <1>1, <1>3, RunsConstant
<1> HIDE DEF e, k
<1>5. ~e.hadError => Accessible(Inner(e), in, OP_GET_GLOBAL, OP_SET_GLOBAL, k)
  BY <1>1, <1>4 DEF Has, Accessible, IsString
<1> QED BY <1>2, <1>4, <1>5, AccessArrives DEF out

(* Calls.                                                                  *)
LEMMA CallEmits ==
  ASSUME NEW d, NEW t, NEW w, NEW m, NEW in \in Situations, NEW n \in Nat, NEW out,
         Runs(d, t, w, m, {}, in, out), Quiet(d, t, w, m), JumpHere(t) = 0,
         Values(in, n + 1), out = To(in, in.height - n)
  PROVE  Arrives(d, t, w, Emit(m, <<OP_CALL, n>>))
<1>1. /\ in.kind = "exact" /\ in.height \in Nat /\ in.live \in Nat /\ in.height >= in.live + n + 1
  BY SituationFacts DEF Values
<1>2. Growth(OP_CALL, n) = -n /\ OP_CALL \in ByteOps
  BY OpFacts
<1>3. in.height + Growth(OP_CALL, n) = in.height - n /\ in.height - n \in Nat \ {0}
  BY <1>1, <1>2
<1>4. ASSUME ~m.hadError
      PROVE  Applies(Finished(Inner(m)), OP_CALL, n, in.height, Lesser(in.live, in.height))
  <2>1. in.live >= 1
    BY <1>1, <1>4, RunsWorking DEF Standing
  <2>2. Lesser(in.live, in.height) <= in.live /\ Lesser(in.live, in.height) \in Nat
    BY <1>1, LesserFacts
  <2>3. in.height >= n + 2 /\ Lesser(in.live, in.height) < in.height - n
    BY <1>1, <2>1, <2>2
  <2> QED BY <2>3 DEF Applies, EmittedOps, TakingOps, SetOps
<1>5. Runs(d, t, w, Emit(m, <<OP_CALL, n>>), {}, out, out)
  <2>1. in.height + Growth(OP_CALL, n) \in Nat \ {0}
    BY <1>3
  <2>2. Runs(d, t, w, Emit(m, <<OP_CALL, n>>), {}, To(in, in.height + Growth(OP_CALL, n)), out)
    BY <1>1, <1>2, <1>4, <2>1, RunsByte
  <2> QED BY <1>3, <2>2
<1> QED BY <1>5, RunsArrives

LEMMA CountingAhead ==
  ASSUME NEW d, NEW t, NEW w, NEW m, NEW in \in Situations, NEW n \in 0 .. UINT8_MAX, NEW out,
         Values(in, n + 1), out = To(in, in.height - n)
  PROVE  /\ Ahead(d, t, w, m, Expression, in, To(in, in.height + 1))
         /\ Ahead(d, t, w, m, Counting(n), To(in, in.height + 1), out)
<1> DEFINE mid == To(in, in.height + 1)
<1>0. n \in Nat /\ n + 1 \in Nat
  BY UInt8Assumption
<1>1. /\ in.kind = "exact" /\ in.height \in Nat /\ in.live \in Nat /\ in.height >= in.live + n + 1
      /\ in.depth \in Nat
  BY <1>0, SituationFacts DEF Values
<1>2. mid \in Situations /\ Values(mid, n + 2) /\ mid.height = in.height + 1 /\ mid.depth = in.depth
      /\ mid.kind = "exact"
  <2>1. n + 1 + 1 = n + 2
    BY <1>0
  <2>2. mid \in Situations /\ Values(mid, n + 1 + 1) /\ mid.height = in.height + 1 /\ mid.depth = in.depth
    BY <1>0, ToMore
  <2> QED BY <2>1, <2>2 DEF Values
<1>3. Ahead(d, t, w, m, Expression, in, mid)
  <2>1. ASSIGNMENT \in 1 .. 9 /\ Values(in, 0)
    BY <1>0, <1>1 DEF ASSIGNMENT, Values
  <2> QED BY <2>1, AheadParsing DEF Expression
<1>4. Grown(mid, -(n + 1)) = out /\ out.depth = in.depth
  <2>1. mid.height + (-(n + 1)) = in.height - n /\ in.height - n \in Nat /\ -(n + 1) \in Int
    BY <1>0, <1>1, <1>2
  <2>2. Grown(mid, -(n + 1)) = To(mid, in.height - n)
    BY <1>2, <2>1, ToGrown
  <2>3. To(mid, in.height - n) = To(in, in.height - n)
    BY <1>1, ToAgain
  <2>4. To(in, in.height - n).depth = in.depth
    BY <1>1, <2>1, ToFacts
  <2> QED BY <2>2, <2>3, <2>4
<1> HIDE DEF mid
<1>5. Ahead(d, t, w, m, Counting(n), mid, out)
  <2>1. /\ Counting(n).do = "CountArgument" /\ Counting(n).args[1] = n
        /\ Counting(n).do \in PlainTasks
    BY DEF Counting, Task, PlainTasks
  <2>2. Fits(Counting(n), mid, out)
    BY <1>2, <1>4, <2>1 DEF Fits
  <2>3. out.depth <= mid.depth
    BY <1>1, <1>2, <1>4
  <2> QED BY <1>2, <2>1, <2>2, <2>3, AheadPlain
<1> QED BY <1>3, <1>5 DEF mid

LEMMA CallArrives ==
  ASSUME NEW d, NEW t, NEW w, NEW in, NEW out, Turn(d, t, w, in, out), t.do = "Call"
  PROVE  Arrives(d, t, w, Call(d))
<1>1. /\ Runs(d, t, w, d, {}, in, out) /\ Quiet(d, t, w, d) /\ in \in Situations /\ JumpHere(t) = 0
  BY TurnFacts DEF AwaitedBy, JumpHere
<1>2. Values(in, 1) /\ out = in
  BY DEF Turn, Fits
<1>3. out = To(in, in.height - 0) /\ Values(in, 0 + 1) /\ 0 \in 0 .. UINT8_MAX /\ 0 \in Nat
  <2>1. in.height - 0 = in.height /\ in.kind = "exact"
    BY <1>1, <1>2, SituationFacts DEF Values
  <2>2. To(in, in.height) = in
    BY <1>1, <2>1, ToAgain
  <2> QED BY <1>2, <2>1, <2>2, UInt8Assumption
<1>4. CASE Check(d, "RIGHT_PAREN")
  <2>1. Runs(d, t, w, Advance(d), {}, in, out) /\ Quiet(d, t, w, Advance(d))
    BY <1>1, RunsAdvance
  <2>2. Arrives(d, t, w, Emit(Advance(d), <<OP_CALL, 0>>))
    BY <1>1, <1>3, <2>1, CallEmits
  <2> QED BY <1>4, <2>2 DEF Call
<1>5. CASE ~Check(d, "RIGHT_PAREN")
  <2>1. /\ Ahead(d, t, w, d, Expression, in, To(in, in.height + 1))
        /\ Ahead(d, t, w, d, Counting(0), To(in, in.height + 1), out)
    BY <1>1, <1>3, CountingAhead
  <2>2. Arrives(d, t, w, Then(d, <<Expression, Counting(0)>>))
    BY <1>1, <2>1, ThenTwoArrives
  <2> QED BY <1>5, <2>2 DEF Call
<1> QED BY <1>4, <1>5

LEMMA CountArgumentArrives ==
  ASSUME NEW d, NEW t, NEW w, NEW in, NEW out, Turn(d, t, w, in, out), t.do = "CountArgument"
  PROVE  Arrives(d, t, w, CountArgument(d, t.args[1]))
<1> DEFINE n == t.args[1]
           k == Byte8(n + 1)
           a == CountArgument(d, n)
<1>1. /\ Runs(d, t, w, d, {}, in, out) /\ Quiet(d, t, w, d) /\ in \in Situations /\ JumpHere(t) = 0
      /\ Working(d) /\ Inward(d, d)
  BY TurnFacts DEF AwaitedBy, JumpHere
<1>2. n \in 0 .. UINT8_MAX /\ Values(in, n + 2) /\ out = Grown(in, -(n + 1))
  BY DEF Turn, Fits
<1>3. CASE n = UINT8_MAX
  <2>1. a = IF Check(Error(d), "COMMA") THEN Then(Advance(Error(d)), <<Expression, Counting(k)>>)
            ELSE Emit(Consume(Error(d), "RIGHT_PAREN"), <<OP_CALL, k>>)
    BY <1>3 DEF CountArgument
  <2>2. Inward(d, Error(d)) /\ Error(d).hadError /\ Working(Error(d))
    BY <1>1, ErrorInward
  <2> DEFINE x == Error(d)
  <2> HIDE DEF k, a
  <2>3. Inward(x, a)
    <3>1. Inward(x, Advance(x)) /\ Working(Advance(x)) /\ Inward(x, Consume(x, "RIGHT_PAREN"))
          /\ Working(Consume(x, "RIGHT_PAREN"))
      BY <2>2, AdvanceInward, ConsumeInward
    <3>2. Inward(x, Then(Advance(x), <<Expression, Counting(k)>>))
          /\ Inward(x, Emit(Consume(x, "RIGHT_PAREN"), <<OP_CALL, k>>))
      BY <3>1, ThenInward, EmitInward, InwardChain
    <3> QED BY <2>1, <3>2
  <2> QED BY <2>2, <2>3, FailedArrives DEF a
<1>4. CASE n # UINT8_MAX
  <2>1. k = n + 1 /\ k \in 0 .. UINT8_MAX /\ k \in Nat
    BY <1>2, <1>4, Byte8OfByte, UInt8Assumption
  <2>2. a = IF Check(d, "COMMA") THEN Then(Advance(d), <<Expression, Counting(k)>>)
            ELSE Emit(Consume(d, "RIGHT_PAREN"), <<OP_CALL, k>>)
    BY <1>4 DEF CountArgument
  <2> HIDE DEF k, a
  <2>3. Values(in, k + 1) /\ out = To(in, in.height - k)
    <3>1. in.kind = "exact" /\ in.height \in Nat /\ in.live \in Nat /\ in.height >= in.live + (n + 2) /\ n \in Nat
      BY <1>1, <1>2, SituationFacts, UInt8Assumption DEF Values
    <3>2. in.height >= in.live + (k + 1) /\ in.height + (-(n + 1)) = in.height - k
          /\ in.height - k \in Nat /\ -(n + 1) \in Int
      BY <2>1, <3>1
    <3>3. Grown(in, -(n + 1)) = To(in, in.height - k)
      BY <1>1, <3>1, <3>2, ToGrown
    <3> QED BY <1>2, <3>1, <3>2, <3>3 DEF Values
  <2>4. CASE Check(d, "COMMA")
    <3>1. Runs(d, t, w, Advance(d), {}, in, out)
      BY <1>1, RunsAdvance
    <3>2. /\ Ahead(d, t, w, Advance(d), Expression, in, To(in, in.height + 1))
          /\ Ahead(d, t, w, Advance(d), Counting(k), To(in, in.height + 1), out)
      BY <1>1, <2>1, <2>3, CountingAhead
    <3>3. Arrives(d, t, w, Then(Advance(d), <<Expression, Counting(k)>>))
      BY <3>1, <3>2, ThenTwoArrives
    <3> QED BY <2>2, <2>4, <3>3 DEF a
  <2>5. CASE ~Check(d, "COMMA")
    <3>1. Runs(d, t, w, Consume(d, "RIGHT_PAREN"), {}, in, out) /\ Quiet(d, t, w, Consume(d, "RIGHT_PAREN"))
      BY <1>1, RunsConsume
    <3>2. Arrives(d, t, w, Emit(Consume(d, "RIGHT_PAREN"), <<OP_CALL, k>>))
      BY <1>1, <2>1, <2>3, <3>1, CallEmits
    <3> QED BY <2>2, <2>5, <3>2 DEF a
  <2> QED BY <2>4, <2>5
<1> QED BY <1>3, <1>4

(* Tokens and single instructions.                                         *)
LEMMA AdvanceArrives ==
  ASSUME NEW d, NEW t, NEW w, NEW in, NEW out, Turn(d, t, w, in, out), t.do \in {"Advance", "Consume"}
  PROVE  Arrives(d, t, w, Advance(d)) /\ Arrives(d, t, w, Consume(d, t.args[1]))
<1>1. Runs(d, t, w, d, {}, in, out)
  BY TurnFacts DEF AwaitedBy
<1>2. out = in
  BY DEF Turn, Fits
<1>3. Runs(d, t, w, Advance(d), {}, in, in) /\ Runs(d, t, w, Consume(d, t.args[1]), {}, in, in)
  BY <1>1, <1>2, RunsAdvance, RunsConsume
<1> QED BY <1>3, RunsArrives

LEMMA EmitArrives ==
  ASSUME NEW d, NEW t, NEW w, NEW in, NEW out, Turn(d, t, w, in, out), t.do = "Emit"
  PROVE  Arrives(d, t, w, Emit(d, t.args))
<1> DEFINE op == t.args[1]
           a == t.args[2]
<1>1. /\ Runs(d, t, w, d, {}, in, out) /\ Quiet(d, t, w, d) /\ in \in Situations /\ JumpHere(t) = 0
      /\ ~d.hadError /\ Standing(Inner(d), w, in)
  BY TurnFacts DEF AwaitedBy, JumpHere
<1>2. op \in EmittedOps /\ Values(in, Taken(op)) /\ Becomes(Grown(in, Growth(op, 0)), out)
  BY DEF Turn, Fits
<1>3. CASE op \in SetOps
  <2>1. /\ t.args = <<op, a>>
        /\ op = OP_SET_GLOBAL => IsString(Inner(d), a)
        /\ op = OP_SET_LOCAL => a \in 0 .. in.live - 1
        /\ op = OP_SET_UPVALUE => a \in 0 .. Len(Inner(d).upvalues) - 1
    BY <1>3 DEF Turn, Finds
  <2>2. Taken(op) = 1 /\ Growth(op, 0) = 0 /\ Growth(op, a) = 0 /\ op \in ByteOps
    BY <1>3, OpFacts DEF SetOps
  <2>3. in.kind = "exact" /\ in.height \in Nat /\ in.live \in Nat /\ in.height >= in.live + 1 /\ in.live >= 1
    BY <1>1, <1>2, <2>2, SituationFacts DEF Values, Standing
  <2>4. Grown(in, 0) = in /\ To(in, in.height) = in
    <3>1. in.height + 0 = in.height
      BY <2>3
    <3>2. To(in, in.height) = in
      BY <1>1, <2>3, ToAgain
    <3> QED BY <1>1, <2>3, <3>1, <3>2, ToGrown
  <2>5. Applies(Finished(Inner(d)), op, a, in.height, Lesser(in.live, in.height))
    <3> DEFINE F == Finished(Inner(d))
    <3>1. F.constants = Inner(d).constants /\ F.upvalueCount = Len(Inner(d).upvalues)
      BY FinishedFields
    <3>2. Len(Inner(d).upvalues) \in Nat /\ in.height >= 2
      BY <1>1, <2>3 DEF Standing
    <3> HIDE DEF F
    <3>3. CASE op = OP_SET_GLOBAL
      BY <2>1, <3>1, <3>2, <3>3 DEF Applies, IsString, EmittedOps, TakingOps, SetOps, F
    <3>4. CASE op = OP_SET_LOCAL
      BY <2>1, <2>3, <3>2, <3>4 DEF Applies, EmittedOps, TakingOps, SetOps
    <3>5. CASE op = OP_SET_UPVALUE
      BY <2>1, <3>1, <3>2, <3>5 DEF Applies, EmittedOps, TakingOps, SetOps, F
    <3> QED BY <1>3, <3>3, <3>4, <3>5 DEF SetOps
  <2>6. Runs(d, t, w, Emit(d, <<op, a>>), {}, in, out)
    <3>1. in.height + Growth(op, a) = in.height /\ in.height + Growth(op, a) \in Nat \ {0}
      BY <2>2, <2>3
    <3>2. Runs(d, t, w, Emit(d, <<op, a>>), {}, To(in, in.height + Growth(op, a)), out)
      BY <1>1, <2>2, <2>3, <2>5, <3>1, RunsByte
    <3> QED BY <2>4, <3>1, <3>2
  <2>7. Runs(d, t, w, Emit(d, <<op, a>>), {}, out, out)
    BY <1>2, <2>2, <2>4, <2>6, RunsSettles
  <2>8. t.args = <<op, a>>
    BY <2>1
  <2> HIDE DEF op, a
  <2> QED BY <2>7, <2>8, RunsArrives
<1>4. CASE op \notin SetOps
  <2>1. t.args = <<op>> /\ (op = OP_RETURN => Inner(d).type # "SCRIPT")
    BY <1>4 DEF Turn, Finds
  <2> HIDE DEF op
  <2>2. Runs(d, t, w, Emit(d, <<op>>), {}, Grown(in, Growth(op, 0)), out)
    BY <1>1, <1>2, <1>4, <2>1, RunsOp
  <2>3. Runs(d, t, w, Emit(d, <<op>>), {}, out, out)
    BY <1>2, <2>2, RunsSettles
  <2> QED BY <2>1, <2>3, RunsArrives
<1> QED BY <1>3, <1>4

(* Jumps.                                                                  *)
LEMMA PatchJumpArrives ==
  ASSUME NEW d, NEW t, NEW w, NEW in, NEW out, Turn(d, t, w, in, out), t.do = "PatchJump"
  PROVE  Arrives(d, t, w, PatchJump(d, t.args[1]))
<1> DEFINE j == t.args[1]
           e == PatchJump(d, j)
<1>1. /\ Runs(d, t, w, d, {j}, in, out) /\ Quiet(d, t, w, d) /\ Window(d, t, w, d) = w
  <2>1. AwaitedBy(t) = {j}
    BY DEF AwaitedBy
  <2> HIDE DEF j
  <2> QED BY <2>1, TurnFacts
<1>2. in.kind = "exact" /\ Becomes(in, out) /\ JumpFrom(Inner(d), w, j, in.height, in.live)
  BY DEF Turn, Fits, Finds
<1>3. Runs(d, t, w, e, {j} \ {j}, in, out)
  BY <1>1, <1>2, RunsPatch
<1> HIDE DEF e, j
<1>4. Runs(d, t, w, e, {j} \ {j}, out, out)
  BY <1>2, <1>3, RunsSettles
<1>5. {j} \ {j} = {}
  OBVIOUS
<1> QED BY <1>4, <1>5, RunsArrives DEF e, j

(* RunsPatch, of the jumps that are not patched.                           *)
LEMMA PatchKeeps ==
  ASSUME NEW d, NEW t, NEW w, NEW m, NEW X, NEW in, NEW out, NEW offset, NEW e,
         Runs(d, t, w, m, X, in, out), Quiet(d, t, w, m) \/ JumpHere(t) # 0,
         e = PatchJump(m, offset), in.kind = "exact",
         ~m.hadError => JumpFrom(Inner(m), Window(d, t, w, m), offset, in.height, in.live)
  PROVE  ~e.hadError =>
              /\ ~m.hadError
              /\ \A o, h, l : JumpFrom(Inner(m), Window(d, t, w, m), o, h, l)
                                => JumpFrom(Inner(e), Window(d, t, w, e), o, h, l)
BY RunsPatch

(* What a jump to the code here says of the window.                        *)
LEMMA HereFacts ==
  ASSUME NEW fc, NEW w, NEW t, NEW j, NEW h, NEW l, NEW x, JumpFrom(fc, w, j, h, l), JumpHere(t) = j,
         Windowed(fc, w)
  PROVE  JumpHere(t) # 0 /\ JumpHeight(w, t, x) = h
<1>1. j \in Nat /\ j - 1 \in Nat /\ w.heights[j - 1] = h
  BY DEF JumpFrom, Windowed
<1> QED BY <1>1 DEF JumpHeight

LEMMA OrElseArrives ==
  ASSUME NEW d, NEW t, NEW w, NEW in, NEW out, Turn(d, t, w, in, out), t.do = "OrElse"
  PROVE  Arrives(d, t, w, OrElse(d, t.args[1]))
<1> DEFINE k == t.args[1]
           e == EmitJump(d, OP_JUMP)
           j == JumpOperand(e)
           m == PatchJump(e, k)
           mid == To(in, in.height - 1)
<1>1. /\ Runs(d, t, w, d, {k}, in, out) /\ Quiet(d, t, w, d) /\ Windowed(Inner(d), w)
      /\ in \in Situations /\ JumpHere(t) = k
  <2>1. AwaitedBy(t) = {k} /\ JumpHere(t) = k
    BY DEF AwaitedBy, JumpHere
  <2> HIDE DEF k
  <2> QED BY <2>1, TurnFacts
<1>2. Values(in, 1) /\ out = in /\ JumpFrom(Inner(d), w, k, in.height, in.live)
  BY DEF Turn, Fits, Finds
<1>3. /\ in.kind = "exact" /\ in.height \in Nat \ {0} /\ To(in, in.height) = in
      /\ mid \in Situations /\ Values(mid, 0) /\ mid.height + 1 = in.height /\ To(mid, mid.height + 1) = in
  <2>1. in.height >= 1
    BY <1>1, <1>2, SituationFacts DEF Values
  <2> QED BY <1>1, <1>2, <2>1, ToLess, ToAgain
<1>4. JumpHere(t) # 0 /\ JumpHeight(w, t, in.height) = in.height
  BY <1>1, <1>2, HereFacts
<1>5. OrElse(d, k) = Then(m, <<Emitting(<<OP_POP>>), Parsing(OR), Patching(j)>>)
  BY DEF OrElse
<1>6. /\ Runs(d, t, w, e, {k} \cup {j}, in, in)
      /\ ~e.hadError =>
           /\ JumpFrom(Inner(e), Window(d, t, w, e), j, in.height, in.live) /\ ~d.hadError
           /\ Keeps(Inner(d), w, Inner(e), Window(d, t, w, e))
  <2>1. /\ Runs(d, t, w, e, {k} \cup {j}, To(in, in.height), out) /\ ~d.hadError
        /\ ~e.hadError =>
             /\ JumpFrom(Inner(e), Window(d, t, w, e), j, in.height, in.live)
             /\ Keeps(Inner(d), w, Inner(e), Window(d, t, w, e))
    <3> DEFINE op == OP_JUMP
               h == in.height
    <3>1. e = EmitJump(d, op) /\ op \in {OP_JUMP, OP_JUMP_IF_FALSE} /\ j = JumpOperand(e)
          /\ h = JumpHeight(w, t, in.height) /\ h = in.height /\ h \in Nat \ {0}
          /\ Values(in, 1) /\ in.kind = "exact"
      BY <1>2, <1>3, <1>4
    <3> HIDE DEF e, op, h, j, k
    <3>2. Runs(d, t, w, e, {k} \cup {JumpOperand(e)}, To(in, h), out)
      BY <1>1, <3>1, RunsJump, Zenon
    <3>4. ~d.hadError
      BY TurnFacts, Zenon
    <3>3. ~e.hadError => /\ JumpFrom(Inner(e), Window(d, t, w, e), JumpOperand(e), in.height, in.live)
                         /\ Keeps(Inner(d), w, Inner(e), Window(d, t, w, e))
      BY <1>1, <3>1, RunsJump, Zenon
    <3> QED BY <3>1, <3>2, <3>3, <3>4
  <2> HIDE DEF k, e, j
  <2> QED BY <1>2, <1>3, <2>1
<1>7. ~e.hadError => JumpFrom(Inner(e), Window(d, t, w, e), k, in.height, in.live)
  BY <1>2, <1>6 DEF Keeps
<1> HIDE DEF e, j, mid, k
<1>8. /\ Runs(d, t, w, m, ({k} \cup {j}) \ {k}, in, in)
      /\ ~m.hadError => JumpFrom(Inner(m), Window(d, t, w, m), j, in.height, in.live)
  <2>1. m = PatchJump(e, k) /\ in.kind = "exact"
    BY <1>3 DEF m
  <2>2. Runs(d, t, w, m, ({k} \cup {j}) \ {k}, in, in)
    BY <1>4, <1>6, <1>7, <2>1, RunsPatch
  <2>3. /\ ~m.hadError => ~e.hadError
        /\ ~m.hadError => \A o, h, l : JumpFrom(Inner(e), Window(d, t, w, e), o, h, l)
                                         => JumpFrom(Inner(m), Window(d, t, w, m), o, h, l)
    BY <1>4, <1>6, <1>7, <2>1, PatchKeeps
  <2> QED BY <1>6, <2>2, <2>3
<1> HIDE DEF m
<1>9. Ahead(d, t, w, m, Emitting(<<OP_POP>>), in, mid)
  <2>1. Becomes(To(in, in.height - 1), mid)
    BY DEF Becomes, mid
  <2> QED BY <1>1, <1>2, <1>8, <2>1, AheadPopping
<1>10. Ahead(d, t, w, m, Parsing(OR), mid, in)
  <2>1. OR \in 1 .. 9
    BY DEF OR
  <2> QED BY <1>3, <2>1, AheadParsing
<1>11. Ahead(d, t, w, m, Patching(j), in, in)
  <2>1. Becomes(in, in)
    BY DEF Becomes
  <2> QED BY <1>1, <1>3, <1>8, <2>1, PatchAhead
<1>12. ({k} \cup {j}) \ {k} \subseteq AwaitedBy(Emitting(<<OP_POP>>)) \cup AwaitedBy(Parsing(OR))
                                       \cup AwaitedBy(Patching(j))
  BY PatchAwaited
<1> QED BY <1>5, <1>8, <1>9, <1>10, <1>11, <1>12, ThenThreeArrives DEF k

(* Statements with jumps.                                                  *)
LEMMA StatementAhead ==
  ASSUME NEW d, NEW t, NEW w, NEW m, NEW mid \in Situations, Rest(mid)
  PROVE  Ahead(d, t, w, m, Substatement, mid, mid) /\ AwaitedBy(Substatement) = {}
<1>1. Substatement.do = "Statement"
  BY DEF Substatement, Task
<1>2. Fits(Substatement, mid, mid) /\ mid.depth <= mid.depth
  BY <1>1, SituationFacts DEF Fits, Becomes
<1>3. Substatement.do \in PlainTasks
  BY <1>1 DEF PlainTasks
<1> QED BY <1>2, <1>3, AheadPlain

LEMMA BecomesFacts ==
  ASSUME NEW s \in Situations, NEW out \in Situations, Becomes(s, out)
  PROVE  /\ out.depth <= s.depth /\ out.depth = s.depth /\ (Rest(s) => Rest(out))
         /\ out.kind = "exact" => out = s
BY SituationFacts DEF Becomes, Rest

LEMMA JumpRuns ==
  ASSUME NEW d, NEW t, NEW w, NEW m, NEW X, NEW in, NEW out, NEW op, NEW h, NEW e,
         Runs(d, t, w, m, X, in, out), Quiet(d, t, w, m), e = EmitJump(m, op),
         op \in {OP_JUMP, OP_JUMP_IF_FALSE}, in.kind = "exact", h \in Nat \ {0},
         ~m.hadError => h = JumpHeight(w, t, in.height),
         op = OP_JUMP_IF_FALSE => Values(in, 1) /\ h = in.height
  PROVE  Runs(d, t, w, e, X \cup {JumpOperand(e)}, To(in, h), out)
BY RunsJump

Jumped(d, t, w, m, e, in, h) ==
  ~e.hadError =>
    /\ ~m.hadError
    /\ JumpFrom(Inner(e), Window(d, t, w, e), JumpOperand(e), in.height, in.live)
    /\ Keeps(Inner(m), w, Inner(e), Window(d, t, w, e))
    /\ JumpOperand(e) \in Nat \ {0} /\ Count(e) = Count(m) + 3 /\ Count(m) \in Nat
    /\ LoopTo(Inner(e), Window(d, t, w, e), Count(e), h) <=> h <= in.live

LEMMA JumpNotes ==
  ASSUME NEW d, NEW t, NEW w, NEW m, NEW X, NEW in, NEW out, NEW op, NEW h, NEW e,
         Runs(d, t, w, m, X, in, out), Quiet(d, t, w, m), e = EmitJump(m, op),
         op \in {OP_JUMP, OP_JUMP_IF_FALSE}, in.kind = "exact", h \in Nat \ {0},
         ~m.hadError => h = JumpHeight(w, t, in.height),
         op = OP_JUMP_IF_FALSE => Values(in, 1) /\ h = in.height
  PROVE  Jumped(d, t, w, m, e, in, h)
<1> SUFFICES ASSUME ~e.hadError
             PROVE  Jumped(d, t, w, m, e, in, h)
  BY DEF Jumped
<1>1. Runs(d, t, w, e, X \cup {JumpOperand(e)}, To(in, h), out)
  BY JumpRuns
<1>2. ~m.hadError
  BY <1>1, RunsJump
<1>3. JumpFrom(Inner(e), Window(d, t, w, e), JumpOperand(e), in.height, in.live)
  BY <1>1, RunsJump
<1>4. Keeps(Inner(m), w, Inner(e), Window(d, t, w, e))
  BY <1>1, RunsJump
<1>5. JumpOperand(e) \in Nat \ {0} /\ Count(e) = Count(m) + 3 /\ Count(m) \in Nat
  BY <1>1, RunsJump
<1>6. LoopTo(Inner(e), Window(d, t, w, e), Count(e), h) <=> h <= in.live
  BY <1>1, RunsJump
<1> QED BY <1>2, <1>3, <1>4, <1>5, <1>6 DEF Jumped

(* A jump where the value on the stack, which is then popped, is false.    *)
Branch(d, t, w, e, j, in, out, s) ==
  /\ s \in Situations /\ Settled(s) /\ in.height = s.height + 1 /\ in.live = s.live /\ in.depth = s.depth
  /\ Grown(in, -1) = s /\ in.kind = "exact" /\ s.height \in Nat
  /\ Runs(d, t, w, e, {} \cup {j}, in, out) /\ Ahead(d, t, w, e, Emitting(<<OP_POP>>), in, s)
  /\ ~e.hadError => /\ JumpFrom(Inner(e), Window(d, t, w, e), j, s.height + 1, s.live)
                    /\ Keeps(Inner(d), w, Inner(e), Window(d, t, w, e)) /\ j # 0

LEMMA BranchRuns ==
  ASSUME NEW d, NEW t, NEW w, NEW in \in Situations, NEW out, NEW e, NEW j, NEW s,
         Runs(d, t, w, d, {}, in, out), Quiet(d, t, w, d), JumpHere(t) = 0,
         Values(in, 1), Settled(Grown(in, -1)),
         e = EmitJump(d, OP_JUMP_IF_FALSE), j = JumpOperand(e), s = To(in, in.height - 1)
  PROVE  Branch(d, t, w, e, j, in, out, s)
<1>1. /\ s \in Situations /\ Grown(in, -1) = s /\ in.kind = "exact" /\ s.height = in.height - 1
      /\ in.height \in Nat /\ in.live = s.live /\ in.depth = s.depth /\ in.height - 1 \in Nat
  BY ToLess
<1>2. Settled(s) /\ in.height = s.height + 1 /\ in.height \in Nat \ {0} /\ s.height \in Nat
      /\ To(in, in.height) = in /\ in.height = JumpHeight(w, t, in.height)
  BY <1>1, ToAgain DEF JumpHeight
<1>3. Runs(d, t, w, e, {} \cup {j}, To(in, in.height), out)
  BY <1>1, <1>2, JumpRuns
<1>6. Jumped(d, t, w, d, e, in, in.height)
  BY <1>1, <1>2, JumpNotes
<1>4. Ahead(d, t, w, e, Emitting(<<OP_POP>>), in, s)
  <2>1. Becomes(To(in, in.height - 1), s) /\ Runs(d, t, w, e, {} \cup {j}, in, out)
    BY <1>2, <1>3 DEF Becomes
  <2> QED BY <2>1, AheadPopping
<1>5. Runs(d, t, w, e, {} \cup {j}, in, out)
  BY <1>2, <1>3
<1> QED BY <1>1, <1>2, <1>4, <1>5, <1>6 DEF Branch, Jumped

LEMMA IfThenArrives ==
  ASSUME NEW d, NEW t, NEW w, NEW in, NEW out, Turn(d, t, w, in, out), t.do = "IfThen"
  PROVE  Arrives(d, t, w, IfThen(d))
<1> DEFINE e == EmitJump(d, OP_JUMP_IF_FALSE)
           j == JumpOperand(e)
           s == To(in, in.height - 1)
           u == Task("IfElse", <<j>>)
<1>1. /\ Runs(d, t, w, d, {}, in, out) /\ Quiet(d, t, w, d) /\ in \in Situations /\ JumpHere(t) = 0
      /\ out \in Situations
  BY TurnFacts DEF AwaitedBy, JumpHere
<1>2. Values(in, 1) /\ Settled(Grown(in, -1)) /\ Becomes(Grown(in, -1), out)
  BY DEF Turn, Fits
<1>3. IfThen(d) = Then(e, <<Emitting(<<OP_POP>>), Substatement, u>>)
  BY DEF IfThen
<1>4. u.do = "IfElse" /\ u.args[1] = j
  BY DEF Task
<1>5. Branch(d, t, w, e, j, in, out, s)
  BY <1>1, <1>2, BranchRuns
<1> HIDE DEF e, j, s, u
<1>6. /\ s \in Situations /\ Settled(s) /\ Grown(in, -1) = s /\ Runs(d, t, w, e, {} \cup {j}, in, out)
      /\ Ahead(d, t, w, e, Emitting(<<OP_POP>>), in, s)
      /\ ~e.hadError => JumpFrom(Inner(e), Window(d, t, w, e), j, s.height + 1, s.live)
  BY <1>5 DEF Branch
<1>7. Ahead(d, t, w, e, Substatement, s, s)
  BY <1>6, StatementAhead, SettledFacts
<1>8. u.do \notin Bottom /\ u.do \notin Immediate /\ AwaitedBy(u) = {j}
  BY <1>4 DEF Bottom, Immediate, AwaitedBy
<1>9. Ahead(d, t, w, e, u, s, out)
  <2>1. Fits(u, s, out) /\ out.depth <= s.depth
    BY <1>1, <1>2, <1>4, <1>6, BecomesFacts DEF Fits
  <2>2. ~e.hadError => Finds(Inner(e), Window(d, t, w, e), u, s, out)
    BY <1>4, <1>6 DEF Finds
  <2> QED BY <1>6, <1>8, <2>1, <2>2 DEF Ahead, Waiting
<1> QED BY <1>3, <1>6, <1>7, <1>8, <1>9, ThenThreeArrives

LEMMA LoopingFacts ==
  ASSUME NEW start, NEW j
  PROVE  /\ Looping(start, j).do = "EndLoop" /\ AwaitedBy(Looping(start, j)) = {j}
         /\ Looping(start, j).args[1] = start /\ Looping(start, j).args[2] = j
         /\ ForBodyAfter(start, j).do = "ForBody" /\ AwaitedBy(ForBodyAfter(start, j)) = {j}
         /\ ForBodyAfter(start, j).args[1] = start /\ ForBodyAfter(start, j).args[2] = j
BY DEF Looping, ForBodyAfter, Task, AwaitedBy

(* The end of a loop, and what is before it.                               *)
LEMMA LoopingAhead ==
  ASSUME NEW d, NEW t, NEW w, NEW m, NEW s \in Situations, NEW out \in Situations, NEW start, NEW j,
         Settled(s), Becomes(s, out),
         ~m.hadError => /\ LoopTo(Inner(m), Window(d, t, w, m), start, s.height)
                        /\ j # 0 => JumpFrom(Inner(m), Window(d, t, w, m), j, s.height + 1, s.live)
  PROVE  /\ Ahead(d, t, w, m, Looping(start, j), s, out)
         /\ Ahead(d, t, w, m, ForBodyAfter(start, j), s, out)
<1>1. ASSUME NEW u, u.do \in {"EndLoop", "ForBody"}, u.args[1] = start, u.args[2] = j
      PROVE  Ahead(d, t, w, m, u, s, out)
  <2>1. u.do \notin Bottom /\ u.do \notin Immediate
    BY <1>1 DEF Bottom, Immediate
  <2>2. Fits(u, s, out) /\ out.depth <= s.depth
    BY <1>1, BecomesFacts DEF Fits
  <2>3. ~m.hadError => Finds(Inner(m), Window(d, t, w, m), u, s, out)
    BY <1>1 DEF Finds
  <2> QED BY <2>1, <2>2, <2>3 DEF Ahead, Waiting
<1> QED BY <1>1, LoopingFacts

LEMMA WhileBodyArrives ==
  ASSUME NEW d, NEW t, NEW w, NEW in, NEW out, Turn(d, t, w, in, out), t.do \in {"WhileBody", "ForExit"}
  PROVE  Arrives(d, t, w, WhileBody(d, t.args[1])) /\ Arrives(d, t, w, ForExit(d, t.args[1]))
<1> DEFINE start == t.args[1]
           e == EmitJump(d, OP_JUMP_IF_FALSE)
           j == JumpOperand(e)
           s == To(in, in.height - 1)
<1>1. /\ Runs(d, t, w, d, {}, in, out) /\ Quiet(d, t, w, d) /\ in \in Situations /\ JumpHere(t) = 0
      /\ out \in Situations
  BY TurnFacts DEF AwaitedBy, JumpHere
<1>2. /\ Values(in, 1) /\ Settled(Grown(in, -1)) /\ Becomes(Grown(in, -1), out)
      /\ LoopTo(Inner(d), w, start, in.height - 1)
  BY DEF Turn, Fits, Finds
<1>3. /\ WhileBody(d, start) = Then(e, <<Emitting(<<OP_POP>>), Substatement, Looping(start, j)>>)
      /\ ForExit(d, start) = Then(e, <<Emitting(<<OP_POP>>), ForBodyAfter(start, j)>>)
  BY DEF WhileBody, ForExit
<1>5. Branch(d, t, w, e, j, in, out, s)
  BY <1>1, <1>2, BranchRuns
<1> HIDE DEF e, j, s, start
<1>6. /\ s \in Situations /\ Settled(s) /\ Grown(in, -1) = s /\ Runs(d, t, w, e, {} \cup {j}, in, out)
      /\ Ahead(d, t, w, e, Emitting(<<OP_POP>>), in, s) /\ s.height \in Nat /\ in.height = s.height + 1
      /\ ~e.hadError => /\ JumpFrom(Inner(e), Window(d, t, w, e), j, s.height + 1, s.live)
                        /\ Keeps(Inner(d), w, Inner(e), Window(d, t, w, e))
  BY <1>5 DEF Branch
<1>7. Ahead(d, t, w, e, Substatement, s, s)
  BY <1>6, StatementAhead, SettledFacts
<1>8. ~e.hadError => LoopTo(Inner(e), Window(d, t, w, e), start, s.height)
  <2>1. in.height - 1 = s.height
    BY <1>6
  <2> QED BY <1>2, <1>6, <2>1 DEF Keeps
<1>9. Ahead(d, t, w, e, Looping(start, j), s, out) /\ Ahead(d, t, w, e, ForBodyAfter(start, j), s, out)
  BY <1>1, <1>2, <1>6, <1>8, LoopingAhead
<1>10. AwaitedBy(Looping(start, j)) = {j} /\ AwaitedBy(ForBodyAfter(start, j)) = {j}
  BY LoopingFacts
<1>11. Arrives(d, t, w, WhileBody(d, start))
  BY <1>3, <1>6, <1>7, <1>9, <1>10, ThenThreeArrives
<1>12. Arrives(d, t, w, ForExit(d, start))
  BY <1>3, <1>6, <1>9, <1>10, ThenTwoArrives
<1> QED BY <1>11, <1>12 DEF start
LEMMA IfElseArrives ==
  ASSUME NEW d, NEW t, NEW w, NEW in, NEW out, Turn(d, t, w, in, out), t.do = "IfElse"
  PROVE  Arrives(d, t, w, IfElse(d, t.args[1]))
<1> DEFINE k == t.args[1]
           e == EmitJump(d, OP_JUMP)
           j == JumpOperand(e)
           m == PatchJump(e, k)
           h == in.height + 1
           s == To(in, h)
           u == Task("Else", <<j>>)
<1>1. /\ Runs(d, t, w, d, {k}, in, out) /\ Quiet(d, t, w, d) /\ Windowed(Inner(d), w)
      /\ in \in Situations /\ out \in Situations /\ JumpHere(t) = k
  <2>1. AwaitedBy(t) = {k} /\ JumpHere(t) = k
    BY DEF AwaitedBy, JumpHere
  <2> HIDE DEF k
  <2> QED BY <2>1, TurnFacts
<1>2. Settled(in) /\ Becomes(in, out) /\ JumpFrom(Inner(d), w, k, h, in.live)
  BY DEF Turn, Fits, Finds
<1>3. /\ in.kind = "exact" /\ in.height \in Nat /\ Values(in, 0) /\ h \in Nat /\ h - 1 = in.height
      /\ h \in Nat \ {0}
  BY <1>1, <1>2, SettledFacts
<1>4. /\ s \in Situations /\ s.kind = "exact" /\ s.height = h /\ s.live = in.live /\ Values(s, 1)
      /\ To(s, s.height - 1) = in
  <2>1. s \in Situations /\ s.kind = "exact" /\ s.height = h /\ s.live = in.live
    BY <1>1, <1>3, ToFacts
  <2>2. Values(s, 1)
    <3>1. in.live \in Nat /\ in.height >= in.live
      BY <1>1, <1>3, SituationFacts DEF Values
    <3> QED BY <1>3, <2>1, <3>1 DEF Values
  <2>3. To(s, s.height - 1) = in
    BY <1>1, <1>3, <2>1, ToAgain
  <2> QED BY <2>1, <2>2, <2>3
<1>5. JumpHere(t) # 0 /\ h = JumpHeight(w, t, in.height)
  BY <1>1, <1>2, HereFacts
<1>6. IfElse(d, k) = Then(m, <<Emitting(<<OP_POP>>), u>>)
  BY DEF IfElse
<1>7. u.do = "Else" /\ u.args[1] = j
  BY DEF Task
<1>8. Runs(d, t, w, e, {k} \cup {j}, s, out)
  BY <1>1, <1>3, <1>5, JumpRuns
<1>9. Jumped(d, t, w, d, e, in, h)
  BY <1>1, <1>3, <1>5, JumpNotes
<1>10. ~e.hadError => /\ JumpFrom(Inner(e), Window(d, t, w, e), j, in.height, in.live)
                      /\ JumpFrom(Inner(e), Window(d, t, w, e), k, s.height, s.live)
  BY <1>2, <1>4, <1>9 DEF Jumped, Keeps
<1> HIDE DEF e, j, k, h, s, u
<1>11. m = PatchJump(e, k)
  OBVIOUS
<1> HIDE DEF m
<1>12. Runs(d, t, w, m, ({k} \cup {j}) \ {k}, s, out)
  BY <1>4, <1>5, <1>8, <1>10, <1>11, RunsPatch
<1>13. /\ ~m.hadError => ~e.hadError
       /\ ~m.hadError => \A o, g, l : JumpFrom(Inner(e), Window(d, t, w, e), o, g, l)
                                        => JumpFrom(Inner(m), Window(d, t, w, m), o, g, l)
  BY <1>4, <1>5, <1>8, <1>10, <1>11, PatchKeeps
<1>14. Ahead(d, t, w, m, Emitting(<<OP_POP>>), s, in)
  <2>1. Becomes(To(s, s.height - 1), in)
    BY <1>4 DEF Becomes
  <2> QED BY <1>4, <1>12, <2>1, AheadPopping
<1>15. u.do \notin Bottom /\ u.do \notin Immediate /\ AwaitedBy(u) = {j}
  BY <1>7 DEF Bottom, Immediate, AwaitedBy
<1>16. Ahead(d, t, w, m, u, in, out)
  <2>1. Fits(u, in, out) /\ out.depth <= in.depth
    BY <1>1, <1>2, <1>7, BecomesFacts DEF Fits
  <2>2. ~m.hadError => Finds(Inner(m), Window(d, t, w, m), u, in, out)
    BY <1>7, <1>10, <1>13 DEF Finds
  <2> QED BY <1>1, <1>15, <2>1, <2>2 DEF Ahead, Waiting
<1>17. Arrives(d, t, w, Then(m, <<Emitting(<<OP_POP>>), u>>))
  BY <1>12, <1>14, <1>15, <1>16, ThenTwoArrives
<1> QED BY <1>6, <1>17 DEF k

LEMMA ElseArrives ==
  ASSUME NEW d, NEW t, NEW w, NEW in, NEW out, Turn(d, t, w, in, out), t.do = "Else"
  PROVE  Arrives(d, t, w, Else(d, t.args[1]))
<1> DEFINE k == t.args[1]
           m == Then(d, <<Patching(k)>>)
           e == Advance(m)
<1>1. /\ Runs(d, t, w, d, {k}, in, out) /\ ~d.hadError /\ Window(d, t, w, d) = w
      /\ in \in Situations /\ out \in Situations
  <2>1. AwaitedBy(t) = {k}
    BY DEF AwaitedBy
  <2> HIDE DEF k
  <2> QED BY <2>1, TurnFacts
<1>2. Settled(in) /\ Becomes(in, out) /\ JumpFrom(Inner(d), w, k, in.height, in.live)
  BY DEF Turn, Fits, Finds
<1>3. in.kind = "exact" /\ Rest(in)
  BY <1>1, <1>2, SettledFacts
<1>4. Ahead(d, t, w, d, Patching(k), in, out) /\ AwaitedBy(Patching(k)) = {k}
  BY <1>1, <1>2, <1>3, PatchAhead, PatchAwaited
<1>5. Else(d, k) = IF Check(d, "ELSE") THEN Then(e, <<Substatement>>) ELSE m
  BY DEF Else
<1> HIDE DEF k
<1>6. Arrives(d, t, w, m)
  BY <1>1, <1>4, ThenOneArrives
<1>7. Runs(d, t, w, m, {k} \ {k}, in, in)
  BY <1>1, <1>4, ThenOne
<1> HIDE DEF m
<1>8. Runs(d, t, w, e, {k} \ {k}, in, in)
  BY <1>7, RunsAdvance
<1> HIDE DEF e
<1>9. Ahead(d, t, w, e, Substatement, in, in)
  BY <1>1, <1>3, StatementAhead
<1>10. Arrives(d, t, w, Then(e, <<Substatement>>))
  BY <1>8, <1>9, ThenOneArrives
<1> QED BY <1>5, <1>6, <1>10 DEF k

(* No task patches an operand at 0.                                        *)
LEMMA RunsDropsZero ==
  ASSUME NEW d, NEW t, NEW w, NEW m, NEW X, NEW in, NEW out, Runs(d, t, w, m, X, in, out)
  PROVE  Runs(d, t, w, m, X \ {0}, in, out)
<1> SUFFICES ASSUME ~m.hadError
             PROVE  Runs(d, t, w, m, X \ {0}, in, out)
  BY DEF Runs
<1> DEFINE fc == Inner(m)
           v == Window(d, t, w, m)
           H == Heights(fc, v)
           L == Covered(fc, v)
           E == Awaited(fc.todo) \cup X
           E2 == Awaited(fc.todo) \cup (X \ {0})
           F == Finished(fc)
<1>1. Running(d.functions, fc, v, X, in, out)
  BY DEF Runs
<1> HIDE DEF fc, v
<1>2. ChunkSound(d.functions, F, H, L, E)
  BY <1>1 DEF Running, Ready
<1>3. Len(F.code) \in Nat
  BY <1>1, RunningStands DEF Standing, Finished
<1> HIDE DEF F, H, L
<1>4. ASSUME NEW o \in Starts(F, H)
      PROVE  Finishes(d.functions, F, H, L, o) \/ (o + 1 \in E2 /\ Waits(F, H, L, o))
  <2>1. o \in Nat
    BY <1>2, <1>3, LengthOfStart
  <2>2. o + 1 # 0
    BY <2>1
  <2>3. Finishes(d.functions, F, H, L, o) \/ (o + 1 \in E /\ Waits(F, H, L, o))
    BY <1>2 DEF ChunkSound
  <2> QED BY <2>2, <2>3
<1>5. ChunkSound(d.functions, F, H, L, E2)
  BY <1>2, <1>4 DEF ChunkSound
<1>6. Running(d.functions, fc, v, X \ {0}, in, out)
  BY <1>1, <1>5 DEF Running, Ready, F, H, L
<1> QED BY <1>6 DEF Runs, fc, v

LEMMA LoopRuns ==
  ASSUME NEW d, NEW t, NEW w, NEW m, NEW X, NEW in, NEW out, NEW start, NEW h, NEW e,
         Runs(d, t, w, m, X, in, out), Quiet(d, t, w, m), e = EmitLoop(m, start),
         in.kind = "exact", h \in Nat \ {0},
         ~m.hadError => h = JumpHeight(w, t, in.height),
         ~m.hadError => LoopTo(Inner(m), w, start, in.height)
  PROVE  Runs(d, t, w, e, X, To(in, h), out)
BY RunsLoop

Looped(d, t, w, m, e) ==
  ~e.hadError => ~m.hadError /\ Keeps(Inner(m), w, Inner(e), Window(d, t, w, e))

LEMMA LoopNotes ==
  ASSUME NEW d, NEW t, NEW w, NEW m, NEW X, NEW in, NEW out, NEW start, NEW h, NEW e,
         Runs(d, t, w, m, X, in, out), Quiet(d, t, w, m), e = EmitLoop(m, start),
         in.kind = "exact", h \in Nat \ {0},
         ~m.hadError => h = JumpHeight(w, t, in.height),
         ~m.hadError => LoopTo(Inner(m), w, start, in.height)
  PROVE  Looped(d, t, w, m, e)
<1>1. Runs(d, t, w, e, X, To(in, h), out)
  BY LoopRuns
<1> QED BY <1>1, RunsLoop DEF Looped

LEMMA ForIncrementArrives ==
  ASSUME NEW d, NEW t, NEW w, NEW in, NEW out, Turn(d, t, w, in, out), t.do = "ForIncrement"
  PROVE  Arrives(d, t, w, ForIncrement(d, t.args[1], t.args[2]))
<1> DEFINE start == t.args[1]
           k == t.args[2]
           e == EmitLoop(d, start)
           m == PatchJump(e, k)
<1>1. /\ Runs(d, t, w, d, {k}, in, out) /\ Quiet(d, t, w, d) /\ Windowed(Inner(d), w)
      /\ in \in Situations /\ out \in Situations /\ JumpHere(t) = k
  <2>1. AwaitedBy(t) = {k} /\ JumpHere(t) = k
    BY DEF AwaitedBy, JumpHere
  <2> HIDE DEF k
  <2> QED BY <2>1, TurnFacts
<1>2. /\ Settled(in) /\ Becomes(in, out) /\ JumpFrom(Inner(d), w, k, in.height, in.live)
      /\ LoopTo(Inner(d), w, start, in.height)
  BY DEF Turn, Fits, Finds
<1>3. in.kind = "exact" /\ in.height \in Nat \ {0} /\ To(in, in.height) = in
  <2>1. in.height \in Nat /\ in.kind = "exact"
    BY <1>1, <1>2, SettledFacts
  <2>2. in.height # 0
    <3>1. Standing(Inner(d), w, in)
      BY TurnFacts
    <3> QED BY <2>1, <3>1 DEF Standing
  <2> QED BY <1>1, <2>1, <2>2, ToAgain
<1>4. JumpHere(t) # 0 /\ in.height = JumpHeight(w, t, in.height)
  BY <1>1, <1>2, HereFacts
<1>5. Runs(d, t, w, e, {k}, To(in, in.height), out)
  BY <1>1, <1>2, <1>3, <1>4, LoopRuns
<1>6. Looped(d, t, w, d, e)
  BY <1>1, <1>2, <1>3, <1>4, LoopNotes
<1>7. ~e.hadError => JumpFrom(Inner(e), Window(d, t, w, e), k, in.height, in.live)
  BY <1>2, <1>6 DEF Looped, Keeps
<1>8. ForIncrement(d, start, k) = m
  BY DEF ForIncrement
<1> HIDE DEF e, start, k
<1>9. m = PatchJump(e, k) /\ Runs(d, t, w, e, {k}, in, out)
  BY <1>3, <1>5
<1> HIDE DEF m
<1>10. Runs(d, t, w, m, {k} \ {k}, in, out)
  BY <1>3, <1>4, <1>7, <1>9, RunsPatch
<1>11. Runs(d, t, w, m, {k} \ {k}, out, out)
  BY <1>2, <1>10, RunsSettles
<1>12. {k} \ {k} = {}
  OBVIOUS
<1> QED BY <1>8, <1>11, <1>12, RunsArrives DEF start, k

LEMMA EndLoopArrives ==
  ASSUME NEW d, NEW t, NEW w, NEW in, NEW out, Turn(d, t, w, in, out), t.do = "EndLoop"
  PROVE  Arrives(d, t, w, EndLoop(d, t.args[1], t.args[2]))
<1> DEFINE start == t.args[1]
           k == t.args[2]
           e == EmitLoop(d, start)
           m == PatchJump(e, k)
           h == in.height + 1
           s == To(in, h)
<1>1. /\ Runs(d, t, w, d, {k}, in, out) /\ Quiet(d, t, w, d) /\ Windowed(Inner(d), w)
      /\ in \in Situations /\ out \in Situations /\ JumpHere(t) = k
  <2>1. AwaitedBy(t) = {k} /\ JumpHere(t) = k
    BY DEF AwaitedBy, JumpHere
  <2> HIDE DEF k
  <2> QED BY <2>1, TurnFacts
<1>2. /\ Settled(in) /\ Becomes(in, out) /\ LoopTo(Inner(d), w, start, in.height)
      /\ k # 0 => JumpFrom(Inner(d), w, k, h, in.live)
  BY DEF Turn, Fits, Finds
<1>3. /\ in.kind = "exact" /\ in.height \in Nat \ {0} /\ To(in, in.height) = in
      /\ h \in Nat \ {0} /\ h - 1 = in.height /\ Values(in, 0)
  <2>1. in.height \in Nat /\ in.kind = "exact" /\ Values(in, 0)
    BY <1>1, <1>2, SettledFacts
  <2>2. in.height # 0
    <3>1. Standing(Inner(d), w, in)
      BY TurnFacts
    <3> QED BY <2>1, <3>1 DEF Standing
  <2> QED BY <1>1, <2>1, <2>2, ToAgain
<1>4. EndLoop(d, start, k) = IF k = 0 THEN e ELSE Then(m, <<Emitting(<<OP_POP>>)>>)
  BY DEF EndLoop
<1>5. CASE k = 0
  <2>1. in.height = JumpHeight(w, t, in.height)
    BY <1>1, <1>5 DEF JumpHeight
  <2>2. Runs(d, t, w, e, {k}, To(in, in.height), out)
    BY <1>1, <1>2, <1>3, <2>1, LoopRuns
  <2> HIDE DEF e
  <2>3. Runs(d, t, w, e, {k} \ {0}, in, out)
    BY <1>3, <2>2, RunsDropsZero
  <2>4. Runs(d, t, w, e, {k} \ {0}, out, out)
    BY <1>2, <2>3, RunsSettles
  <2>5. Arrives(d, t, w, e)
    BY <1>5, <2>4, RunsArrives
  <2> QED BY <1>4, <1>5, <2>5 DEF start, k, e
<1>6. CASE k # 0
  <2>1. JumpHere(t) # 0 /\ h = JumpHeight(w, t, in.height)
    BY <1>1, <1>2, <1>6, HereFacts
  <2>2. Runs(d, t, w, e, {k}, s, out)
    BY <1>1, <1>2, <1>3, <2>1, LoopRuns
  <2>3. Looped(d, t, w, d, e)
    BY <1>1, <1>2, <1>3, <2>1, LoopNotes
  <2>4. /\ s \in Situations /\ s.kind = "exact" /\ s.height = h /\ s.live = in.live /\ Values(s, 1)
        /\ To(s, s.height - 1) = in
    <3>1. s \in Situations /\ s.kind = "exact" /\ s.height = h /\ s.live = in.live
      BY <1>1, <1>3, ToFacts
    <3>2. Values(s, 1)
      <4>1. in.live \in Nat /\ in.height >= in.live
        BY <1>1, <1>3, SituationFacts DEF Values
      <4> QED BY <1>3, <3>1, <4>1 DEF Values
    <3>3. To(s, s.height - 1) = in
      BY <1>1, <1>3, <3>1, ToAgain
    <3> QED BY <3>1, <3>2, <3>3
  <2>5. ~e.hadError => JumpFrom(Inner(e), Window(d, t, w, e), k, s.height, s.live)
    BY <1>2, <1>6, <2>3, <2>4 DEF Looped, Keeps
  <2> HIDE DEF e, h, s
  <2>6. m = PatchJump(e, k)
    OBVIOUS
  <2> HIDE DEF m, k
  <2>7. Runs(d, t, w, m, {k} \ {k}, s, out)
    BY <2>1, <2>2, <2>4, <2>5, <2>6, RunsPatch
  <2>8. Ahead(d, t, w, m, Emitting(<<OP_POP>>), s, out)
    <3>1. Becomes(To(s, s.height - 1), out)
      BY <1>2, <2>4
    <3> QED BY <2>4, <2>7, <3>1, AheadPopping
  <2>9. Arrives(d, t, w, Then(m, <<Emitting(<<OP_POP>>)>>))
    BY <2>7, <2>8, ThenOneArrives
  <2> QED BY <1>4, <1>6, <2>9 DEF start, k, m, e
<1> QED BY <1>5, <1>6

LEMMA ForBodyArrives ==
  ASSUME NEW d, NEW t, NEW w, NEW in, NEW out, Turn(d, t, w, in, out), t.do = "ForBody"
  PROVE  Arrives(d, t, w, ForBody(d, t.args[1], t.args[2]))
<1> DEFINE start == t.args[1]
           k == t.args[2]
           e == EmitJump(d, OP_JUMP)
           j == JumpOperand(e)
           a == Advance(d)
           u == Task("ForIncrement", <<start, j>>)
           mid == To(in, in.height + 1)
<1>1. /\ Runs(d, t, w, d, {k}, in, out) /\ Quiet(d, t, w, d) /\ JumpHere(t) = 0
      /\ Window(d, t, w, d) = w /\ in \in Situations /\ out \in Situations
  <2>1. AwaitedBy(t) = {k} /\ JumpHere(t) = 0
    BY DEF AwaitedBy, JumpHere
  <2> HIDE DEF k
  <2> QED BY <2>1, TurnFacts
<1>2. /\ Settled(in) /\ Becomes(in, out) /\ LoopTo(Inner(d), w, start, in.height)
      /\ k # 0 => JumpFrom(Inner(d), w, k, in.height + 1, in.live)
  BY DEF Turn, Fits, Finds
<1>3. /\ in.kind = "exact" /\ in.height \in Nat \ {0} /\ To(in, in.height) = in
      /\ Values(in, 0) /\ in.height <= in.live /\ Rest(in) /\ Becomes(in, in)
  <2>1. in.height \in Nat /\ in.kind = "exact" /\ Values(in, 0) /\ in.height = in.live /\ Rest(in)
        /\ Becomes(in, in)
    BY <1>1, <1>2, SettledFacts
  <2>2. in.height # 0
    <3>1. Standing(Inner(d), w, in)
      BY TurnFacts
    <3> QED BY <2>1, <3>1 DEF Standing
  <2> QED BY <1>1, <2>1, <2>2, ToAgain
<1>4. ForBody(d, start, k) =
        IF Check(d, "RIGHT_PAREN") THEN Then(a, <<Substatement, Looping(start, k)>>)
        ELSE Then(e, <<Expression, Emitting(<<OP_POP>>), Consuming("RIGHT_PAREN"), u,
                       Substatement, Looping(Count(e), k)>>)
  BY DEF ForBody
<1>5. Arrives(d, t, w, Then(a, <<Substatement, Looping(start, k)>>))
  <2>1. Runs(d, t, w, a, {k}, in, out)
    BY <1>1, RunsAdvance
  <2>2. ~a.hadError => ~d.hadError /\ Inner(a) = Inner(d) /\ Window(d, t, w, a) = Window(d, t, w, d)
    BY <1>1, RunsAdvance
  <2> HIDE DEF a, start, k
  <2>3. Ahead(d, t, w, a, Substatement, in, in)
    BY <1>1, <1>3, StatementAhead
  <2>4. Ahead(d, t, w, a, Looping(start, k), in, out)
    BY <1>1, <1>2, <2>2, LoopingAhead
  <2>5. AwaitedBy(Looping(start, k)) = {k}
    BY LoopingFacts
  <2> QED BY <2>1, <2>3, <2>4, <2>5, ThenTwoArrives
<1>6. Arrives(d, t, w, Then(e, <<Expression, Emitting(<<OP_POP>>), Consuming("RIGHT_PAREN"), u,
                                 Substatement, Looping(Count(e), k)>>))
  <2>1. in.height = JumpHeight(w, t, in.height)
    BY <1>1 DEF JumpHeight
  <2>2. Runs(d, t, w, e, {k} \cup {j}, To(in, in.height), out)
    BY <1>1, <1>3, <2>1, JumpRuns
  <2>3. Jumped(d, t, w, d, e, in, in.height)
    BY <1>1, <1>3, <2>1, JumpNotes
  <2>4. ~e.hadError =>
          /\ JumpFrom(Inner(e), Window(d, t, w, e), j, in.height, in.live)
          /\ LoopTo(Inner(e), Window(d, t, w, e), Count(e), in.height)
          /\ LoopTo(Inner(e), Window(d, t, w, e), start, in.height)
          /\ k # 0 => JumpFrom(Inner(e), Window(d, t, w, e), k, in.height + 1, in.live)
          /\ j # 0
    BY <1>2, <1>3, <2>3 DEF Jumped, Keeps
  <2>5. u.do = "ForIncrement" /\ u.args[1] = start /\ u.args[2] = j
    BY DEF Task
  <2>6. Runs(d, t, w, e, {k} \cup {j}, in, out)
    BY <1>3, <2>2
  <2>7. /\ mid \in Situations /\ mid.kind = "exact" /\ Values(mid, 1) /\ To(mid, mid.height - 1) = in
    <3>1. mid \in Situations /\ Values(mid, 1) /\ mid.height = in.height + 1 /\ mid.kind = "exact"
      <4>1. /\ mid \in Situations /\ mid.height = in.height + 1 /\ mid.kind = "exact"
            /\ mid.live = in.live
        BY <1>1, <1>3, ToFacts, SMTT(30)
      <4>2. in.live \in Nat /\ in.height >= in.live
        BY <1>1, <1>3, SituationFacts DEF Values
      <4> QED BY <1>3, <4>1, <4>2 DEF Values
    <3>2. mid.height - 1 = in.height
      BY <1>3, <3>1
    <3>3. To(mid, mid.height - 1) = in
      BY <1>1, <1>3, <3>2, ToAgain
    <3> QED BY <3>1, <3>3
  <2> DEFINE n == Count(e)
  <2> HIDE DEF e, j, start, k, u, mid, n
  <2>8. Ahead(d, t, w, e, Expression, in, mid)
    <3>1. ASSIGNMENT \in 1 .. 9
      BY DEF ASSIGNMENT
    <3> QED BY <1>1, <1>3, <3>1, AheadParsing DEF Expression, mid
  <2>9. Ahead(d, t, w, e, Emitting(<<OP_POP>>), mid, in)
    <3>1. Becomes(To(mid, mid.height - 1), in)
      BY <2>7 DEF Becomes
    <3> QED BY <2>6, <2>7, <3>1, AheadPopping
  <2>10. Ahead(d, t, w, e, Consuming("RIGHT_PAREN"), in, in)
    BY <1>1, AheadConsuming
  <2>11. u.do \notin Bottom /\ u.do \notin Immediate /\ AwaitedBy(u) = {j}
    BY <2>5 DEF Bottom, Immediate, AwaitedBy
  <2>12. Ahead(d, t, w, e, u, in, in)
    <3>1. Fits(u, in, in) /\ in.depth <= in.depth
      BY <1>1, <1>2, <1>3, <2>5, BecomesFacts DEF Fits
    <3>2. ~e.hadError => Finds(Inner(e), Window(d, t, w, e), u, in, in)
      BY <2>4, <2>5 DEF Finds
    <3> QED BY <1>1, <2>11, <3>1, <3>2 DEF Ahead, Waiting
  <2>13. Ahead(d, t, w, e, Substatement, in, in)
    BY <1>1, <1>3, StatementAhead
  <2>14. Ahead(d, t, w, e, Looping(n, k), in, out)
    BY <1>1, <1>2, <2>4, LoopingAhead DEF n
  <2>15. AwaitedBy(Looping(n, k)) = {k}
    BY LoopingFacts
  <2>16. Arrives(d, t, w, Then(e, <<Expression, Emitting(<<OP_POP>>), Consuming("RIGHT_PAREN"), u,
                                 Substatement, Looping(n, k)>>))
    BY <2>6, <2>8, <2>9, <2>10, <2>11, <2>12, <2>13, <2>14, <2>15, ThenSixArrives
  <2> QED BY <2>16 DEF n
<1> QED BY <1>4, <1>5, <1>6 DEF start, k

(* Statements.                                                             *)
LEMMA ExpressionThenArrives ==
  ASSUME NEW d, NEW t, NEW w, NEW m, NEW in, NEW out, NEW op,
         Runs(d, t, w, m, {}, in, out), Rest(in), Becomes(in, out),
         op \in {OP_POP, OP_PRINT, OP_RETURN}, op = OP_RETURN => Inner(d).type # "SCRIPT"
  PROVE  Arrives(d, t, w, ExpressionThen(m, op))
<1>1. /\ Working(m) /\ Inward(d, m)
      /\ ExpressionThen(m, op) = Then(m, <<Expression, Consuming("SEMICOLON"), Emitting(<<op>>)>>)
  BY RunsWorking DEF ExpressionThen
<1>2. CASE m.hadError
  BY <1>1, <1>2, ThenInward, FailedArrives
<1>3. CASE ~m.hadError
  <2>1. PICK s \in Situations : /\ Settled(s) /\ Runs(d, t, w, m, {}, s, out)
                                /\ \A r : Becomes(in, r) => Becomes(s, r)
    BY <1>3, RunsExact
  <2> DEFINE mid == To(s, s.height + 1)
  <2>2. s.height \in Nat /\ s.kind = "exact" /\ Values(s, 0)
    BY <2>1, SettledFacts
  <2>3. /\ mid \in Situations /\ mid.kind = "exact" /\ Values(mid, 1) /\ To(mid, mid.height - 1) = s
        /\ mid.height = s.height + 1
    <3>1. /\ mid \in Situations /\ mid.height = s.height + 1 /\ mid.kind = "exact"
          /\ mid.live = s.live
      <4>1. s.height + 1 \in Nat
        BY <2>2
      <4> QED BY <2>2, <4>1, ToFacts
    <3>2. s.live \in Nat /\ s.height >= s.live
      BY <2>2, SituationFacts DEF Values
    <3>3. Values(mid, 1)
      BY <2>2, <3>1, <3>2 DEF Values
    <3>4. mid.height - 1 = s.height
      BY <2>2, <3>1
    <3>5. To(mid, mid.height - 1) = s
      BY <2>2, <3>4, ToAgain
    <3> QED BY <3>1, <3>3, <3>5
  <2>4. Ahead(d, t, w, m, Expression, s, mid)
    <3>1. ASSIGNMENT \in 1 .. 9
      BY DEF ASSIGNMENT
    <3> QED BY <2>2, <3>1, AheadParsing DEF Expression
  <2> HIDE DEF mid
  <2>5. Ahead(d, t, w, m, Consuming("SEMICOLON"), mid, mid)
    BY <2>3, AheadConsuming
  <2>6. Ahead(d, t, w, m, Emitting(<<op>>), mid, out)
    <3>1. op \in EmittedOps \ SetOps /\ Growth(op, 0) = -1 /\ Taken(op) = 1
      BY OpFacts
    <3>2. mid.height + Growth(op, 0) = mid.height - 1 /\ mid.height - 1 \in Nat
      BY <2>2, <2>3, <3>1
    <3>3. Becomes(To(mid, mid.height + Growth(op, 0)), out)
      BY <2>1, <2>3, <3>2
    <3>4. Growth(op, 0) \in {-1, 0, 1} /\ mid.height + Growth(op, 0) \in Nat /\ Values(mid, Taken(op))
      BY <2>3, <3>1, <3>2
    <3> QED BY <2>1, <2>3, <3>1, <3>3, <3>4, AheadEmitting
  <2>7. Arrives(d, t, w, Then(m, <<Expression, Consuming("SEMICOLON"), Emitting(<<op>>)>>))
    BY <2>1, <2>4, <2>5, <2>6, ThenThreeArrives
  <2> QED BY <1>1, <2>7
<1> QED BY <1>2, <1>3

LEMMA ConditionThenArrives ==
  ASSUME NEW d, NEW t, NEW w, NEW m, NEW s \in Situations, NEW out, NEW u,
         Runs(d, t, w, m, {}, s, out), Settled(s),
         Ahead(d, t, w, m, u, To(s, s.height + 1), out)
  PROVE  Arrives(d, t, w, ConditionThen(m, u))
<1> DEFINE mid == To(s, s.height + 1)
<1>1. ConditionThen(m, u) =
        Then(m, <<Consuming("LEFT_PAREN"), Expression, Consuming("RIGHT_PAREN"), u>>)
  BY DEF ConditionThen
<1>2. s.height \in Nat /\ s.kind = "exact" /\ Values(s, 0)
  BY SettledFacts
<1>3. mid \in Situations
  BY <1>2, ToFacts
<1>4. Ahead(d, t, w, m, Expression, s, mid)
  <2>1. ASSIGNMENT \in 1 .. 9
    BY DEF ASSIGNMENT
  <2> QED BY <1>2, <2>1, AheadParsing DEF Expression
<1> HIDE DEF mid
<1>5. Ahead(d, t, w, m, Consuming("LEFT_PAREN"), s, s)
  BY AheadConsuming
<1>6. Ahead(d, t, w, m, Consuming("RIGHT_PAREN"), mid, mid)
  BY <1>3, AheadConsuming
<1>7. Ahead(d, t, w, m, u, mid, out)
  BY DEF mid
<1> QED BY <1>1, <1>4, <1>5, <1>6, <1>7, ThenFourArrives

(* A loop may lead to where the code ends.                                 *)
LEMMA HereLoops ==
  ASSUME NEW d, NEW t, NEW w, NEW m, NEW X, NEW in, NEW out, Runs(d, t, w, m, X, in, out),
         Settled(in), ~m.hadError
  PROVE  LoopTo(Inner(m), Window(d, t, w, m), Count(m), in.height)
<1> DEFINE fc == Inner(m)
           v == Window(d, t, w, m)
<1>1. Standing(fc, v, in) /\ Windowed(fc, v)
  BY RunsWorking
<1>2. in \in Situations /\ in.kind = "exact" /\ in.height = in.live
  BY RunsWorking, SettledFacts
<1> HIDE DEF fc, v
<1>3. in.height = v.now /\ Live(fc) = v.now /\ v.now \in Nat
  BY <1>1, <1>2 DEF Standing
<1>4. Heights(fc, v)[Len(fc.code)] = v.now /\ Len(fc.code) \in DOMAIN Heights(fc, v)
      /\ Covered(fc, v)[Len(fc.code)] = Lesser(Live(fc), v.now)
  BY <1>1 DEF Windowed
<1>5. Lesser(Live(fc), v.now) = v.now
  BY <1>3 DEF Lesser
<1>6. LoopTo(fc, v, Len(fc.code), in.height)
  BY <1>3, <1>4, <1>5 DEF LoopTo, Flows
<1> QED BY <1>6 DEF fc, v, Count

(* The condition has been parsed before an IfThen or a WhileBody.          *)
LEMMA ConditionAhead ==
  ASSUME NEW d, NEW t, NEW w, NEW m, NEW s \in Situations, NEW out \in Situations, NEW u,
         Settled(s), Becomes(s, out), u.do \in {"IfThen", "WhileBody", "ForExit"},
         ~m.hadError => (u.do # "IfThen" => LoopTo(Inner(m), Window(d, t, w, m), u.args[1], s.height))
  PROVE  Ahead(d, t, w, m, u, To(s, s.height + 1), out)
<1> DEFINE mid == To(s, s.height + 1)
<1>1. s.height \in Nat /\ s.kind = "exact" /\ Values(s, 0) /\ s.height = s.live
  BY SettledFacts
<1>2. /\ mid \in Situations /\ mid.height = s.height + 1 /\ mid.kind = "exact"
      /\ mid.live = s.live /\ mid.depth = s.depth
  <2> DEFINE h == s.height + 1
  <2>1. h \in Nat /\ mid = To(s, h)
    BY <1>1
  <2> HIDE DEF h
  <2>2. /\ mid \in Situations /\ mid.height = h /\ mid.kind = "exact"
        /\ mid.live = s.live /\ mid.depth = s.depth
    BY <1>1, <2>1, ToFacts
  <2> QED BY <2>2 DEF h
<1>3. Values(mid, 1)
  BY <1>1, <1>2 DEF Values
<1>4. mid.height - 1 = s.height
  BY <1>1, <1>2
<1>5. To(mid, mid.height - 1) = s
  BY <1>1, <1>4, ToAgain
<1> HIDE DEF mid
<1>6. Grown(mid, -1) = s
  BY <1>2, <1>3, <1>5, ToLess
<1>7. Fits(u, mid, out)
  BY <1>3, <1>6 DEF Fits
<1>8. out.depth <= mid.depth
  BY <1>2, BecomesFacts
<1>9. ~m.hadError => Finds(Inner(m), Window(d, t, w, m), u, mid, out)
  BY <1>4 DEF Finds
<1>10. u.do \notin Bottom /\ u.do \notin Immediate
  BY DEF Bottom, Immediate
<1>11. Ahead(d, t, w, m, u, mid, out)
  BY <1>2, <1>7, <1>8, <1>9, <1>10 DEF Ahead, Waiting
<1> QED BY <1>11 DEF mid

LEMMA ConditionsArrive ==
  ASSUME NEW d, NEW t, NEW w, NEW m, NEW in, NEW out,
         Runs(d, t, w, m, {}, in, out), Rest(in), Becomes(in, out)
  PROVE  Arrives(d, t, w, IfStatement(m)) /\ Arrives(d, t, w, WhileStatement(m))
<1> DEFINE u == Task("IfThen", << >>)
           v == Task("WhileBody", <<Count(m)>>)
<1>1. /\ Working(m) /\ Inward(d, m) /\ (~m.hadError => out \in Situations)
      /\ IfStatement(m) = ConditionThen(m, u) /\ WhileStatement(m) = ConditionThen(m, v)
  BY RunsWorking DEF IfStatement, WhileStatement
<1>2. u.do = "IfThen" /\ v.do = "WhileBody" /\ v.args[1] = Count(m)
  BY DEF Task
<1> HIDE DEF u, v
<1>3. CASE m.hadError
  <2>1. Inward(m, ConditionThen(m, u)) /\ Inward(m, ConditionThen(m, v))
    BY <1>1, ThenInward DEF ConditionThen
  <2> QED BY <1>1, <1>3, <2>1, FailedArrives
<1>4. CASE ~m.hadError
  <2>1. PICK s \in Situations : /\ Settled(s) /\ Runs(d, t, w, m, {}, s, out)
                                /\ \A r : Becomes(in, r) => Becomes(s, r)
    BY <1>4, RunsExact
  <2>2. LoopTo(Inner(m), Window(d, t, w, m), Count(m), s.height)
    BY <1>4, <2>1, HereLoops
  <2>3. Ahead(d, t, w, m, u, To(s, s.height + 1), out)
    BY <1>1, <1>2, <1>4, <2>1, ConditionAhead
  <2>4. Ahead(d, t, w, m, v, To(s, s.height + 1), out)
    BY <1>1, <1>2, <1>4, <2>1, <2>2, ConditionAhead
  <2> QED BY <1>1, <2>1, <2>3, <2>4, ConditionThenArrives
<1> QED BY <1>3, <1>4

(* Scopes.                                                                 *)
SameButScope(fc, g, locals, depth) ==
  /\ IsFunctionCompiler(g) /\ g.type = fc.type /\ g.arity = fc.arity /\ g.code = fc.code
  /\ g.todo = fc.todo /\ g.upvalues = fc.upvalues /\ g.constants = fc.constants
  /\ g.lines = fc.lines /\ g.locals = locals /\ g.scopeDepth = depth

LEMMA ScopeSet ==
  ASSUME NEW fc, NEW locals, NEW depth, IsFunctionCompiler(fc), IsSequence(locals)
  PROVE  /\ SameButScope(fc, [fc EXCEPT !.scopeDepth = depth], fc.locals, depth)
         /\ SameButScope(fc, [fc EXCEPT !.locals = locals], locals, fc.scopeDepth)
<1>1. /\ fc = [type |-> fc.type, arity |-> fc.arity, code |-> fc.code, lines |-> fc.lines,
               constants |-> fc.constants, locals |-> fc.locals, upvalues |-> fc.upvalues,
               scopeDepth |-> fc.scopeDepth, todo |-> fc.todo]
      /\ IsSequence(fc.code) /\ IsSequence(fc.constants) /\ IsSequence(fc.locals)
      /\ IsSequence(fc.upvalues) /\ IsSequence(fc.todo) /\ fc.arity \in Nat
  BY DEF IsFunctionCompiler
<1>2. [fc EXCEPT !.scopeDepth = depth] =
        [type |-> fc.type, arity |-> fc.arity, code |-> fc.code, lines |-> fc.lines,
         constants |-> fc.constants, locals |-> fc.locals, upvalues |-> fc.upvalues,
         scopeDepth |-> depth, todo |-> fc.todo]
  BY <1>1
<1>3. [fc EXCEPT !.locals = locals] =
        [type |-> fc.type, arity |-> fc.arity, code |-> fc.code, lines |-> fc.lines,
         constants |-> fc.constants, locals |-> locals, upvalues |-> fc.upvalues,
         scopeDepth |-> fc.scopeDepth, todo |-> fc.todo]
  BY <1>1
<1>4. SameButScope(fc, [fc EXCEPT !.scopeDepth = depth], fc.locals, depth)
  <2> DEFINE g == [fc EXCEPT !.scopeDepth = depth]
  <2>1. /\ g.type = fc.type /\ g.arity = fc.arity /\ g.code = fc.code
        /\ g.todo = fc.todo /\ g.upvalues = fc.upvalues /\ g.constants = fc.constants
        /\ g.lines = fc.lines /\ g.locals = fc.locals /\ g.scopeDepth = depth
    BY <1>2
  <2>2. g = [type |-> g.type, arity |-> g.arity, code |-> g.code, lines |-> g.lines,
             constants |-> g.constants, locals |-> g.locals, upvalues |-> g.upvalues,
             scopeDepth |-> g.scopeDepth, todo |-> g.todo]
    BY <1>2
  <2> HIDE DEF g
  <2>3. IsFunctionCompiler(g)
    BY <1>1, <2>1, <2>2 DEF IsFunctionCompiler
  <2> QED BY <2>1, <2>3 DEF SameButScope, g
<1>5. SameButScope(fc, [fc EXCEPT !.locals = locals], locals, fc.scopeDepth)
  <2> DEFINE g == [fc EXCEPT !.locals = locals]
  <2>1. /\ g.type = fc.type /\ g.arity = fc.arity /\ g.code = fc.code
        /\ g.todo = fc.todo /\ g.upvalues = fc.upvalues /\ g.constants = fc.constants
        /\ g.lines = fc.lines /\ g.locals = locals /\ g.scopeDepth = fc.scopeDepth
    BY <1>3
  <2>2. g = [type |-> g.type, arity |-> g.arity, code |-> g.code, lines |-> g.lines,
             constants |-> g.constants, locals |-> g.locals, upvalues |-> g.upvalues,
             scopeDepth |-> g.scopeDepth, todo |-> g.todo]
    BY <1>3
  <2> HIDE DEF g
  <2>3. IsFunctionCompiler(g)
    BY <1>1, <2>1, <2>2 DEF IsFunctionCompiler
  <2> QED BY <2>1, <2>3 DEF SameButScope, g
<1> QED BY <1>4, <1>5

(* The locals and the scope change, and leave those that tasks count on.    *)
LEMMA RunningScopes ==
  ASSUME NEW fns, NEW fc, NEW w, NEW X, NEW in, NEW out, NEW g, NEW in2, NEW locals, NEW depth,
         Running(fns, fc, w, X, in, out), SameButScope(fc, g, locals, depth), LocalsSound(g),
         Lesser(Live(g), w.now) >= Lesser(Live(fc), w.now),
         \A e \in 0 .. out.depth : Base(g, e) = Base(fc, e),
         in2 \in Situations, At(g, w.now, in2)
  PROVE  Running(fns, g, w, X, in2, out)
<1>1. FunctionsKnown(fns, Finished(g))
  <2>1. FunctionsKnown(fns, Finished(fc))
    BY DEF Running, Ready, ChunkSound
  <2>2. Finished(g).constants = Finished(fc).constants
    BY FinishedFields DEF SameButScope
  <2> QED BY <2>1, <2>2 DEF FunctionsKnown
<1>2. Len(fc.upvalues) <= Len(g.upvalues)
  <2>1. Len(fc.upvalues) \in Nat
    BY RunningStands DEF Standing
  <2> QED BY <2>1 DEF SameButScope
<1>3. /\ IsFunctionCompiler(g) /\ g.type = fc.type /\ g.arity = fc.arity /\ g.code = fc.code
      /\ g.todo = fc.todo
      /\ \A i \in DOMAIN fc.constants : i \in DOMAIN g.constants /\ g.constants[i] = fc.constants[i]
  BY DEF SameButScope
<1>4. \A f \in DOMAIN fns : f \in DOMAIN fns /\ fns[f] = fns[f]
  OBVIOUS
<1> QED BY <1>1, <1>2, <1>3, <1>4, RunningGrows

(* A FunctionCompiler takes the place of the innermost.                    *)
LEMMA RunsWith ==
  ASSUME NEW d, NEW t, NEW w, NEW m, NEW X, NEW in, NEW out, NEW g, NEW in2, NEW locals, NEW depth,
         Runs(d, t, w, m, X, in, out),
         ~m.hadError =>
           /\ SameButScope(Inner(m), g, locals, depth) /\ LocalsSound(g)
           /\ Lesser(Live(g), Window(d, t, w, m).now) >= Lesser(Live(Inner(m)), Window(d, t, w, m).now)
           /\ \A e \in 0 .. out.depth : Base(g, e) = Base(Inner(m), e)
           /\ in2 \in Situations /\ At(g, Window(d, t, w, m).now, in2)
  PROVE  /\ Runs(d, t, w, With(m, g), X, in2, out)
         /\ ~With(m, g).hadError => /\ ~m.hadError /\ Inner(With(m, g)) = g
                                    /\ Window(d, t, w, With(m, g)) = Window(d, t, w, m)
<1> DEFINE e == With(m, g)
           v == Window(d, t, w, m)
           fc == Inner(m)
<1>1. Working(d) /\ Working(m) /\ Inward(d, m)
  BY RunsWorking
<1>2. Inward(d, e) /\ Inner(e) = g /\ e.hadError = m.hadError
  BY <1>1, WithFacts, InwardChain
<1> HIDE DEF e
<1>3. CASE m.hadError
  BY <1>1, <1>2, <1>3 DEF Runs, e
<1>4. CASE ~m.hadError
  <2>1. SameButScope(fc, g, locals, depth)
    BY <1>4
  <2>2. Window(d, t, w, e) = v
    BY <1>2, <2>1 DEF Window, SameButScope
  <2>3. Running(d.functions, g, v, X, in2, out)
    <3>1. Running(d.functions, fc, v, X, in, out)
      BY <1>4 DEF Runs
    <3> HIDE DEF fc, v
    <3> QED BY <1>4, <2>1, <3>1, RunningScopes DEF fc, v
  <2>4. /\ g.type = Inner(d).type /\ g.upvalues = Inner(d).upvalues
        /\ g.arity = Inner(d).arity /\ g.todo # << >>
    BY <1>4, <2>1 DEF Runs, SameButScope
  <2> QED BY <1>1, <1>2, <1>4, <2>2, <2>3, <2>4 DEF Runs, e
<1> QED BY <1>3, <1>4

(* What has come to rest has all its locals.                               *)
LEMMA RestFacts ==
  ASSUME NEW fc, NEW w, NEW in \in Situations, Standing(fc, w, in), Rest(in), At(fc, w.now, in)
  PROVE  /\ w.now = Live(fc) /\ Live(fc) = Len(fc.locals) /\ Scoped(fc) /\ fc.scopeDepth = in.depth
         /\ Settled(in) => in.height = Len(fc.locals)
BY SituationFacts DEF Standing, Rest, Settled, At

LEMMA RunsAt ==
  ASSUME NEW d, NEW t, NEW w, NEW m, NEW X, NEW in, NEW out, Runs(d, t, w, m, X, in, out), ~m.hadError
  PROVE  /\ Standing(Inner(m), Window(d, t, w, m), in) /\ in \in Situations /\ out \in Situations
         /\ At(Inner(m), Window(d, t, w, m).now, in)
         /\ IsFunctionCompiler(Inner(m)) /\ LocalsSound(Inner(m))
<1>1. Running(d.functions, Inner(m), Window(d, t, w, m), X, in, out)
  BY DEF Runs
<1>2. At(Inner(m), Window(d, t, w, m).now, in)
  BY <1>1 DEF Running
<1>3. Standing(Inner(m), Window(d, t, w, m), in) /\ in \in Situations /\ out \in Situations
  BY RunsWorking
<1>4. IsFunctionCompiler(Inner(m)) /\ LocalsSound(Inner(m))
  BY <1>3 DEF Standing
<1> QED BY <1>2, <1>3, <1>4

LEMMA BeginScopeRuns ==
  ASSUME NEW d, NEW t, NEW w, NEW m, NEW in, NEW out,
         Runs(d, t, w, m, {}, in, out), Rest(in), in.depth < UINT8_MAX
  PROVE  Runs(d, t, w, BeginScope(m), {}, Loose(in.depth + 1), out)
<1> DEFINE fc == Inner(m)
           v == Window(d, t, w, m)
           n == in.depth + 1
           g == [fc EXCEPT !.scopeDepth = Byte8(@ + 1)]
           s == Loose(n)
<1>1. BeginScope(m) = With(m, g)
  BY DEF BeginScope
<1>2. ASSUME ~m.hadError
      PROVE  /\ SameButScope(fc, g, fc.locals, n) /\ LocalsSound(g)
             /\ Lesser(Live(g), v.now) >= Lesser(Live(fc), v.now)
             /\ \A e \in 0 .. out.depth : Base(g, e) = Base(fc, e)
             /\ s \in Situations /\ At(g, v.now, s)
  <2>1. /\ Standing(fc, v, in) /\ in \in Situations /\ At(fc, v.now, in)
        /\ IsFunctionCompiler(fc) /\ LocalsSound(fc)
    BY <1>2, RunsAt
  <2> HIDE DEF fc, v
  <2>2. /\ v.now = Live(fc) /\ Live(fc) = Len(fc.locals) /\ Scoped(fc) /\ fc.scopeDepth = in.depth
        /\ in.depth \in Nat /\ v.now \in Nat /\ Live(fc) \in Nat
    BY <2>1, RestFacts, SituationFacts DEF Standing
  <2>3. Byte8(fc.scopeDepth + 1) = n /\ n \in Nat
    <3>1. in.depth + 1 \in 0 .. UINT8_MAX
      BY <2>2, UInt8Assumption
    <3> QED BY <2>2, <3>1, Byte8OfByte
  <2>4. g = [fc EXCEPT !.scopeDepth = n]
    <3>1. g = [fc EXCEPT !.scopeDepth = Byte8(fc.scopeDepth + 1)]
      OBVIOUS
    <3> QED BY <2>3, <3>1
  <2> HIDE DEF g, n
  <2>5. SameButScope(fc, g, fc.locals, n)
    <3>1. IsSequence(fc.locals)
      BY <2>1 DEF IsFunctionCompiler
    <3> QED BY <2>1, <2>4, <3>1, ScopeSet
  <2>6. g.locals = fc.locals /\ g.scopeDepth = n
    BY <2>5 DEF SameButScope
  <2>7. LocalsSound(g)
    BY <2>1, <2>6 DEF LocalsSound
  <2>8. Live(g) = Live(fc)
    BY <2>6 DEF Live
  <2>9. Lesser(Live(g), v.now) >= Lesser(Live(fc), v.now)
    BY <2>2, <2>8 DEF Lesser
  <2>10. \A e \in 0 .. out.depth : Base(g, e) = Base(fc, e)
    BY <2>6 DEF Base
  <2>11. s \in Situations /\ s.kind = "loose" /\ s.depth = n
    BY <2>3, SituationFacts
  <2>12. Scoped(g)
    <3> SUFFICES ASSUME NEW i \in 1 .. Live(g)
                 PROVE  g.locals[i].depth <= g.scopeDepth
      BY DEF Scoped
    <3>1. fc.locals[i].depth <= in.depth
      BY <2>2, <2>8 DEF Scoped
    <3>2. fc.locals[i].depth \in 0 .. UINT8_MAX
      <4>1. i \in DOMAIN fc.locals
        BY <2>1, <2>2, <2>8, LiveFacts
      <4> QED BY <2>1, <4>1 DEF LocalsSound
    <3>3. in.depth <= n
      BY <2>2 DEF n
    <3> QED BY <2>2, <2>3, <2>6, <3>1, <3>2, <3>3, UInt8Assumption
  <2> HIDE DEF s
  <2>13. At(g, v.now, s)
    BY <2>2, <2>6, <2>8, <2>11, <2>12 DEF At
  <2> QED BY <2>5, <2>7, <2>9, <2>10, <2>11, <2>13
<1> HIDE DEF fc, v, n, g, s
<1>3. Runs(d, t, w, With(m, g), {}, s, out)
  BY <1>2, RunsWith DEF fc, v
<1> QED BY <1>1, <1>3 DEF s, n

(* The end of the scope, which leaves the locals that there are now.       *)
LEMMA LocalDepth ==
  ASSUME NEW fc, LocalsSound(fc), NEW i \in DOMAIN fc.locals
  PROVE  fc.locals[i].depth \in 0 .. UINT8_MAX
BY Zenon DEF LocalsSound

LEMMA EndScopeAhead ==
  ASSUME NEW d, NEW t, NEW w, NEW m, NEW in, NEW out,
         Runs(d, t, w, m, {}, in, out), Rest(in), Becomes(in, out), in.depth < UINT8_MAX
  PROVE  Ahead(d, t, w, BeginScope(m), Task("EndScope", << >>), Loose(in.depth + 1), out)
<1> DEFINE fc == Inner(m)
           v == Window(d, t, w, m)
           n == in.depth + 1
           e == BeginScope(m)
           u == Task("EndScope", << >>)
           s == Loose(n)
<1>1. u.do = "EndScope" /\ u.do \notin Bottom /\ u.do \notin Immediate
  BY DEF Task, Bottom, Immediate
<1>2. ASSUME ~e.hadError
      PROVE  Waiting(Inner(e), Window(d, t, w, e), u, s, out)
  <2>1. Working(m) /\ e.hadError = m.hadError /\ Inner(e) = [fc EXCEPT !.scopeDepth = Byte8(@ + 1)]
    BY RunsWorking, WithFacts DEF BeginScope
  <2>2. ~m.hadError
    BY <1>2, <2>1
  <2>3. /\ Standing(fc, v, in) /\ in \in Situations /\ out \in Situations /\ At(fc, v.now, in)
        /\ IsFunctionCompiler(fc) /\ LocalsSound(fc)
    BY <2>2, RunsAt
  <2>4. Inner(e).locals = fc.locals
    BY <2>1, <2>3 DEF IsFunctionCompiler
  <2> HIDE DEF fc, v, e, u
  <2>5. /\ Live(fc) = Len(fc.locals) /\ Scoped(fc) /\ in.depth \in Nat /\ Live(fc) \in Nat
        /\ Settled(in) => in.height = Len(fc.locals)
        /\ DOMAIN fc.locals = 1 .. Len(fc.locals)
    <3>1. Live(fc) = Len(fc.locals) /\ Scoped(fc) /\ (Settled(in) => in.height = Len(fc.locals))
      BY <2>3, RestFacts
    <3>2. in.depth \in Nat
      BY <2>3, SituationFacts
    <3>3. DOMAIN fc.locals = 1 .. Len(fc.locals) /\ Live(fc) \in Nat
      BY <2>3, LiveFacts
    <3> QED BY <3>1, <3>2, <3>3
  <2>6. Rest(out) /\ out.depth = in.depth /\ (out.kind = "exact" => out = in)
    BY <2>3, BecomesFacts
  <2>7. s \in Situations /\ s.kind = "loose" /\ s.depth = n /\ n \in Nat /\ n >= 1 /\ n - 1 = in.depth
        /\ out.depth <= n
    <3>1. n \in Nat /\ n >= 1 /\ n - 1 = in.depth /\ out.depth <= n
      BY <2>5, <2>6
    <3> HIDE DEF n
    <3>2. s \in Situations /\ s.kind = "loose" /\ s.depth = n
      BY <3>1, SituationFacts
    <3> QED BY <3>1, <3>2
  <2>8. out.kind = "exact" => Base(Inner(e), n) = 1 .. out.height
    <3> SUFFICES ASSUME out.kind = "exact"
                 PROVE  Base(Inner(e), n) = 1 .. out.height
      OBVIOUS
    <3>1. Settled(in) /\ out.height = Len(fc.locals)
      BY <2>5, <2>6 DEF Rest
    <3>2. \A i \in DOMAIN fc.locals : fc.locals[i].depth < n
      <4> SUFFICES ASSUME NEW i \in DOMAIN fc.locals
                   PROVE  fc.locals[i].depth < n
        OBVIOUS
      <4>1. fc.locals[i].depth \in 0 .. UINT8_MAX
        BY <2>3, LocalDepth
      <4>2. fc.locals[i].depth <= in.depth
        BY <2>3, <2>5 DEF Scoped, At
      <4> QED BY <2>5, <4>1, <4>2, UInt8Assumption
    <3>3. Base(Inner(e), n) = DOMAIN fc.locals
      BY <2>4, <3>2 DEF Base
    <3> QED BY <2>5, <3>1, <3>3
  <2> HIDE DEF s, n
  <2>9. Fits(u, s, out)
    BY <1>1, <2>6, <2>7 DEF Fits
  <2>10. Finds(Inner(e), Window(d, t, w, e), u, s, out)
    BY <1>1, <2>7, <2>8 DEF Finds
  <2> QED BY <1>1, <2>7, <2>9, <2>10 DEF Waiting
<1> QED BY <1>1, <1>2 DEF Ahead

LEMMA ForStatementArrives ==
  ASSUME NEW d, NEW t, NEW w, NEW m, NEW in, NEW out,
         Runs(d, t, w, m, {}, in, out), Rest(in), Becomes(in, out), in.depth < UINT8_MAX
  PROVE  /\ Arrives(d, t, w, ForStatement(m))
         /\ Arrives(d, t, w, Then(BeginScope(m), <<Task("Block", << >>), Task("EndScope", << >>)>>))
<1> DEFINE e == BeginScope(m)
           u == Task("EndScope", << >>)
           v == Task("ForInitializer", << >>)
           x == Task("ForCondition", << >>)
           y == Task("Block", << >>)
           s == Loose(in.depth + 1)
<1>1. Runs(d, t, w, e, {}, s, out) /\ Ahead(d, t, w, e, u, s, out)
  BY BeginScopeRuns, EndScopeAhead
<1>2. /\ ForStatement(m) = Then(e, <<Consuming("LEFT_PAREN"), v, x, u>>)
      /\ v.do = "ForInitializer" /\ x.do = "ForCondition" /\ y.do = "Block"
  BY DEF ForStatement, Task
<1>3. CASE e.hadError
  <2>1. Working(e) /\ Inward(d, e)
    BY <1>1, RunsWorking
  <2> HIDE DEF e, u, v, x, y
  <2>2. Inward(e, Then(e, <<Consuming("LEFT_PAREN"), v, x, u>>)) /\ Inward(e, Then(e, <<y, u>>))
    BY <2>1, ThenInward
  <2> QED BY <1>2, <1>3, <2>1, <2>2, FailedArrives DEF e, u, y
<1>4. CASE ~e.hadError
  <2>1. ~m.hadError
    <3>1. Working(m)
      BY RunsWorking
    <3> QED BY <1>4, <3>1, WithFacts DEF BeginScope
  <2>2. in \in Situations
    BY <2>1, RunsAt
  <2>3. s \in Situations /\ s.kind = "loose" /\ s.depth >= 1
    <3>1. in.depth \in Nat
      BY <2>2, SituationFacts
    <3>2. in.depth + 1 \in Nat /\ in.depth + 1 >= 1
      BY <3>1
    <3> QED BY <3>2, SituationFacts
  <2> HIDE DEF e, u, v, x, y, s
  <2>4. \A r : r.do \in {"ForInitializer", "ForCondition", "Block"} =>
          Ahead(d, t, w, e, r, s, s) /\ AwaitedBy(r) = {}
    <3> SUFFICES ASSUME NEW r, r.do \in {"ForInitializer", "ForCondition", "Block"}
                 PROVE  Ahead(d, t, w, e, r, s, s) /\ AwaitedBy(r) = {}
      OBVIOUS
    <3>1. Fits(r, s, s) /\ s.depth <= s.depth
      BY <2>3, SituationFacts DEF Fits
    <3>2. r.do \in PlainTasks
      BY DEF PlainTasks
    <3> QED BY <2>3, <3>1, <3>2, AheadPlain
  <2>5. /\ Ahead(d, t, w, e, v, s, s) /\ AwaitedBy(v) = {}
        /\ Ahead(d, t, w, e, x, s, s) /\ AwaitedBy(x) = {}
        /\ Ahead(d, t, w, e, y, s, s) /\ AwaitedBy(y) = {}
    BY <1>2, <2>4
  <2>6. Ahead(d, t, w, e, Consuming("LEFT_PAREN"), s, s)
    BY <2>3, AheadConsuming
  <2>7. Arrives(d, t, w, Then(e, <<Consuming("LEFT_PAREN"), v, x, u>>))
    BY <1>1, <2>5, <2>6, ThenFourArrives
  <2>8. Arrives(d, t, w, Then(e, <<y, u>>))
    BY <1>1, <2>5, ThenTwoArrives
  <2> QED BY <1>2, <2>7, <2>8 DEF e, u, y
<1> QED BY <1>3, <1>4

LEMMA StatementArrives ==
  ASSUME NEW d, NEW t, NEW w, NEW m, NEW in, NEW out,
         Runs(d, t, w, m, {}, in, out), Rest(in), Becomes(in, out), in.depth < UINT8_MAX
  PROVE  Arrives(d, t, w, Statement(m))
<1> DEFINE a == Advance(m)
           u == Task("ReturnStatement", << >>)
<1>1. \/ Statement(m) = ExpressionThen(a, OP_PRINT)
      \/ Statement(m) = WhileStatement(a)
      \/ Statement(m) = ForStatement(a)
      \/ Statement(m) = Then(BeginScope(a), <<Task("Block", << >>), Task("EndScope", << >>)>>)
      \/ Statement(m) = IfStatement(a)
      \/ Statement(m) = Then(a, <<u>>)
      \/ Statement(m) = ExpressionThen(m, OP_POP)
  BY DEF Statement
<1>2. Runs(d, t, w, a, {}, in, out) /\ Working(a) /\ Inward(d, a)
  BY RunsAdvance, RunsWorking
<1>3. u.do = "ReturnStatement" /\ u.do \in PlainTasks
  BY DEF Task, PlainTasks
<1> HIDE DEF a, u
<1>4. Arrives(d, t, w, ExpressionThen(a, OP_PRINT)) /\ Arrives(d, t, w, ExpressionThen(m, OP_POP))
  BY <1>2, ExpressionThenArrives
<1>5. Arrives(d, t, w, WhileStatement(a)) /\ Arrives(d, t, w, IfStatement(a))
  BY <1>2, ConditionsArrive
<1>6. /\ Arrives(d, t, w, ForStatement(a))
      /\ Arrives(d, t, w, Then(BeginScope(a), <<Task("Block", << >>), Task("EndScope", << >>)>>))
  BY <1>2, ForStatementArrives
<1>7. Arrives(d, t, w, Then(a, <<u>>))
  <2>1. CASE a.hadError
    BY <1>2, <2>1, ThenInward, FailedArrives
  <2>2. CASE ~a.hadError
    <3>1. in \in Situations /\ out \in Situations
      BY <1>2, <2>2, RunsAt
    <3>2. Fits(u, in, out) /\ out.depth <= in.depth
      BY <1>3, <3>1, BecomesFacts DEF Fits
    <3>3. Ahead(d, t, w, a, u, in, out)
      BY <1>3, <3>1, <3>2, AheadPlain
    <3> QED BY <1>2, <3>3, ThenOneArrives
  <2> QED BY <2>1, <2>2
<1> QED BY <1>1, <1>4, <1>5, <1>6, <1>7

LEMMA StatementTaskArrives ==
  ASSUME NEW d, NEW t, NEW w, NEW in, NEW out, Turn(d, t, w, in, out), t.do = "Statement",
         in.depth < UINT8_MAX
  PROVE  Arrives(d, t, w, Statement(d))
<1>1. AwaitedBy(t) = {}
  BY DEF AwaitedBy
<1>2. Rest(in) /\ Becomes(in, out)
  BY DEF Turn, Fits
<1>3. Runs(d, t, w, d, {}, in, out)
  BY <1>1, TurnFacts
<1> QED BY <1>2, <1>3, StatementArrives

LEMMA ReturnStatementArrives ==
  ASSUME NEW d, NEW t, NEW w, NEW in, NEW out, Turn(d, t, w, in, out), t.do = "ReturnStatement"
  PROVE  Arrives(d, t, w, ReturnStatement(d))
<1>1. Runs(d, t, w, d, {}, in, out) /\ Working(d) /\ ~d.hadError /\ Inward(d, d)
  <2>1. AwaitedBy(t) = {}
    BY DEF AwaitedBy
  <2> QED BY <2>1, TurnFacts
<1>2. Rest(in) /\ Becomes(in, out)
  BY DEF Turn, Fits
<1> DEFINE a == Advance(d)
           x == Advance(Error(d))
<1>3. CASE Inner(d).type = "SCRIPT"
  <2>1. ReturnStatement(d) =
          IF Check(Error(d), "SEMICOLON") THEN Then(x, <<Emitting(<<OP_NIL>>), Emitting(<<OP_RETURN>>)>>)
          ELSE ExpressionThen(Error(d), OP_RETURN)
    BY <1>3 DEF ReturnStatement
  <2>2. Inward(d, Error(d)) /\ Working(Error(d)) /\ Error(d).hadError
    BY <1>1, ErrorInward
  <2>3. Inward(Error(d), x) /\ Working(x)
    BY <2>2, AdvanceInward
  <2> HIDE DEF x
  <2>4. Inward(x, Then(x, <<Emitting(<<OP_NIL>>), Emitting(<<OP_RETURN>>)>>))
    BY <2>3, ThenInward
  <2>5. Inward(Error(d), Then(x, <<Emitting(<<OP_NIL>>), Emitting(<<OP_RETURN>>)>>))
    BY <2>3, <2>4, InwardChain
  <2>6. Inward(Error(d), ExpressionThen(Error(d), OP_RETURN))
    BY <2>2, ThenInward DEF ExpressionThen
  <2> QED BY <2>1, <2>2, <2>5, <2>6, FailedArrives
<1>4. CASE Inner(d).type # "SCRIPT"
  <2>1. ReturnStatement(d) =
          IF Check(d, "SEMICOLON") THEN Then(a, <<Emitting(<<OP_NIL>>), Emitting(<<OP_RETURN>>)>>)
          ELSE ExpressionThen(d, OP_RETURN)
    BY <1>4 DEF ReturnStatement
  <2>2. Arrives(d, t, w, ExpressionThen(d, OP_RETURN))
    BY <1>1, <1>2, <1>4, ExpressionThenArrives
  <2>3. Runs(d, t, w, a, {}, in, out)
    BY <1>1, RunsAdvance
  <2> HIDE DEF a
  <2>4. Arrives(d, t, w, Then(a, <<Emitting(<<OP_NIL>>), Emitting(<<OP_RETURN>>)>>))
    <3>1. CASE a.hadError
      BY <2>3, <3>1, RunsWorking, ThenInward, FailedArrives
    <3>2. CASE ~a.hadError
      <4>1. PICK s \in Situations : /\ Settled(s) /\ Runs(d, t, w, a, {}, s, out)
                                    /\ \A r : Becomes(in, r) => Becomes(s, r)
        BY <1>2, <2>3, <3>2, RunsExact
      <4> DEFINE mid == To(s, s.height + 1)
      <4>2. s.height \in Nat /\ s.kind = "exact" /\ Values(s, 0) /\ s.height + 1 \in Nat
        BY <4>1, SettledFacts
      <4>3. /\ mid \in Situations /\ mid.kind = "exact" /\ Values(mid, 1)
            /\ To(mid, mid.height - 1) = s /\ mid.height = s.height + 1
        <5>1. /\ mid \in Situations /\ mid.height = s.height + 1 /\ mid.kind = "exact"
              /\ mid.live = s.live
          BY <4>2, ToFacts
        <5>2. s.live \in Nat /\ s.height >= s.live
          BY <4>2, SituationFacts DEF Values
        <5>3. Values(mid, 1)
          BY <4>2, <5>1, <5>2 DEF Values
        <5>4. mid.height - 1 = s.height
          BY <4>2, <5>1
        <5>5. To(mid, mid.height - 1) = s
          BY <4>2, <5>4, ToAgain
        <5> QED BY <5>1, <5>3, <5>5
      <4>4. Ahead(d, t, w, a, Emitting(<<OP_NIL>>), s, mid)
        <5>1. OP_NIL \in EmittedOps \ SetOps /\ Growth(OP_NIL, 0) = 1 /\ Taken(OP_NIL) = 0
          BY OpFacts
        <5>2. s.height + Growth(OP_NIL, 0) = s.height + 1
          BY <5>1
        <5>3. Becomes(To(s, s.height + Growth(OP_NIL, 0)), mid)
          BY <5>2 DEF Becomes
        <5> HIDE DEF mid
        <5>4. Growth(OP_NIL, 0) \in {-1, 0, 1} /\ s.height + Growth(OP_NIL, 0) \in Nat
              /\ Values(s, Taken(OP_NIL)) /\ OP_NIL # OP_RETURN
          BY <4>2, <5>1, <5>2
        <5> QED BY <4>1, <5>1, <5>3, <5>4, AheadEmitting
      <4> HIDE DEF mid
      <4>5. Ahead(d, t, w, a, Emitting(<<OP_RETURN>>), mid, out)
        <5>1. OP_RETURN \in EmittedOps \ SetOps /\ Growth(OP_RETURN, 0) = -1 /\ Taken(OP_RETURN) = 1
          BY OpFacts
        <5>2. mid.height + Growth(OP_RETURN, 0) = mid.height - 1 /\ mid.height - 1 \in Nat
          BY <4>2, <4>3, <5>1
        <5>3. Becomes(To(mid, mid.height + Growth(OP_RETURN, 0)), out)
          BY <1>2, <4>1, <4>3, <5>2
        <5>4. Growth(OP_RETURN, 0) \in {-1, 0, 1} /\ mid.height + Growth(OP_RETURN, 0) \in Nat
              /\ Values(mid, Taken(OP_RETURN))
          BY <4>3, <5>1, <5>2
        <5> QED BY <1>4, <4>1, <4>3, <5>1, <5>3, <5>4, AheadEmitting
      <4> QED BY <4>1, <4>4, <4>5, ThenTwoArrives
    <3> QED BY <3>1, <3>2
  <2> QED BY <2>1, <2>2, <2>4 DEF a
<1> QED BY <1>3, <1>4

LEMMA ForInitializerArrives ==
  ASSUME NEW d, NEW t, NEW w, NEW in, NEW out, Turn(d, t, w, in, out), t.do = "ForInitializer"
  PROVE  Arrives(d, t, w, ForInitializer(d))
<1> DEFINE a == Advance(d)
           u == Task("VarDeclaration", << >>)
<1>1. Runs(d, t, w, d, {}, in, out) /\ in \in Situations
  <2>1. AwaitedBy(t) = {}
    BY DEF AwaitedBy
  <2> QED BY <2>1, TurnFacts
<1>2. in.kind = "loose" /\ out = in /\ Rest(in) /\ Becomes(in, out)
  BY DEF Turn, Fits, Rest, Becomes
<1>3. \/ ForInitializer(d) = a \/ ForInitializer(d) = Then(a, <<u>>)
      \/ ForInitializer(d) = ExpressionThen(d, OP_POP)
  BY DEF ForInitializer
<1>4. Runs(d, t, w, a, {}, in, in)
  BY <1>1, <1>2, RunsAdvance
<1>5. u.do = "VarDeclaration" /\ u.do \in PlainTasks
  BY DEF Task, PlainTasks
<1> HIDE DEF a, u
<1>6. Arrives(d, t, w, a)
  BY <1>4, RunsArrives
<1>7. Arrives(d, t, w, Then(a, <<u>>))
  <2>1. Fits(u, in, in) /\ in.depth <= in.depth
    BY <1>1, <1>2, <1>5, SituationFacts DEF Fits
  <2>2. Ahead(d, t, w, a, u, in, in)
    BY <1>1, <1>5, <2>1, AheadPlain
  <2> QED BY <1>4, <2>2, ThenOneArrives
<1>8. Arrives(d, t, w, ExpressionThen(d, OP_POP))
  BY <1>1, <1>2, ExpressionThenArrives
<1> QED BY <1>3, <1>6, <1>7, <1>8

LEMMA ForConditionArrives ==
  ASSUME NEW d, NEW t, NEW w, NEW in, NEW out, Turn(d, t, w, in, out), t.do = "ForCondition"
  PROVE  Arrives(d, t, w, ForCondition(d))
<1> DEFINE a == Advance(d)
           n == Count(d)
           u == Task("ForExit", <<n>>)
<1>1. Runs(d, t, w, d, {}, in, out) /\ in \in Situations /\ out \in Situations /\ ~d.hadError
  <2>1. AwaitedBy(t) = {}
    BY DEF AwaitedBy
  <2> QED BY <2>1, TurnFacts
<1>2. Rest(in) /\ Becomes(in, out)
  BY DEF Turn, Fits, Rest, Becomes
<1>3. ForCondition(d) = IF Check(d, "SEMICOLON") THEN Then(a, <<ForBodyAfter(n, 0)>>)
                        ELSE Then(d, <<Expression, Consuming("SEMICOLON"), u>>)
  BY DEF ForCondition
<1>4. Arrives(d, t, w, Then(a, <<ForBodyAfter(n, 0)>>))
  <2>1. Runs(d, t, w, a, {}, in, out)
    BY <1>1, RunsAdvance
  <2>2. CASE a.hadError
    BY <2>1, <2>2, RunsWorking, ThenInward, FailedArrives
  <2>3. CASE ~a.hadError
    <3>1. PICK s \in Situations : /\ Settled(s) /\ Runs(d, t, w, a, {}, s, out)
                                  /\ \A r : Becomes(in, r) => Becomes(s, r)
      BY <1>2, <2>1, <2>3, RunsExact
    <3>2. LoopTo(Inner(a), Window(d, t, w, a), Count(a), s.height)
      BY <2>3, <3>1, HereLoops
    <3>3. Count(a) = n
      BY <1>1, <2>3, RunsAdvance DEF Count
    <3> HIDE DEF a, n
    <3>4. Ahead(d, t, w, a, ForBodyAfter(n, 0), s, out)
      BY <1>1, <1>2, <3>1, <3>2, <3>3, LoopingAhead
    <3> QED BY <3>1, <3>4, ThenOneArrives
  <2> QED BY <2>2, <2>3
<1>5. Arrives(d, t, w, Then(d, <<Expression, Consuming("SEMICOLON"), u>>))
  <2>1. PICK s \in Situations : /\ Settled(s) /\ Runs(d, t, w, d, {}, s, out)
                                /\ \A r : Becomes(in, r) => Becomes(s, r)
    BY <1>1, <1>2, RunsExact
  <2>2. LoopTo(Inner(d), Window(d, t, w, d), n, s.height)
    BY <1>1, <2>1, HereLoops
  <2>3. u.do = "ForExit" /\ u.args[1] = n
    BY DEF Task
  <2> DEFINE mid == To(s, s.height + 1)
  <2> HIDE DEF u, n
  <2>4. Ahead(d, t, w, d, u, mid, out)
    BY <1>1, <1>2, <2>1, <2>2, <2>3, ConditionAhead
  <2>5. s.height \in Nat /\ s.kind = "exact" /\ Values(s, 0) /\ s.height + 1 \in Nat
    BY <2>1, SettledFacts
  <2>6. mid \in Situations
    BY <2>5, ToFacts
  <2>7. Ahead(d, t, w, d, Expression, s, mid)
    <3>1. ASSIGNMENT \in 1 .. 9
      BY DEF ASSIGNMENT
    <3> QED BY <2>5, <3>1, AheadParsing DEF Expression
  <2> HIDE DEF mid
  <2>8. Ahead(d, t, w, d, Consuming("SEMICOLON"), mid, mid)
    BY <2>6, AheadConsuming
  <2> QED BY <2>1, <2>4, <2>7, <2>8, ThenThreeArrives
<1> QED BY <1>3, <1>4, <1>5

(* Declarations.                                                           *)
LEMMA LooseAhead ==
  ASSUME NEW d, NEW t, NEW w, NEW m, NEW in \in Situations, NEW u, in.kind = "loose",
         \/ u.do \in {"Declarations", "VarDeclaration", "FunDeclaration", "Synchronize"}
         \/ u.do = "Block" /\ in.depth >= 1
  PROVE  Ahead(d, t, w, m, u, in, in)
<1>1. Fits(u, in, in) /\ in.depth <= in.depth
  BY SituationFacts DEF Fits
<1>2. u.do \in PlainTasks
  BY DEF PlainTasks
<1> QED BY <1>1, <1>2, AheadPlain

LEMMA DeclarationArrives ==
  ASSUME NEW d, NEW t, NEW w, NEW m, NEW in \in Situations,
         Runs(d, t, w, m, {}, in, in), in.kind = "loose", in.depth < UINT8_MAX
  PROVE  Arrives(d, t, w, Declaration(m))
<1> DEFINE u == Task("Synchronize", << >>)
           v == Task("FunDeclaration", << >>)
           x == Task("VarDeclaration", << >>)
           e == Then(m, <<u>>)
           a == Advance(e)
<1>1. /\ u.do = "Synchronize" /\ v.do = "FunDeclaration" /\ x.do = "VarDeclaration"
  BY DEF Task
<1>2. \/ Declaration(m) = Then(a, <<v>>) \/ Declaration(m) = Then(a, <<x>>)
      \/ Declaration(m) = Statement(e)
  BY DEF Declaration
<1> HIDE DEF u, v, x
<1>3. Ahead(d, t, w, m, u, in, in) /\ AwaitedBy(u) = {}
  BY <1>1, LooseAhead DEF AwaitedBy
<1>4. Runs(d, t, w, e, {} \ {}, in, in)
  BY <1>3, ThenOne
<1>5. Runs(d, t, w, e, {}, in, in)
  BY <1>4
<1> HIDE DEF e
<1>6. Runs(d, t, w, a, {}, in, in)
  BY <1>5, RunsAdvance
<1> HIDE DEF a
<1>7. Ahead(d, t, w, a, v, in, in) /\ Ahead(d, t, w, a, x, in, in)
  BY <1>1, LooseAhead
<1>8. Arrives(d, t, w, Then(a, <<v>>)) /\ Arrives(d, t, w, Then(a, <<x>>))
  BY <1>6, <1>7, ThenOneArrives
<1>9. Rest(in) /\ Becomes(in, in)
  BY DEF Rest, Becomes
<1>10. Arrives(d, t, w, Statement(e))
  BY <1>5, <1>9, StatementArrives
<1> QED BY <1>2, <1>8, <1>10

LEMMA BlockArrives ==
  ASSUME NEW d, NEW t, NEW w, NEW in, NEW out, Turn(d, t, w, in, out), in.depth < UINT8_MAX,
         t.do \in {"Block", "Declarations"}
  PROVE  /\ t.do = "Block" => Arrives(d, t, w, Block(d))
         /\ t.do = "Declarations" => Arrives(d, t, w, Declarations(d))
<1> DEFINE u == Task("Block", << >>)
           v == Task("Declarations", << >>)
           p == Then(d, <<u>>)
           q == Then(d, <<v>>)
<1>1. Runs(d, t, w, d, {}, in, out) /\ in \in Situations
  <2>1. AwaitedBy(t) = {}
    BY DEF AwaitedBy
  <2> QED BY <2>1, TurnFacts
<1>2. in.kind = "loose" /\ out = in /\ (t.do = "Block" => in.depth >= 1)
  BY DEF Turn, Fits
<1>3. u.do = "Block" /\ v.do = "Declarations" /\ AwaitedBy(u) = {} /\ AwaitedBy(v) = {}
  BY DEF Task, AwaitedBy
<1>4. /\ Block(d) = Consume(d, "RIGHT_BRACE") \/ Block(d) = Declaration(p)
      /\ Declarations(d) = Advance(d) \/ Declarations(d) = Declaration(q)
  BY DEF Block, Declarations
<1> HIDE DEF u, v
<1>5. Runs(d, t, w, Consume(d, "RIGHT_BRACE"), {}, in, in)
  BY <1>1, <1>2, RunsConsume
<1>6. Runs(d, t, w, Advance(d), {}, in, in)
  BY <1>1, <1>2, RunsAdvance
<1>7. Arrives(d, t, w, Consume(d, "RIGHT_BRACE")) /\ Arrives(d, t, w, Advance(d))
  BY <1>5, <1>6, RunsArrives
<1>8. CASE t.do = "Block"
  <2>1. Ahead(d, t, w, d, u, in, in)
    BY <1>1, <1>2, <1>3, <1>8, LooseAhead
  <2>2. Runs(d, t, w, p, {} \ {}, in, in)
    BY <1>1, <1>2, <1>3, <2>1, ThenOne
  <2> HIDE DEF p
  <2>3. Runs(d, t, w, p, {}, in, in)
    BY <2>2
  <2>4. Arrives(d, t, w, Declaration(p))
    BY <1>1, <1>2, <2>3, DeclarationArrives
  <2> QED BY <1>4, <1>7, <1>8, <2>4
<1>9. CASE t.do = "Declarations"
  <2>1. Ahead(d, t, w, d, v, in, in)
    BY <1>1, <1>2, <1>3, LooseAhead
  <2>2. Runs(d, t, w, q, {} \ {}, in, in)
    BY <1>1, <1>2, <1>3, <2>1, ThenOne
  <2> HIDE DEF q
  <2>3. Runs(d, t, w, q, {}, in, in)
    BY <2>2
  <2>4. Arrives(d, t, w, Declaration(q))
    BY <1>1, <1>2, <2>3, DeclarationArrives
  <2> QED BY <1>4, <1>7, <1>9, <2>4
<1> QED BY <1>8, <1>9

LEMMA SynchronizeArrives ==
  ASSUME NEW d, NEW t, NEW w, NEW in, NEW out, Turn(d, t, w, in, out), t.do = "Synchronize"
  PROVE  Arrives(d, t, w, Synchronized(d))
<1>1. Runs(d, t, w, d, {}, in, out) /\ ~d.hadError /\ Working(d)
  <2>1. AwaitedBy(t) = {}
    BY DEF AwaitedBy
  <2> QED BY <2>1, TurnFacts
<1>2. out = in
  BY DEF Turn, Fits
<1>3. Synchronized(d) = d
  BY <1>1 DEF Synchronized, Working, IsCompiler
<1>4. Arrives(d, t, w, d)
  BY <1>1, <1>2, RunsArrives
<1> QED BY <1>3, <1>4

(* A local is popped.                                                      *)
LEMMA RunningTakes ==
  ASSUME NEW fns, NEW fc, NEW w, NEW X, NEW in, NEW out, NEW fc2,
         Running(fns, fc, w, X, in, out), in.kind = "exact", SameButCode(fc, fc2),
         fc2.code = fc.code \o <<OP_POP>>, w.now >= 2
  PROVE  Running(fns, fc2, After(fc, w, w.now - 1), X, [in EXCEPT !.height = w.now - 1], out)
<1> DEFINE n == Len(fc.code)
           h == w.now - 1
           F2 == Finished(fc2)
           H2 == Heights(fc2, After(fc, w, h))
           L2 == Covered(fc2, After(fc, w, h))
<1>1. Standing(fc, w, in)
  BY RunningStands
<1>2. w.now \in Nat /\ h \in Nat \ {0}
  BY <1>1 DEF Standing
<1>3. IsSequence(<<OP_POP>>) /\ <<OP_POP>> # << >> /\ Len(<<OP_POP>>) = 1 /\ <<OP_POP>>[1] = OP_POP
  BY ShortSequences
<1> DEFINE b == <<OP_POP>>
<1>4. IsSequence(b) /\ b # << >> /\ Len(b) = 1 /\ b[1] = OP_POP /\ fc2.code = fc.code \o b
  BY <1>3
<1> HIDE DEF b
<1>5. Emitted(fc, w, fc2, b, h)
  <2> HIDE DEF h
  <2> QED BY <1>2, <1>4, RunningEmitted
<1>6. /\ n \in Nat /\ Len(fc2.code) = n + 1 /\ H2[n] = w.now /\ H2[n + 1] = h
      /\ n + 1 \in DOMAIN H2 /\ L2[n] \in Nat
      /\ L2[n + 1] >= L2[n] \/ L2[n + 1] >= H2[n + 1]
      /\ fc2.code[n + 1] = OP_POP
  <2> HIDE DEF h
  <2> QED BY <1>4, <1>5 DEF Emitted
<1>7. F2.code = fc2.code /\ OpAt(F2, n) = OP_POP
  BY <1>6, FinishedFields DEF OpAt
<1>8. InstructionLength(fns, F2, n) = 1
  BY <1>7 DEF InstructionLength
<1> DEFINE a == Operand(F2, n)
<1>9. Finishes(fns, F2, H2, L2, n)
  <2>1. Applies(F2, OP_POP, a, H2[n], L2[n])
    <3>1. H2[n] >= 2
      BY <1>6
    <3> HIDE DEF a, F2, H2, L2
    <3> QED BY <3>1 DEF Applies, EmittedOps, TakingOps, SetOps
  <2>2. H2[n + 1] = H2[n] + Growth(OP_POP, a)
    <3>1. Growth(OP_POP, a) = -1
      BY OpFacts
    <3> HIDE DEF a, H2
    <3> QED BY <1>2, <1>6, <3>1
  <2>3. H2[n] \in Nat \ {0} /\ n + 1 <= Len(F2.code) /\ OP_POP # OP_RETURN
    BY <1>2, <1>6, <1>7
  <2>4. Operand(F2, n) = a
    OBVIOUS
  <2> HIDE DEF a, F2, H2, L2, h, n
  <2> QED BY <1>6, <1>7, <1>8, <2>1, <2>2, <2>3, <2>4, StraightFinishes
<1>10. fc.type = "SCRIPT" => b[1] # OP_RETURN
  BY <1>4
<1>11. InstructionLength(fns, F2, n) = Len(b)
  BY <1>4, <1>8
<1> HIDE DEF h
<1>12. X \subseteq X
  OBVIOUS
<1> QED BY <1>2, <1>4, <1>9, <1>10, <1>11, <1>12, RunningEmits DEF h

(* Of the locals, the last is left out.                                     *)
LEMMA FrontLocals ==
  ASSUME NEW fc, NEW g, IsFunctionCompiler(fc), LocalsSound(fc), Len(fc.locals) >= 2,
         g.locals = Front(fc.locals)
  PROVE  /\ LocalsSound(g) /\ Live(g) = Len(fc.locals) - 1 /\ Len(g.locals) = Len(fc.locals) - 1
         /\ \A e \in Nat : fc.locals[Len(fc.locals)].depth >= e => Base(g, e) = Base(fc, e)
<1> DEFINE n == Len(fc.locals)
<1>1. IsSequence(fc.locals) /\ n \in Nat /\ fc.locals # << >> /\ DOMAIN fc.locals = 1 .. n
  BY SequenceFacts DEF IsFunctionCompiler, LocalsSound
<1>2. /\ IsSequence(g.locals) /\ Len(g.locals) = n - 1
      /\ \A i \in 1 .. n - 1 : g.locals[i] = fc.locals[i]
  BY <1>1, SequenceFront
<1>3. DOMAIN g.locals = 1 .. n - 1 /\ g.locals # << >>
  BY <1>1, <1>2, SequenceFacts
<1>4. \A i \in 1 .. n :
        /\ fc.locals[i] = [name |-> fc.locals[i].name, depth |-> fc.locals[i].depth]
        /\ fc.locals[i].depth \in 0 .. UINT8_MAX
        /\ i > 1 => fc.locals[i].depth >= 1
        /\ i < n => fc.locals[i].depth # UINT8_MAX
        /\ \A j \in i .. n : fc.locals[i].depth <= fc.locals[j].depth
  BY <1>1 DEF LocalsSound
<1>5. fc.locals[1] = [name |-> "", depth |-> 0]
  BY DEF LocalsSound
<1> HIDE DEF n
<1>6. 1 \in 1 .. n - 1 /\ n - 1 \in 1 .. n - 1 /\ \A i \in 1 .. n - 1 : i \in 1 .. n /\ i < n
  BY <1>1 DEF n
<1>7. LocalsSound(g)
  <2>1. g.locals[1] = [name |-> "", depth |-> 0]
    BY <1>2, <1>5, <1>6
  <2>2. ASSUME NEW i \in DOMAIN g.locals
        PROVE  /\ g.locals[i] = [name |-> g.locals[i].name, depth |-> g.locals[i].depth]
               /\ g.locals[i].depth \in 0 .. UINT8_MAX
               /\ i > 1 => g.locals[i].depth >= 1
               /\ i < Len(g.locals) => g.locals[i].depth # UINT8_MAX
               /\ \A j \in i .. Len(g.locals) : g.locals[i].depth <= g.locals[j].depth
    <3>1. i \in 1 .. n /\ i < n /\ g.locals[i] = fc.locals[i] /\ i \in 1 .. n - 1
      BY <1>2, <1>3, <1>6
    <3>2. \A j \in i .. n - 1 : j \in 1 .. n - 1 /\ j \in i .. n /\ g.locals[j] = fc.locals[j]
      BY <1>1, <1>2, <3>1
    <3> QED BY <1>2, <1>4, <3>1, <3>2
  <2> QED BY <1>3, <2>1, <2>2 DEF LocalsSound
<1>8. Live(g) = n - 1
  <2>1. Last(g.locals) = fc.locals[n - 1]
    BY <1>2, <1>6 DEF Last
  <2>2. fc.locals[n - 1].depth # UINT8_MAX
    BY <1>4, <1>6
  <2> QED BY <1>2, <2>1, <2>2 DEF Live
<1>9. ASSUME NEW e \in Nat, fc.locals[n].depth >= e
      PROVE  Base(g, e) = Base(fc, e)
  <2>1. ~(fc.locals[n].depth < e)
    <3>1. fc.locals[n].depth \in Int
      <4>1. n \in 1 .. n
        BY <1>1 DEF n
      <4>2. fc.locals[n].depth \in 0 .. UINT8_MAX
        BY <1>4, <4>1
      <4> QED BY <4>2
    <3> QED BY <1>9, <3>1
  <2>2. ASSUME NEW i
        PROVE  i \in Base(g, e) <=> i \in Base(fc, e)
    <3>1. i \in 1 .. n => (i \in 1 .. n - 1 \/ i = n)
      BY <1>1
    <3> QED BY <1>1, <1>2, <1>3, <1>6, <2>1, <3>1 DEF Base
  <2> QED BY <2>2 DEF Base
<1> QED BY <1>2, <1>7, <1>8, <1>9 DEF n

LEMMA RunningPops ==
  ASSUME NEW fns, NEW fc, NEW w, NEW X, NEW in, NEW out, NEW e, NEW g,
         Running(fns, fc, w, X, in, out), in.kind = "popping", out.depth = in.depth,
         fc.locals[Len(fc.locals)].depth > fc.scopeDepth,
         SameButCode(fc, e), e.code = fc.code \o <<OP_POP>>,
         SameButScope(e, g, Front(fc.locals), fc.scopeDepth)
  PROVE  /\ Running(fns, g, After(fc, w, w.now - 1), X, in, out)
         /\ \A b \in 0 .. fc.scopeDepth + 1 : Base(g, b) = Base(fc, b)
<1> DEFINE n == Len(fc.locals)
           dep == fc.locals[n].depth
           r == [fc EXCEPT !.scopeDepth = dep]
           p == [e EXCEPT !.scopeDepth = dep]
           s == Exact(dep, w.now, n, n)
           v == After(fc, w, w.now - 1)
           s2 == [s EXCEPT !.height = w.now - 1]
<1>1. /\ Standing(fc, w, in) /\ in \in Situations /\ out \in Situations /\ At(fc, w.now, in)
      /\ IsFunctionCompiler(fc) /\ LocalsSound(fc)
  <2>1. in \in Situations /\ out \in Situations /\ At(fc, w.now, in)
    BY DEF Running
  <2>2. Standing(fc, w, in)
    BY RunningStands
  <2>3. IsFunctionCompiler(fc) /\ LocalsSound(fc)
    BY <2>2 DEF Standing
  <2> QED BY <2>1, <2>2, <2>3
<1>2. /\ w.now = n /\ Live(fc) = n /\ n \in Nat /\ n >= 1 /\ DOMAIN fc.locals = 1 .. n
      /\ fc.scopeDepth = in.depth /\ in.depth \in Nat
  <2>1. w.now = Live(fc) /\ Live(fc) = Len(fc.locals) /\ fc.scopeDepth = in.depth
    BY <1>1 DEF At
  <2>2. in.depth \in Nat
    BY <1>1, SituationFacts
  <2>3. n \in Nat /\ n >= 1 /\ DOMAIN fc.locals = 1 .. n
    BY <1>1, LiveFacts
  <2> QED BY <2>1, <2>2, <2>3
<1>3. dep \in 0 .. UINT8_MAX /\ dep \in Nat /\ dep > fc.scopeDepth
  <2>1. n \in DOMAIN fc.locals
    BY <1>2
  <2>2. dep \in 0 .. UINT8_MAX
    BY <1>1, <2>1 DEF LocalsSound
  <2> QED BY <2>2
<1>4. n >= 2
  <2>1. n # 1
    <3>0. fc.locals[1] = [name |-> "", depth |-> 0]
      BY <1>1 DEF LocalsSound
    <3>1. fc.locals[1].depth = [name |-> "", depth |-> 0].depth
      BY ONLY <3>0
    <3>2. [name |-> "", depth |-> 0].depth = 0
      BY ONLY TRUE
    <3> QED BY <1>2, <1>3, <3>1, <3>2
  <2>2. n \in Nat /\ n >= 1
    BY <1>2
  <2> HIDE DEF n
  <2> QED BY <2>1, <2>2
<1>5. SameButScope(fc, r, fc.locals, dep)
  BY <1>1, ScopeSet DEF IsFunctionCompiler
<1>6. SameButScope(e, p, fc.locals, dep)
  <2>1. IsFunctionCompiler(e) /\ e.locals = fc.locals /\ IsSequence(e.locals)
    BY DEF SameButCode, IsFunctionCompiler
  <2>2. SameButScope(e, p, e.locals, dep)
    BY <2>1, ScopeSet
  <2> QED BY <2>1, <2>2
<1>7. SameButCode(r, p) /\ p.code = r.code \o <<OP_POP>>
  BY <1>5, <1>6 DEF SameButScope, SameButCode
<1>8. s \in Situations /\ s.kind = "exact" /\ s.height = n /\ s.live = n /\ s.locals = n /\ s.depth = dep
  BY <1>2, <1>3, SituationFacts
<1> HIDE DEF r, p, s
<1>9. r.locals = fc.locals /\ r.scopeDepth = dep /\ r.code = fc.code
  BY <1>5 DEF SameButScope
<1>10. LocalsSound(r) /\ Live(r) = n
  BY <1>1, <1>2, <1>9 DEF LocalsSound, Live
<1>11. Running(fns, r, w, X, s, out)
  <2>1. Lesser(Live(r), w.now) >= Lesser(Live(fc), w.now)
    BY <1>2, <1>10 DEF Lesser
  <2>2. \A b \in 0 .. out.depth : Base(r, b) = Base(fc, b)
    BY <1>9 DEF Base
  <2>3. Scoped(r)
    <3> SUFFICES ASSUME NEW i \in 1 .. Live(r)
                 PROVE  r.locals[i].depth <= r.scopeDepth
      BY DEF Scoped
    <3>1. i \in DOMAIN fc.locals /\ n \in i .. Len(fc.locals)
      BY <1>2, <1>10
    <3>2. fc.locals[i].depth <= fc.locals[n].depth
      BY <1>1, <3>1 DEF LocalsSound
    <3> QED BY <1>9, <3>2
  <2>4. At(r, w.now, s)
    BY <1>2, <1>8, <1>9, <1>10, <2>3 DEF At
  <2> HIDE DEF dep
  <2> QED BY <1>5, <1>8, <1>10, <2>1, <2>2, <2>4, RunningScopes
<1>12. Running(fns, p, After(r, w, w.now - 1), X, s2, out)
  BY <1>2, <1>4, <1>7, <1>8, <1>11, RunningTakes
<1>13. After(r, w, w.now - 1) = v
  BY <1>2, <1>9, <1>10 DEF After, Heights, Covered
<1>14. v.now = n - 1
  BY <1>2 DEF After
<1>15. SameButScope(p, g, Front(fc.locals), fc.scopeDepth)
  BY <1>6 DEF SameButScope
<1>16. /\ LocalsSound(g) /\ Live(g) = n - 1 /\ Len(g.locals) = n - 1
       /\ \A b \in Nat : fc.locals[n].depth >= b => Base(g, b) = Base(fc, b)
  <2>1. g.locals = Front(fc.locals)
    BY DEF SameButScope
  <2> QED BY <1>1, <1>4, <2>1, FrontLocals
<1>17. \A b \in 0 .. fc.scopeDepth + 1 : Base(g, b) = Base(fc, b)
  <2> SUFFICES ASSUME NEW b \in 0 .. fc.scopeDepth + 1
               PROVE  Base(g, b) = Base(fc, b)
    OBVIOUS
  <2>1. b \in Nat /\ fc.locals[n].depth >= b
    BY <1>2, <1>3
  <2> QED BY <1>16, <2>1
<1>18. p.locals = fc.locals /\ Live(p) = n
  BY <1>2, <1>6 DEF SameButScope, Live
<1> HIDE DEF v, s2, dep
<1>19. Running(fns, p, v, X, s2, out)
  BY <1>12, <1>13
<1>20. Running(fns, g, v, X, in, out)
  <2>1. Lesser(Live(g), v.now) >= Lesser(Live(p), v.now)
    BY <1>2, <1>14, <1>16, <1>18 DEF Lesser
  <2>2. \A b \in 0 .. out.depth : Base(g, b) = Base(p, b)
    <3>1. \A b \in 0 .. out.depth : b \in 0 .. fc.scopeDepth + 1
      BY <1>2
    <3>2. \A b : Base(p, b) = Base(fc, b)
      BY <1>18 DEF Base
    <3> QED BY <1>17, <3>1, <3>2
  <2>3. At(g, v.now, in)
    <3>1. g.scopeDepth = in.depth
      BY <1>2 DEF SameButScope
    <3> QED BY <1>14, <1>16, <3>1 DEF At
  <2> QED BY <1>1, <1>15, <1>16, <1>19, <2>1, <2>2, <2>3, RunningScopes
<1> QED BY <1>17, <1>20 DEF v

(* What has no locals of deeper scopes has come to rest.                   *)
LEMMA PoppedRests ==
  ASSUME NEW fns, NEW fc, NEW w, NEW X, NEW in, NEW out,
         Running(fns, fc, w, X, in, out), in.kind = "popping", Rest(out), out.depth = in.depth,
         out.kind = "exact" => Base(fc, in.depth + 1) = 1 .. out.height,
         ~(fc.locals[Len(fc.locals)].depth > fc.scopeDepth)
  PROVE  Running(fns, fc, w, X, out, out)
<1> DEFINE n == Len(fc.locals)
<1>1. in \in Situations /\ out \in Situations /\ At(fc, w.now, in) /\ Ready(fns, fc, w, Awaited(fc.todo) \cup X, out)
  BY DEF Running
<1>2. Standing(fc, w, in)
  BY RunningStands
<1>3. IsFunctionCompiler(fc) /\ LocalsSound(fc)
  BY <1>2 DEF Standing
<1>4. w.now = n /\ Live(fc) = n /\ fc.scopeDepth = in.depth
  BY <1>1 DEF At
<1>5. n \in Nat /\ n >= 1 /\ DOMAIN fc.locals = 1 .. n
  BY <1>3, LiveFacts
<1>6. in.depth \in Nat /\ out.height \in Nat
  BY <1>1, SituationFacts
<1>7. \A i \in 1 .. n : fc.locals[i].depth \in Nat
  <2>1. \A i \in DOMAIN fc.locals : fc.locals[i].depth \in 0 .. UINT8_MAX
    BY <1>3 DEF LocalsSound
  <2> HIDE DEF n
  <2> QED BY <1>5, <2>1
<1>8. \A i \in 1 .. n : fc.locals[i].depth <= fc.scopeDepth
  <2> SUFFICES ASSUME NEW i \in 1 .. n
               PROVE  fc.locals[i].depth <= fc.scopeDepth
    OBVIOUS
  <2>1. n \in i .. Len(fc.locals) /\ n \in 1 .. n
    BY <1>5
  <2>2. fc.locals[i].depth <= fc.locals[n].depth
    BY <1>3, <1>5, <2>1 DEF LocalsSound
  <2>3. fc.locals[i].depth \in Nat /\ fc.locals[n].depth \in Nat
    BY <1>7, <2>1
  <2>4. ~(fc.locals[n].depth > fc.scopeDepth)
    OBVIOUS
  <2> QED BY <1>4, <1>6, <2>2, <2>3, <2>4
<1>9. Scoped(fc)
  BY <1>4, <1>8 DEF Scoped
<1>10. out.kind = "exact" => w.now = out.height /\ out.live = out.height /\ out.locals = out.height
  <2> SUFFICES ASSUME out.kind = "exact"
               PROVE  w.now = out.height /\ out.live = out.height /\ out.locals = out.height
    OBVIOUS
  <2>1. Base(fc, in.depth + 1) = 1 .. n
    <3>1. \A i \in 1 .. n : fc.locals[i].depth < in.depth + 1
      BY <1>4, <1>6, <1>7, <1>8
    <3> HIDE DEF n
    <3> QED BY <1>5, <3>1 DEF Base
  <2>2. 1 .. n = 1 .. out.height
    BY <2>1
  <2>3. n = out.height
    <3> HIDE DEF n
    <3>0. n \in 1 .. n
      BY <1>5
    <3>1. n \in 1 .. out.height
      BY <2>2, <3>0
    <3>2. out.height \in 1 .. n
      BY <1>5, <1>6, <2>2, <3>1
    <3> QED BY <1>5, <1>6, <3>1, <3>2
  <2> QED BY <1>4, <2>3 DEF Rest, Settled, Loose
<1>11. At(fc, w.now, out)
  <2>1. fc.scopeDepth = out.depth
    BY <1>4
  <2> QED BY <1>4, <1>9, <1>10, <2>1 DEF At
<1> QED BY <1>1, <1>11 DEF Running

(* A local is popped, in the compiler.                                     *)
LEMMA RunsPops ==
  ASSUME NEW d, NEW t, NEW w, NEW m, NEW in, NEW out, NEW e, NEW g, NEW f,
         Runs(d, t, w, m, {}, in, out), Quiet(d, t, w, m), JumpHere(t) = 0, ~m.hadError,
         in.kind = "popping", out.depth = in.depth,
         Inner(m).locals[Len(Inner(m).locals)].depth > Inner(m).scopeDepth,
         e = Emit(m, <<OP_POP>>), g = [Inner(e) EXCEPT !.locals = Front(Inner(e).locals)],
         f = With(e, g)
  PROVE  /\ Runs(d, t, w, f, {}, in, out) /\ Inner(f) = g /\ Working(f) /\ IsFunctionCompiler(g)
         /\ Base(g, in.depth + 1) = Base(Inner(m), in.depth + 1)
<1> DEFINE fc == Inner(m)
<1>1. Emission(d, t, w, m, {}, in, out, <<OP_POP>>, e)
  BY RunsEmission, ShortSequences
<1>2. Working(d) /\ Working(m) /\ Inward(d, m)
  BY RunsWorking
<1>3. Inward(d, e) /\ Working(e) /\ ~e.hadError
  BY <1>1 DEF Emission, Inward
<1>4. PICK a : Window(d, t, w, e) = After(fc, w, NextHeight(w, t, <<OP_POP>>[1], a))
  BY <1>1, <1>3 DEF Emission
<1>5. /\ SameButCode(fc, Inner(e)) /\ Inner(e).code = fc.code \o <<OP_POP>>
      /\ Running(d.functions, fc, w, {}, in, out) /\ Standing(fc, w, in)
  BY <1>1, <1>3 DEF Emission
<1>6. Window(d, t, w, e) = After(fc, w, w.now - 1)
  <2>1. NextHeight(w, t, <<OP_POP>>[1], a) = w.now + Growth(OP_POP, a)
    BY DEF NextHeight
  <2>2. Growth(OP_POP, a) = -1 /\ w.now \in Nat
    BY <1>5, OpFacts DEF Standing
  <2> QED BY <1>4, <2>1, <2>2
<1>7. /\ IsFunctionCompiler(Inner(e)) /\ Inner(e).locals = fc.locals /\ Inner(e).scopeDepth = fc.scopeDepth
      /\ Inner(e).type = fc.type /\ Inner(e).upvalues = fc.upvalues /\ Inner(e).arity = fc.arity
      /\ Inner(e).todo = fc.todo
  BY <1>5 DEF SameButCode
<1>8. IsSequence(Front(fc.locals))
  <2>1. IsSequence(fc.locals) /\ fc.locals # << >>
    BY <1>5 DEF Standing, IsFunctionCompiler, LocalsSound
  <2> QED BY <2>1, SequenceFront
<1>9. SameButScope(Inner(e), g, Front(fc.locals), fc.scopeDepth)
  <2>1. SameButScope(Inner(e), g, Front(fc.locals), Inner(e).scopeDepth)
    BY <1>7, <1>8, ScopeSet
  <2> QED BY <1>7, <2>1
<1>10. /\ Running(d.functions, g, After(fc, w, w.now - 1), {}, in, out)
       /\ \A b \in 0 .. fc.scopeDepth + 1 : Base(g, b) = Base(fc, b)
  <2>1. in.kind = "popping" /\ out.depth = in.depth /\ fc.locals[Len(fc.locals)].depth > fc.scopeDepth
    OBVIOUS
  <2> HIDE DEF fc
  <2> DEFINE i == Inner(e)
  <2>2. SameButCode(fc, i) /\ i.code = fc.code \o <<OP_POP>> /\ SameButScope(i, g, Front(fc.locals), fc.scopeDepth)
    BY <1>5, <1>9
  <2>4. Running(d.functions, fc, w, {}, in, out)
    BY <1>5
  <2> HIDE DEF i
  <2> DEFINE fns == d.functions
  <2> HIDE DEF fns
  <2>3. Running(fns, fc, w, {}, in, out)
    BY <2>4 DEF fns
  <2>5. Running(fns, g, After(fc, w, w.now - 1), {}, in, out)
    BY <2>1, <2>2, <2>3, RunningPops
  <2>6. \A b \in 0 .. fc.scopeDepth + 1 : Base(g, b) = Base(fc, b)
    BY <2>1, <2>2, <2>3, RunningPops
  <2> QED BY <2>5, <2>6 DEF fns
<1>11. Base(g, in.depth + 1) = Base(fc, in.depth + 1)
  <2>1. in.depth = fc.scopeDepth /\ in.depth \in Nat
    BY <1>5, SituationFacts DEF Standing, Running
  <2> QED BY <1>10, <2>1
<1>12. Inward(e, f) /\ Inner(f) = g /\ f.hadError = e.hadError /\ Working(f)
  BY <1>3, WithFacts DEF Inward
<1>13. Inward(d, f)
  BY <1>3, <1>12, InwardChain
<1>14. Window(d, t, w, f) = Window(d, t, w, e)
  BY <1>9, <1>12 DEF Window, SameButScope
<1>15. Inner(m).type = Inner(d).type /\ Inner(m).upvalues = Inner(d).upvalues
       /\ Inner(m).arity = Inner(d).arity /\ Inner(m).todo # << >>
  BY DEF Runs
<1>16. g.type = fc.type /\ g.upvalues = fc.upvalues /\ g.arity = fc.arity /\ g.todo = fc.todo
       /\ IsFunctionCompiler(g)
  BY <1>7, <1>9 DEF SameButScope
<1>17. Running(d.functions, Inner(f), Window(d, t, w, f), {}, in, out)
  BY <1>6, <1>10, <1>12, <1>14
<1>18. Runs(d, t, w, f, {}, in, out)
  BY <1>2, <1>12, <1>13, <1>15, <1>16, <1>17 DEF Runs
<1> QED BY <1>11, <1>12, <1>16, <1>18

LEMMA PopLocalsArrives ==
  ASSUME NEW d, NEW t, NEW w, NEW m, NEW in, NEW out,
         Runs(d, t, w, m, {}, in, out), Quiet(d, t, w, m), JumpHere(t) = 0,
         in.kind = "popping", Rest(out), out.depth = in.depth,
         ~m.hadError => (out.kind = "exact" => Base(Inner(m), in.depth + 1) = 1 .. out.height)
  PROVE  Arrives(d, t, w, PopLocals(m))
<1> DEFINE fc == Inner(m)
           e == Emit(m, <<OP_POP>>)
           g == [Inner(e) EXCEPT !.locals = Front(Inner(e).locals)]
           f == With(e, g)
           u == Task("PopLocals", << >>)
           deep == fc.locals # << >> /\ Last(fc.locals).depth > fc.scopeDepth
<1>1. Working(d) /\ Working(m) /\ Inward(d, m)
  BY RunsWorking
<1>2. CASE m.hadError
  <2>1. Inward(m, PopLocals(m))
    BY <1>1, PopLocalsInward
  <2> QED BY <1>1, <1>2, <2>1, FailedArrives
<1>3. CASE ~m.hadError
  <2>1. /\ IsFunctionCompiler(fc) /\ LocalsSound(fc) /\ in \in Situations /\ out \in Situations
    BY <1>3, RunsAt
  <2>2. fc.locals # << >> /\ Last(fc.locals) = fc.locals[Len(fc.locals)]
    BY <2>1 DEF LocalsSound, Last
  <2>3. PopLocals(m) = IF deep THEN Then(f, <<u>>) ELSE m
    BY DEF PopLocals
  <2>4. u.do = "PopLocals" /\ AwaitedBy(u) = {} /\ u.do \notin Bottom
    BY DEF Task, AwaitedBy, Bottom
  <2>5. CASE deep
    <3> HIDE DEF u
    <3>1. fc.locals[Len(fc.locals)].depth > fc.scopeDepth
      BY <2>2, <2>5
    <3>0. e = Emit(m, <<OP_POP>>) /\ g = [Inner(e) EXCEPT !.locals = Front(Inner(e).locals)] /\ f = With(e, g)
      OBVIOUS
    <3> HIDE DEF e, g, f, u, deep
    <3>2. /\ Runs(d, t, w, f, {}, in, out) /\ Inner(f) = g /\ Working(f) /\ IsFunctionCompiler(g)
          /\ Base(g, in.depth + 1) = Base(fc, in.depth + 1)
      BY <1>3, <3>0, <3>1, RunsPops
    <3>3. Fits(u, in, out)
      BY <2>4 DEF Fits
    <3>4. Finds(Inner(f), Window(d, t, w, f), u, in, out)
      BY <1>3, <2>4, <3>2 DEF Finds
    <3>5. NextFinds(Then(f, <<u>>))
      <4>1. Last(Inner(Then(f, <<u>>)).todo) = u
        BY <3>2, NextPushed
      <4> QED BY <2>4, <4>1 DEF NextFinds
    <3>6. out.depth <= in.depth
      BY <2>1, SituationFacts
    <3>7. Arrives(d, t, w, Then(f, <<u>>))
      BY <2>4, <3>2, <3>3, <3>4, <3>5, <3>6, RunsImmediate
    <3> QED BY <2>3, <2>5, <3>7 DEF f, e, g, u
  <2>6. CASE ~deep
    <3>1. ~(fc.locals[Len(fc.locals)].depth > fc.scopeDepth)
      BY <2>2, <2>6
    <3>2. Running(d.functions, fc, Window(d, t, w, m), {}, in, out)
      BY <1>3 DEF Runs
    <3>3. Running(d.functions, fc, Window(d, t, w, m), {}, out, out)
      BY <1>3, <3>1, <3>2, PoppedRests
    <3>4. Runs(d, t, w, m, {}, out, out)
      BY <1>3, <3>3 DEF Runs
    <3>5. Arrives(d, t, w, m)
      BY <3>4, RunsArrives
    <3> QED BY <2>3, <2>6, <3>5
  <2> QED BY <2>5, <2>6
<1> QED BY <1>2, <1>3

LEMMA PopLocalsTaskArrives ==
  ASSUME NEW d, NEW t, NEW w, NEW in, NEW out, Turn(d, t, w, in, out), t.do = "PopLocals"
  PROVE  Arrives(d, t, w, PopLocals(d))
<1>1. Runs(d, t, w, d, {}, in, out) /\ Quiet(d, t, w, d) /\ Window(d, t, w, d) = w
  <2>1. AwaitedBy(t) = {}
    BY DEF AwaitedBy
  <2> QED BY <2>1, TurnFacts
<1>2. JumpHere(t) = 0
  BY DEF JumpHere
<1>3. in.kind = "popping" /\ Rest(out) /\ out.depth = in.depth
  BY DEF Turn, Fits
<1>4. out.kind = "exact" => Base(Inner(d), in.depth + 1) = 1 .. out.height
  BY DEF Turn, Finds
<1> QED BY <1>1, <1>2, <1>3, <1>4, PopLocalsArrives

LEMMA EndScopeArrives ==
  ASSUME NEW d, NEW t, NEW w, NEW in, NEW out, Turn(d, t, w, in, out), t.do = "EndScope",
         in.depth < UINT8_MAX
  PROVE  Arrives(d, t, w, EndScope(d))
<1> DEFINE fc == Inner(d)
           g == [fc EXCEPT !.scopeDepth = Byte8(fc.scopeDepth - 1)]
           f == With(d, g)
           p == Popping(in.depth - 1)
<1>1. Runs(d, t, w, d, {}, in, out) /\ Quiet(d, t, w, d) /\ Window(d, t, w, d) = w /\ ~d.hadError
      /\ Working(d)
  <2>1. AwaitedBy(t) = {}
    BY DEF AwaitedBy
  <2> QED BY <2>1, TurnFacts
<1>2. JumpHere(t) = 0
  BY DEF JumpHere
<1>3. in.kind = "loose" /\ in.depth >= 1 /\ Rest(out) /\ out.depth = in.depth - 1
  BY DEF Turn, Fits
<1>4. out.kind = "exact" => Base(fc, in.depth) = 1 .. out.height
  BY DEF Turn, Finds
<1>5. /\ Standing(fc, w, in) /\ in \in Situations /\ out \in Situations /\ At(fc, w.now, in)
      /\ IsFunctionCompiler(fc) /\ LocalsSound(fc)
  <2>1. /\ Standing(fc, Window(d, t, w, d), in) /\ in \in Situations /\ out \in Situations
        /\ At(fc, Window(d, t, w, d).now, in) /\ IsFunctionCompiler(fc) /\ LocalsSound(fc)
    BY <1>1, RunsAt
  <2> QED BY <1>1, <2>1
<1>6. in.depth \in Nat /\ fc.scopeDepth = in.depth
  BY <1>5, SituationFacts DEF At
<1>7. Byte8(fc.scopeDepth - 1) = in.depth - 1 /\ in.depth - 1 \in Nat /\ in.depth - 1 + 1 = in.depth
  <2>1. in.depth - 1 \in 0 .. UINT8_MAX
    BY <1>3, <1>6, UInt8Assumption
  <2>2. fc.scopeDepth - 1 = in.depth - 1
    BY <1>6
  <2> QED BY <1>6, <2>1, <2>2, Byte8OfByte
<1>8. SameButScope(fc, g, fc.locals, in.depth - 1)
  <2>1. IsSequence(fc.locals)
    BY <1>5 DEF IsFunctionCompiler
  <2>2. SameButScope(fc, g, fc.locals, Byte8(fc.scopeDepth - 1))
    BY <1>5, <2>1, ScopeSet
  <2> QED BY <1>7, <2>2
<1> HIDE DEF g
<1>9. g.locals = fc.locals /\ g.scopeDepth = in.depth - 1 /\ g.code = fc.code
  BY <1>8 DEF SameButScope
<1>10. LocalsSound(g) /\ Live(g) = Live(fc)
  BY <1>5, <1>9 DEF LocalsSound, Live
<1>11. \A b : Base(g, b) = Base(fc, b)
  BY <1>9 DEF Base
<1>12. p \in Situations /\ p.kind = "popping" /\ p.depth = in.depth - 1
  BY <1>7, SituationFacts
<1>13. At(g, w.now, p)
  <2>1. w.now = Live(fc) /\ Live(fc) = Len(fc.locals)
    BY <1>3, <1>5 DEF At
  <2> QED BY <1>9, <1>10, <1>12, <2>1 DEF At
<1> HIDE DEF p
<1>14. Lesser(Live(g), w.now) >= Lesser(Live(fc), w.now)
  <2>1. Lesser(Live(fc), w.now) \in Nat
    BY <1>5, LesserFacts DEF Standing
  <2> QED BY <1>10, <2>1
<1>15. /\ Runs(d, t, w, f, {}, p, out)
       /\ ~f.hadError => Inner(f) = g /\ Window(d, t, w, f) = Window(d, t, w, d)
  <2>1. /\ Lesser(Live(g), Window(d, t, w, d).now) >= Lesser(Live(fc), Window(d, t, w, d).now)
        /\ At(g, Window(d, t, w, d).now, p)
    BY <1>1, <1>13, <1>14
  <2>2. \A b \in 0 .. out.depth : Base(g, b) = Base(fc, b)
    BY <1>11
  <2> QED BY <1>1, <1>8, <1>10, <1>12, <2>1, <2>2, RunsWith
<1> HIDE DEF f
<1>16. Quiet(d, t, w, f)
  BY <1>1, <1>9, <1>10, <1>15 DEF Quiet
<1>17. ~f.hadError => (out.kind = "exact" => Base(Inner(f), p.depth + 1) = 1 .. out.height)
  BY <1>4, <1>7, <1>11, <1>12, <1>15
<1>18. out.depth = p.depth
  BY <1>3, <1>12
<1>19. Arrives(d, t, w, PopLocals(f))
  BY <1>2, <1>3, <1>12, <1>15, <1>16, <1>17, <1>18, PopLocalsArrives
<1>20. EndScope(d) = PopLocals(f)
  BY DEF EndScope, f, g
<1> QED BY <1>19, <1>20

(* Variables are declared.                                                 *)
NewLocal(name) == [name |-> name, depth |-> UINT8_MAX]

LEMMA AppendedLocals ==
  ASSUME NEW fc, NEW g, NEW name, IsFunctionCompiler(fc), LocalsSound(fc), Scoped(fc),
         Live(fc) = Len(fc.locals), fc.scopeDepth \in Nat, fc.scopeDepth < UINT8_MAX,
         g.locals = Append(fc.locals, NewLocal(name)), g.scopeDepth = fc.scopeDepth
  PROVE  /\ LocalsSound(g) /\ Live(g) = Live(fc) /\ Len(g.locals) = Len(fc.locals) + 1 /\ Scoped(g)
         /\ \A b \in 0 .. UINT8_MAX : Base(g, b) = Base(fc, b)
<1> DEFINE n == Len(fc.locals)
<1>1. n \in Nat /\ n >= 1 /\ DOMAIN fc.locals = 1 .. n /\ IsSequence(fc.locals)
  BY LiveFacts DEF IsFunctionCompiler
<1>2. /\ IsSequence(g.locals) /\ Len(g.locals) = n + 1 /\ g.locals # << >>
      /\ \A i \in 1 .. n : g.locals[i] = fc.locals[i]
      /\ g.locals[n + 1] = NewLocal(name)
  BY <1>1, SequenceAppend
<1>3. DOMAIN g.locals = 1 .. n + 1
  BY <1>2, SequenceFacts
<1>4. UINT8_MAX \in Nat /\ UINT8_MAX >= 1
  BY UInt8Assumption
<1>5. NewLocal(name).depth = UINT8_MAX /\ NewLocal(name).name = name
      /\ NewLocal(name) = [name |-> NewLocal(name).name, depth |-> NewLocal(name).depth]
  BY DEF NewLocal
<1> HIDE DEF n
<1>12. \A i \in 1 .. n : fc.locals[i].depth <= fc.scopeDepth
  BY <1>1 DEF Scoped, n
<1>13. \A i \in 1 .. n : fc.locals[i].depth \in 0 .. UINT8_MAX
  BY <1>1 DEF LocalsSound
<1>6. \A i \in 1 .. n : i > 1 => fc.locals[i].depth >= 1
  BY <1>1 DEF LocalsSound
<1>14. \A i \in 1 .. n : fc.locals[i] = [name |-> fc.locals[i].name, depth |-> fc.locals[i].depth]
  BY <1>1 DEF LocalsSound
<1>11. \A i \in 1 .. n : \A j \in i .. n : fc.locals[i].depth <= fc.locals[j].depth
  BY <1>1 DEF LocalsSound, n
<1>7. LocalsSound(g)
  <2>1. g.locals[1] = [name |-> "", depth |-> 0]
    <3>1. fc.locals[1] = [name |-> "", depth |-> 0]
      BY DEF LocalsSound
    <3>2. 1 \in 1 .. n
      BY <1>1
    <3> QED BY <1>2, <3>1, <3>2
  <2>2. ASSUME NEW i \in 1 .. n + 1
        PROVE  /\ g.locals[i] = [name |-> g.locals[i].name, depth |-> g.locals[i].depth]
               /\ g.locals[i].depth \in 0 .. UINT8_MAX
               /\ i > 1 => g.locals[i].depth >= 1
               /\ i < n + 1 => g.locals[i].depth # UINT8_MAX
               /\ \A j \in i .. n + 1 : g.locals[i].depth <= g.locals[j].depth
    <3>1. CASE i = n + 1
      <4>1. \A j \in i .. n + 1 : j = n + 1
        BY <1>1, <3>1
      <4>2. g.locals[i] = NewLocal(name)
        BY <1>2, <3>1
      <4>3. g.locals[i].depth = UINT8_MAX
        BY <1>5, <4>2
      <4> QED BY <1>1, <1>4, <1>5, <3>1, <4>1, <4>2, <4>3
    <3>2. CASE i # n + 1
      <4>1. i \in 1 .. n
        BY <1>1, <3>2
      <4>2. g.locals[i] = fc.locals[i]
        BY <1>2, <4>1
      <4>3. fc.locals[i].depth \in 0 .. UINT8_MAX /\ fc.locals[i].depth <= fc.scopeDepth
        BY <1>12, <1>13, <4>1
      <4>4. ASSUME NEW j \in i .. n + 1
            PROVE  g.locals[i].depth <= g.locals[j].depth
        <5>1. CASE j = n + 1
          <6>1. g.locals[j].depth = UINT8_MAX
            BY <1>2, <1>5, <5>1
          <6> QED BY <1>4, <4>2, <4>3, <6>1
        <5>2. CASE j # n + 1
          <6>1. j \in i .. n /\ j \in 1 .. n
            BY <1>1, <4>1, <5>2
          <6> QED BY <1>2, <1>11, <4>1, <4>2, <6>1
        <5> QED BY <5>1, <5>2
      <4>5. g.locals[i].depth # UINT8_MAX
        BY <1>4, <4>2, <4>3
      <4>6. /\ fc.locals[i] = [name |-> fc.locals[i].name, depth |-> fc.locals[i].depth]
            /\ i > 1 => fc.locals[i].depth >= 1
        <5>1. i > 1 => fc.locals[i].depth >= 1
          BY <1>6, <4>1
        <5>2. fc.locals[i] = [name |-> fc.locals[i].name, depth |-> fc.locals[i].depth]
          BY <1>14, <4>1, Zenon
        <5> QED BY <5>1, <5>2
      <4> QED BY <4>2, <4>3, <4>4, <4>5, <4>6
    <3> QED BY <3>1, <3>2
  <2> QED BY <1>2, <1>3, <2>1, <2>2 DEF LocalsSound
<1>8. Live(g) = n
  <2>1. Last(g.locals) = NewLocal(name)
    BY <1>2 DEF Last
  <2> QED BY <1>1, <1>2, <1>5, <2>1 DEF Live
<1>9. Scoped(g)
  <2>1. \A i \in 1 .. n : g.locals[i] = fc.locals[i] /\ fc.locals[i].depth <= fc.scopeDepth
    BY <1>2, <1>12
  <2> QED BY <1>8, <2>1 DEF Scoped
<1>10. ASSUME NEW b \in 0 .. UINT8_MAX
       PROVE  Base(g, b) = Base(fc, b)
  <2>1. n + 1 \notin Base(g, b)
    BY <1>2, <1>4, <1>5 DEF Base
  <2>2. \A i \in 1 .. n + 1 : i # n + 1 => i \in 1 .. n
    BY <1>1
  <2>3. \A i \in 1 .. n : i \in 1 .. n + 1
    BY <1>1
  <2> QED BY <1>1, <1>2, <1>3, <2>1, <2>2, <2>3 DEF Base
<1> QED BY <1>2, <1>7, <1>8, <1>9, <1>10 DEF n

LEMMA MarkedLocals ==
  ASSUME NEW fc, NEW g, NEW n, IsFunctionCompiler(fc), LocalsSound(fc), Scoped(fc),
         n = Len(fc.locals), fc.scopeDepth \in Nat, fc.scopeDepth < UINT8_MAX, fc.scopeDepth >= 1,
         n \notin Base(fc, fc.scopeDepth), g.scopeDepth = fc.scopeDepth,
         g.locals = [fc.locals EXCEPT ![n] = [fc.locals[n] EXCEPT !.depth = fc.scopeDepth]]
  PROVE  /\ LocalsSound(g) /\ Live(g) = n /\ Len(g.locals) = n /\ Scoped(g)
         /\ \A b \in 0 .. fc.scopeDepth : Base(g, b) = Base(fc, b)
<1> DEFINE x == [fc.locals[n] EXCEPT !.depth = fc.scopeDepth]
<1>1. n \in Nat /\ n >= 1 /\ DOMAIN fc.locals = 1 .. n /\ IsSequence(fc.locals) /\ n \in 1 .. n /\ 1 \in 1 .. n
  BY LiveFacts DEF IsFunctionCompiler
<1>2. \A i \in 1 .. n : fc.locals[i] = [name |-> fc.locals[i].name, depth |-> fc.locals[i].depth]
  BY <1>1 DEF LocalsSound
<1>3. x.depth = fc.scopeDepth /\ x = [name |-> x.name, depth |-> x.depth]
  <2>1. fc.locals[n] = [name |-> fc.locals[n].name, depth |-> fc.locals[n].depth]
    BY <1>1, <1>2
  <2> DEFINE y == fc.locals[n]
  <2>2. y = [name |-> y.name, depth |-> y.depth] /\ x = [y EXCEPT !.depth = fc.scopeDepth]
    BY <2>1
  <2> HIDE DEF y, x
  <2>3. x = [name |-> y.name, depth |-> fc.scopeDepth]
    BY <2>2
  <2> QED BY <2>3
<1> HIDE DEF x
<1>4. /\ IsSequence(g.locals) /\ Len(g.locals) = n
      /\ \A i \in 1 .. n : g.locals[i] = IF i = n THEN x ELSE fc.locals[i]
  <2>1. g.locals = [fc.locals EXCEPT ![n] = x]
    BY DEF x
  <2> DEFINE l == fc.locals
             r == [l EXCEPT ![n] = x]
  <2>2. IsSequence(l) /\ Len(l) = n
    BY <1>1
  <2> HIDE DEF l
  <2>3. IsSequence(r) /\ Len(r) = Len(l)
    BY ONLY <2>2, SequenceExcept
  <2>5. \A i \in 1 .. Len(l) : r[i] = IF i = n THEN x ELSE l[i]
    BY ONLY <2>2, SequenceExcept
  <2> HIDE DEF r
  <2>4. g.locals = r
    BY <2>1 DEF r, l
  <2> QED BY <2>2, <2>3, <2>4, <2>5 DEF l
<1>5. DOMAIN g.locals = 1 .. n /\ g.locals # << >>
  BY <1>1, <1>4, SequenceFacts
<1>6. g.locals[n] = x /\ \A i \in 1 .. n : i # n => g.locals[i] = fc.locals[i]
  BY <1>1, <1>4
<1>7. UINT8_MAX \in Nat
  BY ONLY UInt8Assumption
<1>8. \A i \in 1 .. n : fc.locals[i].depth \in 0 .. UINT8_MAX
  BY <1>1 DEF LocalsSound
<1>9. \A i \in 1 .. n : i # n => fc.locals[i].depth <= fc.scopeDepth
  <2>1. Live(fc) \in {n - 1, n}
    BY LiveFacts
  <2>2. \A i \in 1 .. n : i # n => i \in 1 .. Live(fc)
    BY <1>1, <2>1
  <2> QED BY <2>2 DEF Scoped
<1>10. \A i \in 1 .. n : i > 1 => fc.locals[i].depth >= 1
  BY <1>1 DEF LocalsSound
<1>11. \A i \in 1 .. n : \A j \in i .. n : fc.locals[i].depth <= fc.locals[j].depth
  BY <1>1 DEF LocalsSound
<1>12. n # 1
  <2>1. fc.locals[1] = [name |-> "", depth |-> 0]
    BY DEF LocalsSound
  <2>2. fc.locals[1].depth = [name |-> "", depth |-> 0].depth
    BY ONLY <2>1
  <2>3. [name |-> "", depth |-> 0].depth = 0
    BY ONLY TRUE
  <2>4. 1 \in Base(fc, fc.scopeDepth)
    BY <1>1, <2>2, <2>3 DEF Base
  <2> QED BY <2>4
<1>13. LocalsSound(g)
  <2>1. g.locals[1] = [name |-> "", depth |-> 0]
    <3>1. fc.locals[1] = [name |-> "", depth |-> 0]
      BY DEF LocalsSound
    <3> QED BY <1>1, <1>6, <1>12, <3>1
  <2>2. ASSUME NEW i \in 1 .. n
        PROVE  /\ g.locals[i] = [name |-> g.locals[i].name, depth |-> g.locals[i].depth]
               /\ g.locals[i].depth \in 0 .. UINT8_MAX
               /\ i > 1 => g.locals[i].depth >= 1
               /\ i < n => g.locals[i].depth # UINT8_MAX
               /\ \A j \in i .. n : g.locals[i].depth <= g.locals[j].depth
    <3>1. CASE i = n
      <4>1. \A j \in i .. n : j = n
        BY <1>1, <3>1
      <4>2. g.locals[i] = x /\ g.locals[i].depth = fc.scopeDepth
        BY <1>3, <1>6, <3>1
      <4> QED BY <1>1, <1>3, <1>7, <3>1, <4>1, <4>2
    <3>2. CASE i # n
      <4>2. g.locals[i] = fc.locals[i]
        BY <1>6, <3>2
      <4>3. fc.locals[i].depth \in 0 .. UINT8_MAX /\ fc.locals[i].depth <= fc.scopeDepth
        BY <1>8, <1>9, <3>2
      <4>4. ASSUME NEW j \in i .. n
            PROVE  g.locals[i].depth <= g.locals[j].depth
        <5>1. CASE j = n
          <6>1. g.locals[j].depth = fc.scopeDepth
            BY <1>3, <1>6, <5>1
          <6> QED BY <4>2, <4>3, <6>1
        <5>2. CASE j # n
          <6>1. j \in 1 .. n
            BY <1>1
          <6> QED BY <1>6, <1>11, <4>2, <5>2, <6>1
        <5> QED BY <5>1, <5>2
      <4>5. g.locals[i].depth # UINT8_MAX
        BY <1>7, <4>2, <4>3
      <4>6. i > 1 => fc.locals[i].depth >= 1
        BY <1>10
      <4>7. fc.locals[i] = [name |-> fc.locals[i].name, depth |-> fc.locals[i].depth]
        BY <1>2, Zenon
      <4> QED BY <4>2, <4>3, <4>4, <4>5, <4>6, <4>7
    <3> QED BY <3>1, <3>2
  <2> QED BY <1>4, <1>5, <2>1, <2>2 DEF LocalsSound
<1>14. Live(g) = n
  <2>1. Last(g.locals) = x
    BY <1>4, <1>6 DEF Last
  <2>2. x.depth # UINT8_MAX
    BY <1>3, <1>7
  <2> QED BY <1>4, <2>1, <2>2 DEF Live
<1>15. Scoped(g)
  <2>1. \A i \in 1 .. n : g.locals[i].depth <= fc.scopeDepth
    BY <1>3, <1>6, <1>9
  <2> QED BY <1>14, <2>1 DEF Scoped
<1>16. ASSUME NEW b \in 0 .. fc.scopeDepth
       PROVE  Base(g, b) = Base(fc, b)
  <2>1. n \notin Base(g, b)
    <3>1. ~(fc.scopeDepth < b)
      OBVIOUS
    <3> QED BY <1>3, <1>6, <3>1 DEF Base
  <2>2. n \notin Base(fc, b)
    <3>1. ~(fc.locals[n].depth < fc.scopeDepth)
      BY <1>1 DEF Base
    <3>2. fc.locals[n].depth \in 0 .. UINT8_MAX
      BY <1>1, <1>8
    <3>3. ~(fc.locals[n].depth < b)
      BY <3>1, <3>2
    <3> QED BY <3>3 DEF Base
  <2> QED BY <1>1, <1>5, <1>6, <2>1, <2>2 DEF Base
<1> QED BY <1>4, <1>13, <1>14, <1>15, <1>16

Declared(in) == IF in.depth = 0 THEN in ELSE [in EXCEPT !.locals = in.locals + 1]

LEMMA DeclaredFacts ==
  ASSUME NEW in \in Situations, in.kind = "exact"
  PROVE  /\ Declared(in) \in Situations /\ Declared(in).kind = "exact" /\ Declared(in).depth = in.depth
         /\ Declared(in).height = in.height /\ Declared(in).live = in.live
         /\ Declared(in).locals = IF in.depth = 0 THEN in.locals ELSE in.locals + 1
<1>1. in \in {Exact(d, h, l, n) : d \in Nat, h \in Nat, l \in Nat, n \in Nat}
  BY DEF Situations, Loose, Popping
<1>2. PICK d \in Nat, h \in Nat, l \in Nat, n \in Nat : in = Exact(d, h, l, n)
  BY <1>1
<1>3. Declared(in) = IF d = 0 THEN in ELSE Exact(d, h, l, n + 1)
  BY <1>2 DEF Declared, Exact
<1>4. n + 1 \in Nat
  BY <1>2
<1>5. /\ in.depth = d /\ in.height = h /\ in.live = l /\ in.locals = n
  BY <1>2, SituationFacts, SMTT(30)
<1> DEFINE e == Exact(d, h, l, n + 1)
<1>6. e \in Situations /\ e.kind = "exact" /\ e.depth = d /\ e.height = h /\ e.live = l /\ e.locals = n + 1
  <2> DEFINE k == n + 1
  <2> HIDE DEF k
  <2>1. k \in Nat
    BY <1>4 DEF k
  <2>2. Exact(d, h, l, k) \in Situations
    BY <2>1, SituationFacts
  <2>3. LET e2 == Exact(d, h, l, k)
        IN  e2.kind = "exact" /\ e2.depth = d /\ e2.height = h /\ e2.live = l /\ e2.locals = k
    BY SituationFacts, SMTT(30)
  <2> QED BY <2>2, <2>3 DEF k
<1> HIDE DEF e
<1>7. CASE d = 0
  BY <1>3, <1>5, <1>7
<1>8. CASE d # 0
  <2>1. Declared(in) = e
    BY <1>3, <1>8 DEF e
  <2> QED BY <1>5, <1>6, <1>8, <2>1
<1> QED BY <1>7, <1>8

(* A variable has been declared, and its name or its local is there.       *)
DeclaredWell(d, t, w, m, f, in, out) ==
  /\ Runs(d, t, w, f, {}, Declared(in), out)
  /\ Quiet(d, t, w, m) => Quiet(d, t, w, f)
  /\ ~f.hadError => /\ ~m.hadError /\ Inner(f).code = Inner(m).code /\ Inner(f).scopeDepth = in.depth
                    /\ Inner(m).scopeDepth = in.depth
                    /\ in.depth > 0 => in.locals + 1 \notin Base(Inner(f), in.depth)

LEMMA DeclareRuns ==
  ASSUME NEW d, NEW t, NEW w, NEW m, NEW in \in Situations, NEW out, NEW f,
         Runs(d, t, w, m, {}, in, out), in.kind = "exact", in.live = in.locals,
         in.depth < UINT8_MAX, out.depth <= in.depth, f = DeclareVariable(m)
  PROVE  DeclaredWell(d, t, w, m, f, in, out)
<1> DEFINE fc == Inner(m)
           n == Len(fc.locals)
           name == Previous(m).lexeme
           l == Append(fc.locals, NewLocal(name))
           g == [fc EXCEPT !.locals = l]
<1>1. Working(d) /\ Working(m) /\ Inward(d, m)
  BY RunsWorking
<1>2. Inward(m, f) /\ Inward(d, f)
  BY <1>1, DeclareVariableInward, InwardChain
<1>3. CASE f.hadError
  BY <1>1, <1>2, <1>3 DEF DeclaredWell, Runs, Quiet
<1>4. CASE ~f.hadError
  <2>1. ~m.hadError
    BY <1>2, <1>4 DEF Inward
  <2>2. /\ Standing(fc, Window(d, t, w, m), in) /\ At(fc, Window(d, t, w, m).now, in)
        /\ IsFunctionCompiler(fc) /\ LocalsSound(fc) /\ out \in Situations
    BY <2>1, RunsAt
  <2>3. fc.scopeDepth = in.depth /\ in.depth \in Nat /\ Scoped(fc) /\ Live(fc) = n /\ in.locals = n
    <3>1. in.depth \in Nat
      BY SituationFacts
    <3> QED BY <2>2, <3>1 DEF At
  <2>4. CASE in.depth = 0
    <3>1. f = m
      BY <2>3, <2>4 DEF DeclareVariable
    <3>2. Declared(in) = in
      BY <2>4 DEF Declared
    <3> QED BY <2>1, <2>3, <2>4, <3>1, <3>2 DEF DeclaredWell
  <2>5. CASE in.depth # 0
    <3>1. PICK p : f = With(p, g) /\ p \in {m, Error(m)}
      <4>1. PICK p : f = With(p, [fc EXCEPT !.locals = Append(@, [name |-> name, depth |-> UINT8_MAX])])
                     /\ p \in {m, Error(m)}
        BY <2>3, <2>5 DEF DeclareVariable
      <4> QED BY <4>1 DEF NewLocal
    <3>2. p = m
      <4>1. Working(Error(m)) /\ Error(m).hadError
        BY <1>1, ErrorInward
      <4>2. Working(p)
        BY <1>1, <3>1, <4>1
      <4>3. f.hadError = p.hadError
        BY <3>1, <4>2, WithFacts
      <4> QED BY <1>4, <3>1, <4>1, <4>3
    <3>3. IsSequence(fc.locals)
      BY <2>2 DEF IsFunctionCompiler
    <3>4. IsSequence(l)
      BY <3>3, SequenceAppend
    <3>5. SameButScope(fc, g, l, fc.scopeDepth)
      BY <2>2, <3>4, ScopeSet
    <3> HIDE DEF g
    <3>6. g.locals = l /\ g.scopeDepth = fc.scopeDepth /\ g.code = fc.code
      BY <3>5 DEF SameButScope
    <3>7. /\ LocalsSound(g) /\ Live(g) = Live(fc) /\ Len(g.locals) = n + 1 /\ Scoped(g)
          /\ \A b \in 0 .. UINT8_MAX : Base(g, b) = Base(fc, b)
      BY <2>2, <2>3, <3>6, AppendedLocals
    <3> HIDE DEF l
    <3>8. \A b \in 0 .. in.depth : Base(g, b) = Base(fc, b)
      <4>1. \A b \in 0 .. in.depth : b \in 0 .. UINT8_MAX
        BY <2>3, UInt8Assumption
      <4> QED BY <3>7, <4>1
    <3>9. \A b \in 0 .. out.depth : Base(g, b) = Base(fc, b)
      <4>1. out.depth \in Nat
        BY <2>2, SituationFacts
      <4>2. \A b \in 0 .. out.depth : b \in 0 .. in.depth
        BY <2>3, <4>1
      <4> QED BY <3>8, <4>2
    <3>10. /\ Declared(in) \in Situations /\ Declared(in).kind = "exact" /\ Declared(in).depth = in.depth
           /\ Declared(in).height = in.height /\ Declared(in).live = in.live
           /\ Declared(in).locals = in.locals + 1
      BY <2>5, DeclaredFacts
    <3>11. At(g, Window(d, t, w, m).now, Declared(in))
      <4>1. Window(d, t, w, m).now = in.height /\ Live(fc) = in.live
        BY <2>2 DEF At
      <4> QED BY <2>3, <3>6, <3>7, <3>10, <4>1 DEF At
    <3>12. Lesser(Live(g), Window(d, t, w, m).now) >= Lesser(Live(fc), Window(d, t, w, m).now)
      <4>1. Lesser(Live(fc), Window(d, t, w, m).now) \in Nat
        BY <2>2, LesserFacts DEF Standing
      <4> QED BY <3>7, <4>1
    <3>13. /\ Runs(d, t, w, With(m, g), {}, Declared(in), out)
           /\ ~With(m, g).hadError => Inner(With(m, g)) = g /\ Window(d, t, w, With(m, g)) = Window(d, t, w, m)
      BY <3>5, <3>7, <3>9, <3>10, <3>11, <3>12, RunsWith
    <3>14. Runs(d, t, w, f, {}, Declared(in), out) /\ Inner(f) = g /\ Window(d, t, w, f) = Window(d, t, w, m)
      BY <1>4, <3>1, <3>2, <3>13
    <3>15. Quiet(d, t, w, m) => Quiet(d, t, w, f)
      BY <2>1, <3>6, <3>7, <3>14 DEF Quiet
    <3>16. in.locals + 1 \notin Base(g, in.depth)
      <4>1. in.locals + 1 \notin Base(fc, in.depth)
        BY <2>2, <2>3, LiveFacts DEF Base
      <4>2. in.depth \in 0 .. in.depth
        BY <2>3
      <4> QED BY <3>8, <4>1, <4>2
    <3> QED BY <2>1, <2>3, <3>6, <3>14, <3>15, <3>16 DEF DeclaredWell
  <2> QED BY <2>4, <2>5
<1> QED BY <1>3, <1>4

Named(fc, in, k) ==
  IF in.depth = 0 THEN IsString(fc, k) ELSE in.locals + 1 \notin Base(fc, in.depth)

ParsedWell(d, t, w, m, f, in, out) ==
  /\ Runs(d, t, w, f, {}, Declared(in), out)
  /\ Quiet(d, t, w, m) => Quiet(d, t, w, f)
  /\ ~f.hadError => /\ ~m.hadError /\ Inner(f).code = Inner(m).code
                    /\ Named(Inner(f), in, ConstantIndex(f))

LEMMA ParseVariableRuns ==
  ASSUME NEW d, NEW t, NEW w, NEW m, NEW in \in Situations, NEW out, NEW f,
         Runs(d, t, w, m, {}, in, out), in.kind = "exact", in.live = in.locals,
         in.depth < UINT8_MAX, out.depth <= in.depth, f = ParseVariable(m)
  PROVE  ParsedWell(d, t, w, m, f, in, out)
<1> DEFINE p == Consume(m, "IDENTIFIER")
           q == DeclareVariable(p)
           v == StringConstant(Previous(q).lexeme)
           e == MakeConstant(q, v)
<1>1. Working(d) /\ Working(m) /\ Inward(d, m)
  BY RunsWorking
<1>2. Inward(m, f) /\ Inward(d, f)
  BY <1>1, ParseVariableInward, InwardChain
<1>3. CASE f.hadError
  BY <1>1, <1>2, <1>3 DEF ParsedWell, Runs, Quiet
<1>4. CASE ~f.hadError
  <2>1. /\ Runs(d, t, w, p, {}, in, out)
        /\ Quiet(d, t, w, m) => Quiet(d, t, w, p)
        /\ ~p.hadError => ~m.hadError /\ Inner(p) = Inner(m)
    BY RunsConsume
  <2>2. f = IF Inner(q).scopeDepth > 0 THEN q ELSE e
    BY DEF ParseVariable
  <2> HIDE DEF p
  <2>3. DeclaredWell(d, t, w, p, q, in, out)
    BY <2>1, DeclareRuns
  <2>4. v.type # "FUNCTION" /\ v.type = "STRING"
    BY DEF StringConstant
  <2> HIDE DEF q, v
  <2>5. Runs(d, t, w, q, {}, Declared(in), out)
    BY <2>3 DEF DeclaredWell
  <2>6. Working(q)
    BY <2>5, RunsWorking
  <2>7. ~q.hadError
    <3>1. Inward(q, e)
      BY <2>6, AddConstantInward
    <3> QED BY <1>4, <2>2, <3>1 DEF Inward
  <2>8. /\ Quiet(d, t, w, p) => Quiet(d, t, w, q)
        /\ ~p.hadError /\ Inner(q).code = Inner(p).code /\ Inner(q).scopeDepth = in.depth
        /\ in.depth > 0 => in.locals + 1 \notin Base(Inner(q), in.depth)
    BY <2>3, <2>7 DEF DeclaredWell
  <2>9. in.depth \in Nat
    BY SituationFacts
  <2>10. CASE in.depth = 0
    <3>1. f = e
      BY <2>2, <2>8, <2>10
    <3>2. /\ Runs(d, t, w, e, {}, Declared(in), out)
          /\ Quiet(d, t, w, q) => Quiet(d, t, w, e)
          /\ ~e.hadError => Has(e, ConstantIndex(e), v) /\ Inner(e).code = Inner(q).code
      BY <2>4, <2>5, RunsConstant
    <3> HIDE DEF e
    <3>3. IsString(Inner(e), ConstantIndex(e))
      BY <1>4, <2>4, <3>1, <3>2 DEF Has, IsString
    <3> QED BY <1>4, <2>1, <2>8, <2>10, <3>1, <3>2, <3>3 DEF ParsedWell, Named
  <2>11. CASE in.depth # 0
    <3>1. f = q
      BY <2>2, <2>8, <2>9, <2>11
    <3> QED BY <1>4, <2>1, <2>5, <2>8, <2>9, <2>11, <3>1 DEF ParsedWell, Named
  <2> QED BY <2>10, <2>11
<1> QED BY <1>3, <1>4

(* A local gets its value.                                                 *)
Marked(in) == IF in.depth = 0 THEN in ELSE [in EXCEPT !.live = in.locals]

LEMMA MarkedFacts ==
  ASSUME NEW in \in Situations, in.kind = "exact"
  PROVE  /\ Marked(in) \in Situations /\ Marked(in).kind = "exact" /\ Marked(in).depth = in.depth
         /\ Marked(in).height = in.height /\ Marked(in).locals = in.locals
         /\ Marked(in).live = IF in.depth = 0 THEN in.live ELSE in.locals
<1>1. in \in {Exact(d, h, l, n) : d \in Nat, h \in Nat, l \in Nat, n \in Nat}
  BY DEF Situations, Loose, Popping
<1>2. PICK d \in Nat, h \in Nat, l \in Nat, n \in Nat : in = Exact(d, h, l, n)
  BY <1>1
<1>3. /\ in.depth = d /\ in.height = h /\ in.live = l /\ in.locals = n
  BY <1>2, SituationFacts
<1>4. Marked(in) = IF d = 0 THEN in ELSE Exact(d, h, n, n)
  BY <1>2 DEF Marked, Exact
<1> DEFINE e == Exact(d, h, n, n)
<1>5. e \in Situations /\ e.kind = "exact" /\ e.depth = d /\ e.height = h /\ e.live = n /\ e.locals = n
  BY SituationFacts, SMTT(30)
<1> HIDE DEF e
<1>6. CASE d = 0
  BY <1>3, <1>4, <1>6
<1>7. CASE d # 0
  <2>1. Marked(in) = e
    BY <1>4, <1>7 DEF e
  <2> QED BY <1>3, <1>5, <1>7, <2>1
<1> QED BY <1>6, <1>7

MarkedWell(d, t, w, m, f, in, out) ==
  /\ Runs(d, t, w, f, {}, Marked(in), out)
  /\ ~f.hadError => /\ ~m.hadError /\ Inner(f).code = Inner(m).code
                    /\ Inner(f).constants = Inner(m).constants
                    /\ \A b \in 0 .. in.depth : Base(Inner(f), b) = Base(Inner(m), b)

LEMMA MarkRuns ==
  ASSUME NEW d, NEW t, NEW w, NEW m, NEW in \in Situations, NEW out, NEW f,
         Runs(d, t, w, m, {}, in, out), in.kind = "exact",
         in.depth < UINT8_MAX, out.depth <= in.depth, f = MarkInitialized(m),
         ~m.hadError => (in.depth # 0 => in.locals \notin Base(Inner(m), in.depth))
  PROVE  MarkedWell(d, t, w, m, f, in, out)
<1> DEFINE fc == Inner(m)
           n == Len(fc.locals)
           l == [fc.locals EXCEPT ![n] = [fc.locals[n] EXCEPT !.depth = fc.scopeDepth]]
           g == [fc EXCEPT !.locals = l]
<1>1. Working(d) /\ Working(m) /\ Inward(d, m)
  BY RunsWorking
<1>2. Inward(m, f) /\ Inward(d, f)
  BY <1>1, MarkInitializedInward, InwardChain
<1>3. CASE f.hadError
  BY <1>1, <1>2, <1>3 DEF MarkedWell, Runs
<1>4. CASE ~f.hadError
  <2>1. ~m.hadError
    BY <1>2, <1>4 DEF Inward
  <2>2. /\ Standing(fc, Window(d, t, w, m), in) /\ At(fc, Window(d, t, w, m).now, in)
        /\ IsFunctionCompiler(fc) /\ LocalsSound(fc) /\ out \in Situations
    BY <2>1, RunsAt
  <2>3. fc.scopeDepth = in.depth /\ in.depth \in Nat /\ Scoped(fc) /\ in.locals = n
    BY <2>2, SituationFacts DEF At
  <2>4. CASE in.depth = 0
    <3>1. f = m
      BY <2>3, <2>4 DEF MarkInitialized
    <3>2. Marked(in) = in
      BY <2>4 DEF Marked
    <3> QED BY <2>1, <2>3, <2>4, <3>1, <3>2 DEF MarkedWell
  <2>5. CASE in.depth # 0
    <3>1. f = With(m, g)
      BY <2>3, <2>5 DEF MarkInitialized
    <3>2. IsSequence(l)
      <4>1. IsSequence(fc.locals)
        BY <2>2 DEF IsFunctionCompiler
      <4> DEFINE s == fc.locals
                 x == [fc.locals[n] EXCEPT !.depth = fc.scopeDepth]
      <4>2. l = [s EXCEPT ![n] = x] /\ IsSequence(s)
        BY <4>1
      <4> HIDE DEF s, x
      <4>3. IsSequence([s EXCEPT ![n] = x])
        BY ONLY <4>2, SequenceExcept
      <4> HIDE DEF l
      <4> QED BY <4>2, <4>3
    <3>3. SameButScope(fc, g, l, fc.scopeDepth)
      BY <2>2, <3>2, ScopeSet
    <3> HIDE DEF g
    <3>4. g.locals = l /\ g.scopeDepth = fc.scopeDepth /\ g.code = fc.code /\ g.constants = fc.constants
      BY <3>3 DEF SameButScope
    <3>5. /\ LocalsSound(g) /\ Live(g) = n /\ Len(g.locals) = n /\ Scoped(g)
          /\ \A b \in 0 .. fc.scopeDepth : Base(g, b) = Base(fc, b)
      <4>1. fc.scopeDepth \in Nat /\ fc.scopeDepth < UINT8_MAX /\ fc.scopeDepth >= 1
        BY <2>3, <2>5
      <4>2. n \notin Base(fc, fc.scopeDepth)
        BY <2>1, <2>3, <2>5, Zenon
      <4>3. g.locals = [fc.locals EXCEPT ![n] = [fc.locals[n] EXCEPT !.depth = fc.scopeDepth]]
        BY <3>4, Zenon
      <4> HIDE DEF l
      <4> QED BY <2>2, <2>3, <3>4, <4>1, <4>2, <4>3, MarkedLocals, Zenon
    <3> HIDE DEF l
    <3>6. \A b \in 0 .. out.depth : Base(g, b) = Base(fc, b)
      <4>1. out.depth \in Nat
        BY <2>2, SituationFacts
      <4>2. \A b \in 0 .. out.depth : b \in 0 .. fc.scopeDepth
        BY <2>3, <4>1
      <4> QED BY <3>5, <4>2
    <3>7. /\ Marked(in) \in Situations /\ Marked(in).kind = "exact" /\ Marked(in).depth = in.depth
          /\ Marked(in).height = in.height /\ Marked(in).live = in.locals
          /\ Marked(in).locals = in.locals
      BY <2>5, MarkedFacts
    <3>8. At(g, Window(d, t, w, m).now, Marked(in))
      <4>1. Window(d, t, w, m).now = in.height
        BY <2>2 DEF At
      <4> QED BY <2>3, <3>4, <3>5, <3>7, <4>1 DEF At
    <3>9. Lesser(Live(g), Window(d, t, w, m).now) >= Lesser(Live(fc), Window(d, t, w, m).now)
      <4>1. Live(fc) \in {n - 1, n} /\ n \in Nat /\ Live(fc) \in Nat
        BY <2>2, LiveFacts
      <4>2. Window(d, t, w, m).now \in Nat
        BY <2>2 DEF Standing
      <4> QED BY <3>5, <4>1, <4>2 DEF Lesser
    <3>10. /\ Runs(d, t, w, With(m, g), {}, Marked(in), out)
           /\ ~With(m, g).hadError => Inner(With(m, g)) = g /\ Window(d, t, w, With(m, g)) = Window(d, t, w, m)
      BY <3>3, <3>5, <3>6, <3>7, <3>8, <3>9, RunsWith
    <3>11. Runs(d, t, w, f, {}, Marked(in), out) /\ Inner(f) = g
      BY <1>4, <3>1, <3>10
    <3> QED BY <2>1, <2>3, <3>4, <3>5, <3>11 DEF MarkedWell
  <2> QED BY <2>4, <2>5
<1> QED BY <1>3, <1>4

DefinedWell(d, t, w, m, f, in, out) ==
  /\ Runs(d, t, w, f, {}, Loose(in.depth), out)
  /\ ~f.hadError /\ in.depth # 0 => ~m.hadError /\ Inner(f).code = Inner(m).code

Definable(in) ==
  IF in.depth = 0 THEN in.height = in.live + 1 /\ in.live = in.locals ELSE in.height = in.locals

LEMMA GlobalApplies ==
  ASSUME NEW fc, NEW k, NEW h \in Nat, NEW l, IsString(fc, k), h >= 2
  PROVE  Applies(Finished(fc), OP_DEFINE_GLOBAL, k, h, l)
<1>1. Finished(fc).constants = fc.constants
  BY FinishedFields
<1>2. k + 1 \in DOMAIN Finished(fc).constants /\ Finished(fc).constants[k + 1].type = "STRING"
  BY <1>1 DEF IsString
<1> QED BY <1>2 DEF Applies, EmittedOps, TakingOps, SetOps

LEMMA DefineRuns ==
  ASSUME NEW d, NEW t, NEW w, NEW m, NEW in \in Situations, NEW out, NEW k, NEW f,
         Runs(d, t, w, m, {}, in, out), Quiet(d, t, w, m), JumpHere(t) = 0, in.kind = "exact",
         in.depth < UINT8_MAX, out.depth <= in.depth, Definable(in), f = DefineVariable(m, k),
         ~m.hadError => IF in.depth = 0 THEN IsString(Inner(m), k)
                        ELSE in.locals \notin Base(Inner(m), in.depth)
  PROVE  DefinedWell(d, t, w, m, f, in, out)
<1> DEFINE fc == Inner(m)
           e == Emit(m, <<OP_DEFINE_GLOBAL, k>>)
           p == MarkInitialized(m)
<1>1. Working(d) /\ Working(m) /\ Inward(d, m)
  BY RunsWorking
<1>2. Inward(m, f) /\ Inward(d, f)
  BY <1>1, DefineVariableInward, InwardChain
<1>3. CASE f.hadError
  BY <1>1, <1>2, <1>3 DEF DefinedWell, Runs
<1>4. CASE ~f.hadError
  <2>1. ~m.hadError
    BY <1>2, <1>4 DEF Inward
  <2>2. Standing(fc, Window(d, t, w, m), in)
    BY <2>1, RunsAt
  <2>3. fc.scopeDepth = in.depth /\ in.depth \in Nat /\ in.live >= 1 /\ in.height \in Nat /\ in.live \in Nat
    BY <2>2, SituationFacts, SMTT(30) DEF Standing
  <2>4. CASE in.depth = 0
    <3>1. f = e
      BY <2>3, <2>4 DEF DefineVariable
    <3>2. in.height = in.live + 1 /\ in.live = in.locals
      BY <2>4 DEF Definable
    <3>3. Applies(Finished(fc), OP_DEFINE_GLOBAL, k, in.height, Lesser(in.live, in.height))
      BY <2>1, <2>3, <2>4, <3>2, GlobalApplies
    <3>4. Growth(OP_DEFINE_GLOBAL, k) = -1
      BY OpFacts
    <3>5. in.height + Growth(OP_DEFINE_GLOBAL, k) = in.height - 1 /\ in.height - 1 \in Nat \ {0}
      BY <2>3, <3>2, <3>4
    <3> DEFINE s == To(in, in.height - 1)
    <3>6. Runs(d, t, w, e, {}, To(in, in.height + Growth(OP_DEFINE_GLOBAL, k)), out)
      <4>1. OP_DEFINE_GLOBAL \in ByteOps
        OBVIOUS
      <4>2. in.height + Growth(OP_DEFINE_GLOBAL, k) \in Nat \ {0}
        BY <3>5
      <4> QED BY <3>3, <4>1, <4>2, RunsByte
    <3>7. Runs(d, t, w, e, {}, s, out)
      BY <3>5, <3>6
    <3>8. s.kind = "exact" /\ s.height = in.height - 1 /\ s.live = in.live /\ s.locals = in.locals
          /\ s.depth = in.depth
      BY <3>5, ToFacts
    <3> HIDE DEF s, e
    <3>9. Becomes(s, Loose(in.depth))
      BY <2>3, <3>2, <3>8 DEF Becomes, Settled
    <3>10. Runs(d, t, w, f, {}, Loose(in.depth), out)
      BY <3>1, <3>7, <3>9, RunsSettles
    <3> QED BY <2>4, <3>10 DEF DefinedWell
  <2>5. CASE in.depth # 0
    <3>1. f = p
      BY <2>3, <2>5 DEF DefineVariable
    <3>2. MarkedWell(d, t, w, m, p, in, out)
      BY <2>5, MarkRuns
    <3> HIDE DEF p
    <3>3. Runs(d, t, w, p, {}, Marked(in), out) /\ Inner(p).code = fc.code
      BY <1>4, <3>1, <3>2 DEF MarkedWell
    <3> DEFINE s == Marked(in)
    <3>4. s.kind = "exact" /\ s.height = in.height /\ s.live = in.locals /\ s.locals = in.locals
          /\ s.depth = in.depth
      BY <2>5, MarkedFacts
    <3>5. Runs(d, t, w, p, {}, s, out)
      BY <3>3
    <3> HIDE DEF s
    <3>6. Becomes(s, Loose(in.depth))
      BY <2>5, <3>4 DEF Becomes, Settled, Definable
    <3>7. Runs(d, t, w, f, {}, Loose(in.depth), out)
      BY <3>1, <3>5, <3>6, RunsSettles
    <3> QED BY <2>1, <3>1, <3>3, <3>7 DEF DefinedWell
  <2> QED BY <2>4, <2>5
<1> QED BY <1>3, <1>4

LEMMA DefineVariableArrives ==
  ASSUME NEW d, NEW t, NEW w, NEW in, NEW out, Turn(d, t, w, in, out), t.do = "DefineVariable",
         in.depth < UINT8_MAX
  PROVE  Arrives(d, t, w, DefineVariable(d, t.args[1]))
<1>1. Runs(d, t, w, d, {}, in, out) /\ Quiet(d, t, w, d) /\ in \in Situations
  <2>1. AwaitedBy(t) = {}
    BY DEF AwaitedBy
  <2> QED BY <2>1, TurnFacts
<1>2. JumpHere(t) = 0
  BY DEF JumpHere
<1>3. in.kind = "exact" /\ out = Loose(in.depth) /\ Definable(in)
  BY DEF Turn, Fits, Definable
<1>4. IF in.depth = 0 THEN IsString(Inner(d), t.args[1]) ELSE in.locals \notin Base(Inner(d), in.depth)
  BY DEF Turn, Finds
<1>5. out.depth <= in.depth
  BY DEF Turn
<1> DEFINE e == DefineVariable(d, t.args[1])
<1>6. DefinedWell(d, t, w, d, e, in, out)
  BY <1>1, <1>2, <1>3, <1>4, <1>5, DefineRuns
<1> HIDE DEF e
<1>7. Runs(d, t, w, e, {}, out, out)
  BY <1>3, <1>6 DEF DefinedWell
<1>8. Arrives(d, t, w, e)
  BY <1>7, RunsArrives
<1> QED BY <1>8 DEF e

LEMMA VarInitializerArrives ==
  ASSUME NEW d, NEW t, NEW w, NEW in, NEW out, Turn(d, t, w, in, out), t.do = "VarInitializer"
  PROVE  Arrives(d, t, w, VarInitializer(d))
<1>1. Runs(d, t, w, d, {}, in, out) /\ Quiet(d, t, w, d) /\ in \in Situations
  <2>1. AwaitedBy(t) = {}
    BY DEF AwaitedBy
  <2> QED BY <2>1, TurnFacts
<1>2. JumpHere(t) = 0
  BY DEF JumpHere
<1>3. Values(in, 0) /\ out = Grown(in, 1)
  BY DEF Turn, Fits
<1>4. in.kind = "exact" /\ in.height \in Nat /\ in.height + 1 \in Nat
  BY <1>1, <1>3, SituationFacts DEF Values
<1>5. out = To(in, in.height + 1)
  BY <1>1, <1>3, <1>4, ToGrown
<1> DEFINE e == Advance(d)
<1>6. Arrives(d, t, w, Then(e, <<Expression>>))
  <2>1. Runs(d, t, w, e, {}, in, out)
    BY <1>1, RunsAdvance
  <2> HIDE DEF e
  <2>2. Ahead(d, t, w, e, Expression, in, out)
    <3>1. ASSIGNMENT \in 1 .. 9
      BY DEF ASSIGNMENT
    <3> QED BY <1>1, <1>3, <1>5, <3>1, AheadParsing DEF Expression
  <2> QED BY <2>1, <2>2, ThenOneArrives
<1>7. Arrives(d, t, w, Emit(d, <<OP_NIL>>))
  <2>1. OP_NIL \in EmittedOps \ SetOps /\ Growth(OP_NIL, 0) = 1 /\ Taken(OP_NIL) = 0 /\ OP_NIL # OP_RETURN
    BY OpFacts
  <2>2. Runs(d, t, w, Emit(d, <<OP_NIL>>), {}, Grown(in, Growth(OP_NIL, 0)), out)
    BY <1>1, <1>2, <1>3, <2>1, RunsOp
  <2>3. Runs(d, t, w, Emit(d, <<OP_NIL>>), {}, out, out)
    BY <1>3, <2>1, <2>2
  <2> QED BY <2>3, RunsArrives
<1>8. VarInitializer(d) = IF Check(d, "EQUAL") THEN Then(e, <<Expression>>) ELSE Emit(d, <<OP_NIL>>)
  BY DEF VarInitializer
<1> QED BY <1>6, <1>7, <1>8

LEMMA DefineAhead ==
  ASSUME NEW d, NEW t, NEW w, NEW m, NEW in \in Situations, NEW k, in.kind = "exact",
         Definable(in), in.depth # 0 => in.live \in {in.locals - 1, in.locals},
         ~m.hadError => IF in.depth = 0 THEN IsString(Inner(m), k)
                        ELSE in.locals \notin Base(Inner(m), in.depth)
  PROVE  /\ Ahead(d, t, w, m, Task("DefineVariable", <<k>>), in, Loose(in.depth))
         /\ AwaitedBy(Task("DefineVariable", <<k>>)) = {}
<1> DEFINE u == Task("DefineVariable", <<k>>)
<1>1. u.do = "DefineVariable" /\ u.args[1] = k
  BY DEF Task
<1> HIDE DEF u
<1>2. Fits(u, in, Loose(in.depth))
  BY <1>1 DEF Fits, Definable
<1>3. ~m.hadError => Finds(Inner(m), Window(d, t, w, m), u, in, Loose(in.depth))
  BY <1>1 DEF Finds
<1>4. Loose(in.depth).depth <= in.depth
  BY SituationFacts
<1>5. u.do \notin Immediate /\ u.do \notin Bottom /\ AwaitedBy(u) = {}
  BY <1>1 DEF Immediate, Bottom, AwaitedBy
<1> QED BY <1>2, <1>3, <1>4, <1>5 DEF Ahead, Waiting, u

LEMMA VarDeclarationArrives ==
  ASSUME NEW d, NEW t, NEW w, NEW in, NEW out, Turn(d, t, w, in, out), t.do = "VarDeclaration",
         in.depth < UINT8_MAX
  PROVE  Arrives(d, t, w, VarDeclaration(d))
<1>1. Runs(d, t, w, d, {}, in, out) /\ in \in Situations /\ ~d.hadError
  <2>1. AwaitedBy(t) = {}
    BY DEF AwaitedBy
  <2> QED BY <2>1, TurnFacts
<1>2. in.kind = "loose" /\ out = in /\ Rest(in) /\ in = Loose(in.depth)
  BY <1>1, SituationFacts DEF Turn, Fits, Rest
<1>3. PICK s \in Situations : /\ Settled(s) /\ s.depth = in.depth /\ s.height >= 1
                              /\ Runs(d, t, w, d, {}, s, out)
  BY <1>1, <1>2, RunsExact
<1>4. s.kind = "exact" /\ s.height = s.live /\ s.live = s.locals /\ s.height \in Nat /\ s.depth \in Nat
  BY <1>3, SettledFacts
<1> DEFINE f == ParseVariable(d)
           r == Declared(s)
           v == To(r, r.height + 1)
           k == ConstantIndex(f)
           a == Task("VarInitializer", << >>)
           b == Consuming("SEMICOLON")
           p == Task("DefineVariable", <<k>>)
<1>5. VarDeclaration(d) = Then(f, <<a, b, p>>)
  BY DEF VarDeclaration
<1>6. /\ r \in Situations /\ r.kind = "exact" /\ r.depth = s.depth
      /\ r.height = s.height /\ r.live = s.live
      /\ r.locals = IF s.depth = 0 THEN s.locals ELSE s.locals + 1
  BY <1>3, <1>4, DeclaredFacts
<1>7. ParsedWell(d, t, w, d, f, s, out)
  <2>1. s.depth < UINT8_MAX /\ out.depth <= s.depth
    BY <1>2, <1>3, <1>4
  <2> QED BY <1>3, <1>4, <2>1, ParseVariableRuns
<1> HIDE DEF f
<1>8. /\ Runs(d, t, w, f, {}, r, out)
      /\ ~f.hadError => Named(Inner(f), s, k)
  BY <1>7 DEF ParsedWell
<1> HIDE DEF r, k
<1>9. r.height + 1 \in Nat /\ Values(r, 0)
  BY <1>4, <1>6 DEF Values
<1>10. /\ v \in Situations /\ v.kind = "exact" /\ v.depth = r.depth /\ v.height = r.height + 1
       /\ v.live = r.live /\ v.locals = r.locals
  BY <1>6, <1>9, ToFacts
<1>11. v = Grown(r, 1)
  BY <1>6, <1>9, ToGrown
<1> HIDE DEF v
<1>12. Ahead(d, t, w, f, a, r, v) /\ AwaitedBy(a) = {}
  <2>1. a.do = "VarInitializer" /\ a.do \in PlainTasks
    BY DEF Task, PlainTasks
  <2> HIDE DEF a
  <2>2. Fits(a, r, v)
    BY <1>9, <1>11, <2>1 DEF Fits
  <2>3. v.depth <= r.depth
    BY <1>4, <1>6, <1>10
  <2> QED BY <1>6, <2>1, <2>2, <2>3, AheadPlain
<1>13. Ahead(d, t, w, f, b, v, v) /\ AwaitedBy(b) = {}
  BY <1>10, AheadConsuming
<1>14. Ahead(d, t, w, f, p, v, Loose(v.depth)) /\ AwaitedBy(p) = {}
  <2>1. Definable(v) /\ (v.depth # 0 => v.live \in {v.locals - 1, v.locals})
    BY <1>4, <1>6, <1>10 DEF Definable
  <2>2. ~f.hadError => IF v.depth = 0 THEN IsString(Inner(f), k)
                       ELSE v.locals \notin Base(Inner(f), v.depth)
    BY <1>4, <1>6, <1>8, <1>10 DEF Named
  <2> QED BY <1>10, <2>1, <2>2, DefineAhead
<1>15. Loose(v.depth) = out
  BY <1>2, <1>3, <1>6, <1>10
<1> HIDE DEF a, b, p
<1>16. {} \subseteq AwaitedBy(a) \cup AwaitedBy(b) \cup AwaitedBy(p)
  OBVIOUS
<1>17. Ahead(d, t, w, f, p, v, out)
  BY <1>14, <1>15
<1>18. Arrives(d, t, w, Then(f, <<a, b, p>>))
  BY <1>8, <1>12, <1>13, <1>16, <1>17, ThenThreeArrives
<1> QED BY <1>5, <1>18
=============================================================================
