--------------------------- MODULE ScannerProofs ----------------------------
(***************************************************************************)
(* Proofs about the scanner, for every alphabet and sources of every       *)
(* length: the tokens of a source tile it, with the lines they are on,     *)
(* each is the longest lexeme the grammar allows, and numbers are read     *)
(* whole.                                                                  *)
(*                                                                         *)
(* The loops of the scanner are Past, the first position that a loop does  *)
(* not take, and SkipWhitespace, a recursion which is shown to exist and   *)
(* to end.  Every kind of lexeme has a lemma about the longest of its kind *)
(* and one about the disjunct of scanToken that takes it.                  *)
(***************************************************************************)
EXTENDS ScannerSafety, Induction, FiniteSetTheorems, SequenceTheorems

(* The first of a set of positions, and the last of one with an end.       *)
LEMMA MinIs ==
  ASSUME NEW S \in SUBSET Nat, S # {}
  PROVE  Min(S) \in S /\ \A n \in S : Min(S) <= n
<1>1. \E m \in S : \A n \in S : m <= n
  BY LeastElement
<1> QED BY <1>1 DEF Min

LEMMA MaxIs ==
  ASSUME NEW S \in SUBSET Nat, NEW m \in S, \A n \in S : n <= m
  PROVE  Max(S) = m
<1>1. \E k \in S : \A n \in S : k >= n
  OBVIOUS
<1>2. Max(S) \in S /\ \A n \in S : Max(S) >= n
  BY <1>1 DEF Max
<1>3. Max(S) \in Nat /\ Max(S) >= m /\ Max(S) <= m /\ m \in Nat
  BY <1>2
<1> QED BY <1>3

-----------------------------------------------------------------------------
(* What is at a position.                                                  *)

LEMMA CharsAre ==
  ASSUME source \in Seq(Chars)
  PROVE  /\ Len(source) \in Nat
         /\ \A i \in 0 .. Len(source) - 1 : At(i) \in Chars
         /\ \A i \in Nat : i < Len(source) <=> At(i) # NUL
<1>1. Len(source) \in Nat
  BY LenProperties
<1>2. \A i \in 0 .. Len(source) - 1 : At(i) \in Chars
  BY <1>1, ElementOfSeq DEF At
<1>3. ASSUME NEW i \in Nat
      PROVE  i < Len(source) <=> At(i) # NUL
  <2>1. CASE i < Len(source)
    BY <1>1, <1>2, <2>1, AlphabetsAssumption
  <2>2. CASE ~(i < Len(source))
    BY <2>2 DEF At
  <2> QED BY <2>1, <2>2
<1> QED BY <1>1, <1>2, <1>3

(* Where a loop stops that goes on for as long as it sees one of cs.       *)
LEMMA PastIs ==
  ASSUME source \in Seq(Chars), NEW cs, NUL \notin cs, NEW i \in 0 .. Len(source)
  PROVE  /\ Past(i, cs) \in i .. Len(source)
         /\ At(Past(i, cs)) \notin cs
         /\ \A k \in i .. Past(i, cs) - 1 : At(k) \in cs
<1> DEFINE S == {j \in i .. Len(source) : At(j) \notin cs}
<1>1. Len(source) \in Nat /\ At(Len(source)) = NUL
  BY CharsAre
<1>2. S \in SUBSET Nat /\ Len(source) \in S
  BY <1>1
<1>3. Past(i, cs) = Min(S)
  BY DEF Past
<1>4. Min(S) \in S /\ \A n \in S : Min(S) <= n
  <2> HIDE DEF S
  <2> QED BY <1>2, MinIs
<1>5. PICK p : p = Past(i, cs)
  OBVIOUS
<1>6. p \in i .. Len(source) /\ At(p) \notin cs
  BY <1>3, <1>4, <1>5
<1>7. ASSUME NEW k \in i .. p - 1
      PROVE  At(k) \in cs
  BY <1>1, <1>3, <1>4, <1>5, <1>6
<1> QED BY <1>5, <1>6, <1>7

(* The newlines of two stretches of the source, one after the other.       *)
LEMMA NewlinesAdd ==
  ASSUME NEW i \in Nat, NEW j \in Nat, NEW k \in Nat, i <= j, j <= k
  PROVE  /\ Newlines(i, j) \in Nat /\ Newlines(j, k) \in Nat
         /\ Newlines(i, k) = Newlines(i, j) + Newlines(j, k)
<1> DEFINE N(a, b) == {m \in a .. b - 1 : At(m) = "\n"}
<1>1. \A a, b \in Nat : IsFiniteSet(N(a, b))
  <2> TAKE a, b \in Nat
  <2>1. IsFiniteSet(a .. b - 1)
    BY FS_Interval
  <2>2. N(a, b) \in SUBSET (a .. b - 1)
    OBVIOUS
  <2> HIDE DEF N
  <2> QED BY <2>1, <2>2, FS_Subset
<1>2. N(i, k) = N(i, j) \cup N(j, k) /\ N(i, j) \cap N(j, k) = {}
  OBVIOUS
<1>3. Newlines(i, j) = Cardinality(N(i, j)) /\ Newlines(j, k) = Cardinality(N(j, k))
      /\ Newlines(i, k) = Cardinality(N(i, k))
  BY DEF Newlines
<1> HIDE DEF N
<1>4. IsFiniteSet(N(i, j)) /\ IsFiniteSet(N(j, k))
  BY <1>1
<1>5. Cardinality(N(i, j)) \in Nat /\ Cardinality(N(j, k)) \in Nat
  BY <1>4, FS_CardinalityType
<1>6. Cardinality(N(i, j) \cup N(j, k)) =
        Cardinality(N(i, j)) + Cardinality(N(j, k)) - Cardinality(N(i, j) \cap N(j, k))
  BY <1>4, FS_Union
<1>7. Cardinality(N(i, j) \cap N(j, k)) = 0
  BY <1>2, FS_EmptySet
<1> QED BY <1>2, <1>3, <1>5, <1>6, <1>7

(* A stretch without a newline has none.                                   *)
LEMMA NoNewlines ==
  ASSUME NEW i, NEW j, \A k \in i .. j - 1 : At(k) # "\n"
  PROVE  Newlines(i, j) = 0
<1>1. {k \in i .. j - 1 : At(k) = "\n"} = {}
  OBVIOUS
<1> QED BY <1>1, FS_EmptySet DEF Newlines

-----------------------------------------------------------------------------
(* Whitespace and comments.  SkipWhitespace is defined by recursion, on a  *)
(* later position: that there is such a function is shown by building it   *)
(* from the end of the source.                                             *)

Recursive(f, n, more, next, stop) ==
  f = [i \in 0 .. n |-> IF more[i] THEN f[next[i]] ELSE stop[i]]

LEMMA RecursionExists ==
  ASSUME NEW n \in Nat, NEW more, NEW next, NEW stop,
         \A i \in 0 .. n : more[i] => next[i] \in i + 1 .. n
  PROVE  \E f : Recursive(f, n, more, next, stop)
<1> DEFINE Is(f, m) ==
             f = [i \in n - m .. n |-> IF more[i] THEN f[next[i]] ELSE stop[i]]
           Built == {m \in Nat : m <= n => \E f : Is(f, m)}
<1>1. 0 \in Built
  <2>1. ~more[n]
    OBVIOUS
  <2>2. Is([i \in n - 0 .. n |-> stop[i]], 0)
    BY <2>1
  <2> QED BY <2>2
<1>2. ASSUME NEW m \in Nat, m + 1 <= n, NEW f, Is(f, m)
      PROVE  \E g : Is(g, m + 1)
  <2> DEFINE a == n - (m + 1)
             g == [i \in a .. n |-> IF i = a THEN (IF more[a] THEN f[next[a]] ELSE stop[a])
                                    ELSE f[i]]
  <2>1. a \in Nat /\ n - m = a + 1 /\ a <= n
    BY <1>2
  <2>2. ASSUME NEW i \in a .. n
        PROVE  g[i] = IF more[i] THEN g[next[i]] ELSE stop[i]
    <3>1. i \in 0 .. n
      BY <2>1
    <3>2. more[i] => next[i] \in a + 1 .. n
      BY <2>1, <3>1
    <3>3. more[i] => g[next[i]] = f[next[i]]
      BY <2>1, <3>2
    <3>4. CASE i = a
      BY <3>3, <3>4
    <3>5. CASE i # a
      <4>1. i \in n - m .. n /\ g[i] = f[i]
        BY <2>1, <3>5
      <4>2. f[i] = IF more[i] THEN f[next[i]] ELSE stop[i]
        BY <1>2, <4>1
      <4> QED BY <3>3, <4>1, <4>2
    <3> QED BY <3>4, <3>5
  <2>3. g = [i \in a .. n |-> g[i]]
    OBVIOUS
  <2>4. Is(g, m + 1)
    <3> HIDE DEF g
    <3>1. g = [i \in a .. n |-> IF more[i] THEN g[next[i]] ELSE stop[i]]
      BY <2>2, <2>3
    <3> QED BY <3>1
  <2> HIDE DEF Is, g
  <2> QED BY <2>4
<1>3. ASSUME NEW m \in Nat, m \in Built
      PROVE  m + 1 \in Built
  <2> HIDE DEF Is
  <2> SUFFICES ASSUME m + 1 <= n
               PROVE  \E f : Is(f, m + 1)
    OBVIOUS
  <2>1. \E f : Is(f, m)
    BY <1>3
  <2> QED BY <1>2, <2>1
<1>4. \A m \in Nat : m \in Built
  <2> HIDE DEF Built
  <2> QED BY <1>1, <1>3, NumbersInSet
<1>5. PICK f : Is(f, n)
  <2> HIDE DEF Is
  <2> QED BY <1>4
<1>6. n - n = 0
  OBVIOUS
<1>7. Recursive(f, n, more, next, stop)
  BY <1>5, <1>6 DEF Recursive
<1> QED BY <1>7

(* Where the whitespace from a position on ends, whether a comment begins  *)
(* there, and where that ends.                                             *)
Stop(i) == Past(i, Whitespace)
Comment(j) == At(j) = "/" /\ At(j + 1) = "/"
After(j) == Past(j, Chars \ {"\n"})

LEMMA StopIs ==
  ASSUME source \in Seq(Chars), NEW i \in 0 .. Len(source)
  PROVE  /\ Stop(i) \in i .. Len(source)
         /\ At(Stop(i)) \notin Whitespace
         /\ \A k \in i .. Stop(i) - 1 : At(k) \in Whitespace
<1>1. NUL \notin Whitespace
  BY DEF NUL, Whitespace
<1> QED BY <1>1, PastIs DEF Stop

LEMMA AfterIs ==
  ASSUME source \in Seq(Chars), NEW j \in 0 .. Len(source), At(j) = "/"
  PROVE  /\ After(j) \in j + 1 .. Len(source)
         /\ \A k \in j .. After(j) - 1 : At(k) # "\n"
<1> DEFINE cs == Chars \ {"\n"}
<1>1. NUL \notin cs
  BY AlphabetsAssumption
<1>2. j < Len(source)
  BY CharsAre DEF NUL
<1>3. At(j) \in cs
  BY <1>2, CharsAre
<1>4. /\ Past(j, cs) \in j .. Len(source)
      /\ At(Past(j, cs)) \notin cs
      /\ \A k \in j .. Past(j, cs) - 1 : At(k) \in cs
  <2> HIDE DEF cs
  <2> QED BY <1>1, PastIs
<1>5. PICK p : p = Past(j, cs)
  OBVIOUS
<1>6. p # j
  BY <1>3, <1>4, <1>5
<1>7. After(j) = p
  BY <1>5 DEF After
<1>8. p \in j + 1 .. Len(source)
  BY <1>4, <1>5, <1>6, CharsAre
<1>9. \A k \in j .. p - 1 : At(k) # "\n"
  BY <1>4, <1>5
<1> QED BY <1>7, <1>8, <1>9

LEMMA SkipIs ==
  ASSUME source \in Seq(Chars), NEW i \in 0 .. Len(source)
  PROVE  SkipWhitespace[i] =
           IF Comment(Stop(i)) THEN SkipWhitespace[After(Stop(i))] ELSE Stop(i)
<1> DEFINE n == Len(source)
           more == [k \in 0 .. n |-> Comment(Stop(k))]
           next == [k \in 0 .. n |-> After(Stop(k))]
           stop == [k \in 0 .. n |-> Stop(k)]
           Is(f) == f = [k \in 0 .. n |->
                           IF Comment(Stop(k)) THEN f[After(Stop(k))] ELSE Stop(k)]
<1>1. n \in Nat
  BY CharsAre
<1>2. ASSUME NEW k \in 0 .. n, more[k]
      PROVE  next[k] \in k + 1 .. n
  <2>1. Stop(k) \in k .. n /\ At(Stop(k)) = "/"
    BY <1>2, StopIs DEF Comment
  <2>2. PICK j \in k .. n : j = Stop(k)
    BY <2>1
  <2>3. j \in 0 .. n /\ After(j) \in j + 1 .. n
    BY <1>1, <2>1, <2>2, AfterIs
  <2> QED BY <1>1, <2>2, <2>3
<1>3. PICK f : Recursive(f, n, more, next, stop)
  <2>1. \A k \in 0 .. n : more[k] => next[k] \in k + 1 .. n
    BY <1>2
  <2> HIDE DEF more, next, stop, n
  <2> QED BY <1>1, <2>1, RecursionExists
<1>4. Is(f)
  BY <1>3 DEF Recursive
<1>5. SkipWhitespace = CHOOSE g : Is(g)
  BY Zenon DEF SkipWhitespace, Stop, Comment, After
<1>6. Is(SkipWhitespace)
  <2> HIDE DEF Is
  <2> QED BY <1>4, <1>5
<1> QED BY <1>6

(* Blank stretches are blank together.                                     *)
LEMMA BlankJoins ==
  ASSUME NEW i \in Nat, NEW j \in Nat, NEW k \in Nat, i <= j, j <= k,
         Blank(i, j), Blank(j, k)
  PROVE  Blank(i, k)
<1> SUFFICES ASSUME NEW m \in i .. k - 1, At(m) \notin Whitespace
             PROVE  \E c \in i .. m : At(c) = "/" /\ At(c + 1) = "/" /\ Newlines(c, m) = 0
  BY DEF Blank
<1>1. CASE m < j
  BY <1>1 DEF Blank
<1>2. CASE m >= j
  <2>1. PICK c \in j .. m : At(c) = "/" /\ At(c + 1) = "/" /\ Newlines(c, m) = 0
    BY <1>2 DEF Blank
  <2> QED BY <2>1
<1> QED BY <1>1, <1>2

(* All that SkipWhitespace passes is blank, and it stops at the end or at  *)
(* a character that is not: it never leaves some for the next token.       *)
LEMMA Skipped ==
  ASSUME source \in Seq(Chars), NEW i \in 0 .. Len(source)
  PROVE  /\ SkipWhitespace[i] \in i .. Len(source)
         /\ Blank(i, SkipWhitespace[i])
         /\ At(SkipWhitespace[i]) \notin Whitespace
         /\ ~Comment(SkipWhitespace[i])
<1> DEFINE n == Len(source)
           Right(k, s) == s \in k .. n /\ Blank(k, s) /\ At(s) \notin Whitespace /\ ~Comment(s)
           Done == {m \in Nat : \A k \in 0 .. n : n - k <= m => Right(k, SkipWhitespace[k])}
<1>1. n \in Nat
  BY CharsAre
<1>2. ASSUME NEW k \in 0 .. n,
             \A l \in k + 1 .. n : Right(l, SkipWhitespace[l])
      PROVE  Right(k, SkipWhitespace[k])
  <2>1. PICK j \in k .. n : j = Stop(k)
    BY StopIs
  <2>2. /\ At(j) \notin Whitespace
        /\ \A l \in k .. j - 1 : At(l) \in Whitespace
    BY <2>1, StopIs
  <2>3. Blank(k, j)
    BY <2>2 DEF Blank
  <2>4. CASE ~Comment(j)
    <3>1. SkipWhitespace[k] = j
      BY <2>1, <2>4, SkipIs
    <3> QED BY <2>2, <2>3, <2>4, <3>1
  <2>5. CASE Comment(j)
    <3>1. j \in 0 .. n /\ At(j) = "/" /\ At(j + 1) = "/"
      BY <1>1, <2>5 DEF Comment
    <3>2. PICK l : l = After(j)
      OBVIOUS
    <3>3. l \in j + 1 .. n /\ \A c \in j .. l - 1 : At(c) # "\n"
      BY <3>1, <3>2, AfterIs
    <3>4. SkipWhitespace[k] = SkipWhitespace[l]
      BY <2>1, <2>5, <3>2, SkipIs
    <3>5. l \in k + 1 .. n
      BY <1>1, <3>3
    <3>6. PICK s : s = SkipWhitespace[l]
      OBVIOUS
    <3>7. s \in l .. n /\ Blank(l, s) /\ At(s) \notin Whitespace /\ ~Comment(s)
      BY <1>2, <3>5, <3>6
    <3>8. Blank(j, l)
      <4>1. ASSUME NEW c \in j .. l - 1
            PROVE  j \in j .. c /\ Newlines(j, c) = 0
        <5>1. \A d \in j .. c - 1 : At(d) # "\n"
          BY <3>3
        <5> QED BY <5>1, NoNewlines
      <4> QED BY <3>1, <4>1 DEF Blank
    <3>9. k \in Nat /\ j \in Nat /\ l \in Nat /\ s \in Nat /\ k <= j /\ j <= l /\ l <= s /\ k <= l
      BY <1>1, <3>3, <3>7
    <3>10. Blank(k, l)
      BY <2>3, <3>8, <3>9, BlankJoins
    <3>11. Blank(k, s)
      BY <3>7, <3>9, <3>10, BlankJoins
    <3>12. s \in k .. n
      BY <3>7, <3>9
    <3> QED BY <3>4, <3>6, <3>7, <3>11, <3>12
  <2> QED BY <2>4, <2>5
<1> HIDE DEF Right
<1>3. 0 \in Done
  <2> SUFFICES ASSUME NEW k \in 0 .. n, n - k <= 0
               PROVE  Right(k, SkipWhitespace[k])
    OBVIOUS
  <2>1. \A l \in k + 1 .. n : FALSE
    BY <1>1
  <2> QED BY <1>2, <2>1
<1>4. ASSUME NEW m \in Nat, m \in Done
      PROVE  m + 1 \in Done
  <2> SUFFICES ASSUME NEW k \in 0 .. n, n - k <= m + 1
               PROVE  Right(k, SkipWhitespace[k])
    OBVIOUS
  <2>1. ASSUME NEW l \in k + 1 .. n
        PROVE  Right(l, SkipWhitespace[l])
    <3>1. l \in 0 .. n /\ n - l <= m
      BY <1>1
    <3> QED BY <1>4, <3>1
  <2> QED BY <1>2, <2>1
<1>5. \A m \in Nat : m \in Done
  <2> HIDE DEF Done
  <2> QED BY <1>3, <1>4, NumbersInSet
<1>6. n \in Done /\ n - i <= n
  <2>1. n \in Done
    BY <1>1, <1>5, Zenon
  <2> QED BY <1>1, <2>1
<1>7. Right(i, SkipWhitespace[i])
  BY <1>6
<1> QED BY <1>7 DEF Right

(* No blank stretch begins where SkipWhitespace stops.                     *)
LEMMA NoneIsLeft ==
  ASSUME NEW s \in Nat, At(s) \notin Whitespace, ~Comment(s), NEW j \in Nat, j > s
  PROVE  ~Blank(s, j)
<1> SUFFICES ASSUME Blank(s, j)
             PROVE  FALSE
  OBVIOUS
<1>1. s \in s .. j - 1
  OBVIOUS
<1>2. PICK m \in s .. s : At(m) = "/" /\ At(m + 1) = "/"
  BY <1>1 DEF Blank
<1>3. m = s
  OBVIOUS
<1> QED BY <1>2, <1>3 DEF Comment

-----------------------------------------------------------------------------
(* Where the tokens end.                                                   *)

(* The characters that begin a token are characters of the source.         *)
LEMMA NulIsNone ==
  /\ NUL \notin DOMAIN Singles /\ NUL \notin DOMAIN WithEqual /\ NUL # "="
  /\ NUL \notin Digits /\ NUL \notin Letters /\ NUL # Quote /\ NUL # "."
<1>1. NUL # Quote
  BY Zenon DEF NUL, Quote
<1> QED BY <1>1 DEF NUL, Singles, WithEqual, Digits, Letters

(* The end of a string, of a number, of a word.                            *)
Close(s) == Past(s + 1, Chars \ {Quote})
Word(s) == Past(s + 1, Letters \cup Digits)

LEMMA CloseIs ==
  ASSUME source \in Seq(Chars), NEW s \in 0 .. Len(source) - 1
  PROVE  /\ Close(s) \in s + 1 .. Len(source)
         /\ Close(s) # Len(source) => At(Close(s)) = Quote
         /\ \A k \in s + 1 .. Close(s) - 1 : At(k) # Quote
<1> DEFINE cs == Chars \ {Quote}
<1>1. NUL \notin cs /\ s + 1 \in 0 .. Len(source) /\ Len(source) \in Nat
  <2>1. NUL \notin cs
    BY AlphabetsAssumption
  <2>2. Len(source) \in Nat
    BY CharsAre
  <2> QED BY <2>1, <2>2
<1>2. PICK e, i : e = Close(s) /\ i = s + 1
  OBVIOUS
<1>3. /\ e \in i .. Len(source) /\ At(e) \notin cs
      /\ \A k \in i .. e - 1 : At(k) \in cs
  <2>1. e = Past(i, cs)
    BY <1>2 DEF Close
  <2> HIDE DEF cs
  <2> QED BY <1>1, <1>2, <2>1, PastIs
<1>4. e # Len(source) => At(e) \in Chars
  <2>1. e # Len(source) => e \in 0 .. Len(source) - 1
    BY <1>1, <1>2, <1>3
  <2> QED BY <2>1, CharsAre
<1> QED BY <1>2, <1>3, <1>4

LEMMA WordIs ==
  ASSUME source \in Seq(Chars), NEW s \in 0 .. Len(source) - 1
  PROVE  /\ Word(s) \in s + 1 .. Len(source)
         /\ At(Word(s)) \notin Letters \cup Digits
         /\ \A k \in s + 1 .. Word(s) - 1 : At(k) \in Letters \cup Digits
<1>1. NUL \notin Letters \cup Digits /\ s + 1 \in 0 .. Len(source)
  <2>1. Len(source) \in Nat
    BY CharsAre
  <2> QED BY <2>1, NulIsNone
<1>2. PICK e, i : e = Word(s) /\ i = s + 1
  OBVIOUS
<1>3. e = Past(i, Letters \cup Digits)
  BY <1>2 DEF Word
<1>4. /\ e \in i .. Len(source) /\ At(e) \notin Letters \cup Digits
      /\ \A k \in i .. e - 1 : At(k) \in Letters \cup Digits
  BY <1>1, <1>2, <1>3, PastIs
<1> QED BY <1>2, <1>4

LEMMA DigitsEnd ==
  ASSUME source \in Seq(Chars), NEW i \in 0 .. Len(source)
  PROVE  /\ Past(i, Digits) \in i .. Len(source)
         /\ At(Past(i, Digits)) \notin Digits
         /\ \A k \in i .. Past(i, Digits) - 1 : At(k) \in Digits
BY NulIsNone, PastIs

LEMMA NumberEndIs ==
  ASSUME source \in Seq(Chars), NEW i \in 0 .. Len(source)
  PROVE  NumberEnd(i) \in i .. Len(source)
<1>1. PICK j \in i .. Len(source) : j = Past(i, Digits)
  BY DigitsEnd
<1>2. CASE j > i /\ At(j) = "." /\ At(j + 1) \in Digits
  <2>1. j + 1 \in 0 .. Len(source)
    <3>1. j \in Nat /\ At(j) # NUL /\ Len(source) \in Nat
      BY <1>2, CharsAre, NulIsNone
    <3>2. j < Len(source)
      BY <3>1, CharsAre
    <3> QED BY <3>1, <3>2
  <2>2. Past(j + 1, Digits) \in j + 1 .. Len(source)
    BY <2>1, DigitsEnd
  <2>3. NumberEnd(i) = Past(j + 1, Digits)
    BY <1>1, <1>2 DEF NumberEnd
  <2>4. PICK e \in j + 1 .. Len(source) : e = Past(j + 1, Digits)
    BY <2>2
  <2> QED BY <2>3, <2>4
<1>3. CASE ~(j > i /\ At(j) = "." /\ At(j + 1) \in Digits)
  BY <1>1, <1>3 DEF NumberEnd
<1> QED BY <1>2, <1>3

-----------------------------------------------------------------------------
(* The state of the scanner: its place in the source, and the line of it.  *)

InSource == current \in 0 .. Len(source)
ScannerOK == source \in Seq(Chars) /\ InSource /\ line = 1 + Newlines(0, current)

(* Wherever it begins, a token begins and ends in the source, and it has   *)
(* the line of its end.                                                    *)
LEMMA TokenIs ==
  ASSUME ScannerOK, scanToken
  PROVE  /\ start' = SkipWhitespace[current] /\ source' = source
         /\ current' \in start' .. Len(source)
         /\ line' = LineAt(current') /\ token'.line = line'
<1>1. /\ source \in Seq(Chars) /\ current \in 0 .. Len(source)
      /\ start' = Start /\ source' = source
  BY DEF ScannerOK, InSource, scanToken
<1>2. PICK s : s = Start
  OBVIOUS
<1>3. s \in current .. Len(source) /\ s = SkipWhitespace[current]
  BY <1>1, <1>2, Skipped DEF Start
<1>4. Len(source) \in Nat /\ s \in 0 .. Len(source)
  BY <1>1, <1>3, CharsAre
<1>5. At(s) # NUL => s \in 0 .. Len(source) - 1
  BY <1>1, <1>4, CharsAre
<1> DEFINE Ended(to) == /\ current' = to /\ to \in s .. Len(source)
                        /\ line' = LineAt(to) /\ token'.line = LineAt(to)
<1>6. \A type, to : Taken(type, to) /\ to \in s .. Len(source) => Ended(to)
  BY DEF Taken, Token
<1>7. \A to : Failed(to) /\ to \in s .. Len(source) => Ended(to)
  BY DEF Failed, ErrorToken, Token
<1> HIDE DEF Ended
<1>8. CASE EndOfFile
  <2>1. Taken("END_OF_FILE", s) /\ s \in s .. Len(source)
    BY <1>2, <1>4, <1>8 DEF EndOfFile
  <2>2. \E to : Ended(to)
    BY <1>6, <2>1
  <2> QED BY <1>1, <1>2, <1>3, <2>2 DEF Ended
<1>9. CASE Symbol
  <2>1. At(s) # NUL
    BY <1>2, <1>9, NulIsNone DEF Symbol, First
  <2>2. s + 1 \in s .. Len(source)
    BY <1>4, <1>5, <2>1
  <2>3. At(s + 1) = "=" => s + 2 \in s .. Len(source)
    <3>1. PICK i : i = s + 1
      OBVIOUS
    <3>2. At(i) = "=" => i < Len(source)
      BY <1>1, <1>4, <2>2, <3>1, CharsAre, NulIsNone
    <3> QED BY <1>4, <3>1, <3>2
  <2>4. \/ \E type : Taken(type, s + 1)
        \/ At(s + 1) = "=" /\ \E type : Taken(type, s + 2)
    BY <1>2, <1>9 DEF Symbol
  <2>5. \E to : Ended(to)
    BY <1>6, <2>2, <2>3, <2>4
  <2> QED BY <1>1, <1>2, <1>3, <2>5 DEF Ended
<1>10. CASE handleString
  <2>1. At(s) # NUL
    BY <1>2, <1>10, NulIsNone DEF handleString, First
  <2>2. PICK e : e = Close(s)
    OBVIOUS
  <2>3. e \in s + 1 .. Len(source)
    BY <1>1, <1>5, <2>1, <2>2, CloseIs
  <2>4. \/ Failed(e)
        \/ e # Len(source) /\ Taken("STRING", e + 1)
    <3>1. e = Past(Start + 1, Chars \ {Quote})
      BY <1>2, <2>2 DEF Close
    <3>2. IF e = Len(source) THEN Failed(e) ELSE Taken("STRING", e + 1)
      BY <1>10, <3>1, Zenon DEF handleString
    <3> QED BY <3>2
  <2>5. e \in s .. Len(source) /\ (e # Len(source) => e + 1 \in s .. Len(source))
    BY <1>1, <1>4, <2>3
  <2>6. \E to : Ended(to)
    BY <1>6, <1>7, <2>4, <2>5
  <2> QED BY <1>1, <1>2, <1>3, <2>6 DEF Ended
<1>11. CASE handleNumber
  <2>1. At(s) # NUL
    BY <1>2, <1>11, NulIsNone DEF handleNumber, First
  <2>2. PICK e, i : e = NumberEnd(i) /\ i = s + 1
    OBVIOUS
  <2>3. e \in i .. Len(source)
    BY <1>1, <1>4, <1>5, <2>1, <2>2, NumberEndIs
  <2>4. Taken("NUMBER", e)
    BY <1>2, <1>11, <2>2 DEF handleNumber
  <2>5. e \in s .. Len(source)
    BY <1>4, <2>2, <2>3
  <2>6. \E to : Ended(to)
    BY <1>6, <2>4, <2>5
  <2> QED BY <1>1, <1>2, <1>3, <2>6 DEF Ended
<1>12. CASE handleIdentifier
  <2>1. At(s) # NUL
    BY <1>2, <1>12, NulIsNone DEF handleIdentifier, First
  <2>2. PICK e : e = Word(s)
    OBVIOUS
  <2>3. e \in s + 1 .. Len(source)
    BY <1>1, <1>5, <2>1, <2>2, WordIs
  <2>4. \E type : Taken(type, e)
    BY <1>2, <1>12, <2>2 DEF handleIdentifier, Word
  <2>5. e \in s .. Len(source)
    BY <1>4, <2>3
  <2>6. \E to : Ended(to)
    BY <1>6, <2>4, <2>5
  <2> QED BY <1>1, <1>2, <1>3, <2>6 DEF Ended
<1>13. CASE Unknown
  <2>1. Failed(s + 1) /\ s < Len(source)
    BY <1>2, <1>13 DEF Unknown
  <2>2. s + 1 \in s .. Len(source)
    BY <1>4, <2>1
  <2>3. \E to : Ended(to)
    BY <1>7, <2>1, <2>2
  <2> QED BY <1>1, <1>2, <1>3, <2>3 DEF Ended
<1> QED BY <1>8, <1>9, <1>10, <1>11, <1>12, <1>13 DEF scanToken

LEMMA InitOK == Init => ScannerOK
<1> SUFFICES ASSUME Init
             PROVE  ScannerOK
  OBVIOUS
<1>1. source = << >> /\ current = 0 /\ line = 1
  BY DEF Init
<1>2. Newlines(0, 0) = 0
  BY NoNewlines
<1>3. source \in Seq(Chars) /\ Len(source) \in Nat
  BY <1>1
<1> QED BY <1>1, <1>2, <1>3 DEF ScannerOK, InSource

(* What is counted in a source is counted in it after a step that keeps it. *)
LEMMA SameNewlines ==
  ASSUME source' = source, NEW i, NEW j
  PROVE  Newlines(i, j)' = Newlines(i, j)
<1>1. \A k : At(k)' = At(k)
  BY DEF At
<1> QED BY <1>1 DEF Newlines

LEMMA ScanKeeps ==
  ASSUME ScannerOK, scanToken
  PROVE  /\ ScannerOK'
         /\ token'.line = 1 + Newlines(0, current')
<1>1. PICK s, e, c : s = start' /\ e = current' /\ c = current
  OBVIOUS
<1>2. /\ source \in Seq(Chars) /\ source' = source
      /\ Len(source) \in Nat /\ c \in 0 .. Len(source)
      /\ line = 1 + Newlines(0, c)
  BY <1>1, TokenIs, CharsAre DEF ScannerOK, InSource
<1>3. /\ s = SkipWhitespace[c] /\ e \in s .. Len(source)
      /\ line' = line + Newlines(c, e) /\ token'.line = line'
  BY <1>1, TokenIs DEF LineAt
<1>4. s \in c .. Len(source)
  BY <1>2, <1>3, Skipped
<1>5. e \in Nat /\ c \in Nat /\ 0 <= c /\ c <= e /\ e \in 0 .. Len(source)
  BY <1>2, <1>3, <1>4
<1>6. /\ Newlines(0, e) = Newlines(0, c) + Newlines(c, e)
      /\ Newlines(0, c) \in Nat /\ Newlines(c, e) \in Nat
  <2>1. PICK z \in Nat : z = 0
    OBVIOUS
  <2>2. /\ Newlines(z, e) = Newlines(z, c) + Newlines(c, e)
        /\ Newlines(z, c) \in Nat /\ Newlines(c, e) \in Nat
    BY <1>5, <2>1, NewlinesAdd
  <2> QED BY <2>1, <2>2
<1>7. line' = 1 + Newlines(0, e)
  BY <1>2, <1>3, <1>6
<1>8. Newlines(0, e)' = Newlines(0, e)
  BY <1>2, SameNewlines
<1>9. source' \in Seq(Chars) /\ InSource'
  BY <1>1, <1>2, <1>5 DEF InSource
<1>10. line' = (1 + Newlines(0, current))'
  BY <1>1, <1>7, <1>8
<1> QED BY <1>1, <1>3, <1>7, <1>9, <1>10 DEF ScannerOK

LEMMA NextOK == ScannerOK /\ [Next]_vars => ScannerOK'
<1> SUFFICES ASSUME ScannerOK, [Next]_vars
             PROVE  ScannerOK'
  OBVIOUS
<1>1. CASE scanToken
  BY <1>1, ScanKeeps
<1>2. ASSUME NEW A \in Alphabets, NEW c \in A, init(Append(source, c))
      PROVE  ScannerOK'
  <2>1. c \in Chars /\ source \in Seq(Chars)
    BY <1>2 DEF Chars, ScannerOK
  <2>2. Append(source, c) \in Seq(Chars) /\ Len(Append(source, c)) \in Nat
    BY <2>1
  <2>3. source' \in Seq(Chars) /\ Len(source') \in Nat /\ current' = 0 /\ line' = 1
    BY <1>2, <2>2 DEF init
  <2>4. Newlines(0, 0)' = 0
    <3>1. {k \in 0 .. 0 - 1 : At(k)' = "\n"} = {}
      OBVIOUS
    <3>2. Cardinality({k \in 0 .. 0 - 1 : At(k)' = "\n"}) = 0
      BY <3>1, FS_EmptySet
    <3> QED BY <3>2 DEF Newlines
  <2>5. Newlines(0, current)' = Newlines(0, 0)'
    BY <2>3 DEF Newlines
  <2> QED BY <2>3, <2>4, <2>5 DEF ScannerOK, InSource
<1>3. CASE UNCHANGED vars
  <2>1. source' = source /\ current' = current /\ line' = line
    BY <1>3 DEF vars
  <2>2. PICK c : c = current
    OBVIOUS
  <2>3. Newlines(0, c)' = Newlines(0, c)
    BY <2>1, SameNewlines
  <2>4. Newlines(0, current)' = Newlines(0, current)
    BY <2>1, <2>2, <2>3
  <2> QED BY <2>1, <2>4 DEF ScannerOK, InSource
<1> QED BY <1>1, <1>2, <1>3 DEF Next

(* The scanner stays in its source, and its line is that of its place: the *)
(* inductive invariant, of every session of lines.                         *)
THEOREM Invariant == Spec => []ScannerOK
BY InitOK, NextOK, PTL DEF Spec

(* For every source, of any length and of any characters, the tokens and   *)
(* the whitespace and comments between them are all of it, no token begins *)
(* where either could, and a token has the line it ends on.                *)
THEOREM SourceIsTiled == Spec => TokensTile
<1> DEFINE Tiles ==
             scanToken =>
               /\ current <= start' /\ start' <= current'
               /\ Blank(current, start')
               /\ \A j \in start' + 1 .. Len(source) : ~Blank(start', j)
               /\ token'.line = 1 + Newlines(0, current')
<1>1. ScannerOK /\ [Next]_vars => [Tiles]_vars
  <2> SUFFICES ASSUME ScannerOK, scanToken
               PROVE  Tiles
    OBVIOUS
  <2>1. PICK s, e, c : s = start' /\ e = current' /\ c = current
    OBVIOUS
  <2>2. /\ source \in Seq(Chars) /\ Len(source) \in Nat /\ c \in 0 .. Len(source)
        /\ s = SkipWhitespace[c] /\ e \in s .. Len(source)
    BY <2>1, TokenIs, CharsAre DEF ScannerOK, InSource
  <2>3. /\ s \in c .. Len(source) /\ Blank(c, s)
        /\ At(s) \notin Whitespace /\ ~Comment(s)
    BY <2>2, Skipped
  <2>4. ASSUME NEW j \in s + 1 .. Len(source)
        PROVE  ~Blank(s, j)
    <3>1. s \in Nat /\ j \in Nat /\ j > s
      BY <2>2, <2>3
    <3> QED BY <2>3, <3>1, NoneIsLeft
  <2>5. c <= s /\ s <= e
    BY <2>2, <2>3
  <2>6. token'.line = 1 + Newlines(0, current')
    BY ScanKeeps
  <2> QED BY <2>1, <2>3, <2>4, <2>5, <2>6
<1> QED BY <1>1, Invariant, PTL DEF Spec, TokensTile

-----------------------------------------------------------------------------
(* The lexical grammar: no lexeme is of two kinds, which one it may be is  *)
(* seen from its first character, and no token type stands for none.       *)

LEMMA KindsDiffer ==
  /\ DOMAIN Singles \cap Letters = {} /\ DOMAIN Singles \cap Digits = {}
  /\ Letters \cap Digits = {}
  /\ Quote \notin DOMAIN Singles /\ Quote \notin Letters /\ Quote \notin Digits
  /\ DOMAIN WithEqual \subseteq DOMAIN Singles
  /\ "." \notin Digits
<1>1. Quote \notin DOMAIN Singles /\ Quote \notin Letters /\ Quote \notin Digits
  BY Zenon DEF Singles, Letters, Digits, Quote
<1>2. /\ DOMAIN Singles \cap Letters = {} /\ DOMAIN Singles \cap Digits = {}
      /\ Letters \cap Digits = {} /\ "." \notin Digits
  BY DEF Singles, Letters, Digits
<1>3. DOMAIN WithEqual \subseteq DOMAIN Singles
  BY DEF Singles, WithEqual
<1> QED BY <1>1, <1>2, <1>3

NoLexeme == {"NONE", "ERROR", "END_OF_FILE"}

LEMMA TypesAreLexemes ==
  /\ \A c \in DOMAIN Singles : Singles[c] \notin NoLexeme
  /\ \A c \in DOMAIN WithEqual : WithEqual[c] \notin NoLexeme
  /\ \A k \in DOMAIN Keywords : k \notin NoLexeme
<1>1. \A c \in DOMAIN Singles : Singles[c] \notin NoLexeme
  BY DEF Singles, NoLexeme
<1>2. \A c \in DOMAIN WithEqual : WithEqual[c] \notin NoLexeme
  BY DEF WithEqual, NoLexeme
<1>3. \A k \in DOMAIN Keywords : k \notin NoLexeme
  BY DEF Keywords, NoLexeme
<1> QED BY <1>1, <1>2, <1>3

LEMMA KeywordsAre ==
  ASSUME NEW k \in DOMAIN Keywords
  PROVE  Keywords[k] \in Seq(Letters)
<1>1. {"a", "c", "d", "e", "f", "h", "i", "l", "n", "o", "p", "r", "s", "t", "u", "v", "w"} \in SUBSET Letters
  BY DEF Letters
<1>2. /\ <<"a", "n", "d">> \in Seq(Letters)
      /\ <<"c", "l", "a", "s", "s">> \in Seq(Letters)
      /\ <<"e", "l", "s", "e">> \in Seq(Letters)
      /\ <<"f", "a", "l", "s", "e">> \in Seq(Letters)
      /\ <<"f", "o", "r">> \in Seq(Letters)
      /\ <<"f", "u", "n">> \in Seq(Letters)
      /\ <<"i", "f">> \in Seq(Letters)
      /\ <<"n", "i", "l">> \in Seq(Letters)
      /\ <<"o", "r">> \in Seq(Letters)
      /\ <<"p", "r", "i", "n", "t">> \in Seq(Letters)
      /\ <<"r", "e", "t", "u", "r", "n">> \in Seq(Letters)
      /\ <<"s", "u", "p", "e", "r">> \in Seq(Letters)
      /\ <<"t", "h", "i", "s">> \in Seq(Letters)
      /\ <<"t", "r", "u", "e">> \in Seq(Letters)
      /\ <<"v", "a", "r">> \in Seq(Letters)
      /\ <<"w", "h", "i", "l", "e">> \in Seq(Letters)
  BY <1>1
<1> QED BY <1>2 DEF Keywords

(* Where a lexeme may begin.                                               *)
LEMMA LexemesBegin ==
  ASSUME NEW s \in Nat, NEW j \in Nat
  PROVE  /\ IsNumber(s, j) => At(s) \in Digits
         /\ IsString(s, j) => At(s) = Quote
         /\ IsWord(s, j) => At(s) \in Letters
<1>1. \A k \in Nat : IsInteger(s, k) => At(s) \in Digits
  BY DEF IsInteger, All
<1>2. IsNumber(s, j) => At(s) \in Digits
  <2>1. \A k \in Point(s, j) : k \in Nat /\ IsInteger(s, k)
    BY DEF Point
  <2> QED BY <1>1, <2>1 DEF IsNumber
<1>3. IsString(s, j) => At(s) = Quote
  <2> SUFFICES ASSUME IsString(s, j)
               PROVE  At(s) = Quote
    OBVIOUS
  <2>1. s \in {k \in s .. j - 1 : At(k) = Quote}
    BY Zenon DEF IsString
  <2> QED BY <2>1
<1>4. IsWord(s, j) => At(s) \in Letters
  BY DEF IsWord
<1> QED BY <1>2, <1>3, <1>4

(* The type of a word.                                                     *)
WordTypeOf(s, j) ==
  IF \E k \in DOMAIN Keywords : Keywords[k] = Text(s, j)
  THEN CHOOSE k \in DOMAIN Keywords : Keywords[k] = Text(s, j)
  ELSE "IDENTIFIER"

LEMMA WordTypesAre ==
  ASSUME NEW s, NEW j
  PROVE  WordTypeOf(s, j) \notin NoLexeme
<1>1. CASE \E k \in DOMAIN Keywords : Keywords[k] = Text(s, j)
  <2>1. WordTypeOf(s, j) \in DOMAIN Keywords
    BY <1>1, Zenon DEF WordTypeOf
  <2> QED BY <2>1, TypesAreLexemes
<1>2. CASE ~\E k \in DOMAIN Keywords : Keywords[k] = Text(s, j)
  <2>1. WordTypeOf(s, j) = "IDENTIFIER"
    BY <1>2, Zenon DEF WordTypeOf
  <2> QED BY <2>1 DEF NoLexeme
<1> QED BY <1>1, <1>2

(* The types of the lexemes that begin with a character of a kind.         *)
LEMMA LexemeTypes ==
  ASSUME NEW s \in Nat, NEW j \in Nat
  PROVE  /\ At(s) \in Digits =>
              LexemeType(s, j) = IF IsNumber(s, j) THEN "NUMBER" ELSE "NONE"
         /\ At(s) = Quote =>
              LexemeType(s, j) = IF IsString(s, j) THEN "STRING" ELSE "NONE"
         /\ At(s) \in Letters =>
              LexemeType(s, j) = IF IsWord(s, j) THEN WordTypeOf(s, j) ELSE "NONE"
         /\ At(s) \in DOMAIN Singles =>
              LexemeType(s, j) =
                IF j = s + 1 THEN Singles[At(s)]
                ELSE IF j = s + 2 /\ At(s) \in DOMAIN WithEqual /\ At(s + 1) = "="
                     THEN WithEqual[At(s)] ELSE "NONE"
         /\ At(s) \notin DOMAIN Singles \cup {Quote} \cup Digits \cup Letters =>
              LexemeType(s, j) = "NONE"
<1>1. LexemeType(s, j) =
        CASE IsNumber(s, j) -> "NUMBER"
          [] IsString(s, j) -> "STRING"
          [] IsWord(s, j) -> WordTypeOf(s, j)
          [] j = s + 1 /\ At(s) \in DOMAIN Singles -> Singles[At(s)]
          [] j = s + 2 /\ At(s) \in DOMAIN WithEqual /\ At(s + 1) = "=" -> WithEqual[At(s)]
          [] OTHER -> "NONE"
  BY DEF LexemeType, WordTypeOf
<1>2. At(s) \in Digits =>
        /\ ~IsString(s, j) /\ ~IsWord(s, j)
        /\ At(s) \notin DOMAIN Singles /\ At(s) \notin DOMAIN WithEqual
  BY LexemesBegin, KindsDiffer
<1>3. At(s) = Quote =>
        /\ ~IsNumber(s, j) /\ ~IsWord(s, j)
        /\ At(s) \notin DOMAIN Singles /\ At(s) \notin DOMAIN WithEqual
  BY LexemesBegin, KindsDiffer
<1>4. At(s) \in Letters =>
        /\ ~IsNumber(s, j) /\ ~IsString(s, j)
        /\ At(s) \notin DOMAIN Singles /\ At(s) \notin DOMAIN WithEqual
  BY LexemesBegin, KindsDiffer
<1>5. At(s) \in DOMAIN Singles => ~IsNumber(s, j) /\ ~IsString(s, j) /\ ~IsWord(s, j)
  BY LexemesBegin, KindsDiffer
<1>6. At(s) \notin DOMAIN Singles \cup {Quote} \cup Digits \cup Letters =>
        /\ ~IsNumber(s, j) /\ ~IsString(s, j) /\ ~IsWord(s, j)
        /\ At(s) \notin DOMAIN Singles /\ At(s) \notin DOMAIN WithEqual
  BY LexemesBegin, KindsDiffer
<1>7. CASE At(s) \in Digits
  BY <1>1, <1>2, <1>7, KindsDiffer
<1>8. CASE At(s) = Quote
  BY <1>1, <1>3, <1>8, KindsDiffer
<1>9. CASE At(s) \in Letters
  BY <1>1, <1>4, <1>9, KindsDiffer
<1>10. CASE At(s) \in DOMAIN Singles
  BY <1>1, <1>5, <1>10, KindsDiffer
<1>11. CASE At(s) \notin DOMAIN Singles \cup {Quote} \cup Digits \cup Letters
  BY <1>1, <1>6, <1>11
<1> QED BY <1>7, <1>8, <1>9, <1>10, <1>11

-----------------------------------------------------------------------------
(* The longest lexeme that begins at a position, one lemma for each kind.  *)

(* What scanToken() takes, when it is no error.                            *)
Longest(s, e, type) ==
  /\ e \in Ends(s)
  /\ \/ Misread(s, Max(Ends(s)))
     \/ e = Max(Ends(s)) /\ type = LexemeType(s, Max(Ends(s)))

(* The ends of the lexemes go no further than one of them.                 *)
LEMMA LastEnd ==
  ASSUME source \in Seq(Chars), NEW s \in Nat, NEW e \in Ends(s),
         \A j \in Ends(s) : j <= e
  PROVE  Max(Ends(s)) = e
<1>1. Ends(s) \in SUBSET Nat
  BY CharsAre DEF Ends
<1> QED BY <1>1, MaxIs

LEMMA EndsAre ==
  ASSUME source \in Seq(Chars), NEW s \in 0 .. Len(source) - 1, NEW j
  PROVE  /\ s \in Nat /\ Len(source) \in Nat /\ At(s) \in Chars
         /\ j \in Ends(s) <=> j \in s + 1 .. Len(source) /\ LexemeType(s, j) # "NONE"
         /\ j \in s + 1 .. Len(source) => j \in Nat
<1>1. Len(source) \in Nat /\ At(s) \in Chars
  BY CharsAre
<1> QED BY <1>1 DEF Ends

LEMMA SymbolIsLongest ==
  ASSUME source \in Seq(Chars), NEW s \in 0 .. Len(source) - 1, At(s) \in DOMAIN Singles
  PROVE  IF At(s) \in DOMAIN WithEqual /\ At(s + 1) = "="
         THEN Longest(s, s + 2, WithEqual[At(s)])
         ELSE Longest(s, s + 1, Singles[At(s)])
<1>1. s \in Nat /\ Len(source) \in Nat /\ s < Len(source)
  BY EndsAre
<1> DEFINE two == At(s) \in DOMAIN WithEqual /\ At(s + 1) = "="
<1>2. ASSUME NEW j \in s + 1 .. Len(source)
      PROVE  LexemeType(s, j) = IF j = s + 1 THEN Singles[At(s)]
                                ELSE IF j = s + 2 /\ two THEN WithEqual[At(s)] ELSE "NONE"
  <2>1. j \in Nat
    BY <1>1
  <2> QED BY <1>1, <2>1, LexemeTypes
<1>3. Singles[At(s)] # "NONE" /\ (two => WithEqual[At(s)] # "NONE")
  BY TypesAreLexemes DEF NoLexeme
<1>4. ASSUME two
      PROVE  Longest(s, s + 2, WithEqual[At(s)])
  <2>1. PICK i : i = s + 1
    OBVIOUS
  <2>2. i < Len(source)
    BY <1>1, <1>4, <2>1, CharsAre, NulIsNone
  <2>3. s + 2 \in s + 1 .. Len(source)
    BY <1>1, <2>1, <2>2
  <2>4. LexemeType(s, s + 2) = WithEqual[At(s)]
    BY <1>1, <1>2, <1>4, <2>3
  <2>5. s + 2 \in Ends(s)
    BY <1>3, <1>4, <2>3, <2>4, EndsAre
  <2>6. ASSUME NEW j \in Ends(s)
        PROVE  j <= s + 2
    <3>1. j \in s + 1 .. Len(source) /\ LexemeType(s, j) # "NONE"
      BY EndsAre
    <3>2. j = s + 1 \/ j = s + 2
      BY <1>2, <3>1
    <3> QED BY <1>1, <3>2
  <2>7. Max(Ends(s)) = s + 2
    BY <1>1, <2>5, <2>6, LastEnd
  <2> QED BY <2>4, <2>5, <2>7 DEF Longest
<1>5. ASSUME ~two
      PROVE  Longest(s, s + 1, Singles[At(s)])
  <2>1. s + 1 \in s + 1 .. Len(source)
    BY <1>1
  <2>2. LexemeType(s, s + 1) = Singles[At(s)]
    BY <1>2, <2>1
  <2>3. s + 1 \in Ends(s)
    BY <1>3, <2>1, <2>2, EndsAre
  <2>4. ASSUME NEW j \in Ends(s)
        PROVE  j <= s + 1
    <3>1. j \in s + 1 .. Len(source) /\ LexemeType(s, j) # "NONE"
      BY EndsAre
    <3>2. j = s + 1
      BY <1>2, <1>5, <3>1
    <3> QED BY <1>1, <3>2
  <2>5. Max(Ends(s)) = s + 1
    BY <1>1, <2>3, <2>4, LastEnd
  <2> QED BY <2>2, <2>3, <2>5 DEF Longest
<1> QED BY <1>4, <1>5

LEMMA StringIsLongest ==
  ASSUME source \in Seq(Chars), NEW s \in 0 .. Len(source) - 1, At(s) = Quote
  PROVE  IF Close(s) = Len(source) THEN Ends(s) = {}
         ELSE Longest(s, Close(s) + 1, "STRING")
<1>1. s \in Nat /\ Len(source) \in Nat /\ s < Len(source)
  BY EndsAre
<1>2. PICK e : e = Close(s)
  OBVIOUS
<1>3. /\ e \in s + 1 .. Len(source)
      /\ e # Len(source) => At(e) = Quote
      /\ \A k \in s + 1 .. e - 1 : At(k) # Quote
  BY <1>2, CloseIs
<1>4. ASSUME NEW j \in Ends(s)
      PROVE  e # Len(source) /\ j = e + 1 /\ LexemeType(s, j) = "STRING"
  <2>1. j \in s + 1 .. Len(source) /\ j \in Nat /\ LexemeType(s, j) # "NONE"
    BY EndsAre
  <2>2. IsString(s, j) /\ LexemeType(s, j) = "STRING"
    BY <1>1, <2>1, LexemeTypes
  <2>3. s + 1 < j /\ \A k \in s .. j - 1 : At(k) = Quote <=> k \in {s, j - 1}
    BY <2>2 DEF IsString
  <2>4. At(j - 1) = Quote /\ j - 1 \in s + 1 .. Len(source) - 1
    BY <1>1, <2>1, <2>3
  <2>5. e <= j - 1
    BY <1>1, <1>3, <2>1, <2>4
  <2>6. e # Len(source) /\ At(e) = Quote /\ e \in s .. j - 1
    BY <1>1, <1>3, <2>1, <2>4, <2>5
  <2>7. e = j - 1
    BY <1>1, <1>3, <2>3, <2>6
  <2> QED BY <1>1, <1>3, <2>1, <2>2, <2>6, <2>7
<1>5. CASE e = Len(source)
  BY <1>2, <1>4, <1>5
<1>6. CASE e # Len(source)
  <2>1. e + 1 \in s + 1 .. Len(source) /\ e + 1 \in Nat
    BY <1>1, <1>3, <1>6
  <2>2. IsString(s, e + 1)
    <3>1. s + 1 < e + 1 /\ (e + 1) - 1 = e
      BY <1>1, <1>3
    <3>2. ASSUME NEW k \in s .. e
          PROVE  At(k) = Quote <=> k \in {s, e}
      BY <1>1, <1>3, <1>6
    <3>3. {k \in s .. (e + 1) - 1 : At(k) = Quote} = {s, (e + 1) - 1}
      BY <1>1, <1>3, <3>1, <3>2
    <3> QED BY <3>1, <3>3 DEF IsString
  <2>3. LexemeType(s, e + 1) = "STRING"
    BY <1>1, <2>1, <2>2, LexemeTypes
  <2>4. e + 1 \in Ends(s)
    BY <2>1, <2>3, EndsAre
  <2>5. \A j \in Ends(s) : j <= e + 1
    BY <1>4, <2>1
  <2>6. Max(Ends(s)) = e + 1
    BY <1>1, <2>4, <2>5, LastEnd
  <2>7. Longest(s, e + 1, "STRING")
    BY <2>3, <2>4, <2>6 DEF Longest
  <2> QED BY <1>2, <1>6, <2>7
<1> QED BY <1>5, <1>6

LEMMA NoneIsLongest ==
  ASSUME source \in Seq(Chars), NEW s \in 0 .. Len(source) - 1,
         At(s) \notin DOMAIN Singles \cup {Quote} \cup Digits \cup Letters
  PROVE  Ends(s) = {}
<1> SUFFICES ASSUME NEW j \in Ends(s)
             PROVE  FALSE
  OBVIOUS
<1>1. s \in Nat /\ j \in Nat /\ LexemeType(s, j) # "NONE"
  BY EndsAre
<1> QED BY <1>1, LexemeTypes

(* The digits from a position on, and the one point a number may have.     *)
LEMMA IntegersAre ==
  ASSUME source \in Seq(Chars), NEW i \in 0 .. Len(source), NEW j \in Nat
  PROVE  IsInteger(i, j) <=> i < j /\ j <= Past(i, Digits)
<1>1. PICK p \in i .. Len(source) : p = Past(i, Digits)
  BY DigitsEnd
<1>2. /\ At(p) \notin Digits
      /\ \A k \in i .. p - 1 : At(k) \in Digits
  BY <1>1, DigitsEnd
<1>3. i \in Nat /\ p \in Nat
  BY CharsAre
<1>4. ASSUME IsInteger(i, j)
      PROVE  i < j /\ j <= p
  <2>1. i < j /\ \A k \in i .. j - 1 : At(k) \in Digits
    BY <1>4 DEF IsInteger, All
  <2>2. ~(p \in i .. j - 1)
    BY <1>2, <2>1
  <2> QED BY <1>1, <1>3, <2>1, <2>2
<1>5. ASSUME i < j, j <= p
      PROVE  IsInteger(i, j)
  BY <1>2, <1>3, <1>5 DEF IsInteger, All
<1> QED BY <1>1, <1>4, <1>5

LEMMA DigitsFrom ==
  ASSUME source \in Seq(Chars), NEW s \in 0 .. Len(source) - 1, At(s) \in Digits
  PROVE  Past(s, Digits) = Past(s + 1, Digits)
<1>1. s \in Nat /\ Len(source) \in Nat
  BY EndsAre
<1>2. PICK i : i = s + 1
  OBVIOUS
<1>3. i \in 0 .. Len(source) /\ s \in 0 .. Len(source)
  BY <1>1, <1>2
<1>4. PICK p \in s .. Len(source) : p = Past(s, Digits)
  BY <1>3, DigitsEnd
<1>5. PICK q \in i .. Len(source) : q = Past(i, Digits)
  BY <1>3, DigitsEnd
<1>6. /\ At(p) \notin Digits /\ \A k \in s .. p - 1 : At(k) \in Digits
      /\ At(q) \notin Digits /\ \A k \in i .. q - 1 : At(k) \in Digits
  BY <1>3, <1>4, <1>5, DigitsEnd
<1>7. p # s
  BY <1>6
<1>8. ~(q < p) /\ ~(p < q)
  <2>1. q < p => q \in s .. p - 1
    BY <1>1, <1>2, <1>4, <1>5
  <2>2. p < q => p \in i .. q - 1
    BY <1>1, <1>2, <1>4, <1>5, <1>7
  <2> QED BY <1>6, <2>1, <2>2
<1>9. p = q
  BY <1>1, <1>2, <1>4, <1>5, <1>8
<1> QED BY <1>2, <1>4, <1>5, <1>9

LEMMA PointsAre ==
  ASSUME source \in Seq(Chars), NEW s \in 0 .. Len(source) - 1, At(s) \in Digits,
         NEW j \in s + 1 .. Len(source), NEW k
  PROVE  k \in Point(s, j) <=> /\ k = Past(s + 1, Digits) /\ At(k) = "."
                               /\ k + 1 < j /\ j <= Past(k + 1, Digits)
<1>1. s \in Nat /\ Len(source) \in Nat /\ j \in Nat /\ s \in 0 .. Len(source)
  BY EndsAre
<1>2. PICK p : p = Past(s + 1, Digits)
  OBVIOUS
<1>3. p = Past(s, Digits)
  BY <1>2, DigitsFrom
<1>4. /\ p \in s .. Len(source) /\ At(p) \notin Digits
      /\ \A i \in s .. p - 1 : At(i) \in Digits
  BY <1>1, <1>3, DigitsEnd
<1>5. s < p
  BY <1>1, <1>4
<1>6. ASSUME k \in Point(s, j)
      PROVE  k = p /\ At(k) = "." /\ k + 1 < j /\ j <= Past(k + 1, Digits)
  <2>1. k \in s .. j - 1 /\ At(k) = "." /\ IsInteger(s, k) /\ IsInteger(k + 1, j)
    BY <1>6 DEF Point
  <2>2. k \in Nat /\ k <= p
    BY <1>1, <1>3, <2>1, IntegersAre
  <2>3. k = p
    BY <1>1, <1>4, <2>1, <2>2, KindsDiffer
  <2>4. PICK i : i = k + 1
    OBVIOUS
  <2>5. i \in 0 .. Len(source) /\ IsInteger(i, j)
    BY <1>1, <2>1, <2>4
  <2>6. i < j /\ j <= Past(i, Digits)
    BY <1>1, <2>5, IntegersAre
  <2> QED BY <2>1, <2>3, <2>4, <2>6
<1>7. ASSUME k = p, At(k) = ".", k + 1 < j, j <= Past(k + 1, Digits)
      PROVE  k \in Point(s, j)
  <2>1. PICK i : i = k + 1
    OBVIOUS
  <2>2. k \in Nat /\ i \in 0 .. Len(source) /\ k \in s .. j - 1
    BY <1>1, <1>4, <1>7, <2>1
  <2>3. IsInteger(i, j)
    BY <1>1, <1>7, <2>1, <2>2, IntegersAre
  <2>4. IsInteger(s, k)
    BY <1>1, <1>3, <1>5, <1>7, <2>2, IntegersAre
  <2> QED BY <1>7, <2>1, <2>2, <2>3, <2>4 DEF Point
<1> QED BY <1>2, <1>6, <1>7

LEMMA NumberIsLongest ==
  ASSUME source \in Seq(Chars), NEW s \in 0 .. Len(source) - 1, At(s) \in Digits
  PROVE  Longest(s, NumberEnd(s + 1), "NUMBER")
<1>1. s \in Nat /\ Len(source) \in Nat /\ s \in 0 .. Len(source)
  BY EndsAre
<1>2. PICK i, p : i = s + 1 /\ p = Past(i, Digits)
  OBVIOUS
<1>3. i \in 0 .. Len(source) /\ i \in Nat
  BY <1>1, <1>2
<1>4. p \in i .. Len(source) /\ p \in Nat /\ At(p) \notin Digits
  BY <1>2, <1>3, DigitsEnd
<1>5. \A j \in Nat : IsInteger(s, j) <=> s < j /\ j <= p
  BY <1>1, <1>2, DigitsFrom, IntegersAre
<1>6. \A j \in s + 1 .. Len(source) : j \in Nat /\ (j \in Ends(s) <=> IsNumber(s, j))
  <2> SUFFICES ASSUME NEW j \in s + 1 .. Len(source)
               PROVE  j \in Nat /\ (j \in Ends(s) <=> IsNumber(s, j))
    OBVIOUS
  <2>1. j \in Nat /\ (j \in Ends(s) <=> LexemeType(s, j) # "NONE")
    BY EndsAre
  <2> QED BY <1>1, <2>1, LexemeTypes
<1>7. Ends(s) \subseteq s + 1 .. Len(source)
  BY EndsAre
<1>8. p \in Ends(s)
  <2>1. p \in s + 1 .. Len(source) /\ IsInteger(s, p)
    BY <1>1, <1>2, <1>4, <1>5
  <2> QED BY <1>6, <2>1 DEF IsNumber
<1>9. CASE At(p) = "." /\ At(p + 1) \in Digits
  <2>1. PICK d, q : d = p + 1 /\ q = Past(d, Digits)
    OBVIOUS
  <2>2. d \in 0 .. Len(source)
    BY <1>3, <1>4, <1>9, <2>1, CharsAre, NulIsNone
  <2>3. q \in d .. Len(source) /\ At(q) \notin Digits
    BY <2>1, <2>2, DigitsEnd
  <2>4. q \in s + 1 .. Len(source) /\ q \in Nat /\ p + 1 < q
    BY <1>1, <1>2, <1>4, <1>9, <2>1, <2>3
  <2>5. p \in Point(s, q)
    BY <1>2, <1>9, <2>1, <2>4, PointsAre
  <2>6. q \in Ends(s)
    BY <1>6, <2>4, <2>5 DEF IsNumber
  <2>7. ASSUME NEW j \in Ends(s)
        PROVE  j <= q
    <3>1. j \in s + 1 .. Len(source) /\ j \in Nat /\ IsNumber(s, j)
      BY <1>6, <1>7
    <3>2. CASE IsInteger(s, j)
      BY <1>4, <1>5, <2>4, <3>1, <3>2
    <3>3. CASE Point(s, j) # {}
      <4>1. PICK k : k \in Point(s, j)
        BY <3>3
      <4>2. k = p /\ j <= Past(k + 1, Digits)
        BY <1>2, <3>1, <4>1, PointsAre
      <4> QED BY <2>1, <4>2
    <3> QED BY <3>1, <3>2, <3>3 DEF IsNumber
  <2>8. Max(Ends(s)) = q
    BY <1>1, <2>6, <2>7, LastEnd
  <2>9. NumberEnd(i) = IF p > i THEN q ELSE p
    BY <1>2, <1>9, <2>1 DEF NumberEnd
  <2>10. CASE p > i
    <3>1. LexemeType(s, q) = "NUMBER"
      BY <1>1, <2>4, <2>5, LexemeTypes DEF IsNumber
    <3> QED BY <1>2, <2>6, <2>8, <2>9, <2>10, <3>1 DEF Longest
  <2>11. CASE ~(p > i)
    <3>1. p = s + 1
      BY <1>1, <1>2, <1>4, <2>11
    <3>2. Misread(s, q)
      BY <2>5, <3>1 DEF Misread
    <3> QED BY <1>2, <1>8, <2>8, <2>9, <2>11, <3>2 DEF Longest
  <2> QED BY <2>10, <2>11
<1>10. CASE ~(At(p) = "." /\ At(p + 1) \in Digits)
  <2>1. ASSUME NEW j \in Ends(s)
        PROVE  j <= p
    <3>1. j \in s + 1 .. Len(source) /\ j \in Nat /\ IsNumber(s, j)
      BY <1>6, <1>7
    <3>2. Point(s, j) = {}
      <4> SUFFICES ASSUME NEW k \in Point(s, j)
                   PROVE  FALSE
        OBVIOUS
      <4>1. PICK d : d = k + 1
        OBVIOUS
      <4>2. k = p /\ At(k) = "." /\ d < j /\ j <= Past(d, Digits)
        BY <1>2, <3>1, <4>1, PointsAre
      <4>3. d \in 0 .. Len(source) /\ d \in Nat
        BY <1>1, <1>4, <3>1, <4>1, <4>2
      <4>4. IsInteger(d, j)
        BY <3>1, <4>2, <4>3, IntegersAre
      <4>5. At(d) \in Digits
        BY <3>1, <4>3, <4>4 DEF IsInteger, All
      <4> QED BY <1>10, <4>1, <4>2, <4>5
    <3> QED BY <1>5, <3>1, <3>2 DEF IsNumber
  <2>2. Max(Ends(s)) = p
    BY <1>1, <1>8, <2>1, LastEnd
  <2>3. NumberEnd(i) = p
    BY <1>2, <1>10 DEF NumberEnd
  <2>4. LexemeType(s, p) = "NUMBER"
    <3>1. p \in Nat /\ IsInteger(s, p)
      BY <1>1, <1>2, <1>4, <1>5
    <3> QED BY <1>1, <3>1, LexemeTypes DEF IsNumber
  <2> QED BY <1>2, <1>8, <2>2, <2>3, <2>4 DEF Longest
<1> QED BY <1>9, <1>10

(* The characters of a word, and what checkKeyword makes of them: a        *)
(* keyword that the source goes on with is all of the word, unless the     *)
(* word goes on after it.                                                  *)
LEMMA TextIs ==
  ASSUME source \in Seq(Chars), NEW s \in Nat, NEW e \in s + 1 .. Len(source)
  PROVE  /\ Text(s, e) \in Seq(Chars) /\ Len(Text(s, e)) = e - s
         /\ \A i \in 1 .. e - s : Text(s, e)[i] = At(s + i - 1)
<1>1. Len(source) \in Nat
  BY CharsAre
<1>2. PICK a : a = s + 1
  OBVIOUS
<1>3. a \in 1 .. Len(source) + 1 /\ e \in a - 1 .. Len(source)
  BY <1>1, <1>2
<1>4. /\ SubSeq(source, a, e) \in Seq(Chars) /\ Len(SubSeq(source, a, e)) = e - a + 1
      /\ \A i \in 1 .. e - a + 1 : SubSeq(source, a, e)[i] = source[a + i - 1]
  BY <1>3, SubSeqProperties
<1>5. \A i \in 1 .. e - s : At(s + i - 1) = source[s + i]
  <2> SUFFICES ASSUME NEW i \in 1 .. e - s
               PROVE  At(s + i - 1) = source[s + i]
    OBVIOUS
  <2>1. s + i - 1 < Len(source) /\ s + i - 1 + 1 = s + i
    BY <1>1
  <2> QED BY <2>1 DEF At
<1>6. e - a + 1 = e - s /\ \A i \in 1 .. e - s : a + i - 1 = s + i
  BY <1>1, <1>2
<1>7. Text(s, e) = SubSeq(source, a, e)
  BY <1>2 DEF Text
<1> QED BY <1>4, <1>5, <1>6, <1>7

LEMMA KeywordIsWord ==
  ASSUME source \in Seq(Chars), NEW s \in 0 .. Len(source) - 1, At(s) \in Letters,
         NEW k \in DOMAIN Keywords, ~IsStrictPrefix(Keywords[k], Text(s, Word(s)))
  PROVE  (\A i \in DOMAIN Keywords[k] : At(s + i - 1) = Keywords[k][i])
           <=> Keywords[k] = Text(s, Word(s))
<1>1. s \in Nat /\ Len(source) \in Nat
  BY EndsAre
<1>2. PICK e \in s + 1 .. Len(source) : e = Word(s)
  BY WordIs
<1>3. At(e) \notin Letters
  BY <1>2, WordIs
<1>4. PICK K, T : K = Keywords[k] /\ T = Text(s, e)
  OBVIOUS
<1>5. /\ T \in Seq(Chars) /\ Len(T) = e - s /\ DOMAIN T = 1 .. Len(T)
      /\ \A i \in 1 .. e - s : T[i] = At(s + i - 1)
  <2>1. /\ T \in Seq(Chars) /\ Len(T) = e - s
        /\ \A i \in 1 .. e - s : T[i] = At(s + i - 1)
    BY <1>1, <1>4, TextIs, Zenon
  <2> QED BY <2>1
<1>6. /\ K \in Seq(Letters) /\ Len(K) \in Nat /\ DOMAIN K = 1 .. Len(K)
      /\ \A i \in 1 .. Len(K) : K[i] \in Letters
  <2>1. K \in Seq(Letters)
    BY <1>4, KeywordsAre
  <2> QED BY <2>1, ElementOfSeq
<1>7. ASSUME K = T, NEW i \in DOMAIN K
      PROVE  At(s + i - 1) = K[i]
  BY <1>5, <1>7
<1>8. ASSUME \A i \in DOMAIN K : At(s + i - 1) = K[i]
      PROVE  K = T
  <2>1. Len(K) <= e - s
    <3> SUFFICES ASSUME Len(K) > e - s
                 PROVE  FALSE
      BY <1>1, <1>6
    <3>1. PICK i : i = e - s + 1
      OBVIOUS
    <3>2. i \in DOMAIN K /\ s + i - 1 = e
      BY <1>1, <1>6, <3>1
    <3>3. K[i] \in Letters
      BY <1>6, <3>2
    <3> QED BY <1>3, <1>8, <3>2, <3>3
  <2>2. \A i \in 1 .. Len(K) : K[i] = T[i]
    <3> SUFFICES ASSUME NEW i \in 1 .. Len(K)
                 PROVE  K[i] = T[i]
      OBVIOUS
    <3>1. i \in DOMAIN K /\ i \in 1 .. e - s
      BY <1>1, <1>6, <2>1
    <3> QED BY <1>5, <1>8, <3>1
  <2>3. SubSeq(K, 1, Len(K)) = SubSeq(T, 1, Len(K))
    <3>1. PICK n, S : n = Len(K) /\ S = Letters \cup Chars
      OBVIOUS
    <3>2. n \in Nat /\ \A i \in 1 .. n : K[i] = T[i] /\ K[i] \in S /\ T[i] \in S
      BY <1>6, <2>2, <3>1
    <3>3. /\ SubSeq(K, 1, n) \in Seq(S) /\ Len(SubSeq(K, 1, n)) = n
          /\ \A i \in 1 .. n : SubSeq(K, 1, n)[i] = K[i]
      BY <3>2, SubSeqProperties
    <3>4. /\ SubSeq(T, 1, n) \in Seq(S) /\ Len(SubSeq(T, 1, n)) = n
          /\ \A i \in 1 .. n : SubSeq(T, 1, n)[i] = T[i]
      BY <3>2, SubSeqProperties
    <3>5. SubSeq(K, 1, n) = SubSeq(T, 1, n)
      BY <3>2, <3>3, <3>4, SeqEqual
    <3> QED BY <3>1, <3>5
  <2>4. IsPrefix(K, T)
    BY <1>5, <2>1, <2>3 DEF IsPrefix
  <2>5. ~IsStrictPrefix(K, T)
    BY <1>2, <1>4
  <2> QED BY <2>4, <2>5 DEF IsStrictPrefix
<1> QED BY <1>2, <1>4, <1>7, <1>8

LEMMA WordIsLongest ==
  ASSUME source \in Seq(Chars), NEW s \in 0 .. Len(source) - 1, At(s) \in Letters
  PROVE  Longest(s, Word(s), WordType(s))
<1>1. s \in Nat /\ Len(source) \in Nat
  BY EndsAre
<1>2. PICK e : e = Word(s)
  OBVIOUS
<1>3. /\ e \in s + 1 .. Len(source) /\ At(e) \notin Letters \cup Digits
      /\ \A k \in s + 1 .. e - 1 : At(k) \in Letters \cup Digits
  BY <1>2, WordIs
<1>4. IsWord(s, e)
  BY <1>1, <1>3 DEF IsWord, All
<1>5. LexemeType(s, e) = WordTypeOf(s, e) /\ LexemeType(s, e) # "NONE"
  <2>1. e \in Nat
    BY <1>1, <1>3
  <2> QED BY <1>1, <1>4, <2>1, LexemeTypes, WordTypesAre DEF NoLexeme
<1>6. e \in Ends(s)
  BY <1>3, <1>5, EndsAre
<1>7. ASSUME NEW j \in Ends(s)
      PROVE  j <= e
  <2>1. j \in s + 1 .. Len(source) /\ j \in Nat /\ LexemeType(s, j) # "NONE"
    BY EndsAre
  <2>2. \A k \in s .. j - 1 : At(k) \in Letters \cup Digits
    BY <1>1, <2>1, LexemeTypes DEF IsWord, All
  <2> QED BY <1>1, <1>3, <2>1, <2>2
<1>8. Max(Ends(s)) = e
  BY <1>1, <1>6, <1>7, LastEnd
<1>9. ASSUME ~Misread(s, e)
      PROVE  WordType(s) = WordTypeOf(s, e)
  <2> DEFINE Begun(k) == \A i \in DOMAIN Keywords[k] : At(s + i - 1) = Keywords[k][i]
             Read(k) == Keywords[k] = Text(s, e)
  <2>1. \A k \in DOMAIN Keywords : ~IsStrictPrefix(Keywords[k], Text(s, e))
    BY <1>4, <1>9 DEF Misread
  <2>2. ASSUME NEW k \in DOMAIN Keywords
        PROVE  Begun(k) <=> Read(k)
    BY <1>2, <2>1, KeywordIsWord
  <2>3. WordType(s) = IF \E k \in DOMAIN Keywords : Begun(k)
                      THEN CHOOSE k \in DOMAIN Keywords : Begun(k)
                      ELSE "IDENTIFIER"
    BY DEF WordType
  <2>4. WordTypeOf(s, e) = IF \E k \in DOMAIN Keywords : Read(k)
                           THEN CHOOSE k \in DOMAIN Keywords : Read(k)
                           ELSE "IDENTIFIER"
    BY DEF WordTypeOf
  <2> HIDE DEF Begun, Read
  <2>5. (CHOOSE k \in DOMAIN Keywords : Begun(k)) = (CHOOSE k \in DOMAIN Keywords : Read(k))
    BY <2>2
  <2>6. (\E k \in DOMAIN Keywords : Begun(k)) <=> (\E k \in DOMAIN Keywords : Read(k))
    BY <2>2
  <2> QED BY <2>3, <2>4, <2>5, <2>6
<1> QED BY <1>2, <1>5, <1>6, <1>8, <1>9 DEF Longest

-----------------------------------------------------------------------------
(* Every token is the longest lexeme.                                      *)

(* The lexemes of a source are those of it after a step that keeps it.     *)
LEMMA SameLexemes ==
  ASSUME source' = source
  PROVE  /\ Len(source)' = Len(source)
         /\ \A i : At(i)' = At(i) /\ Ends(i)' = Ends(i)
         /\ \A i, j : LexemeType(i, j)' = LexemeType(i, j) /\ (Misread(i, j)' <=> Misread(i, j))
<1>1. Len(source)' = Len(source)
  OBVIOUS
<1>2. \A i : At(i)' = At(i)
  BY DEF At
<1>3. \A i, j, cs : All(i, j, cs)' <=> All(i, j, cs)
  BY <1>2 DEF All
<1>4. \A i, j : IsInteger(i, j)' <=> IsInteger(i, j)
  BY <1>3 DEF IsInteger
<1>5. \A i, j : Point(i, j)' = Point(i, j)
  BY <1>2, <1>4 DEF Point
<1>6. \A i, j : IsNumber(i, j)' <=> IsNumber(i, j)
  BY <1>4, <1>5 DEF IsNumber
<1>7. \A i, j : IsWord(i, j)' <=> IsWord(i, j)
  BY <1>2, <1>3 DEF IsWord
<1>8. \A i, j : IsString(i, j)' <=> IsString(i, j)
  BY <1>2 DEF IsString
<1>9. \A i, j : Text(i, j)' = Text(i, j)
  BY DEF Text
<1>10. \A i, j : WordTypeOf(i, j)' = WordTypeOf(i, j)
  BY <1>9 DEF WordTypeOf
<1>11. \A i, j : LexemeType(i, j)' = LexemeType(i, j)
  BY <1>2, <1>6, <1>7, <1>8, <1>10 DEF LexemeType, WordTypeOf
<1>12. \A i : Ends(i)' = Ends(i)
  BY <1>1, <1>11 DEF Ends
<1>13. \A i, j : Misread(i, j)' <=> Misread(i, j)
  BY <1>5, <1>7, <1>9 DEF Misread
<1> QED BY <1>1, <1>2, <1>11, <1>12, <1>13

(* What LongestMatch asks of a token t that begins at s and ends at e.     *)
Lexed(t, s, e) ==
  \/ t.type = "NONE"
  \/ t.type = "END_OF_FILE" /\ e = Len(source)
  \/ /\ t.type = "ERROR" /\ Ends(s) = {}
     /\ e = IF At(s) = Quote THEN Len(source) ELSE s + 1
  \/ t.type \notin NoLexeme /\ t.from = s /\ t.to = e /\ Longest(s, e, t.type)

LEMMA LexedMatches == LongestMatch <=> Lexed(token, start, current)
<1>1. ASSUME token.type \in NoLexeme
      PROVE  LongestMatch <=> Lexed(token, start, current)
  BY <1>1 DEF LongestMatch, Lexed, NoLexeme
<1>2. ASSUME token.type \notin NoLexeme
      PROVE  LongestMatch <=> Lexed(token, start, current)
  <2> DEFINE end == Max(Ends(start))
  <2>1. LongestMatch <=>
          /\ Ends(start) # {}
          /\ token.from = start /\ token.to = current /\ current \in Ends(start)
          /\ \/ Misread(start, end)
             \/ current = end /\ token.type = LexemeType(start, end)
    BY <1>2 DEF LongestMatch, NoLexeme
  <2>2. Lexed(token, start, current) <=>
          /\ token.from = start /\ token.to = current
          /\ Longest(start, current, token.type)
    BY <1>2 DEF Lexed, NoLexeme
  <2> QED BY <2>1, <2>2 DEF Longest
<1> QED BY <1>1, <1>2

LEMMA LexedStays ==
  ASSUME source' = source, NEW t, NEW s, NEW e
  PROVE  Lexed(t, s, e)' <=> Lexed(t, s, e)
<1>1. /\ Len(source)' = Len(source)
      /\ \A i : At(i)' = At(i) /\ Ends(i)' = Ends(i)
      /\ \A i, j : LexemeType(i, j)' = LexemeType(i, j) /\ (Misread(i, j)' <=> Misread(i, j))
  BY SameLexemes
<1>2. Longest(s, e, t.type)' <=> Longest(s, e, t.type)
  <2>1. Max(Ends(s))' = Max(Ends(s))
    BY <1>1 DEF Max
  <2>2. /\ LexemeType(s, Max(Ends(s)))' = LexemeType(s, Max(Ends(s)))
        /\ Misread(s, Max(Ends(s)))' <=> Misread(s, Max(Ends(s)))
    <3>1. PICK m : m = Max(Ends(s))
      OBVIOUS
    <3>2. /\ LexemeType(s, Max(Ends(s)))' = LexemeType(s, m)'
          /\ Misread(s, Max(Ends(s)))' <=> Misread(s, m)'
      BY <2>1, <3>1 DEF LexemeType, Misread
    <3> QED BY <1>1, <3>1, <3>2
  <2> QED BY <1>1, <2>1, <2>2 DEF Longest
<1> QED BY <1>1, <1>2 DEF Lexed

LEMMA ScanLexes ==
  ASSUME ScannerOK, scanToken
  PROVE  Lexed(token', start', current')
<1>1. PICK s, e, t : s = start' /\ e = current' /\ t = token'
  OBVIOUS
<1>2. /\ source \in Seq(Chars) /\ Len(source) \in Nat /\ s \in 0 .. Len(source)
      /\ s = Start
  <2>1. source \in Seq(Chars) /\ current \in 0 .. Len(source) /\ start' = Start
    BY DEF ScannerOK, InSource, scanToken
  <2>2. Start \in current .. Len(source)
    BY <2>1, Skipped DEF Start
  <2> QED BY <1>1, <2>1, <2>2, CharsAre
<1>3. At(s) # NUL => s \in 0 .. Len(source) - 1
  BY <1>2, CharsAre
<1>4. ASSUME NEW type, NEW to, Taken(type, to)
      PROVE  e = to /\ t.type = type /\ t.from = s /\ t.to = e
  BY <1>1, <1>2, <1>4 DEF Taken, Token
<1>5. ASSUME NEW to, Failed(to)
      PROVE  e = to /\ t.type = "ERROR"
  BY <1>1, <1>5 DEF Failed, ErrorToken, Token
<1>6. ASSUME NEW type, NEW to, Taken(type, to), type \notin NoLexeme, Longest(s, to, type)
      PROVE  Lexed(t, s, e)
  BY <1>4, <1>6 DEF Lexed
<1>7. CASE EndOfFile
  <2>1. Taken("END_OF_FILE", s) /\ s = Len(source)
    BY <1>2, <1>7 DEF EndOfFile
  <2> QED BY <1>1, <1>4, <2>1 DEF Lexed
<1>8. CASE Symbol
  <2>1. At(s) \in DOMAIN Singles
    BY <1>2, <1>8 DEF Symbol, First
  <2>2. s \in 0 .. Len(source) - 1
    BY <1>3, <2>1, NulIsNone
  <2>3. IF At(s) \in DOMAIN WithEqual /\ At(s + 1) = "="
        THEN Taken(WithEqual[At(s)], s + 2)
        ELSE Taken(Singles[At(s)], s + 1)
    BY <1>2, <1>8 DEF Symbol, First
  <2>4. IF At(s) \in DOMAIN WithEqual /\ At(s + 1) = "="
        THEN Longest(s, s + 2, WithEqual[At(s)])
        ELSE Longest(s, s + 1, Singles[At(s)])
    BY <1>2, <2>1, <2>2, SymbolIsLongest
  <2> QED BY <1>1, <1>6, <2>1, <2>3, <2>4, TypesAreLexemes
<1>9. CASE handleString
  <2>1. At(s) = Quote
    BY <1>2, <1>9 DEF handleString, First
  <2>2. s \in 0 .. Len(source) - 1
    BY <1>3, <2>1, NulIsNone
  <2>3. PICK c : c = Close(s)
    OBVIOUS
  <2>4. IF c = Len(source) THEN Failed(c) ELSE Taken("STRING", c + 1)
    <3>1. c = Past(Start + 1, Chars \ {Quote})
      BY <1>2, <2>3 DEF Close
    <3> QED BY <1>9, <3>1, Zenon DEF handleString
  <2>5. IF c = Len(source) THEN Ends(s) = {} ELSE Longest(s, c + 1, "STRING")
    BY <1>2, <2>1, <2>2, <2>3, StringIsLongest
  <2>6. CASE c = Len(source)
    BY <1>1, <1>5, <2>1, <2>4, <2>5, <2>6 DEF Lexed
  <2>7. CASE c # Len(source)
    <3>1. "STRING" \notin NoLexeme
      BY DEF NoLexeme
    <3> QED BY <1>1, <1>6, <2>4, <2>5, <2>7, <3>1
  <2> QED BY <2>6, <2>7
<1>10. CASE handleNumber
  <2>1. At(s) \in Digits /\ Taken("NUMBER", NumberEnd(s + 1))
    BY <1>2, <1>10 DEF handleNumber, First
  <2>2. s \in 0 .. Len(source) - 1
    BY <1>3, <2>1, NulIsNone
  <2>3. Longest(s, NumberEnd(s + 1), "NUMBER")
    BY <1>2, <2>1, <2>2, NumberIsLongest
  <2>4. "NUMBER" \notin NoLexeme
    BY DEF NoLexeme
  <2> QED BY <1>1, <1>6, <2>1, <2>3, <2>4
<1>11. CASE handleIdentifier
  <2>1. At(s) \in Letters /\ Taken(WordType(s), Word(s))
    BY <1>2, <1>11 DEF handleIdentifier, First, Word
  <2>2. s \in 0 .. Len(source) - 1
    BY <1>3, <2>1, NulIsNone
  <2>3. Longest(s, Word(s), WordType(s))
    BY <1>2, <2>1, <2>2, WordIsLongest
  <2>4. WordType(s) \notin NoLexeme
    <3> DEFINE Begun(k) == \A i \in DOMAIN Keywords[k] : At(s + i - 1) = Keywords[k][i]
    <3>1. WordType(s) = IF \E k \in DOMAIN Keywords : Begun(k)
                        THEN CHOOSE k \in DOMAIN Keywords : Begun(k)
                        ELSE "IDENTIFIER"
      BY DEF WordType
    <3> HIDE DEF Begun
    <3>2. WordType(s) \in DOMAIN Keywords \/ WordType(s) = "IDENTIFIER"
      BY <3>1
    <3> QED BY <3>2, TypesAreLexemes DEF NoLexeme
  <2> QED BY <1>1, <1>6, <2>1, <2>3, <2>4
<1>12. CASE Unknown
  <2>1. /\ s < Len(source) /\ Failed(s + 1)
        /\ At(s) \notin DOMAIN Singles \cup {Quote} \cup Digits \cup Letters
    BY <1>2, <1>12 DEF Unknown, First
  <2>2. Ends(s) = {}
    BY <1>2, <2>1, NoneIsLongest
  <2> QED BY <1>1, <1>5, <2>1, <2>2 DEF Lexed
<1> QED BY <1>7, <1>8, <1>9, <1>10, <1>11, <1>12 DEF scanToken

(* For every source, the scanner takes the longest lexeme of the grammar   *)
(* with the type that it has there, but for words that go on after a       *)
(* keyword and numbers with one digit before the point, and it reports an  *)
(* error only where no lexeme begins.                                      *)
THEOREM TakesTheLongest == Spec => []LongestMatch
<1>1. Init => LongestMatch
  <2> SUFFICES ASSUME Init
               PROVE  LongestMatch
    OBVIOUS
  <2>1. source = << >> /\ current = 0 /\ token.type = "END_OF_FILE"
    BY DEF Init, Token
  <2>2. Lexed(token, start, current)
    BY <2>1 DEF Lexed
  <2> QED BY <2>2, LexedMatches
<1>2. ScannerOK /\ LongestMatch /\ [Next]_vars => LongestMatch'
  <2> SUFFICES ASSUME ScannerOK, LongestMatch, [Next]_vars
               PROVE  LongestMatch'
    OBVIOUS
  <2>1. LongestMatch' <=> Lexed(token, start, current)'
    BY LexedMatches, PTL
  <2>2. PICK s, e, t : s = start' /\ e = current' /\ t = token'
    OBVIOUS
  <2>3. Lexed(token, start, current)' <=> Lexed(t, s, e)'
    BY <2>2 DEF Lexed, Longest, LexemeType, Misread, Ends, At
  <2>4. CASE scanToken
    <3>1. source' = source
      BY <2>4 DEF scanToken
    <3> QED BY <2>1, <2>2, <2>3, <2>4, <3>1, ScanLexes, LexedStays
  <2>5. ASSUME NEW src, init(src)
        PROVE  LongestMatch'
    <3>1. t.type = "NONE"
      BY <2>2, <2>5 DEF init, Token
    <3>2. Lexed(t, s, e)'
      BY <3>1 DEF Lexed
    <3> QED BY <2>1, <2>3, <3>2
  <2>6. CASE UNCHANGED vars
    <3>1. source' = source /\ Lexed(t, s, e)
      BY <2>2, <2>6, LexedMatches DEF vars
    <3> QED BY <2>1, <2>3, <3>1, LexedStays
  <2> QED BY <2>4, <2>5, <2>6 DEF Next
<1> QED BY <1>1, <1>2, Invariant, PTL DEF Spec

-----------------------------------------------------------------------------
(* Numbers, as std::stod reads them.                                       *)

(* A number that the scanner took: its first digit is at s.                *)
NumberFrom(s, e) ==
  /\ s \in 0 .. Len(source) - 1 /\ At(s) \in Digits /\ e = NumberEnd(s + 1)

(* Where its first digits end, and what it is made of.                     *)
LEMMA NumberShape ==
  ASSUME source \in Seq(Chars), NEW s, NEW e, NumberFrom(s, e)
  PROVE  \E p \in s + 1 .. Len(source) :
           /\ \A k \in s .. p - 1 : At(k) \in Digits
           /\ At(p) \notin Digits
           /\ \/ e = p
              \/ /\ At(p) = "." /\ p + 1 < e /\ e <= Len(source)
                 /\ \A k \in p + 1 .. e - 1 : At(k) \in Digits
                 /\ At(e) \notin Digits
<1>1. s \in 0 .. Len(source) - 1 /\ At(s) \in Digits
  BY DEF NumberFrom
<1>2. s \in Nat /\ Len(source) \in Nat
  BY <1>1, EndsAre
<1>3. PICK i, p : i = s + 1 /\ p = Past(i, Digits)
  OBVIOUS
<1>4. i \in 0 .. Len(source)
  BY <1>1, <1>2, <1>3
<1>5. /\ p \in i .. Len(source) /\ At(p) \notin Digits
      /\ \A k \in i .. p - 1 : At(k) \in Digits
  BY <1>3, <1>4, DigitsEnd
<1>6. p \in s + 1 .. Len(source) /\ \A k \in s .. p - 1 : At(k) \in Digits
  BY <1>1, <1>2, <1>3, <1>5
<1>7. CASE p > i /\ At(p) = "." /\ At(p + 1) \in Digits
  <2>1. PICK d, q : d = p + 1 /\ q = Past(d, Digits)
    OBVIOUS
  <2>2. d \in 0 .. Len(source)
    BY <1>2, <1>6, <1>7, <2>1, CharsAre, NulIsNone
  <2>3. /\ q \in d .. Len(source) /\ At(q) \notin Digits
        /\ \A k \in d .. q - 1 : At(k) \in Digits
    BY <2>1, <2>2, DigitsEnd
  <2>4. e = q
    BY <1>3, <1>7, <2>1 DEF NumberFrom, NumberEnd
  <2>5. p + 1 < q /\ q <= Len(source)
    BY <1>2, <1>6, <1>7, <2>1, <2>3
  <2> QED BY <1>5, <1>6, <1>7, <2>1, <2>3, <2>4, <2>5
<1>8. CASE ~(p > i /\ At(p) = "." /\ At(p + 1) \in Digits)
  <2>1. e = p
    BY <1>3, <1>8 DEF NumberFrom, NumberEnd
  <2> QED BY <1>5, <1>6, <2>1
<1> QED BY <1>7, <1>8

(* What a number goes on with for std::stod, and not for the scanner.      *)
GoesOn(e) ==
  \/ At(e) \in {".", "x", "X"}
  \/ At(e) \in {"e", "E"} /\ At(e + 1) \in Digits \cup {"+", "-"}

LEMMA StodReadsToken ==
  ASSUME source \in Seq(Chars), NEW s, NEW e, NumberFrom(s, e), ~GoesOn(e)
  PROVE  Max(StodEnds(s)) = e
<1>1. s \in Nat /\ Len(source) \in Nat /\ s < Len(source)
  BY EndsAre DEF NumberFrom
<1>2. PICK p \in s + 1 .. Len(source) :
        /\ \A k \in s .. p - 1 : At(k) \in Digits
        /\ At(p) \notin Digits
        /\ \/ e = p
           \/ /\ At(p) = "." /\ p + 1 < e /\ e <= Len(source)
              /\ \A k \in p + 1 .. e - 1 : At(k) \in Digits
              /\ At(e) \notin Digits
  BY NumberShape
<1>3. p \in Nat /\ e \in s + 1 .. Len(source) /\ e \in Nat /\ p <= e /\ At(e) \notin Digits
  <2>1. e \in Nat
    BY <1>1, NumberEndIs DEF NumberFrom
  <2> QED BY <1>1, <1>2, <2>1
<1>4. \A k \in s .. e - 1 : At(k) \in Digits \cup {"."}
  BY <1>1, <1>2, <1>3
<1>5. IsMantissa(s, e)
  <2>1. CASE e = p
    BY <1>1, <1>2, <1>3, <2>1 DEF IsMantissa, IsInteger, All
  <2>2. CASE e # p
    <3>1. p \in s + 1 .. e - 1 /\ At(p) = "." /\ All(s, p, Digits) /\ All(p + 1, e, Digits)
      BY <1>1, <1>2, <1>3, <2>2 DEF All
    <3> QED BY <3>1 DEF IsMantissa
  <2> QED BY <2>1, <2>2
<1>6. ASSUME NEW j \in Nat, j <= Len(source), IsMantissa(s, j)
      PROVE  j <= e
  <2>1. CASE IsInteger(s, j)
    <3>1. \A k \in s .. j - 1 : At(k) \in Digits
      BY <2>1 DEF IsInteger, All
    <3>2. ~(p \in s .. j - 1)
      BY <1>2, <3>1
    <3> QED BY <1>1, <1>2, <1>3, <1>6, <3>2
  <2>2. ASSUME NEW k \in s + 1 .. j - 1, At(k) = ".", All(s, k, Digits), All(k + 1, j, Digits)
        PROVE  j <= e
    <3>1. k \in Nat /\ s < k /\ k < j
      BY <1>1, <1>6
    <3>2. /\ \A l \in s .. k - 1 : At(l) \in Digits
          /\ \A l \in k + 1 .. j - 1 : At(l) \in Digits
      BY <2>2 DEF All
    <3>3. ~(p \in s .. k - 1) /\ ~(k \in s .. p - 1)
      BY <1>2, <2>2, <3>2, KindsDiffer
    <3>4. k = p
      BY <1>1, <1>2, <1>3, <3>1, <3>3
    <3>5. e # p
      BY <2>2, <3>4 DEF GoesOn
    <3>6. ~(e \in k + 1 .. j - 1)
      BY <1>3, <3>2
    <3> QED BY <1>1, <1>2, <1>3, <1>6, <3>4, <3>5, <3>6
  <2> QED BY <1>6, <2>1, <2>2 DEF IsMantissa
<1>7. ASSUME NEW j \in StodEnds(s)
      PROVE  j <= e
  <2>1. j \in s + 1 .. Len(source) /\ j \in Nat /\ j <= Len(source)
    BY <1>1 DEF StodEnds
  <2>2. CASE IsMantissa(s, j)
    BY <1>6, <2>1, <2>2
  <2>3. ASSUME NEW k \in s + 1 .. j - 1, At(k) \in {"e", "E"}, IsMantissa(s, k),
               IsInteger(k + 1, j) \/ At(k + 1) \in {"+", "-"}
        PROVE  FALSE
    <3>1. k \in Nat /\ k <= Len(source) /\ s < k
      BY <1>1, <2>1
    <3>2. k <= e
      BY <1>6, <2>3, <3>1
    <3>3. At(k) \notin Digits \cup {"."}
      BY <2>3 DEF Digits
    <3>4. k = e
      BY <1>1, <1>3, <1>4, <3>1, <3>2, <3>3
    <3>5. IsInteger(k + 1, j) => At(k + 1) \in Digits
      BY <2>1, <3>1 DEF IsInteger, All
    <3> QED BY <2>3, <3>4, <3>5 DEF GoesOn
  <2>4. ASSUME s + 2 < j, At(s + 1) \in {"x", "X"}
        PROVE  FALSE
    <3>1. At(s + 1) \notin Digits \cup {"."}
      BY <2>4 DEF Digits
    <3>2. ~(s + 1 \in s .. e - 1)
      BY <1>4, <3>1
    <3>3. e = s + 1
      BY <1>1, <1>3, <3>2
    <3> QED BY <2>4, <3>3 DEF GoesOn
  <2> QED BY <2>2, <2>3, <2>4 DEF StodEnds
<1>8. e \in StodEnds(s) /\ StodEnds(s) \in SUBSET Nat
  BY <1>1, <1>3, <1>5 DEF StodEnds
<1> QED BY <1>7, <1>8, MaxIs

(* Nothing is skipped before a character that begins a token.              *)
LEMMA SkipsNothing ==
  ASSUME source \in Seq(Chars), NEW i \in 0 .. Len(source),
         At(i) \notin Whitespace, At(i) # "/"
  PROVE  SkipWhitespace[i] = i
<1>1. PICK j \in i .. Len(source) : j = Stop(i)
  BY StopIs
<1>2. \A k \in i .. j - 1 : At(k) \in Whitespace
  BY <1>1, StopIs
<1>3. j = i
  BY <1>2, CharsAre
<1>4. ~Comment(j)
  BY <1>3 DEF Comment
<1> QED BY <1>1, <1>3, <1>4, SkipIs

(* A point is taken for itself.                                            *)
LEMMA TakesDot ==
  ASSUME scanToken, First = "."
  PROVE  token'.type = "DOT"
<1>1. /\ "." \in DOMAIN Singles /\ Singles["."] = "DOT" /\ "." \notin DOMAIN WithEqual
      /\ "." \notin Digits /\ "." \notin Letters
  BY DEF Singles, WithEqual, Digits, Letters
<1>2. "." # Quote
  BY <1>1, KindsDiffer
<1>3. ASSUME EndOfFile
      PROVE  FALSE
  BY <1>3, NulIsNone DEF EndOfFile, First, At
<1>4. Symbol
  BY <1>1, <1>2, <1>3 DEF scanToken, handleString, handleNumber, handleIdentifier, Unknown
<1>5. Taken("DOT", Start + 1)
  BY <1>1, <1>4 DEF Symbol
<1> QED BY <1>5 DEF Taken, Token

(* A letter begins a word.                                                 *)
LEMMA TakesWord ==
  ASSUME scanToken, First \in Letters
  PROVE  token'.type = WordType(Start)
<1>1. First \notin DOMAIN Singles /\ First # Quote /\ First \notin Digits
  BY KindsDiffer
<1>2. ASSUME EndOfFile
      PROVE  FALSE
  BY <1>2, NulIsNone DEF EndOfFile, First, At
<1>3. handleIdentifier
  BY <1>1, <1>2 DEF scanToken, handleString, handleNumber, Symbol, Unknown
<1>4. Taken(WordType(Start), Past(Start + 1, Letters \cup Digits))
  BY <1>3 DEF handleIdentifier
<1> QED BY <1>4 DEF Taken, Token

(* What std::stod would take for an exponent, or for a number in base 16,  *)
(* begins no keyword.                                                      *)
LEMMA NoKeyword ==
  ASSUME NEW e \in Nat, GoesOn(e), At(e) # "."
  PROVE  At(e) \in Letters /\ WordType(e) = "IDENTIFIER"
<1>1. At(e) \in Letters
  BY DEF GoesOn, Letters
<1>2. ASSUME NEW k \in DOMAIN Keywords,
             \A i \in DOMAIN Keywords[k] : At(e + i - 1) = Keywords[k][i]
      PROVE  FALSE
  <2>1. 1 \in DOMAIN Keywords[k] /\ 2 \in DOMAIN Keywords[k]
    <3>1. Len(Keywords[k]) >= 2
      BY DEF Keywords
    <3>2. Keywords[k] \in Seq(Letters)
      BY KeywordsAre
    <3>3. PICK K : K = Keywords[k]
      OBVIOUS
    <3> QED BY <3>1, <3>2, <3>3
  <2>2. At(e) = Keywords[k][1] /\ At(e + 1) = Keywords[k][2]
    <3>1. At(e + 1 - 1) = Keywords[k][1] /\ At(e + 2 - 1) = Keywords[k][2]
      BY <1>2, <2>1
    <3>2. e + 1 - 1 = e /\ e + 2 - 1 = e + 1
      OBVIOUS
    <3> QED BY <3>1, <3>2
  <2>3. /\ Keywords[k][1] \notin {"x", "X", "E"}
        /\ Keywords[k][1] = "e" => Keywords[k][2] = "l"
    <3>1. CASE k = "ELSE"
      BY <3>1 DEF Keywords
    <3>2. CASE k # "ELSE"
      <4>1. Keywords[k][1] \in {"a", "c", "f", "i", "n", "o", "p", "r", "s", "t", "v", "w"}
        BY <3>2 DEF Keywords
      <4> QED BY <4>1
    <3> QED BY <3>1, <3>2
  <2>4. "l" \notin Digits \cup {"+", "-"}
    BY DEF Digits
  <2> QED BY <2>2, <2>3, <2>4 DEF GoesOn
<1> QED BY <1>1, <1>2 DEF WordType

(* The token that the scanner has returned, when it is a number.           *)
NumberOK ==
  token.type = "NUMBER" =>
    token.from = start /\ token.to = current /\ NumberFrom(start, current)

LEMMA NumberKept ==
  ASSUME ScannerOK, NumberOK, [Next]_vars
  PROVE  NumberOK'
<1>1. PICK s, e, t : s = start' /\ e = current' /\ t = token'
  OBVIOUS
<1>2. ASSUME source' = source
      PROVE  NumberFrom(s, e)' <=> NumberFrom(s, e)
  <2>1. Len(source)' = Len(source) /\ \A i : At(i)' = At(i)
    BY <1>2, SameLexemes
  <2>2. \A i : NumberEnd(i)' = NumberEnd(i)
    BY <2>1 DEF NumberEnd, Past
  <2> QED BY <2>1, <2>2 DEF NumberFrom
<1>3. NumberFrom(start, current)' <=> NumberFrom(s, e)'
  BY <1>1 DEF NumberFrom, NumberEnd, Past, At
<1>4. CASE scanToken
  <2> SUFFICES ASSUME t.type = "NUMBER"
               PROVE  t.from = s /\ t.to = e /\ NumberFrom(s, e)
    BY <1>1, <1>2, <1>3, <1>4 DEF NumberOK, scanToken
  <2>1. s = Start /\ Start \in 0 .. Len(source) /\ source \in Seq(Chars)
    <3>1. source \in Seq(Chars) /\ current \in 0 .. Len(source) /\ start' = Start
      BY <1>4 DEF ScannerOK, InSource, scanToken
    <3>2. Start \in current .. Len(source)
      BY <3>1, Skipped DEF Start
    <3> QED BY <1>1, <3>1, <3>2, CharsAre
  <2>2. ASSUME NEW type, NEW to, Taken(type, to)
        PROVE  e = to /\ type = "NUMBER" /\ t.from = s /\ t.to = e
    BY <1>1, <2>1, <2>2 DEF Taken, Token
  <2>3. ASSUME NEW to, Failed(to)
        PROVE  FALSE
    BY <1>1, <2>3 DEF Failed, ErrorToken, Token
  <2>4. /\ \A c \in DOMAIN Singles : Singles[c] # "NUMBER"
        /\ \A c \in DOMAIN WithEqual : WithEqual[c] # "NUMBER"
        /\ \A k \in DOMAIN Keywords : k # "NUMBER"
    BY DEF Singles, WithEqual, Keywords
  <2>5. CASE handleNumber
    <3>1. At(s) \in Digits /\ Taken("NUMBER", NumberEnd(s + 1))
      BY <2>1, <2>5 DEF handleNumber, First
    <3>2. s \in 0 .. Len(source) - 1
      BY <2>1, <3>1, CharsAre, NulIsNone
    <3> QED BY <2>2, <3>1, <3>2 DEF NumberFrom
  <2>6. CASE EndOfFile
    BY <2>2, <2>6 DEF EndOfFile
  <2>7. CASE Symbol
    BY <2>2, <2>4, <2>7 DEF Symbol
  <2>8. CASE handleString
    <3>1. PICK c : c = Past(Start + 1, Chars \ {Quote})
      OBVIOUS
    <3>2. IF c = Len(source) THEN Failed(c) ELSE Taken("STRING", c + 1)
      BY <2>8, <3>1, Zenon DEF handleString
    <3> QED BY <2>2, <2>3, <3>2
  <2>9. CASE handleIdentifier
    <3>1. WordType(Start) = "NUMBER"
      BY <2>2, <2>9 DEF handleIdentifier
    <3> DEFINE Begun(k) == \A i \in DOMAIN Keywords[k] : At(Start + i - 1) = Keywords[k][i]
    <3>2. WordType(Start) = IF \E k \in DOMAIN Keywords : Begun(k)
                            THEN CHOOSE k \in DOMAIN Keywords : Begun(k)
                            ELSE "IDENTIFIER"
      BY DEF WordType
    <3> HIDE DEF Begun
    <3> QED BY <2>4, <3>1, <3>2
  <2>10. CASE Unknown
    BY <2>3, <2>10 DEF Unknown
  <2> QED BY <1>4, <2>5, <2>6, <2>7, <2>8, <2>9, <2>10 DEF scanToken
<1>5. ASSUME NEW src, init(src)
      PROVE  NumberOK'
  BY <1>5 DEF init, Token, NumberOK
<1>6. CASE UNCHANGED vars
  <2>1. /\ source' = source /\ token' = token /\ start' = start /\ current' = current
    BY <1>6 DEF vars
  <2>2. NumberFrom(start, current)' <=> NumberFrom(start, current)
    BY <1>1, <1>2, <1>3, <2>1
  <2> QED BY <2>1, <2>2 DEF NumberOK
<1> QED BY <1>4, <1>5, <1>6 DEF Next

(* For every source, std::stod, which is given the source from a number    *)
(* token on, reads the number of the token, or the token that follows at   *)
(* once is a point or a name, which no expression goes on with.            *)
THEOREM StodAgrees == Spec => NumbersReadWhole
<1> DEFINE Reads ==
             scanToken /\ token.type = "NUMBER" =>
               \/ Max(StodEnds(token.from)) = token.to
               \/ start' = current /\ token'.type \in {"DOT", "IDENTIFIER"}
<1>1. Init => NumberOK
  BY DEF Init, Token, NumberOK
<1>2. ScannerOK /\ NumberOK /\ [Next]_vars => NumberOK'
  BY NumberKept
<1>3. ScannerOK /\ NumberOK /\ [Next]_vars => [Reads]_vars
  <2> SUFFICES ASSUME ScannerOK, NumberOK, scanToken, token.type = "NUMBER"
               PROVE  \/ Max(StodEnds(token.from)) = token.to
                      \/ start' = current /\ token'.type \in {"DOT", "IDENTIFIER"}
    OBVIOUS
  <2>1. /\ source \in Seq(Chars) /\ current \in 0 .. Len(source)
        /\ token.from = start /\ token.to = current /\ NumberFrom(start, current)
    BY DEF ScannerOK, InSource, NumberOK
  <2>2. PICK s, e : s = start /\ e = current
    OBVIOUS
  <2>3. CASE ~GoesOn(e)
    BY <2>1, <2>2, <2>3, StodReadsToken
  <2>4. CASE GoesOn(e)
    <3>1. At(e) \notin Whitespace /\ At(e) # "/"
      BY <2>4 DEF GoesOn, Whitespace
    <3>2. Start = e
      BY <2>1, <2>2, <3>1, SkipsNothing DEF Start
    <3>3. start' = current /\ First = At(e)
      BY <2>2, <3>2 DEF scanToken, First
    <3>4. CASE At(e) = "."
      BY <3>3, <3>4, TakesDot
    <3>5. CASE At(e) # "."
      <4>1. e \in Nat
        BY <2>1, <2>2, CharsAre
      <4>2. At(e) \in Letters /\ WordType(e) = "IDENTIFIER"
        BY <2>4, <3>5, <4>1, NoKeyword
      <4> QED BY <3>2, <3>3, <4>2, TakesWord
    <3> QED BY <3>4, <3>5
  <2> QED BY <2>3, <2>4
<1> QED BY <1>1, <1>2, <1>3, Invariant, PTL DEF Spec, NumbersReadWhole
=============================================================================
