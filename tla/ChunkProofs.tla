---------------------------- MODULE ChunkProofs -----------------------------
(***************************************************************************)
(* Proofs about module Chunk, for every set of bytes and of lines and for  *)
(* chunks of every length: the run-length table is tight, getLine answers  *)
(* for every line, and the table implements one line per byte.             *)
(***************************************************************************)
EXTENDS Chunk, Induction, SequenceTheorems

(* What the table is a sequence of.                                        *)
Run == [count : Nat \ {0}, line : Lines]

-----------------------------------------------------------------------------
(* The sums of the counts.  Sums is defined by recursion: that there is    *)
(* such a function is shown by building it a run at a time.                *)

(* The length of a table and the parts of its runs.                        *)
LEMMA RunsAre ==
  ASSUME NEW runs \in Seq(Run)
  PROVE  /\ Len(runs) \in Nat /\ DOMAIN runs = 1 .. Len(runs)
         /\ \A i \in 1 .. Len(runs) :
              runs[i].count \in Nat /\ runs[i].count > 0 /\ runs[i].line \in Lines
<1>1. \A i \in 1 .. Len(runs) : runs[i] \in Run
  BY ElementOfSeq
<1> QED BY <1>1, LenProperties DEF Run

(* There are sums of the first n runs.                                     *)
LEMMA SumsExist ==
  ASSUME NEW runs \in Seq(Run), NEW n \in 0 .. Len(runs)
  PROVE  \E g \in [0 .. n -> Nat] :
           g = [i \in 0 .. n |-> IF i = 0 THEN 0 ELSE g[i - 1] + runs[i].count]
<1> DEFINE IsSum(g, m) ==
             g = [i \in 0 .. m |-> IF i = 0 THEN 0 ELSE g[i - 1] + runs[i].count]
           Summed == {m \in Nat : m <= Len(runs) => \E g \in [0 .. m -> Nat] : IsSum(g, m)}
<1>1. 0 \in Summed
  <2>1. [i \in 0 .. 0 |-> 0] \in [0 .. 0 -> Nat] /\ IsSum([i \in 0 .. 0 |-> 0], 0)
    OBVIOUS
  <2> QED BY <2>1
<1>2. ASSUME NEW m \in Nat, m + 1 <= Len(runs), NEW g \in [0 .. m -> Nat], IsSum(g, m)
      PROVE  \E h \in [0 .. m + 1 -> Nat] : IsSum(h, m + 1)
  <2> DEFINE h == [i \in 0 .. m + 1 |-> IF i \in 0 .. m THEN g[i] ELSE g[m] + runs[m + 1].count]
  <2>1. h \in [0 .. m + 1 -> Nat]
    BY <1>2, RunsAre
  <2>2. ASSUME NEW i \in 0 .. m + 1
        PROVE  h[i] = IF i = 0 THEN 0 ELSE h[i - 1] + runs[i].count
    <3>1. CASE i = 0
      BY <1>2, <3>1
    <3>2. CASE i \in 1 .. m
      BY <1>2, <3>2
    <3>3. CASE i = m + 1
      BY <3>3
    <3> QED BY <3>1, <3>2, <3>3
  <2>3. IsSum(h, m + 1)
    BY <2>2
  <2> QED BY <2>1, <2>3
<1>3. ASSUME NEW m \in Nat, m \in Summed
      PROVE  m + 1 \in Summed
  <2> HIDE DEF IsSum
  <2> SUFFICES ASSUME m + 1 <= Len(runs)
               PROVE  \E h \in [0 .. m + 1 -> Nat] : IsSum(h, m + 1)
    OBVIOUS
  <2>1. m <= Len(runs)
    BY RunsAre
  <2>2. \E g \in [0 .. m -> Nat] : IsSum(g, m)
    BY <1>3, <2>1
  <2> QED BY <1>2, <2>2
<1>4. \A m \in Nat : m \in Summed
  <2> HIDE DEF Summed
  <2> QED BY <1>1, <1>3, NumbersInSet
<1>5. n \in Nat /\ n <= Len(runs)
  BY RunsAre
<1>6. n \in Summed
  <2> HIDE DEF Summed
  <2> QED BY <1>4, <1>5
<1> QED BY <1>5, <1>6

(* What the sums are: the recursion, as equations.                         *)
LEMMA SumsAre ==
  ASSUME NEW runs \in Seq(Run)
  PROVE  /\ Sums(runs) \in [0 .. Len(runs) -> Nat]
         /\ Sums(runs)[0] = 0
         /\ \A i \in 1 .. Len(runs) : Sums(runs)[i] = Sums(runs)[i - 1] + runs[i].count
<1> DEFINE IsSum(g) ==
             g = [i \in 0 .. Len(runs) |-> IF i = 0 THEN 0 ELSE g[i - 1] + runs[i].count]
<1>1. PICK g \in [0 .. Len(runs) -> Nat] : IsSum(g)
  BY RunsAre, SumsExist, SMTT(30)
<1>2. Sums(runs) = CHOOSE h : IsSum(h)
  BY Zenon DEF Sums
<1>3. IsSum(Sums(runs))
  <2> HIDE DEF IsSum
  <2> QED BY <1>1, <1>2
<1>4. ASSUME NEW h, IsSum(h)
      PROVE  h[0] = 0 /\ \A i \in 1 .. Len(runs) : h[i] = h[i - 1] + runs[i].count
  BY <1>4, RunsAre, SMTT(30)
<1> DEFINE Counted_ == {i \in Nat : i <= Len(runs) => Sums(runs)[i] \in Nat}
<1>5. 0 \in Counted_
  BY <1>3, <1>4
<1>6. ASSUME NEW i \in Nat, i \in Counted_
      PROVE  i + 1 \in Counted_
  BY <1>3, <1>4, <1>6, RunsAre
<1>7. \A i \in Nat : i \in Counted_
  <2> HIDE DEF Counted_
  <2> QED BY <1>5, <1>6, NumbersInSet
<1>8. \A i \in 0 .. Len(runs) : Sums(runs)[i] \in Nat
  BY <1>7, RunsAre
<1>9. ASSUME NEW h, IsSum(h), \A i \in 0 .. Len(runs) : h[i] \in Nat
      PROVE  h \in [0 .. Len(runs) -> Nat]
  BY <1>9
<1> HIDE DEF IsSum
<1> QED BY <1>3, <1>4, <1>8, <1>9

(* Two tables that begin alike have the same sums so far.                  *)
LEMMA SumsAgree ==
  ASSUME NEW q \in Seq(Run), NEW r \in Seq(Run),
         NEW n \in Nat, n <= Len(q), n <= Len(r),
         \A i \in 1 .. n : q[i].count = r[i].count
  PROVE  Sums(q)[n] = Sums(r)[n]
<1> DEFINE Same == {i \in Nat : i <= n => Sums(q)[i] = Sums(r)[i]}
<1>1. 0 \in Same
  BY SumsAre
<1>2. ASSUME NEW i \in Nat, i \in Same
      PROVE  i + 1 \in Same
  <2> SUFFICES ASSUME i + 1 <= n
               PROVE  Sums(q)[i + 1] = Sums(r)[i + 1]
    OBVIOUS
  <2>1. i + 1 \in 1 .. n /\ i + 1 \in 1 .. Len(q) /\ i + 1 \in 1 .. Len(r)
    BY RunsAre
  <2>2. Sums(q)[i + 1 - 1] = Sums(r)[i + 1 - 1]
    BY <1>2
  <2> QED BY <2>1, <2>2, SumsAre
<1>3. \A i \in Nat : i \in Same
  <2> HIDE DEF Same
  <2> QED BY <1>1, <1>2, NumbersInSet
<1> QED BY <1>3

(* The sums grow.                                                          *)
LEMMA SumsGrow ==
  ASSUME NEW runs \in Seq(Run), NEW j \in 0 .. Len(runs)
  PROVE  \A i \in 0 .. j - 1 : Sums(runs)[i] < Sums(runs)[j]
<1> DEFINE Grown == {k \in Nat : k <= Len(runs) =>
                       \A i \in 0 .. k - 1 : Sums(runs)[i] < Sums(runs)[k]}
<1>1. 0 \in Grown
  OBVIOUS
<1>2. ASSUME NEW k \in Nat, k \in Grown
      PROVE  k + 1 \in Grown
  <2> SUFFICES ASSUME k + 1 <= Len(runs), NEW i \in 0 .. k
               PROVE  Sums(runs)[i] < Sums(runs)[k + 1]
    OBVIOUS
  <2>1. /\ k + 1 \in 1 .. Len(runs)
        /\ Sums(runs)[k + 1] = Sums(runs)[k + 1 - 1] + runs[k + 1].count
    BY SumsAre, RunsAre
  <2>2. runs[k + 1].count \in Nat /\ runs[k + 1].count > 0
    BY <2>1, RunsAre
  <2>3. Sums(runs)[k] \in Nat /\ Sums(runs)[i] \in Nat
    <3>1. Len(runs) \in Nat
      BY RunsAre
    <3>2. k \in 0 .. Len(runs) /\ i \in 0 .. Len(runs)
      BY <3>1
    <3>3. Sums(runs) \in [0 .. Len(runs) -> Nat]
      BY SumsAre
    <3> QED BY <3>2, <3>3, Zenon
  <2>4. i = k \/ Sums(runs)[i] < Sums(runs)[k]
    BY <1>2, <2>1
  <2>5. Sums(runs)[k + 1] = Sums(runs)[k] + runs[k + 1].count
    <3>1. k + 1 - 1 = k
      OBVIOUS
    <3> QED BY <2>1, <3>1, Zenon
  <2> DEFINE a == Sums(runs)[i]
             b == Sums(runs)[k]
             x == runs[k + 1].count
  <2>6. a \in Nat /\ b \in Nat /\ x \in Nat /\ x > 0 /\ (a = b \/ a < b)
    BY <2>2, <2>3, <2>4, Zenon
  <2> HIDE DEF a, b, x
  <2>7. a < b + x
    BY <2>6
  <2> QED BY <2>5, <2>7, Zenon DEF a, b, x
<1>3. \A k \in Nat : k \in Grown
  <2> HIDE DEF Grown
  <2> QED BY <1>1, <1>2, NumbersInSet
<1> QED BY <1>3, RunsAre

(* Every byte is in one run.                                               *)
LEMMA OneRun ==
  ASSUME NEW runs \in Seq(Run), NEW o \in 1 .. Sums(runs)[Len(runs)]
  PROVE  /\ \E i \in DOMAIN runs : Sums(runs)[i - 1] < o /\ o <= Sums(runs)[i]
         /\ \A i, j \in DOMAIN runs :
              /\ Sums(runs)[i - 1] < o /\ o <= Sums(runs)[i]
              /\ Sums(runs)[j - 1] < o /\ o <= Sums(runs)[j]
              => i = j
<1> DEFINE n == Len(runs)
           S == Sums(runs)
           Reached == {i \in Nat : i <= n /\ o <= S[i]}
<1>1. /\ n \in Nat /\ DOMAIN runs = 1 .. n
      /\ S \in [0 .. n -> Nat] /\ S[0] = 0
  BY RunsAre, SumsAre
<1>2. \A i, j \in 0 .. n : i < j => S[i] < S[j]
  BY SumsGrow
<1> HIDE DEF n, S
<1>3. n \in Reached
  BY <1>1 DEF n, S
<1>4. PICK m \in Reached : \A i \in Reached : m <= i
  <2>1. Reached \in SUBSET Nat
    OBVIOUS
  <2> HIDE DEF Reached
  <2> QED BY <1>3, <2>1, LeastElement
<1>5. o \in Nat /\ o > 0
  BY <1>1 DEF n, S
<1>6. m \in 1 .. n /\ m - 1 \in 0 .. n
  BY <1>1, <1>4, <1>5
<1>7. S[m - 1] < o /\ o <= S[m]
  BY <1>1, <1>4, <1>5, <1>6
<1>8. ASSUME NEW i \in 1 .. n, NEW j \in 1 .. n, i < j
      PROVE  S[i] <= S[j - 1]
  <2>1. PICK k : k = j - 1
    OBVIOUS
  <2>2. i \in 0 .. n /\ k \in 0 .. n /\ (i = k \/ i < k)
    BY <1>1, <1>8, <2>1
  <2>3. S[i] \in Nat /\ (i = k \/ S[i] < S[k])
    BY <1>1, <1>2, <2>2
  <2>4. S[i] <= S[k]
    BY <1>1, <2>2, <2>3
  <2> QED BY <2>1, <2>4
<1>9. ASSUME NEW i \in 1 .. n, NEW j \in 1 .. n,
             S[i - 1] < o, o <= S[i], S[j - 1] < o, o <= S[j]
      PROVE  i = j
  <2>1. S[i] \in Nat /\ S[j] \in Nat /\ S[i - 1] \in Nat /\ S[j - 1] \in Nat
    BY <1>1
  <2> QED BY <1>5, <1>8, <1>9, <2>1
<1> QED BY <1>1, <1>6, <1>7, <1>9 DEF S

(* The line of a byte, by its run.                                         *)
LEMMA UnrollAt ==
  ASSUME NEW runs \in Seq(Run), NEW i \in 1 .. Len(runs),
         NEW o \in 1 .. Sums(runs)[Len(runs)],
         Sums(runs)[i - 1] < o, o <= Sums(runs)[i]
  PROVE  Unroll(runs)[o] = runs[i].line
<1> DEFINE InRun(k) == k \in DOMAIN runs /\ Sums(runs)[k - 1] < o /\ o <= Sums(runs)[k]
<1>1. InRun(i)
  BY RunsAre
<1>2. \A k : InRun(k) => k = i
  BY <1>1, OneRun
<1>3. (CHOOSE k \in DOMAIN runs : Sums(runs)[k - 1] < o /\ o <= Sums(runs)[k]) = i
  BY <1>1, <1>2
<1> QED BY <1>3 DEF Unroll

-----------------------------------------------------------------------------
(* One more byte in a table.                                               *)

(* Every byte keeps its line in a table that goes on where another ends:   *)
(* its last run may have grown, and runs may follow it.                    *)
LEMMA LinesKept ==
  ASSUME NEW q \in Seq(Run), NEW r \in Seq(Run), Len(q) <= Len(r),
         \A i \in 1 .. Len(q) : q[i].line = r[i].line /\ q[i].count <= r[i].count,
         \A i \in 1 .. Len(q) - 1 : q[i].count = r[i].count,
         NEW o \in 1 .. Sums(q)[Len(q)]
  PROVE  o \in 1 .. Sums(r)[Len(r)] /\ Unroll(r)[o] = Unroll(q)[o]
<1>1. PICK i \in 1 .. Len(q) : Sums(q)[i - 1] < o /\ o <= Sums(q)[i]
  BY OneRun, RunsAre
<1>2. /\ Len(q) \in Nat /\ Len(r) \in Nat /\ i \in 1 .. Len(r)
      /\ i - 1 \in 0 .. Len(q) /\ i - 1 \in 0 .. Len(r) /\ i - 1 <= Len(q) - 1
  BY RunsAre
<1>3. Sums(q)[i - 1] = Sums(r)[i - 1]
  <2>1. PICK m : m = i - 1
    OBVIOUS
  <2>2. /\ m \in Nat /\ m <= Len(q) /\ m <= Len(r)
        /\ \A k \in 1 .. m : q[k].count = r[k].count
    BY <1>2, <2>1
  <2>3. Sums(q)[m] = Sums(r)[m]
    BY <2>2, SumsAgree
  <2> QED BY <2>1, <2>3
<1>4. /\ Sums(q)[i] = Sums(q)[i - 1] + q[i].count
      /\ Sums(r)[i] = Sums(r)[i - 1] + r[i].count
      /\ Sums(q)[i - 1] \in Nat /\ Sums(r)[i] \in Nat /\ Sums(q)[i] \in Nat
      /\ Sums(r)[Len(r)] \in Nat /\ Sums(q)[Len(q)] \in Nat
  <2>1. /\ Sums(q)[i] = Sums(q)[i - 1] + q[i].count
        /\ \A k \in 0 .. Len(q) : Sums(q)[k] \in Nat
    BY <1>2, SumsAre
  <2>2. /\ Sums(r)[i] = Sums(r)[i - 1] + r[i].count
        /\ \A k \in 0 .. Len(r) : Sums(r)[k] \in Nat
    BY <1>2, SumsAre
  <2> QED BY <1>2, <2>1, <2>2
<1>5. q[i].count \in Nat /\ r[i].count \in Nat /\ q[i].count <= r[i].count
  BY <1>2, RunsAre
<1>6. Sums(r)[i - 1] < o /\ o <= Sums(r)[i]
  BY <1>1, <1>3, <1>4, <1>5, SMTT(30)
<1>7. Sums(r)[i] <= Sums(r)[Len(r)]
  <2>1. i < Len(r) => Sums(r)[i] < Sums(r)[Len(r)]
    BY <1>2, SumsGrow
  <2> QED BY <1>2, <1>4, <2>1
<1>8. o \in 1 .. Sums(r)[Len(r)]
  BY <1>4, <1>6, <1>7
<1> QED BY <1>1, <1>2, <1>6, <1>8, UnrollAt

(* The line comes again: its run grows.                                    *)
LEMMA RunGrows ==
  ASSUME NEW q \in Seq(Run), Len(q) > 0,
         NEW r, r = [q EXCEPT ![Len(q)].count = @ + 1]
  PROVE  /\ r \in Seq(Run) /\ Len(r) = Len(q)
         /\ Sums(r)[Len(r)] = Sums(q)[Len(q)] + 1
         /\ \A i \in 1 .. Len(q) : q[i].line = r[i].line /\ q[i].count <= r[i].count
         /\ \A i \in 1 .. Len(q) - 1 : q[i].count = r[i].count
         /\ Unroll(r)[Sums(r)[Len(r)]] = q[Len(q)].line
<1> DEFINE n == Len(q)
           e == [q[n] EXCEPT !.count = @ + 1]
<1>1. n \in Nat /\ n \in 1 .. n /\ n - 1 \in 0 .. n
  BY RunsAre
<1>2. q[n] \in Run
  BY <1>1, ElementOfSeq
<1>3. e \in Run /\ e.line = q[n].line /\ e.count = q[n].count + 1
  BY <1>2 DEF Run
<1>4. r = [q EXCEPT ![n] = e]
  OBVIOUS
<1>5. /\ r \in Seq(Run) /\ Len(r) = n
      /\ \A i \in 1 .. n : r[i] = IF i = n THEN e ELSE q[i]
  <2> HIDE DEF e, n
  <2> QED BY <1>1, <1>3, <1>4, ExceptSeq DEF n
<1>6. \A i \in 1 .. n : q[i].line = r[i].line /\ q[i].count <= r[i].count
  <2> HIDE DEF e
  <2> QED BY <1>3, <1>5, RunsAre
<1>7. \A i \in 1 .. n - 1 : q[i].count = r[i].count
  <2> HIDE DEF e
  <2> QED BY <1>1, <1>5
<1>8. Sums(q)[n - 1] = Sums(r)[n - 1]
  <2>1. PICK m : m = n - 1
    OBVIOUS
  <2>2. /\ m \in Nat /\ m <= Len(q) /\ m <= Len(r)
        /\ \A k \in 1 .. m : q[k].count = r[k].count
    BY <1>1, <1>5, <1>7, <2>1
  <2>3. Sums(q)[m] = Sums(r)[m]
    BY <1>5, <2>2, SumsAgree
  <2> QED BY <2>1, <2>3
<1>9. Sums(q)[n] = Sums(q)[n - 1] + q[n].count /\ Sums(r)[n] = Sums(r)[n - 1] + r[n].count
  BY <1>1, <1>5, SumsAre
<1>10. /\ Sums(q)[n - 1] \in Nat /\ q[n].count \in Nat /\ q[n].count > 0
       /\ Sums(q)[n] \in Nat /\ Sums(r)[n] \in Nat
  <2>1. q[n].count \in Nat /\ q[n].count > 0
    BY <1>1, RunsAre
  <2>2. \A k \in 0 .. n : Sums(q)[k] \in Nat
    BY SumsAre
  <2>3. \A k \in 0 .. n : Sums(r)[k] \in Nat
    BY <1>5, SumsAre
  <2>4. Sums(q)[n - 1] \in Nat
    BY <1>1, <2>2
  <2>5. n \in 0 .. n
    BY <1>1
  <2>6. Sums(q)[n] \in Nat /\ Sums(r)[n] \in Nat
    BY <2>2, <2>3, <2>5
  <2> QED BY <2>1, <2>4, <2>6
<1>11. r[n].count = q[n].count + 1 /\ r[n].line = q[n].line
  BY <1>1, <1>3, <1>5
<1>12. Sums(r)[n] = Sums(q)[n] + 1
  BY <1>8, <1>9, <1>10, <1>11
<1>13. Unroll(r)[Sums(r)[n]] = r[n].line
  <2>1. Sums(r)[n - 1] < Sums(r)[n] /\ Sums(r)[n] \in 1 .. Sums(r)[Len(r)]
    BY <1>5, <1>8, <1>9, <1>10, <1>11, <1>12
  <2>2. Sums(r)[n] <= Sums(r)[n] /\ n \in 1 .. Len(r)
    BY <1>1, <1>5, <1>10
  <2> QED BY <1>5, <2>1, <2>2, UnrollAt
<1> QED BY <1>5, <1>6, <1>7, <1>11, <1>12, <1>13

(* Another line begins a run.                                              *)
LEMMA RunBegins ==
  ASSUME NEW q \in Seq(Run), NEW r \in Seq(Run), Len(r) = Len(q) + 1,
         \A i \in 1 .. Len(q) : q[i] = r[i], r[Len(r)].count = 1
  PROVE  /\ Sums(r)[Len(r)] = Sums(q)[Len(q)] + 1
         /\ Unroll(r)[Sums(r)[Len(r)]] = r[Len(r)].line
<1> DEFINE n == Len(q)
<1>1. n \in Nat
  BY RunsAre
<1>2. r[n + 1].count = 1
  OBVIOUS
<1>3. Sums(q)[n] = Sums(r)[n] /\ Sums(q)[n] \in Nat
  <2>1. n <= Len(q) /\ n <= Len(r) /\ \A k \in 1 .. n : q[k].count = r[k].count
    BY <1>1, <1>2
  <2>2. Sums(q)[n] = Sums(r)[n]
    BY <1>1, <2>1, SumsAgree
  <2>3. \A i \in 0 .. n : Sums(q)[i] \in Nat
    BY <1>1, SumsAre
  <2> QED BY <1>1, <2>2, <2>3
<1>4. Sums(r)[n + 1] = Sums(r)[n] + 1
  <2>1. \A i \in 1 .. Len(r) : Sums(r)[i] = Sums(r)[i - 1] + r[i].count
    BY <1>2, SumsAre
  <2>2. n + 1 \in 1 .. Len(r) /\ n + 1 - 1 = n
    BY <1>1, <1>2
  <2> QED BY <1>2, <2>1, <2>2
<1>5. Unroll(r)[Sums(r)[n + 1]] = r[n + 1].line
  <2>1. PICK m : m = n + 1
    OBVIOUS
  <2>2. /\ Sums(r)[m - 1] < Sums(r)[m] /\ Sums(r)[m] <= Sums(r)[m]
        /\ Sums(r)[m] \in 1 .. Sums(r)[Len(r)] /\ m \in 1 .. Len(r)
    BY <1>1, <1>3, <1>4, <2>1
  <2>3. Unroll(r)[Sums(r)[m]] = r[m].line
    BY <1>2, <2>2, UnrollAt
  <2> QED BY <2>1, <2>3
<1> QED BY <1>2, <1>3, <1>4, <1>5

-----------------------------------------------------------------------------
(* The invariant: the shape of the table, and RunsTight.                   *)

ChunkOK == code_ \in Seq(Bytes) /\ lines \in Seq(Run)
IInv == ChunkOK /\ RunsTight

(* What write does to the table.                                           *)
LEMMA CountedIs ==
  ASSUME IInv, NEW line \in Lines, NEW r, r = Counted(line)
  PROVE  /\ r \in Seq(Run)
         /\ Sums(r)[Len(r)] = Sums(lines)[Len(lines)] + 1
         /\ \A i \in 1 .. Len(r) - 1 : r[i].line # r[i + 1].line
         /\ \A o \in 1 .. Sums(lines)[Len(lines)] : Unroll(r)[o] = Unroll(lines)[o]
         /\ Unroll(r)[Sums(r)[Len(r)]] = line
<1> DEFINE n == Len(lines)
<1>1. /\ lines \in Seq(Run) /\ n \in Nat
      /\ \A i \in 1 .. n : lines[i].count \in Nat
      /\ \A i \in 1 .. n - 1 : lines[i].line # lines[i + 1].line
  BY RunsAre DEF IInv, ChunkOK, RunsTight
<1>2. CASE lines # << >> /\ Last(lines).line = line
  <2>1. r = [lines EXCEPT ![Len(lines)].count = @ + 1]
    BY <1>2 DEF Counted
  <2>2. n > 0 /\ lines[n].line = line
    BY <1>1, <1>2, EmptySeq DEF Last
  <2>3. /\ r \in Seq(Run) /\ Len(r) = n
        /\ Sums(r)[Len(r)] = Sums(lines)[n] + 1
        /\ \A i \in 1 .. n : lines[i].line = r[i].line /\ lines[i].count <= r[i].count
        /\ \A i \in 1 .. n - 1 : lines[i].count = r[i].count
        /\ Unroll(r)[Sums(r)[Len(r)]] = lines[n].line
    <3> HIDE DEF n
    <3> QED BY <1>1, <2>1, <2>2, RunGrows DEF n
  <2>4. \A o \in 1 .. Sums(lines)[n] : Unroll(r)[o] = Unroll(lines)[o]
    <3>1. n <= Len(r)
      BY <1>1, <2>3
    <3> QED BY <1>1, <2>3, <3>1, LinesKept
  <2>5. \A i \in 1 .. Len(r) - 1 : r[i].line # r[i + 1].line
    BY <1>1, <2>3
  <2> QED BY <2>2, <2>3, <2>4, <2>5
<1>3. CASE ~(lines # << >> /\ Last(lines).line = line)
  <2>1. PICK e \in Run : r = Append(lines, e) /\ e.count = 1 /\ e.line = line
    BY <1>3 DEF Counted, Run
  <2>2. /\ r \in Seq(Run) /\ Len(r) = n + 1
        /\ Sums(r)[Len(r)] = Sums(lines)[n] + 1
        /\ \A i \in 1 .. n : lines[i] = r[i]
        /\ r[Len(r)].line = line
        /\ Unroll(r)[Sums(r)[Len(r)]] = line
    <3>1. /\ r \in Seq(Run) /\ Len(r) = n + 1
          /\ \A i \in 1 .. n : lines[i] = r[i]
          /\ r[Len(r)] = e
      BY <1>1, <2>1, AppendProperties
    <3> QED BY <1>1, <2>1, <3>1, RunBegins
  <2>3. \A o \in 1 .. Sums(lines)[n] : Unroll(r)[o] = Unroll(lines)[o]
    <3>1. /\ \A i \in 1 .. n : lines[i].line = r[i].line /\ lines[i].count <= r[i].count
          /\ \A i \in 1 .. n - 1 : lines[i].count = r[i].count
          /\ n <= Len(r)
      BY <1>1, <2>2
    <3> QED BY <1>1, <2>2, <3>1, LinesKept
  <2>4. n > 0 => lines[n].line # line
    BY <1>1, <1>3, EmptySeq DEF Last
  <2>5. ASSUME NEW i \in 1 .. Len(r) - 1
        PROVE  r[i].line # r[i + 1].line
    <3>1. CASE i = n
      BY <1>1, <2>2, <2>4, <3>1
    <3>2. CASE i # n
      <4>1. i \in 1 .. n - 1 /\ i \in 1 .. n /\ i + 1 \in 1 .. n
        BY <1>1, <2>2, <3>2
      <4>2. lines[i] = r[i] /\ lines[i + 1] = r[i + 1]
        BY <2>2, <4>1
      <4>3. lines[i].line # lines[i + 1].line
        BY <1>1, <4>1
      <4> QED BY <4>2, <4>3, Zenon
    <3> QED BY <3>1, <3>2
  <2> QED BY <2>2, <2>3, <2>5
<1> QED BY <1>2, <1>3

(* An empty chunk has an empty table.                                      *)
LEMMA InitHolds == Init => IInv
<1> SUFFICES ASSUME Init PROVE IInv
  OBVIOUS
<1>1. /\ code_ = << >> /\ lines = << >>
      /\ code_ \in Seq(Bytes) /\ lines \in Seq(Run) /\ Len(code_) = 0 /\ Len(lines) = 0
  BY EmptySeq DEF Init
<1>2. Sums(lines)[0] = 0
  BY <1>1, SumsAre
<1>3. DOMAIN lines = 1 .. 0
  BY <1>1
<1> QED BY <1>1, <1>2, <1>3 DEF IInv, ChunkOK, RunsTight, Counts

(* A byte more in the code is a byte more in the last run, which may be a  *)
(* new one.                                                                *)
LEMMA WriteKeeps ==
  ASSUME IInv, NEW byte \in Bytes, NEW line \in Lines, write(byte, line)
  PROVE  IInv'
<1>1. /\ code_' \in Seq(Bytes) /\ Len(code_') = Len(code_) + 1
  BY AppendProperties DEF write, IInv, ChunkOK
<1>2. /\ lines' \in Seq(Run)
      /\ Sums(lines')[Len(lines')] = Sums(lines)[Len(lines)] + 1
      /\ \A i \in 1 .. Len(lines') - 1 : lines'[i].line # lines'[i + 1].line
  BY CountedIs DEF write
<1>3. \A i \in DOMAIN lines' : lines'[i].count > 0
  BY <1>2, RunsAre
<1> QED BY <1>1, <1>2, <1>3 DEF IInv, ChunkOK, RunsTight, Counts

(* A patch keeps the length of the code.                                   *)
LEMMA PatchKeeps ==
  ASSUME IInv, NEW i \in DOMAIN code_, NEW byte \in Bytes, patch(i, byte)
  PROVE  IInv'
<1>1. code_ \in Seq(Bytes) /\ i \in 1 .. Len(code_)
  BY LenProperties DEF IInv, ChunkOK
<1>2. code_' \in Seq(Bytes) /\ Len(code_') = Len(code_)
  BY <1>1, ExceptSeq DEF patch
<1> QED BY <1>2 DEF IInv, ChunkOK, RunsTight, Counts, patch

(* The table of a chunk is a sequence of runs which covers the code        *)
(* tightly, in every state: write grows its last run or begins one, and    *)
(* patching jumps does not reach it.                                       *)
THEOREM Invariant == Spec => []IInv
<1>1. IInv /\ [Next]_vars => IInv'
  <2> SUFFICES ASSUME IInv, [Next]_vars PROVE IInv'
    OBVIOUS
  <2>1. CASE Next
    BY <2>1, WriteKeeps, PatchKeeps DEF Next
  <2>2. CASE UNCHANGED vars
    BY <2>2 DEF vars, IInv, ChunkOK, RunsTight, Counts
  <2> QED BY <2>1, <2>2
<1> QED BY <1>1, InitHolds, PTL DEF Spec

(* The table is as short as it can be and covers the code, whatever lines  *)
(* come after one another and whatever is patched meanwhile.               *)
THEOREM TableIsTight == Spec => []RunsTight
BY Invariant, PTL DEF IInv

(* The loop of getLine stops in the run of the offset.                     *)
LEMMA FoundAt ==
  ASSUME IInv, NEW o \in 0 .. Len(code_) - 1
  PROVE  getLine(o) = Unrolled[o + 1] % 256
<1> DEFINE S == Sums(lines)
           n == Len(lines)
           StopsAt(i) == i \in DOMAIN lines /\ S[i] > o /\ \A j \in 1 .. i - 1 : S[j] <= o
<1>1. /\ lines \in Seq(Run) /\ n \in Nat /\ DOMAIN lines = 1 .. n
      /\ S \in [0 .. n -> Nat] /\ S[0] = 0 /\ S[n] = Len(code_)
      /\ Len(code_) \in Nat
  BY RunsAre, SumsAre, LenProperties DEF IInv, ChunkOK, RunsTight, Counts
<1>2. PICK i \in 1 .. n : S[i - 1] < o + 1 /\ o + 1 <= S[i]
  <2>1. o + 1 \in 1 .. S[n]
    BY <1>1
  <2> QED BY <1>1, <2>1, OneRun
<1>3. Unrolled[o + 1] = lines[i].line
  <2>1. PICK p : p = o + 1
    OBVIOUS
  <2>2. p \in 1 .. S[n] /\ S[i - 1] < p /\ p <= S[i]
    BY <1>1, <1>2, <2>1
  <2>3. Unroll(lines)[p] = lines[i].line
    BY <1>1, <2>2, UnrollAt
  <2> QED BY <2>1, <2>3 DEF Unrolled
<1>4. \A j, k \in 0 .. n : j < k => S[j] < S[k]
  BY <1>1, SumsGrow
<1>5. lines # << >>
  BY <1>1, <1>2, EmptySeq
<1> HIDE DEF S, n
<1>6. CASE o = 0
  <2>1. i = 1
    BY <1>1, <1>2, <1>4, <1>6
  <2> QED BY <1>3, <1>5, <1>6, <2>1 DEF getLine
<1>7. CASE o # 0
  <2>1. StopsAt(i)
    <3>1. PICK m : m = i - 1
      OBVIOUS
    <3>2. m \in 0 .. n /\ S[m] < o + 1 /\ S[m] \in Nat /\ o \in Nat
      BY <1>1, <1>2, <3>1
    <3>3. ASSUME NEW j \in 1 .. m
          PROVE  S[j] <= o
      <4>1. j \in 0 .. n /\ (j = m \/ j < m) /\ S[j] \in Nat
        BY <1>1, <3>2
      <4>2. j = m \/ S[j] < S[m]
        BY <1>4, <3>2, <4>1
      <4> QED BY <3>2, <4>1, <4>2
    <3>4. i \in DOMAIN lines /\ S[i] > o
      BY <1>1, <1>2, <3>2
    <3> QED BY <3>1, <3>3, <3>4
  <2>2. \A k : StopsAt(k) => k = i
    <3> SUFFICES ASSUME NEW k \in 1 .. n, S[k] > o, \A j \in 1 .. k - 1 : S[j] <= o
                 PROVE  k = i
      BY <1>1
    <3>1. ~(i < k)
      BY <1>1, <1>2
    <3>2. k < i => S[k] <= o
      BY <2>1
    <3>3. S[k] \in Nat
      BY <1>1
    <3> QED BY <1>1, <3>1, <3>2, <3>3
  <2>3. RunAt(o) = i
    BY <2>1, <2>2 DEF RunAt, Counts, S
  <2> QED BY <1>3, <1>5, <1>7, <2>3 DEF getLine
<1> QED BY <1>6, <1>7

(* getLine answers the line that the byte was written for modulo 256: of   *)
(* every line, and of a line that comes back in a later run.               *)
THEOREM GetLineFinds == Spec => []LinesFound
<1>1. IInv => LinesFound
  BY FoundAt DEF LinesFound
<1> QED BY <1>1, Invariant, PTL

-----------------------------------------------------------------------------
(* The refinement: a step of the chunk is the step of the line table.      *)

(* A table stands for one line per byte.                                   *)
LEMMA UnrollIs ==
  ASSUME NEW runs \in Seq(Run), NEW n, n = Sums(runs)[Len(runs)]
  PROVE  /\ Unroll(runs) \in Seq(Lines) /\ Len(Unroll(runs)) = n
<1>1. n \in Nat
  BY SumsAre, RunsAre
<1>2. Unroll(runs) = [o \in 1 .. n |-> Unroll(runs)[o]]
  BY DEF Unroll
<1>3. ASSUME NEW o \in 1 .. n
      PROVE  Unroll(runs)[o] \in Lines
  <2>1. PICK i \in 1 .. Len(runs) : Sums(runs)[i - 1] < o /\ o <= Sums(runs)[i]
    BY RunsAre, OneRun
  <2>2. Unroll(runs)[o] = runs[i].line
    BY <2>1, UnrollAt
  <2> QED BY <2>2, RunsAre
<1>4. Unroll(runs) \in [1 .. n -> Lines]
  BY <1>2, <1>3
<1> QED BY <1>1, <1>4

(* To write a byte is to append its line.                                  *)
LEMMA WriteRefines ==
  ASSUME IInv, NEW byte \in Bytes, NEW line \in Lines, write(byte, line)
  PROVE  PerByte!Write(byte, line)
<1>1. IInv'
  BY WriteKeeps
<1>2. /\ Unrolled \in Seq(Lines) /\ Len(Unrolled) = Len(code_)
      /\ Unrolled' \in Seq(Lines) /\ Len(Unrolled') = Len(code_')
  BY <1>1, UnrollIs DEF Unrolled, IInv, ChunkOK, RunsTight, Counts
<1>3. /\ Sums(lines)[Len(lines)] = Len(code_) /\ Len(code_) \in Nat
      /\ Len(code_') = Len(code_) + 1
  BY LenProperties, AppendProperties DEF write, IInv, ChunkOK, RunsTight, Counts
<1>4. /\ \A o \in 1 .. Len(code_) : Unrolled'[o] = Unrolled[o]
      /\ Unrolled'[Len(code_) + 1] = line
  BY <1>3, CountedIs DEF write, Unrolled
<1>5. Unrolled' = Append(Unrolled, line)
  <2>1. /\ Append(Unrolled, line) \in Seq(Lines)
        /\ Len(Append(Unrolled, line)) = Len(code_) + 1
        /\ \A o \in 1 .. Len(code_) : Append(Unrolled, line)[o] = Unrolled[o]
        /\ Append(Unrolled, line)[Len(code_) + 1] = line
    BY <1>2, AppendProperties
  <2>2. \A o \in 1 .. Len(code_) + 1 : Unrolled'[o] = Append(Unrolled, line)[o]
    BY <1>3, <1>4, <2>1
  <2> QED BY <1>2, <1>3, <2>1, <2>2, SeqEqual
<1> QED BY <1>5 DEF PerByte!Write, write

(* The chunk implements one line per byte: what write adds is the line it  *)
(* was given, and neither a later write nor a patch changes the line of a  *)
(* byte that is there.                                                     *)
THEOREM ImplementsOneLinePerByte == Spec => ImplementsLineTable
<1>1. Init => PerByte!Init
  <2> SUFFICES ASSUME Init PROVE PerByte!Init
    OBVIOUS
  <2>1. Unrolled \in Seq(Lines) /\ Len(Unrolled) = 0
    BY InitHolds, UnrollIs, EmptySeq DEF Init, Unrolled, IInv, ChunkOK, RunsTight, Counts
  <2>2. Unrolled = << >>
    BY <2>1, EmptySeq
  <2> QED BY <2>2 DEF Init, PerByte!Init
<1>2. IInv /\ [Next]_vars => [PerByte!Next]_<<code_, Unrolled>>
  <2> SUFFICES ASSUME IInv, [Next]_vars
               PROVE  PerByte!Next \/ UNCHANGED <<code_, Unrolled>>
    OBVIOUS
  <2>1. ASSUME NEW byte \in Bytes, NEW line \in Lines, write(byte, line)
        PROVE  PerByte!Next
    BY <2>1, WriteRefines DEF PerByte!Next
  <2>2. ASSUME NEW i \in DOMAIN code_, NEW byte \in Bytes, patch(i, byte)
        PROVE  PerByte!Next
    BY <2>2 DEF PerByte!Next, PerByte!Patch, patch, Unrolled
  <2>3. CASE UNCHANGED vars
    BY <2>3 DEF vars, Unrolled
  <2> QED BY <2>1, <2>2, <2>3 DEF Next
<1> QED BY <1>1, <1>2, Invariant, PTL DEF Spec, ImplementsLineTable, PerByte!Spec
=============================================================================
