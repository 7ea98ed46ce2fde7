---------------------------- MODULE CountingProofs ----------------------------
(***************************************************************************)
(* Induction over the natural numbers, recursive functions on them, and    *)
(* what the functions of Counting compute for every argument.  Induction   *)
(* is over a set instead of a predicate: "T holds 0 and is closed under    *)
(* successor" is a formula without an operator parameter.                  *)
(***************************************************************************)
EXTENDS Counting, WellFoundedInduction, TLAPS

(* Every set of natural numbers that is not empty has a least element. *)
LEMMA LeastNumber ==
    ASSUME NEW T \in SUBSET Nat, T # {}
    PROVE  \E x \in T : \A y \in T : x <= y
<1>1. IsWellFoundedOn({ss \in Nat \X Nat : ss[1] < ss[2]}, Nat)
  BY NatLessThanWellFounded DEF OpToRel
<1>2. PICK x \in T : \A y \in T : ~(<<y, x>> \in {ss \in Nat \X Nat : ss[1] < ss[2]})
  BY <1>1, WFMin
<1>3. ASSUME NEW y \in T PROVE x <= y
  <2>1. x \in Nat /\ y \in Nat
    OBVIOUS
  <2>2. ~(y < x)
    BY <1>2, <2>1
  <2> QED
    BY <2>1, <2>2
<1> QED
  BY <1>3

(* Induction: a set that holds 0 and, with n, n + 1, holds every number. *)
LEMMA Induction ==
    ASSUME NEW T \in SUBSET Nat, 0 \in T, \A n \in T : n + 1 \in T
    PROVE  \A n \in Nat : n \in T
<1> SUFFICES ASSUME NEW m \in Nat, m \notin T PROVE FALSE
  OBVIOUS
<1>1. PICK x \in Nat \ T : \A y \in Nat \ T : x <= y
  BY LeastNumber
<1>2. x # 0 /\ x - 1 \in Nat
  BY <1>1
<1>3. x - 1 \in T
  BY <1>1, <1>2
<1>4. (x - 1) + 1 \in T
  BY <1>3
<1> QED
  BY <1>1, <1>4

(***************************************************************************)
(* Definition by recursion: for any first value and any step there is a    *)
(* function on the natural numbers that starts with the one and takes the  *)
(* other.  It is put together from functions that do so up to some n.      *)
(***************************************************************************)
LEMMA Recursion ==
    ASSUME NEW S, NEW s0 \in S, NEW step \in [Nat -> [S -> S]]
    PROVE  \E h \in [Nat -> S] : h[0] = s0 /\ \A n \in Nat : h[n + 1] = step[n][h[n]]
<1> DEFINE Approx(n) == {h \in [Nat -> S] :
                            h[0] = s0 /\ \A i \in Nat : i < n => h[i + 1] = step[i][h[i]]}
<1>1. \A n \in Nat : Approx(n) # {}
  <2> DEFINE T == {n \in Nat : Approx(n) # {}}
  <2>1. 0 \in T
    <3>1. [i \in Nat |-> s0] \in Approx(0)
      OBVIOUS
    <3> QED
      BY <3>1
  <2>2. ASSUME NEW n \in T PROVE n + 1 \in T
    <3>1. PICK h \in Approx(n) : TRUE
      BY <2>2
    <3> DEFINE v == step[n][h[n]]
               k == [h EXCEPT ![n + 1] = v]
    <3>2. v \in S /\ n \in Nat /\ n + 1 \in Nat
      BY <3>1
    <3> HIDE DEF v
    <3>3. k \in [Nat -> S] /\ k[n + 1] = v /\ \A i \in Nat : i # n + 1 => k[i] = h[i]
      BY <3>1, <3>2
    <3>4. k[0] = s0
      BY <3>1, <3>2, <3>3
    <3>5. ASSUME NEW i \in Nat, i < n + 1 PROVE k[i + 1] = step[i][k[i]]
      <4>1. CASE i = n
        BY <3>2, <3>3, <4>1 DEF v
      <4>2. CASE i < n
        BY <3>1, <3>2, <3>3, <4>2
      <4> QED
        BY <3>2, <3>5, <4>1, <4>2
    <3>6. k \in Approx(n + 1)
      BY <3>3, <3>4, <3>5
    <3> QED
      BY <3>2, <3>6
  <2> HIDE DEF Approx
  <2>3. T \in SUBSET Nat
    OBVIOUS
  <2> QED
    BY <2>1, <2>2, <2>3, Induction
<1>2. ASSUME NEW n \in Nat, NEW h \in Approx(n), NEW m \in Nat, NEW k \in Approx(m),
             NEW i \in Nat, i <= n, i <= m
      PROVE  h[i] = k[i]
  <2> DEFINE T == {j \in Nat : j <= n /\ j <= m => h[j] = k[j]}
  <2>1. 0 \in T
    OBVIOUS
  <2>2. ASSUME NEW j \in T PROVE j + 1 \in T
    <3> SUFFICES ASSUME j + 1 <= n, j + 1 <= m PROVE h[j + 1] = k[j + 1]
      OBVIOUS
    <3>1. j \in Nat /\ j < n /\ j < m
      OBVIOUS
    <3>2. h[j] = k[j]
      BY <2>2, <3>1
    <3> QED
      BY <3>1, <3>2
  <2>3. T \in SUBSET Nat
    OBVIOUS
  <2>4. i \in T
    BY <2>1, <2>2, <2>3, Induction
  <2> QED
    BY <1>2, <2>4
<1> DEFINE g(n) == CHOOSE h : h \in Approx(n)
           H == [n \in Nat |-> g(n)[n]]
<1>3. \A n \in Nat : g(n) \in Approx(n)
  BY <1>1
<1>4. ASSUME NEW n \in Nat PROVE g(n)[n] \in S
  BY <1>3
<1> HIDE DEF g
<1>5. H \in [Nat -> S]
  BY <1>4
<1>6. H[0] = s0
  BY <1>3
<1>7. ASSUME NEW n \in Nat PROVE H[n + 1] = step[n][H[n]]
  <2>1. n + 1 \in Nat /\ g(n) \in Approx(n) /\ g(n + 1) \in Approx(n + 1)
    BY <1>3
  <2>2. n <= n /\ n <= n + 1 /\ n < n + 1
    OBVIOUS
  <2>3. g(n + 1)[n] = g(n)[n]
    BY <1>2, <2>1, <2>2
  <2>4. g(n + 1)[n + 1] = step[n][g(n + 1)[n]]
    BY <2>1, <2>2
  <2> QED
    BY <2>1, <2>3, <2>4
<1> QED
  BY <1>5, <1>6, <1>7

(* The instance for functions whose values are numbers. *)
LEMMA RecursionOnNumbers ==
    ASSUME NEW s0 \in Nat, NEW step \in [Nat -> [Nat -> Nat]]
    PROVE  \E h \in [Nat -> Nat] : h[0] = s0 /\ \A n \in Nat : h[n + 1] = step[n][h[n]]
<1> DEFINE R(S) == \A s \in S : \A st \in [Nat -> [S -> S]] :
                     \E h \in [Nat -> S] : h[0] = s /\ \A n \in Nat : h[n + 1] = st[n][h[n]]
<1>1. \A S : R(S)
  BY Recursion, Zenon
<1> HIDE DEF R
<1>2. R(Nat)
  BY <1>1
<1> QED
  BY <1>2 DEF R

(* The same for functions whose values are rows of numbers. *)
LEMMA RecursionOnRows ==
    ASSUME NEW s0 \in [Nat -> Nat], NEW step \in [Nat -> [[Nat -> Nat] -> [Nat -> Nat]]]
    PROVE  \E h \in [Nat -> [Nat -> Nat]] :
              h[0] = s0 /\ \A n \in Nat : h[n + 1] = step[n][h[n]]
<1> DEFINE R(S) == \A s \in S : \A st \in [Nat -> [S -> S]] :
                     \E h \in [Nat -> S] : h[0] = s /\ \A n \in Nat : h[n + 1] = st[n][h[n]]
<1>1. \A S : R(S)
  BY Recursion, Zenon
<1> HIDE DEF R
<1>2. R([Nat -> Nat])
  BY <1>1
<1> QED
  BY <1>2 DEF R

(* The powers of two. *)
LEMMA PowerOfTwoRule ==
    /\ PowerOfTwo \in [Nat -> Nat]
    /\ PowerOfTwo[0] = 1
    /\ \A n \in Nat : PowerOfTwo[n + 1] = 2 * PowerOfTwo[n]
<1> DEFINE step == [n \in Nat |-> [v \in Nat |-> 2 * v]]
<1>1. step \in [Nat -> [Nat -> Nat]]
  OBVIOUS
<1>2. PICK h \in [Nat -> Nat] : h[0] = 1 /\ \A n \in Nat : h[n + 1] = step[n][h[n]]
  <2>1. 1 \in Nat
    OBVIOUS
  <2> HIDE DEF step
  <2> QED
    BY <1>1, <2>1, RecursionOnNumbers
<1>3. ASSUME NEW n \in Nat PROVE h[n] = IF n = 0 THEN 1 ELSE 2 * h[n - 1]
  <2>1. CASE n = 0
    BY <1>2, <2>1
  <2>2. CASE n # 0
    <3>1. n - 1 \in Nat /\ (n - 1) + 1 = n
      BY <2>2
    <3>2. h[(n - 1) + 1] = 2 * h[n - 1]
      BY <1>2, <3>1
    <3> QED
      BY <2>2, <3>1, <3>2
  <2> QED
    BY <2>1, <2>2
<1>4. h = [n \in Nat |-> IF n = 0 THEN 1 ELSE 2 * h[n - 1]]
  BY <1>2, <1>3
<1>5. PowerOfTwo = [n \in Nat |-> IF n = 0 THEN 1 ELSE 2 * PowerOfTwo[n - 1]]
  <2>1. \E g : g = [n \in Nat |-> IF n = 0 THEN 1 ELSE 2 * g[n - 1]]
    BY <1>4
  <2> QED
    BY <2>1, Zenon DEF PowerOfTwo
<1>6. PowerOfTwo[0] = 1
  BY <1>5
<1>7. \A n \in Nat : PowerOfTwo[n + 1] = 2 * PowerOfTwo[n]
  <2> TAKE n \in Nat
  <2>1. n + 1 \in Nat /\ n + 1 # 0 /\ (n + 1) - 1 = n
    OBVIOUS
  <2>2. PowerOfTwo[n + 1] = 2 * PowerOfTwo[(n + 1) - 1]
    BY <1>5, <2>1
  <2> QED
    BY <2>1, <2>2
<1>8. \A n \in Nat : PowerOfTwo[n] \in Nat
  <2> DEFINE T == {n \in Nat : PowerOfTwo[n] \in Nat}
  <2>1. 0 \in T
    BY <1>6
  <2>2. \A n \in T : n + 1 \in T
    BY <1>7
  <2>3. \A n \in Nat : n \in T
    BY <2>1, <2>2, Induction
  <2> QED
    BY <2>3
<1> QED
  BY <1>5, <1>6, <1>7, <1>8

(* A power of two is at least one. *)
LEMMA PowerOfTwoPositive == \A n \in Nat : PowerOfTwo[n] \in Nat /\ PowerOfTwo[n] >= 1
<1> DEFINE T == {n \in Nat : PowerOfTwo[n] >= 1}
<1>1. T \in SUBSET Nat /\ 0 \in T
  BY PowerOfTwoRule
<1>2. \A n \in T : n + 1 \in T
  BY PowerOfTwoRule
<1> HIDE DEF T
<1>3. \A n \in Nat : n \in T
  BY <1>1, <1>2, Induction
<1> QED
  BY <1>3, PowerOfTwoRule DEF T

(* The partial sums of a row of numbers. *)
LEMMA PartialSumsRule ==
    ASSUME NEW row \in [Nat -> Nat]
    PROVE  /\ PartialSums(row) \in [Nat -> Nat]
           /\ PartialSums(row)[0] = row[0]
           /\ \A c \in Nat : PartialSums(row)[c + 1] = PartialSums(row)[c] + row[c + 1]
<1> DEFINE step == [c \in Nat |-> [v \in Nat |-> v + row[c + 1]]]
           s == PartialSums(row)
<1>0. row[0] \in Nat
  OBVIOUS
<1>1. step \in [Nat -> [Nat -> Nat]]
  OBVIOUS
<1>2. PICK h \in [Nat -> Nat] : h[0] = row[0] /\ \A c \in Nat : h[c + 1] = step[c][h[c]]
  <2> HIDE DEF step
  <2> QED
    BY <1>0, <1>1, RecursionOnNumbers
<1>3. ASSUME NEW c \in Nat PROVE h[c] = IF c = 0 THEN row[0] ELSE h[c - 1] + row[c]
  <2>1. CASE c = 0
    BY <1>2, <2>1
  <2>2. CASE c # 0
    <3>1. c - 1 \in Nat /\ (c - 1) + 1 = c /\ h[c - 1] \in Nat
      BY <2>2
    <3>2. h[(c - 1) + 1] = h[c - 1] + row[(c - 1) + 1]
      BY <1>2, <3>1
    <3> QED
      BY <2>2, <3>1, <3>2
  <2> QED
    BY <2>1, <2>2
<1>4. h = [c \in Nat |-> IF c = 0 THEN row[0] ELSE h[c - 1] + row[c]]
  BY <1>2, <1>3
<1>5. s = [c \in Nat |-> IF c = 0 THEN row[0] ELSE s[c - 1] + row[c]]
  <2>1. \E g : g = [c \in Nat |-> IF c = 0 THEN row[0] ELSE g[c - 1] + row[c]]
    BY <1>4
  <2> QED
    BY <2>1, Zenon DEF PartialSums
<1> HIDE DEF s
<1>6. s[0] = row[0]
  BY <1>5
<1>7. \A c \in Nat : s[c + 1] = s[c] + row[c + 1]
  <2> TAKE c \in Nat
  <2>1. c + 1 \in Nat /\ c + 1 # 0 /\ (c + 1) - 1 = c
    OBVIOUS
  <2>2. s[c + 1] = s[(c + 1) - 1] + row[c + 1]
    BY <1>5, <2>1
  <2> QED
    BY <2>1, <2>2
<1>8. \A c \in Nat : s[c] \in Nat
  <2> DEFINE T == {c \in Nat : s[c] \in Nat}
  <2>1. 0 \in T
    BY <1>0, <1>6
  <2>2. \A c \in T : c + 1 \in T
    BY <1>7
  <2>3. \A c \in Nat : c \in T
    BY <2>1, <2>2, Induction
  <2> QED
    BY <2>3
<1>9. s \in [Nat -> Nat]
  BY <1>5, <1>8
<1> QED
  BY <1>6, <1>7, <1>9 DEF s

(***************************************************************************)
(* Pascal's triangle on its side: ones along both edges, and every other   *)
(* number the sum of its two neighbours; none is less than one.            *)
(***************************************************************************)
LEMMA PascalRule ==
    /\ Pascal \in [Nat -> [Nat -> Nat]]
    /\ \A c \in Nat : Pascal[0][c] = 1
    /\ \A f \in Nat : Pascal[f][0] = 1
    /\ \A f, c \in Nat : Pascal[f + 1][c + 1] = Pascal[f + 1][c] + Pascal[f][c + 1]
<1> DEFINE ones == [c \in Nat |-> 1]
           step == [f \in Nat |-> [row \in [Nat -> Nat] |-> PartialSums(row)]]
<1>1. step \in [Nat -> [[Nat -> Nat] -> [Nat -> Nat]]]
  BY PartialSumsRule
<1>2. PICK h \in [Nat -> [Nat -> Nat]] :
              h[0] = ones /\ \A f \in Nat : h[f + 1] = step[f][h[f]]
  <2>1. ones \in [Nat -> Nat]
    OBVIOUS
  <2> HIDE DEF ones, step
  <2> QED
    BY <1>1, <2>1, RecursionOnRows
<1>3. ASSUME NEW f \in Nat PROVE h[f] = IF f = 0 THEN ones ELSE PartialSums(h[f - 1])
  <2>1. CASE f = 0
    BY <1>2, <2>1
  <2>2. CASE f # 0
    <3>1. f - 1 \in Nat /\ (f - 1) + 1 = f /\ h[f - 1] \in [Nat -> Nat]
      BY <1>2, <2>2
    <3>2. h[(f - 1) + 1] = PartialSums(h[f - 1])
      BY <1>2, <3>1
    <3> QED
      BY <2>2, <3>1, <3>2
  <2> QED
    BY <2>1, <2>2
<1>4. h = [f \in Nat |-> IF f = 0 THEN ones ELSE PartialSums(h[f - 1])]
  BY <1>2, <1>3
<1>5. Pascal = [f \in Nat |-> IF f = 0 THEN ones ELSE PartialSums(Pascal[f - 1])]
  <2>1. \E g : g = [f \in Nat |-> IF f = 0 THEN ones ELSE PartialSums(g[f - 1])]
    BY <1>4
  <2> QED
    BY <2>1, Zenon DEF Pascal
<1>6. Pascal[0] = ones
  BY <1>5
<1>7. \A f \in Nat : Pascal[f + 1] = PartialSums(Pascal[f])
  <2> TAKE f \in Nat
  <2>1. f + 1 \in Nat /\ f + 1 # 0 /\ (f + 1) - 1 = f
    OBVIOUS
  <2>2. Pascal[f + 1] = PartialSums(Pascal[(f + 1) - 1])
    BY <1>5, <2>1
  <2> QED
    BY <2>1, <2>2
<1>8. \A f \in Nat : Pascal[f] \in [Nat -> Nat] /\ Pascal[f][0] = 1
  <2> DEFINE Row(f) == Pascal[f] \in [Nat -> Nat] /\ Pascal[f][0] = 1
             T == {f \in Nat : Row(f)}
  <2>1. Row(0)
    BY <1>6
  <2>2. ASSUME NEW f \in Nat, Row(f) PROVE Row(f + 1)
    <3>1. /\ PartialSums(Pascal[f]) \in [Nat -> Nat]
          /\ PartialSums(Pascal[f])[0] = Pascal[f][0]
      BY <2>2, PartialSumsRule
    <3> QED
      BY <1>7, <2>2, <3>1
  <2> HIDE DEF Row
  <2>3. 0 \in T
    BY <2>1
  <2>4. \A f \in T : f + 1 \in T
    BY <2>2
  <2>5. \A f \in Nat : f \in T
    <3> HIDE DEF T
    <3>1. T \in SUBSET Nat
      BY DEF T
    <3> QED
      BY <2>3, <2>4, <3>1, Induction
  <2> QED
    BY <2>5 DEF Row
<1>9. Pascal \in [Nat -> [Nat -> Nat]]
  BY <1>5, <1>8
<1>10. ASSUME NEW f \in Nat, NEW c \in Nat
       PROVE  Pascal[f + 1][c + 1] = Pascal[f + 1][c] + Pascal[f][c + 1]
  <2> DEFINE row == Pascal[f]
  <2>1. row \in [Nat -> Nat] /\ Pascal[f + 1] = PartialSums(row)
    BY <1>7, <1>8
  <2> HIDE DEF row
  <2>2. PartialSums(row)[c + 1] = PartialSums(row)[c] + row[c + 1]
    BY <2>1, PartialSumsRule
  <2> QED
    BY <2>1, <2>2 DEF row
<1> QED
  BY <1>6, <1>8, <1>9, <1>10

(* No number of the triangle is less than one. *)
LEMMA PascalPositive == \A f, c \in Nat : Pascal[f][c] \in Nat /\ Pascal[f][c] >= 1
<1> DEFINE Row(f) == \A c \in Nat : Pascal[f][c] >= 1
           T == {f \in Nat : Row(f)}
<1>1. \A f, c \in Nat : Pascal[f][c] \in Nat
  BY PascalRule
<1>2. Row(0)
  <2>1. \A c \in Nat : Pascal[0][c] = 1
    BY PascalRule
  <2> QED
    BY <2>1
<1>3. ASSUME NEW f \in Nat, Row(f) PROVE Row(f + 1)
  <2>1. ASSUME NEW c \in Nat, c # 0 PROVE Pascal[f + 1][c] >= 1
    <3>1. c - 1 \in Nat /\ (c - 1) + 1 = c /\ f + 1 \in Nat
      BY <2>1
    <3>2. Pascal[f + 1][(c - 1) + 1] = Pascal[f + 1][c - 1] + Pascal[f][(c - 1) + 1]
      BY <3>1, PascalRule
    <3>3. Pascal[f + 1][c - 1] \in Nat /\ Pascal[f][c] \in Nat /\ Pascal[f][c] >= 1
      BY <1>1, <1>3, <3>1
    <3> QED
      BY <3>1, <3>2, <3>3
  <2>2. Pascal[f + 1][0] = 1
    BY PascalRule
  <2> QED
    BY <2>1, <2>2
<1> HIDE DEF Row
<1>4. \A f \in Nat : f \in T
  <2>1. 0 \in T
    BY <1>2
  <2>2. \A f \in T : f + 1 \in T
    BY <1>3
  <2>3. T \in SUBSET Nat
    OBVIOUS
  <2> HIDE DEF T
  <2> QED
    BY <2>1, <2>2, <2>3, Induction
<1>5. \A f \in Nat : Row(f)
  BY <1>4
<1> QED
  BY <1>1, <1>5 DEF Row

(* A row further on is no smaller. *)
LEMMA PascalGrows == \A f, c \in Nat : Pascal[f][c] <= Pascal[f + 1][c]
<1> TAKE f \in Nat, c \in Nat
<1>1. CASE c = 0
  <2>1. f + 1 \in Nat /\ \A i \in Nat : Pascal[i][0] = 1
    BY PascalRule
  <2>2. Pascal[f][0] = 1 /\ Pascal[f + 1][0] = 1
    BY <2>1
  <2> QED
    BY <1>1, <2>2
<1>2. CASE c # 0
  <2>1. c - 1 \in Nat /\ (c - 1) + 1 = c /\ f + 1 \in Nat
    BY <1>2
  <2>2. Pascal[f + 1][(c - 1) + 1] = Pascal[f + 1][c - 1] + Pascal[f][(c - 1) + 1]
    BY <2>1, PascalRule
  <2>3. Pascal[f + 1][c - 1] \in Nat /\ Pascal[f][c] \in Nat
    BY <2>1, PascalPositive
  <2> QED
    BY <2>1, <2>2, <2>3
<1> QED
  BY <1>1, <1>2

==============================================================================
