------------------------------- MODULE Counting -------------------------------
(***************************************************************************)
(* The numbers the bounds on retries and duplicates are stated with, as    *)
(* recursive functions on Nat.                                             *)
(***************************************************************************)
EXTENDS Integers

PowerOfTwo[n \in Nat] == IF n = 0 THEN 1 ELSE 2 * PowerOfTwo[n - 1]

(* PartialSums(row)[c] is row[0] + ... + row[c]. *)
PartialSums(row) ==
    LET sums[c \in Nat] == IF c = 0 THEN row[0] ELSE sums[c - 1] + row[c]
    IN  sums

(* Row f of Pascal's triangle on its side: Pascal[f][c] is "c + f choose f". *)
Pascal[f \in Nat] == IF f = 0 THEN [c \in Nat |-> 1] ELSE PartialSums(Pascal[f - 1])
===============================================================================
