------------------------------- MODULE Orders -------------------------------
(***************************************************************************)
(* What a list comprehension with an "if" and list.sort(reverse=True) make *)
(* of a list, said with the positions of its elements: the place of one in *)
(* the result is the number of those that come before it.                  *)
(***************************************************************************)
EXTENDS Integers, Sequences, FiniteSets

\* The elements of the finite set P in the strict total order R.
Arranged(P, R) == [n \in 1..Cardinality(P) |-> CHOOSE i \in P : Cardinality({j \in P : <<j, i>> \in R}) = n - 1]

\* The elements of s at the positions P, in the order of s.
Picked(s, P) ==
  LET order == Arranged(P, {p \in P \X P : p[1] < p[2]})
  IN  [n \in 1..Cardinality(P) |-> s[order[n]]]

\* The rows with the highest score first; the sort is stable.
Before(rows) ==
  {p \in (DOMAIN rows) \X (DOMAIN rows) :
     \/ rows[p[1]].score > rows[p[2]].score
     \/ rows[p[1]].score = rows[p[2]].score /\ p[1] < p[2]}

ByScore(rows) == [n \in DOMAIN rows |-> rows[Arranged(DOMAIN rows, Before(rows))[n]]]
=============================================================================
