------------------------------ MODULE MC_PgScan ------------------------------
(***************************************************************************)
(* Instances of PgScan for TLC: three databases, caps below, at and above  *)
(* their number, and the negative cap that Python's slice accepts.         *)
(***************************************************************************)
EXTENDS PgScan

SomeCaps == {-1, 1, 2, 3}
==============================================================================
