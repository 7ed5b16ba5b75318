---------------------------- MODULE ApiEndpoint ----------------------------
(***************************************************************************)
(* How a generated tool turns its arguments into a path: which parameters  *)
(* its schema requires, which endpoint of its operation is selected, and   *)
(* what the path is filled with.  An endpoint is the set of the parameters *)
(* in its path; a tool has a sequence of them.                             *)
(***************************************************************************)
EXTENDS Naturals, Sequences, FiniteSets, FiniteSetsExt, SequencesExt

\* extract_parameters: only what every endpoint needs is required.
RequiredPath(endpoints) == {p \in UNION Range(endpoints) : \A e \in Range(endpoints) : p \in e}

\* Mutant: the first endpoint is taken.
MutSelect(endpoints, given) == endpoints[1]

\* The endpoint all of whose parameters are given and that uses most of them;
\* of several the first; if there is none, one without parameters or the first.
Select(endpoints, given) ==
  LET at(S) == endpoints[Min(S)]
      filled == {i \in DOMAIN endpoints : endpoints[i] \subseteq given}
      used(i) == Cardinality(endpoints[i] \cap given)
      plain == {i \in DOMAIN endpoints : endpoints[i] = {}}
  IN  IF filled # {} THEN at({i \in filled : \A j \in filled : used(j) <= used(i)})
      ELSE IF plain # {} THEN at(plain) ELSE endpoints[1]
============================================================================
