------------------------- MODULE MC_OpenSearchCall -------------------------
(***************************************************************************)
(* Instances of OpenSearchCall for TLC: a limit below a chunk, one that is *)
(* no multiple of a chunk, and the limit a multi-cluster configuration may *)
(* hold unchecked (-1).                                                    *)
(***************************************************************************)
EXTENDS OpenSearchCall

SmallLimits == {-1, 1, 3}
=============================================================================
