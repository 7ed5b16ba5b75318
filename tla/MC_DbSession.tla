---------------------------- MODULE MC_DbSession ----------------------------
(***************************************************************************)
(* Instances of DbSession for TLC: every kind of cluster and every tool,   *)
(* a failover and a fault at any point of the call.                        *)
(***************************************************************************)
EXTENDS DbSession
=============================================================================
