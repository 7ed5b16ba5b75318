---------------------------- MODULE MC_TlsProbe ----------------------------
(***************************************************************************)
(* The instance of TlsProbe for TLC: two calls that may probe one endpoint *)
(* at once, in each mode, against a cluster of each kind and answer, with  *)
(* faults and a reconfiguration.                                           *)
(***************************************************************************)
EXTENDS TlsProbe

CONSTANTS t1, t2, e1
============================================================================
