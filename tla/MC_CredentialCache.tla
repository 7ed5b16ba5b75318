------------------------- MODULE MC_CredentialCache -------------------------
(***************************************************************************)
(* The instance of CredentialCache for TLC: a thread that holds the lock   *)
(* and one that waits with an older or a newer clock.  The clock runs past *)
(* two lifetimes of an entry.                                              *)
(***************************************************************************)
EXTENDS CredentialCache

CONSTANTS t1, t2
=============================================================================
