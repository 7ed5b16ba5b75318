----------------------------- MODULE MC_KeyScan -----------------------------
(***************************************************************************)
(* Instances of KeyScan for TLC: three keys, caps below the floor and above   *)
(* the hard limit, and a SCAN that may never end by itself.                *)
(***************************************************************************)
EXTENDS KeyScan

Caps == {0, 9}
==============================================================================
