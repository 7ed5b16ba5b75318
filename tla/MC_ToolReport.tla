--------------------------- MODULE MC_ToolReport ---------------------------
(***************************************************************************)
(* Instances of ToolReport for TLC: every list of up to four rows of every *)
(* tool, cut at one to three rows, with two findings shown.                *)
(***************************************************************************)
EXTENDS ToolReport
=============================================================================
