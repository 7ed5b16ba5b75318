--------------------------- MODULE MC_AgentMemory ---------------------------
(***************************************************************************)
(* Instances of AgentMemory for TLC: two callers that share a serverless   *)
(* collection with a role each, one of a managed domain that is admitted   *)
(* by other means, and two callers of two collections with the same role.  *)
(***************************************************************************)
EXTENDS AgentMemory

CONSTANTS a, b, d, reader, writer, notes, logs, domain

SharedRole == [p \in {a, b, d} |-> IF p = a THEN reader ELSE writer]
SharedTarget == [p \in {a, b, d} |-> IF p = d THEN domain ELSE notes]
SharedAdmitted == {<<writer, domain>>}

ApartRole == [p \in {a, b} |-> writer]
ApartTarget == [p \in {a, b} |-> IF p = a THEN notes ELSE logs]
=============================================================================
