------------------------- MODULE FreshCredential -------------------------
(***************************************************************************)
(* What the credential helpers of the inspection servers promise to their  *)
(* callers, with no cache, no lock and no call to Secrets Manager in it: a *)
(* call that begins at time start ends with an error, or with a credential *)
(* that was still the current one less than TTL before start.  Credentials *)
(* are numbered in the order in which the operator stores them; 0 is the   *)
(* placeholder the deployment creates.                                     *)
(***************************************************************************)
EXTENDS Integers

CONSTANTS
  Threads,      \* callers of the helper
  TTL,          \* lifetime of a cached credential
  MaxTime,      \* bound on the clock
  MaxVersion    \* bound on the number of rotations

VARIABLES
  clock,        \* time.monotonic()
  version,      \* number of the credential the secret holds now
  supersededAt, \* supersededAt[v]: when v stopped being current (v < version)
  phase,        \* phase[t]: "idle", "calling" or "done"
  start,        \* start[t]: when the call of t began
  result        \* result[t]: the credential handed to t, or NoResult

vars == <<clock, version, supersededAt, phase, start, result>>

Versions == 0..MaxVersion
Placeholder == 0
NoResult == -1

\* Credential v was still the current one at some instant later than time x.
CurrentAfter(v, x) == v = version \/ (v < version /\ supersededAt[v] > x)

Init ==
  /\ clock = 0
  /\ version = Placeholder
  /\ supersededAt = [v \in Versions |-> 0]
  /\ phase = [t \in Threads |-> "idle"]
  /\ start = [t \in Threads |-> 0]
  /\ result = [t \in Threads |-> NoResult]

Tick ==
  /\ clock < MaxTime
  /\ clock' = clock + 1
  /\ UNCHANGED <<version, supersededAt, phase, start, result>>

Rotate ==
  /\ version < MaxVersion
  /\ version' = version + 1
  /\ supersededAt' = [supersededAt EXCEPT ![version] = clock]
  /\ UNCHANGED <<clock, phase, start, result>>

Call(t) ==
  /\ phase[t] = "idle"
  /\ phase' = [phase EXCEPT ![t] = "calling"]
  /\ start' = [start EXCEPT ![t] = clock]
  /\ UNCHANGED <<clock, version, supersededAt, result>>

Serve(t) ==
  /\ phase[t] = "calling"
  /\ \E v \in Versions \ {Placeholder} :
        /\ CurrentAfter(v, start[t] - TTL)
        /\ result' = [result EXCEPT ![t] = v]
  /\ phase' = [phase EXCEPT ![t] = "done"]
  /\ UNCHANGED <<clock, version, supersededAt, start>>

Fail(t) ==
  /\ phase[t] = "calling"
  /\ phase' = [phase EXCEPT ![t] = "done"]
  /\ UNCHANGED <<clock, version, supersededAt, start, result>>

Leave(t) ==
  /\ phase[t] = "done"
  /\ phase' = [phase EXCEPT ![t] = "idle"]
  /\ start' = [start EXCEPT ![t] = 0]
  /\ result' = [result EXCEPT ![t] = NoResult]
  /\ UNCHANGED <<clock, version, supersededAt>>

Next ==
  \/ Tick
  \/ Rotate
  \/ \E t \in Threads : Call(t) \/ Serve(t) \/ Fail(t) \/ Leave(t)

Spec == Init /\ [][Next]_vars
==========================================================================
