----------------------------- MODULE TlsProbe -----------------------------
(***************************************************************************)
(* How the ElastiCache inspection server decides between TLS and plaintext *)
(* for an endpoint (_resolve_tls), connects (_connect, _build_redis) and   *)
(* reports the decision (inspect_overview).  In mode "auto" a call probes  *)
(* an endpoint it has no decision for with a PING over TLS, then with one  *)
(* in plaintext, and keeps the decision for the life of the process.  The  *)
(* cache is locked for each read and each write, not across the probe, so  *)
(* several calls may probe the same endpoint at once.                      *)
(***************************************************************************)
EXTENDS Naturals, FiniteSets

CONSTANTS
  Threads,         \* concurrent tool calls
  Endpoints,       \* cluster endpoints
  MaxFaults,       \* bound on pings, commands and credential reads that fail by themselves
  MaxReconfigs     \* bound on changes of in-transit encryption of a cluster

ASSUME BoundsAssumption == MaxFaults \in Nat /\ MaxReconfigs \in Nat

VARIABLES
  mode,            \* _REDIS_TLS_MODE, read once
  encryption,      \* encryption[e]: "required", "preferred" or "disabled"
  answer,          \* answer[e]: what the cluster answers once the transport works
  tlsCache,        \* _tls_cache: "tls", "plain" or Unknown
  pc,              \* where each call is
  endpoint,        \* endpoint[t]: the tool's argument
  overview,        \* overview[t]: the tool is inspect_overview
  candidate,       \* candidate[t]: the setting the probe tries
  decided,         \* decided[t]: result of _resolve_tls
  used,            \* used[t]: setting of the client the tool works with
  error,           \* error[t]: the exception the call ended with
  faults, reconfigs

cluster == <<mode, encryption, answer, reconfigs>>
vars == <<cluster, tlsCache, pc, endpoint, overview, candidate, decided, used, error, faults>>

Settings == {"tls", "plain"}
Unknown == "unknown"
Modes == {"auto", "true", "false"}
NoEndpoint == "none"

ASSUME EndpointsAssumption == NoEndpoint \notin Endpoints

\* The settings under which the cluster accepts a connection.
Supported(e) ==
  CASE encryption[e] = "required" -> {"tls"}
    [] encryption[e] = "disabled" -> {"plain"}
    [] OTHER -> Settings

\* The classes of each exception redis-py raises, the inherited ones included.
Classes(x) ==
  CASE x = "refused"  -> {"ConnectionError"}
    [] x = "timeout"  -> {"TimeoutError"}
    [] x = "auth"     -> {"AuthenticationError", "ConnectionError"}
    [] x = "response" -> {"ResponseError"}
    [] OTHER          -> {"Exception"}

\* What a command gets under setting c; a fault may hit any of them.
Outcomes(e, c) ==
  (IF c \in Supported(e) THEN {answer[e]} ELSE {"refused"})
    \cup (IF faults < MaxFaults THEN {"timeout"} ELSE {})

Count(x) == faults' = IF x = "timeout" THEN faults + 1 ELSE faults
--------------------------------------------------------------------------
Init ==
  /\ mode \in Modes
  /\ encryption \in [Endpoints -> {"required", "preferred", "disabled"}]
  /\ answer \in [Endpoints -> {"pong", "auth", "response"}]
  /\ tlsCache = [e \in Endpoints |-> Unknown]
  /\ pc = [t \in Threads |-> "idle"]
  /\ endpoint = [t \in Threads |-> NoEndpoint]
  /\ overview = [t \in Threads |-> FALSE]
  /\ candidate = [t \in Threads |-> Unknown]
  /\ decided = [t \in Threads |-> Unknown]
  /\ used = [t \in Threads |-> Unknown]
  /\ error = [t \in Threads |-> "none"]
  /\ faults = 0
  /\ reconfigs = 0

\* Somebody changes the in-transit encryption of a cluster.
Reconfigure(e) ==
  /\ reconfigs < MaxReconfigs
  /\ \E m \in {"required", "preferred", "disabled"} \ {encryption[e]} :
        encryption' = [encryption EXCEPT ![e] = m]
  /\ reconfigs' = reconfigs + 1
  /\ UNCHANGED <<mode, answer, tlsCache, pc, endpoint, overview, candidate,
                 decided, used, error, faults>>

Goto(t, place) == pc' = [pc EXCEPT ![t] = place]

Raise(t, x) ==
  /\ error' = [error EXCEPT ![t] = x]
  /\ Goto(t, "done")

Begin(t) ==
  /\ pc[t] = "idle"
  /\ \E e \in Endpoints, o \in BOOLEAN :
        /\ endpoint' = [endpoint EXCEPT ![t] = e]
        /\ overview' = [overview EXCEPT ![t] = o]
  /\ Goto(t, "resolving")
  /\ UNCHANGED <<cluster, tlsCache, candidate, decided, used, error, faults>>

Decide(t, d) == decided' = [decided EXCEPT ![t] = d]

\* A forced mode, or a cached decision, ends _resolve_tls at once.
ResolveForced(t) ==
  /\ pc[t] = "resolving"
  /\ mode # "auto"
  /\ Decide(t, IF mode = "true" THEN "tls" ELSE "plain")
  /\ Goto(t, "resolved")
  /\ UNCHANGED <<cluster, tlsCache, endpoint, overview, candidate, used, error, faults>>

ResolveCached(t) ==
  /\ pc[t] = "resolving"
  /\ mode = "auto"
  /\ tlsCache[endpoint[t]] # Unknown
  /\ Decide(t, tlsCache[endpoint[t]])
  /\ Goto(t, "resolved")
  /\ UNCHANGED <<cluster, tlsCache, endpoint, overview, candidate, used, error, faults>>

\* Mutant: the probe starts with plaintext.
MutStartProbe(t) ==
  /\ pc[t] = "resolving"
  /\ mode = "auto"
  /\ tlsCache[endpoint[t]] = Unknown
  /\ candidate' = [candidate EXCEPT ![t] = "plain"]
  /\ Goto(t, "probing")
  /\ UNCHANGED <<cluster, tlsCache, endpoint, overview, decided, used, error, faults>>

StartProbe(t) ==
  /\ pc[t] = "resolving"
  /\ mode = "auto"
  /\ tlsCache[endpoint[t]] = Unknown
  /\ candidate' = [candidate EXCEPT ![t] = "tls"]
  /\ Goto(t, "probing")
  /\ UNCHANGED <<cluster, tlsCache, endpoint, overview, decided, used, error, faults>>

\* _build_redis reads the credential before each client is made, and may fail.
CredentialFails(t) ==
  /\ pc[t] \in {"probing", "connecting"}
  /\ faults < MaxFaults
  /\ faults' = faults + 1
  /\ Raise(t, "credential")
  /\ UNCHANGED <<cluster, tlsCache, endpoint, overview, candidate, decided, used>>

\* The except clauses of the probe, in the order of the source: the first one
\* that names a class of the exception handles it.
Handler(x) ==
  IF Classes(x) \cap {"ConnectionError", "TimeoutError", "OSError"} # {} THEN "next candidate"
  ELSE IF "AuthenticationError" \in Classes(x) THEN "decide"
  ELSE "propagate"

\* The cluster answered, or a clause took the exception for an answer.
Settle(t) ==
  /\ Decide(t, candidate[t])
  /\ Goto(t, "deciding")
  /\ UNCHANGED <<candidate, error>>

TryPlaintext(t) ==
  /\ candidate[t] = "tls"
  /\ candidate' = [candidate EXCEPT ![t] = "plain"]
  /\ UNCHANGED <<pc, decided, error>>

\* Mutant: the fallback is remembered like a decision.
MutGiveUpRemember(t) ==
  /\ candidate[t] = "plain"
  /\ Decide(t, "tls")
  /\ Goto(t, "deciding")
  /\ UNCHANGED <<candidate, error>>

\* Mutant: the probe starts over until one of the settings works.
MutGiveUpNever(t) ==
  /\ candidate[t] = "plain"
  /\ candidate' = [candidate EXCEPT ![t] = "tls"]
  /\ UNCHANGED <<pc, decided, error>>

\* Both settings failed: TLS is assumed, nothing is cached.
GiveUp(t) ==
  /\ candidate[t] = "plain"
  /\ Decide(t, "tls")
  /\ Goto(t, "resolved")
  /\ UNCHANGED <<candidate, error>>

Ping(t) ==
  /\ pc[t] = "probing"
  /\ \E x \in Outcomes(endpoint[t], candidate[t]) :
        /\ Count(x)
        /\ \/ (x = "pong" \/ Handler(x) = "decide") /\ Settle(t)
           \/ x # "pong" /\ Handler(x) = "next candidate" /\ TryPlaintext(t)
           \/ x # "pong" /\ Handler(x) = "next candidate" /\ GiveUp(t)
           \/ x # "pong" /\ Handler(x) = "propagate" /\ Raise(t, x) /\ UNCHANGED <<candidate, decided>>
  /\ UNCHANGED <<cluster, tlsCache, endpoint, overview, used>>

WriteCache(t) ==
  /\ pc[t] = "deciding"
  /\ tlsCache' = [tlsCache EXCEPT ![endpoint[t]] = decided[t]]
  /\ Goto(t, "resolved")
  /\ UNCHANGED <<cluster, endpoint, overview, candidate, decided, used, error, faults>>

\* First resolution: _connect builds the client of the tool with it.
UseDecision(t) ==
  /\ pc[t] = "resolved"
  /\ used[t] = Unknown
  /\ Goto(t, "connecting")
  /\ UNCHANGED <<cluster, tlsCache, endpoint, overview, candidate, decided, used, error, faults>>

Build(t) ==
  /\ pc[t] = "connecting"
  /\ used' = [used EXCEPT ![t] = decided[t]]
  /\ Goto(t, "connected")
  /\ UNCHANGED <<cluster, tlsCache, endpoint, overview, candidate, decided, error, faults>>

\* The commands of the tool; the first one opens the connection.
Command(t) ==
  /\ pc[t] = "connected"
  /\ \E x \in Outcomes(endpoint[t], used[t]) :
        /\ Count(x)
        /\ \/ x # "pong" /\ Raise(t, x)
           \/ /\ x = "pong"
              /\ Goto(t, IF overview[t] THEN "resolving" ELSE "done")
              /\ UNCHANGED error
  /\ UNCHANGED <<cluster, tlsCache, endpoint, overview, candidate, decided, used>>

\* inspect_overview calls _resolve_tls a second time for raw_data.tls.
Report(t) ==
  /\ pc[t] = "resolved"
  /\ used[t] # Unknown
  /\ Goto(t, "done")
  /\ UNCHANGED <<cluster, tlsCache, endpoint, overview, candidate, decided, used, error, faults>>

\* Mutant: the endpoint of the last call is kept.
MutFinish(t) ==
  /\ pc[t] = "done"
  /\ Goto(t, "idle")
  /\ overview' = [overview EXCEPT ![t] = FALSE]
  /\ candidate' = [candidate EXCEPT ![t] = Unknown]
  /\ decided' = [decided EXCEPT ![t] = Unknown]
  /\ used' = [used EXCEPT ![t] = Unknown]
  /\ error' = [error EXCEPT ![t] = "none"]
  /\ UNCHANGED <<cluster, endpoint, tlsCache, faults>>

\* The result or the exception reaches the caller.
Finish(t) ==
  /\ pc[t] = "done"
  /\ Goto(t, "idle")
  /\ endpoint' = [endpoint EXCEPT ![t] = NoEndpoint]
  /\ overview' = [overview EXCEPT ![t] = FALSE]
  /\ candidate' = [candidate EXCEPT ![t] = Unknown]
  /\ decided' = [decided EXCEPT ![t] = Unknown]
  /\ used' = [used EXCEPT ![t] = Unknown]
  /\ error' = [error EXCEPT ![t] = "none"]
  /\ UNCHANGED <<cluster, tlsCache, faults>>
--------------------------------------------------------------------------
InCall(t) ==
  \/ ResolveForced(t) \/ ResolveCached(t) \/ StartProbe(t) \/ CredentialFails(t)
  \/ Ping(t) \/ WriteCache(t) \/ UseDecision(t) \/ Build(t) \/ Command(t)
  \/ Report(t) \/ Finish(t)

Next ==
  \/ \E e \in Endpoints : Reconfigure(e)
  \/ \E t \in Threads : Begin(t) \/ InCall(t)

Spec == Init /\ [][Next]_vars

\* Connect and socket timeouts of 10 seconds end every ping and command.
FairSpec == Spec /\ \A t \in Threads : WF_vars(InCall(t))
--------------------------------------------------------------------------
\* Every variable has its type; a call has an endpoint while it runs.
TypeOK ==
  /\ mode \in Modes
  /\ encryption \in [Endpoints -> {"required", "preferred", "disabled"}]
  /\ answer \in [Endpoints -> {"pong", "auth", "response"}]
  /\ tlsCache \in [Endpoints -> Settings \cup {Unknown}]
  /\ \A t \in Threads :
        /\ pc[t] \in {"idle", "resolving", "probing", "deciding", "resolved",
                      "connecting", "connected", "done"}
        /\ (endpoint[t] = NoEndpoint) <=> (pc[t] = "idle")
        /\ pc[t] = "probing" => candidate[t] \in Settings
        /\ pc[t] \in {"deciding", "resolved"} => decided[t] \in Settings
        /\ pc[t] = "connected" => used[t] \in Settings
        /\ error[t] # "none" => pc[t] = "done"
  /\ faults \in 0..MaxFaults
  /\ reconfigs \in 0..MaxReconfigs

\* As long as no cluster is reconfigured, a remembered decision works: the
\* cluster accepts connections under it and answered PING, however many calls
\* probed at once and whichever of them wrote last.
CacheProven ==
  reconfigs = 0 =>
    \A e \in Endpoints : tlsCache[e] # Unknown =>
       tlsCache[e] \in Supported(e) /\ answer[e] = "pong"

\* "auto connects without any configuration": with mode auto, no fault and no
\* reconfiguration, a call to a cluster that answers PING does not fail, and
\* plaintext is only used where the cluster does not accept TLS.
AutoConnects ==
  faults = 0 /\ reconfigs = 0 /\ mode = "auto" =>
    \A t \in Threads :
      /\ pc[t] = "done" /\ answer[endpoint[t]] = "pong" => error[t] = "none"
      /\ pc[t] = "connected" /\ used[t] = "plain" => encryption[endpoint[t]] = "disabled"

\* Every call ends, with a result or with an exception.
CallsEnd == \A t \in Threads : pc[t] # "idle" ~> pc[t] = "idle"
===========================================================================
