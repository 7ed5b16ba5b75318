--------------------------- MODULE TlsProbe_proofs ---------------------------
(***************************************************************************)
(* Theorems about TlsProbe for every set of calls and endpoints and every  *)
(* bound.  What the runs check is about the cache, about open connections  *)
(* and about finished calls; the invariant below follows a decision        *)
(* through the places of a call that lead there.                           *)
(***************************************************************************)
EXTENDS TlsProbe, TLAPS

Places == {"idle", "resolving", "probing", "deciding", "resolved", "connecting", "connected", "done"}

\* The functions of the threads have their types.
Shape ==
  /\ pc \in [Threads -> Places]
  /\ endpoint \in [Threads -> Endpoints \cup {NoEndpoint}]
  /\ overview \in [Threads -> BOOLEAN]
  /\ candidate \in [Threads -> Settings \cup {Unknown}]
  /\ decided \in [Threads -> Settings \cup {Unknown}]
  /\ used \in [Threads -> Settings \cup {Unknown}]
  /\ error \in [Threads -> {"none", "refused", "timeout", "auth", "response", "credential"}]

\* A client is built from a decision.
ConnectingInv == \A t \in Threads : pc[t] = "connecting" => decided[t] \in Settings

\* What a thread is about to remember was proved by an answer, unless the
\* cluster changed since.
SettledInv ==
  reconfigs = 0 =>
    \A t \in Threads : pc[t] = "deciding" =>
       decided[t] \in Supported(endpoint[t]) /\ answer[endpoint[t]] = "pong"

\* Nothing disturbs a call in mode auto.
Calm == faults = 0 /\ reconfigs = 0 /\ mode = "auto"

\* Plaintext is only ever tried after TLS, and TLS only fails where it is
\* disabled or the credential is refused; it is decided only where TLS is
\* disabled.
PlainInv ==
  Calm =>
    /\ \A e \in Endpoints : tlsCache[e] = "plain" => encryption[e] = "disabled"
    /\ \A t \in Threads :
         /\ pc[t] = "probing" /\ candidate[t] = "plain" =>
              encryption[endpoint[t]] = "disabled" \/ answer[endpoint[t]] = "auth"
         /\ pc[t] \in {"deciding", "resolved", "connecting"} /\ decided[t] = "plain" =>
              encryption[endpoint[t]] = "disabled"

\* With a cluster that answers, a decision works.
WorksInv ==
  Calm =>
    \A t \in Threads : pc[t] # "idle" /\ answer[endpoint[t]] = "pong" =>
      /\ pc[t] \in {"deciding", "resolved", "connecting"} => decided[t] \in Supported(endpoint[t])
      /\ pc[t] = "connected" => used[t] \in Supported(endpoint[t])

\* The two halves of AutoConnects: no plaintext to a cluster with TLS, and no
\* failed call to one that answers.
TlsPreferred ==
  Calm => \A t \in Threads :
    pc[t] = "connected" /\ used[t] = "plain" => encryption[endpoint[t]] = "disabled"

NothingFails ==
  Calm => \A t \in Threads : pc[t] = "done" /\ answer[endpoint[t]] = "pong" => error[t] = "none"

IInv ==
  /\ TypeOK /\ Shape /\ ConnectingInv /\ SettledInv /\ PlainInv /\ WorksInv
  /\ CacheProven /\ TlsPreferred /\ NothingFails
--------------------------------------------------------------------------
\* The initial states satisfy the inductive invariant.
LEMMA InitIInv == Init => IInv
<1> SUFFICES ASSUME Init PROVE IInv
  OBVIOUS
<1> USE BoundsAssumption, EndpointsAssumption DEF Init
<1>1. TypeOK /\ Shape
  BY DEF TypeOK, Shape, Places, Modes, Settings, Unknown, NoEndpoint
<1>2. ConnectingInv /\ SettledInv /\ PlainInv /\ WorksInv
  BY DEF ConnectingInv, SettledInv, PlainInv, WorksInv, Unknown
<1>3. CacheProven /\ TlsPreferred /\ NothingFails
  BY DEF CacheProven, TlsPreferred, NothingFails, Calm, Unknown
<1> QED
  BY <1>1, <1>2, <1>3 DEF IInv

\* A change of the encryption ends the calm, and disturbs nothing else.
LEMMA ReconfigureIInv ==
  ASSUME IInv, NEW e \in Endpoints, Reconfigure(e)
  PROVE  IInv'
<1> USE BoundsAssumption DEF IInv, Reconfigure
<1>1. reconfigs' # 0
  BY DEF TypeOK
<1>2. TypeOK' /\ Shape'
  BY DEF TypeOK, Shape
<1>3. ConnectingInv'
  BY DEF ConnectingInv
<1>4. SettledInv' /\ PlainInv' /\ WorksInv'
  BY <1>1 DEF SettledInv, PlainInv, WorksInv, Calm
<1>5. CacheProven' /\ TlsPreferred' /\ NothingFails'
  BY <1>1 DEF CacheProven, TlsPreferred, NothingFails, Calm
<1> QED
  BY <1>2, <1>3, <1>4, <1>5

\* No exception reaches the clause that takes an authentication error for an
\* answer: the clause before it names a class it inherits from.
LEMMA HandlerOf ==
  ASSUME NEW x \in {"pong", "auth", "response", "refused", "timeout"}
  PROVE  Handler(x) = IF x \in {"pong", "response"} THEN "propagate" ELSE "next candidate"
<1>1. CASE x \in {"auth", "refused"}
  <2>1. "ConnectionError" \in Classes(x)
    BY <1>1 DEF Classes
  <2>2. Classes(x) \cap {"ConnectionError", "TimeoutError", "OSError"} # {}
    BY <2>1
  <2>3. Handler(x) = "next candidate"
    BY <2>2 DEF Handler
  <2> QED
    BY <1>1, <2>3
<1>2. CASE x = "timeout"
  <2>1. "TimeoutError" \in Classes(x)
    BY <1>2 DEF Classes
  <2>2. Classes(x) \cap {"ConnectionError", "TimeoutError", "OSError"} # {}
    BY <2>1
  <2>3. Handler(x) = "next candidate"
    BY <2>2 DEF Handler
  <2> QED
    BY <1>2, <2>3
<1>3. CASE x \in {"pong", "response"}
  <2>1. Classes(x) \in {{"ResponseError"}, {"Exception"}}
    BY <1>3 DEF Classes
  <2>2. /\ Classes(x) \cap {"ConnectionError", "TimeoutError", "OSError"} = {}
        /\ "AuthenticationError" \notin Classes(x)
    BY <2>1
  <2> QED
    BY <1>3, <2>2 DEF Handler
<1> QED
  BY <1>1, <1>2, <1>3

\* The steps of a call keep it.
LEMMA CallIInv ==
  ASSUME IInv, NEW t \in Threads, Begin(t) \/ InCall(t)
  PROVE  IInv'
<1> USE BoundsAssumption, EndpointsAssumption DEF IInv, cluster
<1>1. CASE Begin(t)
  <2> USE <1>1 DEF Begin, Goto
  <2>1. TypeOK'
    BY DEF TypeOK, Shape, ConnectingInv, Settings, Unknown
  <2>2. Shape'
    BY DEF Shape, Places, TypeOK, Settings, Unknown
  <2>3. ConnectingInv'
    BY DEF ConnectingInv, Shape, TypeOK
  <2>4. SettledInv'
    BY DEF SettledInv, Shape, Supported
  <2>5. PlainInv'
    BY DEF PlainInv, Calm, Shape, TypeOK, Supported, Settings, Unknown
  <2>6. WorksInv'
    BY DEF WorksInv, PlainInv, Calm, Shape, TypeOK, Supported, Settings, Unknown
  <2>7. CacheProven'
    BY DEF CacheProven, SettledInv, Shape, TypeOK, Supported
  <2>8. TlsPreferred'
    BY DEF TlsPreferred, PlainInv, Calm, Shape
  <2>9. NothingFails'
    BY DEF NothingFails, WorksInv, Calm, Shape, TypeOK
  <2> QED
    BY <2>1, <2>2, <2>3, <2>4, <2>5, <2>6, <2>7, <2>8, <2>9
<1>2. CASE ResolveForced(t)
  <2> USE <1>2 DEF ResolveForced, Goto, Decide
  <2>1. TypeOK'
    BY DEF TypeOK, Shape, ConnectingInv, Settings, Unknown
  <2>2. Shape'
    BY DEF Shape, Places, TypeOK, Settings, Unknown
  <2>3. ConnectingInv'
    BY DEF ConnectingInv, Shape, TypeOK
  <2>4. SettledInv'
    BY DEF SettledInv, Shape, Supported
  <2>5. PlainInv'
    BY DEF PlainInv, Calm, Shape, TypeOK, Supported, Settings, Unknown
  <2>6. WorksInv'
    BY DEF WorksInv, PlainInv, Calm, Shape, TypeOK, Supported, Settings, Unknown
  <2>7. CacheProven'
    BY DEF CacheProven, SettledInv, Shape, TypeOK, Supported
  <2>8. TlsPreferred'
    BY DEF TlsPreferred, PlainInv, Calm, Shape
  <2>9. NothingFails'
    BY DEF NothingFails, WorksInv, Calm, Shape, TypeOK
  <2> QED
    BY <2>1, <2>2, <2>3, <2>4, <2>5, <2>6, <2>7, <2>8, <2>9
<1>3. CASE ResolveCached(t)
  <2> USE <1>3 DEF ResolveCached, Goto, Decide
  <2>1. TypeOK'
    BY DEF TypeOK, Shape, ConnectingInv, Settings, Unknown
  <2>2. Shape'
    BY DEF Shape, Places, TypeOK, Settings, Unknown
  <2>3. ConnectingInv'
    BY DEF ConnectingInv, Shape, TypeOK
  <2>4. SettledInv'
    BY DEF SettledInv, Shape, Supported
  <2>5. PlainInv'
    BY DEF PlainInv, Calm, Shape, TypeOK, Supported, Settings, Unknown
  <2>6. WorksInv'
    BY DEF WorksInv, CacheProven, PlainInv, Calm, Shape, TypeOK, Supported, Settings, Unknown
  <2>7. CacheProven'
    BY DEF CacheProven, SettledInv, Shape, TypeOK, Supported
  <2>8. TlsPreferred'
    BY DEF TlsPreferred, PlainInv, Calm, Shape
  <2>9. NothingFails'
    BY DEF NothingFails, WorksInv, Calm, Shape, TypeOK
  <2> QED
    BY <2>1, <2>2, <2>3, <2>4, <2>5, <2>6, <2>7, <2>8, <2>9
<1>4. CASE StartProbe(t)
  <2> USE <1>4 DEF StartProbe, Goto
  <2>1. TypeOK'
    BY DEF TypeOK, Shape, ConnectingInv, Settings, Unknown
  <2>2. Shape'
    BY DEF Shape, Places, TypeOK, Settings, Unknown
  <2>3. ConnectingInv'
    BY DEF ConnectingInv, Shape, TypeOK
  <2>4. SettledInv'
    BY DEF SettledInv, Shape, Supported
  <2>5. PlainInv'
    BY DEF PlainInv, Calm, Shape, TypeOK, Supported, Settings, Unknown
  <2>6. WorksInv'
    BY DEF WorksInv, PlainInv, Calm, Shape, TypeOK, Supported, Settings, Unknown
  <2>7. CacheProven'
    BY DEF CacheProven, SettledInv, Shape, TypeOK, Supported
  <2>8. TlsPreferred'
    BY DEF TlsPreferred, PlainInv, Calm, Shape
  <2>9. NothingFails'
    BY DEF NothingFails, WorksInv, Calm, Shape, TypeOK
  <2> QED
    BY <2>1, <2>2, <2>3, <2>4, <2>5, <2>6, <2>7, <2>8, <2>9
<1>5. CASE CredentialFails(t)
  <2> USE <1>5 DEF CredentialFails, Goto, Raise
  <2>1. TypeOK'
    BY DEF TypeOK, Shape, ConnectingInv, Settings, Unknown
  <2>2. Shape'
    BY DEF Shape, Places, TypeOK, Settings, Unknown
  <2>3. ConnectingInv'
    BY DEF ConnectingInv, Shape, TypeOK
  <2>4. SettledInv'
    BY DEF SettledInv, Shape, Supported
  <2>5. PlainInv'
    BY DEF PlainInv, Calm, Shape, TypeOK, Supported, Settings, Unknown
  <2>6. WorksInv'
    BY DEF WorksInv, PlainInv, Calm, Shape, TypeOK, Supported, Settings, Unknown
  <2>7. CacheProven'
    BY DEF CacheProven, SettledInv, Shape, TypeOK, Supported
  <2>8. TlsPreferred'
    BY DEF TlsPreferred, PlainInv, Calm, Shape, TypeOK
  <2>9. NothingFails'
    BY DEF NothingFails, WorksInv, Calm, Shape, TypeOK
  <2> QED
    BY <2>1, <2>2, <2>3, <2>4, <2>5, <2>6, <2>7, <2>8, <2>9
<1>6. CASE WriteCache(t)
  <2> USE <1>6 DEF WriteCache, Goto
  <2>1. TypeOK'
    BY DEF TypeOK, Shape, ConnectingInv, Settings, Unknown
  <2>2. Shape'
    BY DEF Shape, Places, TypeOK, Settings, Unknown
  <2>3. ConnectingInv'
    BY DEF ConnectingInv, Shape, TypeOK
  <2>4. SettledInv'
    BY DEF SettledInv, Shape, Supported
  <2>5. PlainInv'
    BY DEF PlainInv, Calm, Shape, TypeOK, Supported, Settings, Unknown
  <2>6. WorksInv'
    BY DEF WorksInv, PlainInv, Calm, Shape, TypeOK, Supported, Settings, Unknown
  <2>7. CacheProven'
    BY DEF CacheProven, SettledInv, Shape, TypeOK, Supported
  <2>8. TlsPreferred'
    BY DEF TlsPreferred, PlainInv, Calm, Shape
  <2>9. NothingFails'
    BY DEF NothingFails, WorksInv, Calm, Shape, TypeOK
  <2> QED
    BY <2>1, <2>2, <2>3, <2>4, <2>5, <2>6, <2>7, <2>8, <2>9
<1>7. CASE UseDecision(t)
  <2> USE <1>7 DEF UseDecision, Goto
  <2>1. TypeOK'
    BY DEF TypeOK, Shape, ConnectingInv, Settings, Unknown
  <2>2. Shape'
    BY DEF Shape, Places, TypeOK, Settings, Unknown
  <2>3. ConnectingInv'
    BY DEF ConnectingInv, Shape, TypeOK
  <2>4. SettledInv'
    BY DEF SettledInv, Shape, Supported
  <2>5. PlainInv'
    BY DEF PlainInv, Calm, Shape, TypeOK, Supported, Settings, Unknown
  <2>6. WorksInv'
    BY DEF WorksInv, PlainInv, Calm, Shape, TypeOK, Supported, Settings, Unknown
  <2>7. CacheProven'
    BY DEF CacheProven, SettledInv, Shape, TypeOK, Supported
  <2>8. TlsPreferred'
    BY DEF TlsPreferred, PlainInv, Calm, Shape
  <2>9. NothingFails'
    BY DEF NothingFails, WorksInv, Calm, Shape, TypeOK
  <2> QED
    BY <2>1, <2>2, <2>3, <2>4, <2>5, <2>6, <2>7, <2>8, <2>9
<1>8. CASE Build(t)
  <2> USE <1>8 DEF Build, Goto
  <2>1. TypeOK'
    BY DEF TypeOK, Shape, ConnectingInv, Settings, Unknown
  <2>2. Shape'
    BY DEF Shape, Places, TypeOK, Settings, Unknown
  <2>3. ConnectingInv'
    BY DEF ConnectingInv, Shape, TypeOK
  <2>4. SettledInv'
    BY DEF SettledInv, Shape, Supported
  <2>5. PlainInv'
    BY DEF PlainInv, Calm, Shape, TypeOK, Supported, Settings, Unknown
  <2>6. WorksInv'
    BY DEF WorksInv, PlainInv, Calm, Shape, TypeOK, Supported, Settings, Unknown
  <2>7. CacheProven'
    BY DEF CacheProven, SettledInv, Shape, TypeOK, Supported
  <2>8. TlsPreferred'
    BY DEF TlsPreferred, PlainInv, Calm, Shape
  <2>9. NothingFails'
    BY DEF NothingFails, WorksInv, Calm, Shape, TypeOK
  <2> QED
    BY <2>1, <2>2, <2>3, <2>4, <2>5, <2>6, <2>7, <2>8, <2>9
<1>9. CASE Command(t)
  <2> USE <1>9 DEF Command, Goto, Raise, Count, Outcomes
  <2>1. TypeOK'
    BY DEF TypeOK, Shape, ConnectingInv, Settings, Unknown
  <2>2. Shape'
    BY DEF Shape, Places, TypeOK, Settings, Unknown
  <2>3. ConnectingInv'
    BY DEF ConnectingInv, Shape, TypeOK
  <2>4. SettledInv'
    BY DEF SettledInv, Shape, Supported
  <2>5. PlainInv'
    BY DEF PlainInv, Calm, Shape, TypeOK, Supported, Settings, Unknown
  <2>6. WorksInv'
    BY DEF WorksInv, PlainInv, Calm, Shape, TypeOK, Supported, Settings, Unknown
  <2>7. CacheProven'
    BY DEF CacheProven, SettledInv, Shape, TypeOK, Supported
  <2>8. TlsPreferred'
    BY DEF TlsPreferred, PlainInv, Calm, Shape, TypeOK
  <2>9. NothingFails'
    BY DEF NothingFails, WorksInv, Calm, Shape, TypeOK
  <2> QED
    BY <2>1, <2>2, <2>3, <2>4, <2>5, <2>6, <2>7, <2>8, <2>9
<1>10. CASE Report(t)
  <2> USE <1>10 DEF Report, Goto
  <2>1. TypeOK'
    BY DEF TypeOK, Shape, ConnectingInv, Settings, Unknown
  <2>2. Shape'
    BY DEF Shape, Places, TypeOK, Settings, Unknown
  <2>3. ConnectingInv'
    BY DEF ConnectingInv, Shape, TypeOK
  <2>4. SettledInv'
    BY DEF SettledInv, Shape, Supported
  <2>5. PlainInv'
    BY DEF PlainInv, Calm, Shape, TypeOK, Supported, Settings, Unknown
  <2>6. WorksInv'
    BY DEF WorksInv, PlainInv, Calm, Shape, TypeOK, Supported, Settings, Unknown
  <2>7. CacheProven'
    BY DEF CacheProven, SettledInv, Shape, TypeOK, Supported
  <2>8. TlsPreferred'
    BY DEF TlsPreferred, PlainInv, Calm, Shape
  <2>9. NothingFails'
    BY DEF NothingFails, WorksInv, Calm, Shape, TypeOK
  <2> QED
    BY <2>1, <2>2, <2>3, <2>4, <2>5, <2>6, <2>7, <2>8, <2>9
<1>11. CASE Finish(t)
  <2> USE <1>11 DEF Finish, Goto
  <2>1. TypeOK'
    BY DEF TypeOK, Shape, ConnectingInv, Settings, Unknown
  <2>2. Shape'
    BY DEF Shape, Places, TypeOK, Settings, Unknown
  <2>3. ConnectingInv'
    BY DEF ConnectingInv, Shape, TypeOK
  <2>4. SettledInv'
    BY DEF SettledInv, Shape, Supported
  <2>5. PlainInv'
    BY DEF PlainInv, Calm, Shape, TypeOK, Supported, Settings, Unknown
  <2>6. WorksInv'
    BY DEF WorksInv, PlainInv, Calm, Shape, TypeOK, Supported, Settings, Unknown
  <2>7. CacheProven'
    BY DEF CacheProven, SettledInv, Shape, TypeOK, Supported
  <2>8. TlsPreferred'
    BY DEF TlsPreferred, PlainInv, Calm, Shape
  <2>9. NothingFails'
    BY DEF NothingFails, WorksInv, Calm, Shape, TypeOK
  <2> QED
    BY <2>1, <2>2, <2>3, <2>4, <2>5, <2>6, <2>7, <2>8, <2>9
<1>12. CASE Ping(t)
  <2>1. PICK x \in Outcomes(endpoint[t], candidate[t]) :
           /\ Count(x)
           /\ \/ (x = "pong" \/ Handler(x) = "decide") /\ Settle(t)
              \/ x # "pong" /\ Handler(x) = "next candidate" /\ TryPlaintext(t)
              \/ x # "pong" /\ Handler(x) = "next candidate" /\ GiveUp(t)
              \/ x # "pong" /\ Handler(x) = "propagate" /\ Raise(t, x) /\ UNCHANGED <<candidate, decided>>
    BY <1>12 DEF Ping
  <2>2. /\ pc[t] = "probing" /\ endpoint[t] \in Endpoints
        /\ candidate[t] \in Settings
        /\ UNCHANGED <<cluster, tlsCache, endpoint, overview, used>>
    BY <1>12 DEF Ping, TypeOK, Shape
  <2>3. x \in {"pong", "auth", "response", "refused", "timeout"}
    BY <2>1, <2>2 DEF Outcomes, TypeOK
  <2>4. /\ faults' \in 0..MaxFaults
        /\ faults' = 0 => faults = 0 /\ x # "timeout"
    <3>1. x = "timeout" => faults < MaxFaults
      BY <2>1, <2>2 DEF Outcomes, TypeOK
    <3>2. Count(x)
      BY <2>1
    <3>3. faults \in 0..MaxFaults
      BY DEF TypeOK
    <3> QED
      BY <3>1, <3>2, <3>3 DEF Count
  <2>5. x # "timeout" => \/ candidate[t] \in Supported(endpoint[t]) /\ x = answer[endpoint[t]]
                         \/ candidate[t] \notin Supported(endpoint[t]) /\ x = "refused"
    BY <2>1, <2>2 DEF Outcomes
  <2>6. CASE (x = "pong" \/ Handler(x) = "decide") /\ Settle(t)
    <3> USE <2>6 DEF Settle, Goto, Decide
    <3>1. x = "pong"
      BY <2>3, HandlerOf
    <3>2. candidate[t] \in Supported(endpoint[t]) /\ answer[endpoint[t]] = "pong"
      BY <3>1, <2>2, <2>5 DEF TypeOK
    <3>3. TypeOK'
      BY <2>2, <2>4, <2>6, <3>2 DEF TypeOK, Shape, ConnectingInv, Settings, Unknown
    <3>4. Shape'
      BY <2>2, <2>4, <2>6, <3>2 DEF Shape, Places, TypeOK, Settings, Unknown
    <3>5. ConnectingInv'
      BY <2>2, <2>4, <2>6, <3>2 DEF ConnectingInv, Shape, TypeOK
    <3>6. SettledInv'
      BY <2>2, <2>4, <2>6, <3>2 DEF SettledInv, Shape, Supported
    <3>7. PlainInv'
      BY <2>2, <2>4, <2>6, <3>2 DEF PlainInv, Calm, Shape, TypeOK, Supported, Settings, Unknown
    <3>8. WorksInv'
      BY <2>2, <2>4, <2>6, <3>2 DEF WorksInv, Calm, Shape, TypeOK, Supported
    <3>9. CacheProven'
      BY <2>2, <2>4, <2>6, <3>2 DEF CacheProven, Supported
    <3>10. TlsPreferred'
      BY <2>2, <2>4, <2>6, <3>2 DEF TlsPreferred, Calm, Shape, TypeOK
    <3>11. NothingFails'
      BY <2>2, <2>4, <2>6, <3>2 DEF NothingFails, Calm, Shape, TypeOK
    <3> QED
      BY <3>3, <3>4, <3>5, <3>6, <3>7, <3>8, <3>9, <3>10, <3>11
  <2>7. CASE x # "pong" /\ Handler(x) = "next candidate" /\ TryPlaintext(t)
    <3>0. x \in {"auth", "refused", "timeout"}
      BY <2>7, <2>3, HandlerOf
    <3>1. /\ candidate[t] = "tls" /\ candidate' = [candidate EXCEPT ![t] = "plain"]
          /\ candidate'[t] = "plain" /\ \A r \in Threads : r # t => candidate'[r] = candidate[r]
          /\ UNCHANGED <<pc, decided, error, encryption, answer, mode, reconfigs, tlsCache, endpoint, overview, used>>
      BY <2>7, <2>2 DEF TryPlaintext, Shape, cluster
    <3>2. TypeOK'
      BY <3>1, <2>4 DEF TypeOK, Settings
    <3>3. Shape'
      BY <3>1 DEF Shape, Settings
    <3>4. ConnectingInv'
      BY <3>1 DEF ConnectingInv
    <3>5. SettledInv'
      BY <3>1 DEF SettledInv, Supported
    <3>6. faults' = 0 => encryption[endpoint[t]] = "disabled" \/ answer[endpoint[t]] = "auth"
      BY <3>1, <3>0, <2>2, <2>4, <2>5 DEF Supported, Settings, TypeOK
    <3>7. PlainInv'
      BY <3>1, <3>6, <2>4 DEF PlainInv, Calm
    <3>8. WorksInv'
      BY <3>1, <2>4 DEF WorksInv, Calm, Supported
    <3>9. CacheProven'
      BY <3>1 DEF CacheProven, Supported
    <3>10. TlsPreferred'
      BY <3>1, <2>4 DEF TlsPreferred, Calm
    <3>11. NothingFails'
      BY <3>1, <2>4 DEF NothingFails, Calm
    <3> QED
      BY <3>2, <3>3, <3>4, <3>5, <3>7, <3>8, <3>9, <3>10, <3>11
  <2>8. CASE x # "pong" /\ Handler(x) = "next candidate" /\ GiveUp(t)
    <3>0. x \in {"auth", "refused", "timeout"}
      BY <2>8, <2>3, HandlerOf
    <3>1. /\ candidate[t] = "plain" /\ pc'[t] = "resolved" /\ decided'[t] = "tls"
          /\ pc' = [pc EXCEPT ![t] = "resolved"] /\ decided' = [decided EXCEPT ![t] = "tls"]
          /\ \A r \in Threads : r # t => pc'[r] = pc[r] /\ decided'[r] = decided[r]
          /\ UNCHANGED <<candidate, error, encryption, answer, mode, reconfigs, tlsCache, endpoint, overview, used>>
      BY <2>8, <2>2 DEF GiveUp, Goto, Decide, Shape, cluster
    <3>2. TypeOK'
      BY <3>1, <2>2, <2>4 DEF TypeOK, Settings
    <3>3. Shape'
      BY <3>1 DEF Shape, Places, Settings
    <3>4. ConnectingInv'
      BY <3>1 DEF ConnectingInv
    <3>5. SettledInv'
      BY <3>1 DEF SettledInv, Supported
    <3>6. PlainInv'
      BY <3>1, <2>4 DEF PlainInv, Calm
    <3>7. faults' = 0 => answer[endpoint[t]] # "pong" \/ encryption[endpoint[t]] # "disabled"
      BY <3>1, <3>0, <2>2, <2>4, <2>5 DEF Supported, Settings
    <3>8. Calm' => answer[endpoint[t]] # "pong"
      BY <3>1, <3>7, <2>2, <2>4 DEF PlainInv, Calm
    <3>9. WorksInv'
      BY <3>1, <3>8, <2>4 DEF WorksInv, Calm, Supported
    <3>10. CacheProven'
      BY <3>1 DEF CacheProven, Supported
    <3>11. TlsPreferred'
      BY <3>1, <2>4 DEF TlsPreferred, Calm
    <3>12. NothingFails'
      BY <3>1, <2>4 DEF NothingFails, Calm
    <3> QED
      BY <3>2, <3>3, <3>4, <3>5, <3>6, <3>9, <3>10, <3>11, <3>12
  <2>9. CASE x # "pong" /\ Handler(x) = "propagate" /\ Raise(t, x) /\ UNCHANGED <<candidate, decided>>
    <3> USE <2>9, <2>2, <2>3, <2>4, <2>5 DEF Raise, Goto, Handler, Classes
    <3>1. TypeOK'
      BY DEF TypeOK, Shape, ConnectingInv, Settings, Unknown
    <3>2. Shape'
      BY DEF Shape, Places, TypeOK, Settings, Unknown
    <3>3. ConnectingInv'
      BY DEF ConnectingInv, Shape, TypeOK
    <3>4. SettledInv'
      BY DEF SettledInv, Shape, Supported
    <3>5. PlainInv'
      BY DEF PlainInv, Calm, Shape, TypeOK, Supported, Settings, Unknown
    <3>6. WorksInv'
      BY DEF WorksInv, PlainInv, Calm, Shape, TypeOK, Supported, Settings
    <3>7. CacheProven'
      BY DEF CacheProven, Supported
    <3>8. TlsPreferred'
      BY DEF TlsPreferred, Calm, Shape, TypeOK
    <3>9. NothingFails'
      BY DEF NothingFails, Calm, Shape, TypeOK
    <3> QED
      BY <3>1, <3>2, <3>3, <3>4, <3>5, <3>6, <3>7, <3>8, <3>9
  <2> QED
    BY <2>1, <2>6, <2>7, <2>8, <2>9
<1> QED
  BY <1>1, <1>2, <1>3, <1>4, <1>5, <1>6, <1>7, <1>8, <1>9, <1>10, <1>11, <1>12 DEF InCall
--------------------------------------------------------------------------
LEMMA StepIInv == IInv /\ [Next]_vars => IInv'
<1> SUFFICES ASSUME IInv, [Next]_vars PROVE IInv'
  OBVIOUS
<1>1. ASSUME NEW e \in Endpoints, Reconfigure(e) PROVE IInv'
  BY <1>1, ReconfigureIInv
<1>2. ASSUME NEW t \in Threads, Begin(t) \/ InCall(t) PROVE IInv'
  BY <1>2, CallIInv
<1>3. CASE UNCHANGED vars
  BY <1>3 DEF IInv, vars, cluster, TypeOK, Shape, ConnectingInv, SettledInv, PlainInv, WorksInv,
     Calm, CacheProven, TlsPreferred, NothingFails, Supported
<1> QED
  BY <1>1, <1>2, <1>3 DEF Next

LEMMA InductiveInvariant == Spec => []IInv
  BY InitIInv, StepIInv, PTL DEF Spec

\* Every variable keeps its type; a call has an endpoint while it runs.
THEOREM TypeCorrect == Spec => []TypeOK
<1>1. IInv => TypeOK
  BY DEF IInv
<1> QED
  BY <1>1, InductiveInvariant, PTL

\* However many calls probe an endpoint at once and whichever of them writes
\* last, what is remembered was proved by an answer of the cluster.
THEOREM RememberedIsProven == Spec => []CacheProven
<1>1. IInv => CacheProven
  BY DEF IInv
<1> QED
  BY <1>1, InductiveInvariant, PTL

\* As long as nothing fails and nobody changes the cluster, mode auto sends
\* nothing in plaintext to a cluster that accepts TLS, and a call to a cluster
\* that answers does not fail.
THEOREM AutoAlwaysConnects == Spec => []AutoConnects
<1>1. IInv => AutoConnects
  BY DEF IInv, TlsPreferred, NothingFails, Calm, AutoConnects
<1> QED
  BY <1>1, InductiveInvariant, PTL
=============================================================================
