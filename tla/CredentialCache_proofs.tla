---------------------- MODULE CredentialCache_proofs ----------------------
(***************************************************************************)
(* Theorems about CredentialCache for every set of threads, lifetime and   *)
(* bound.  The invariants the runs check are not inductive: that a served  *)
(* credential is recent enough rests on what is known of the cache entry   *)
(* and of the value a thread is about to store, which the parts of IInv    *)
(* below say.                                                              *)
(***************************************************************************)
EXTENDS CredentialCache, TLAPS

\* Credential v was still the current one at time x or later.
CurrentSince(v, x) == v = version \/ (v < version /\ supersededAt[v] >= x)

\* No recorded time lies in the future.
TimeInv ==
  /\ \A v \in Versions : supersededAt[v] <= clock
  /\ \A t \in Threads : now[t] <= clock

\* The cached credential is a real one and was current when, or after, the
\* thread that stored it read its clock.
EntryInv ==
  cache # NoEntry =>
    /\ cache.at \in 0..clock
    /\ cache.value \in 1..version
    /\ CurrentSince(cache.value, cache.at)

\* A thread that asks Secrets Manager found no fresh entry, and nobody else
\* can have written one since; what it got is at least as recent as what the
\* cache holds and was current after the thread read its clock.
FetchInv ==
  \A t \in Threads :
    /\ pc[t] \in {"fetching", "fetched"} => ~Fresh(t)
    /\ pc[t] = "fetched" =>
         /\ got[t] \in 0..version
         /\ got[t] >= cache.value
         /\ CurrentSince(got[t], now[t])

\* A credential that was handed out is a real one, recent enough.
ServedInv ==
  \A t \in Threads : outcome[t] \in Served =>
    /\ got[t] \in 1..version
    /\ CurrentAfter(got[t], now[t] - TTL)

IInv == TypeOK /\ LockInv /\ TimeInv /\ EntryInv /\ FetchInv /\ ServedInv
--------------------------------------------------------------------------
\* The initial states satisfy the inductive invariant.
LEMMA InitIInv == Init => IInv
<1> SUFFICES ASSUME Init PROVE IInv
  OBVIOUS
<1> USE TTLAssumption, BoundsAssumption, ThreadsAssumption
<1>1. TypeOK
  BY DEF Init, TypeOK, Versions, Placeholder, Entries, NoEntry, Served, Refused, Critical
<1>2. LockInv
  BY DEF Init, LockInv, Critical
<1>3. TimeInv
  BY DEF Init, TimeInv
<1>4. EntryInv /\ FetchInv /\ ServedInv
  BY DEF Init, EntryInv, FetchInv, ServedInv, Served
<1> QED
  BY <1>1, <1>2, <1>3, <1>4 DEF IInv

\* The type invariant is preserved by the steps of the environment.
LEMMA EnvironmentIInv == IInv /\ (Tick \/ Rotate) => IInv'
<1> SUFFICES ASSUME IInv, Tick \/ Rotate PROVE IInv'
  OBVIOUS
<1> USE TTLAssumption, BoundsAssumption, ThreadsAssumption DEF IInv
<1>1. CASE Tick
  <2> USE <1>1 DEF Tick
  <2>1. TypeOK'
    BY DEF TypeOK
  <2>2. LockInv'
    BY DEF LockInv
  <2>3. TimeInv'
    BY DEF TimeInv, TypeOK
  <2>4. EntryInv'
    BY DEF EntryInv, CurrentSince, TypeOK
  <2>5. FetchInv'
    BY DEF FetchInv, CurrentSince, Fresh
  <2>6. ServedInv'
    BY DEF ServedInv, CurrentAfter
  <2> QED
    BY <2>1, <2>2, <2>3, <2>4, <2>5, <2>6
<1>2. CASE Rotate
  <2> USE <1>2 DEF Rotate
  <2>1. TypeOK'
    BY DEF TypeOK, Versions
  <2>2. LockInv'
    BY DEF LockInv
  <2>3. TimeInv'
    BY DEF TimeInv, TypeOK, Versions
  <2>4. EntryInv'
    <3> SUFFICES ASSUME cache # NoEntry
                 PROVE  /\ cache.at \in 0..clock
                        /\ cache.value \in 1..version'
                        /\ CurrentSince(cache.value, cache.at)'
      BY DEF EntryInv
    <3>1. /\ cache.at \in 0..clock
          /\ cache.value \in 1..version
          /\ CurrentSince(cache.value, cache.at)
      BY DEF EntryInv
    <3>2. version \in 0..MaxVersion /\ supersededAt \in [0..MaxVersion -> Nat] /\ clock \in Nat
      BY DEF TypeOK, Versions
    <3> QED
      BY <3>1, <3>2 DEF CurrentSince
  <2>5. FetchInv'
    BY DEF FetchInv, CurrentSince, Fresh, TypeOK, Versions, TimeInv
  <2>6. ServedInv'
    BY DEF ServedInv, CurrentAfter, TypeOK, Versions, TimeInv
  <2> QED
    BY <2>1, <2>2, <2>3, <2>4, <2>5, <2>6
<1> QED
  BY <1>1, <1>2
\* The steps of a thread preserve the inductive invariant.
LEMMA ThreadIInv ==
  ASSUME IInv, NEW t \in Threads, Step(t)
  PROVE  IInv'
<1> USE TTLAssumption, BoundsAssumption, ThreadsAssumption DEF IInv, Critical, external
<1>1. CASE Begin(t)
  <2> USE <1>1 DEF Begin
  <2>1. TypeOK'
    BY DEF TypeOK, Versions, Served, Refused, NoValue, NoEntry, Entries, EntryInv, FetchInv
  <2>2. LockInv'
    BY DEF LockInv, TypeOK
  <2>3. TimeInv'
    BY DEF TimeInv, TypeOK
  <2>4. EntryInv'
    BY DEF EntryInv, CurrentSince, TypeOK, FetchInv, IsPlaceholder, Placeholder, TimeInv, Versions, NoEntry
  <2>5. FetchInv'
    BY DEF FetchInv, CurrentSince, Fresh, TypeOK, LockInv, EntryInv, NoEntry, NoValue, TimeInv, Versions
  <2>6. ServedInv'
    BY DEF ServedInv, CurrentAfter, TypeOK, EntryInv, FetchInv, CurrentSince, Fresh, IsPlaceholder, Placeholder, Served, NoEntry, Versions
  <2> QED
    BY <2>1, <2>2, <2>3, <2>4, <2>5, <2>6
<1>2. CASE Acquire(t)
  <2> USE <1>2 DEF Acquire
  <2>1. TypeOK'
    BY DEF TypeOK, Versions, Served, Refused, NoValue, NoEntry, Entries, EntryInv, FetchInv
  <2>2. LockInv'
    BY DEF LockInv, TypeOK
  <2>3. TimeInv'
    BY DEF TimeInv, TypeOK
  <2>4. EntryInv'
    BY DEF EntryInv, CurrentSince, TypeOK, FetchInv, IsPlaceholder, Placeholder, TimeInv, Versions, NoEntry
  <2>5. FetchInv'
    BY DEF FetchInv, CurrentSince, Fresh, TypeOK, LockInv, EntryInv, NoEntry, NoValue, TimeInv, Versions
  <2>6. ServedInv'
    BY DEF ServedInv, CurrentAfter, TypeOK, EntryInv, FetchInv, CurrentSince, Fresh, IsPlaceholder, Placeholder, Served, NoEntry, Versions
  <2> QED
    BY <2>1, <2>2, <2>3, <2>4, <2>5, <2>6
<1>3. CASE RaiseUnset(t)
  <2> USE <1>3 DEF RaiseUnset, Exit
  <2>1. TypeOK'
    BY DEF TypeOK, Versions, Served, Refused, NoValue, NoEntry, Entries, EntryInv, FetchInv
  <2>2. LockInv'
    BY DEF LockInv, TypeOK
  <2>3. TimeInv'
    BY DEF TimeInv, TypeOK
  <2>4. EntryInv'
    BY DEF EntryInv, CurrentSince, TypeOK, FetchInv, IsPlaceholder, Placeholder, TimeInv, Versions, NoEntry
  <2>5. FetchInv'
    BY DEF FetchInv, CurrentSince, Fresh, TypeOK, LockInv, EntryInv, NoEntry, NoValue, TimeInv, Versions
  <2>6. ServedInv'
    BY DEF ServedInv, CurrentAfter, TypeOK, EntryInv, FetchInv, CurrentSince, Fresh, IsPlaceholder, Placeholder, Served, NoEntry, Versions
  <2> QED
    BY <2>1, <2>2, <2>3, <2>4, <2>5, <2>6
<1>4. CASE Hit(t)
  <2> USE <1>4 DEF Hit, Exit
  <2>h. /\ now[t] - cache.at < TTL
        /\ cache.at \in 0..clock
        /\ cache.value \in 1..version
        /\ CurrentSince(cache.value, cache.at)
    BY DEF Fresh, EntryInv
  <2>t. /\ version \in 0..MaxVersion
        /\ cache.value # NoValue /\ cache.value \in 0..MaxVersion
        /\ now[t] \in Nat
        /\ supersededAt \in [0..MaxVersion -> Nat]
    BY <2>h DEF TypeOK, Versions, NoValue
  <2>1. TypeOK'
    BY <2>t DEF TypeOK, Versions, Served, Refused
  <2>2. LockInv'
    BY DEF LockInv, TypeOK
  <2>3. TimeInv'
    BY DEF TimeInv, TypeOK
  <2>4. EntryInv'
    BY DEF EntryInv, CurrentSince, TypeOK, FetchInv, IsPlaceholder, Placeholder, TimeInv, Versions, NoEntry
  <2>5. FetchInv'
    BY DEF FetchInv, CurrentSince, Fresh, TypeOK, LockInv, EntryInv, NoEntry, NoValue, TimeInv, Versions
  <2>6. ServedInv'
    <3>1. CurrentAfter(cache.value, now[t] - TTL)
      BY <2>h, <2>t DEF CurrentSince, CurrentAfter
    <3>2. got'[t] = cache.value
      BY DEF TypeOK
    <3>3. \A u \in Threads \ {t} : got'[u] = got[u] /\ outcome'[u] = outcome[u]
      BY DEF TypeOK
    <3> QED
      BY <3>1, <3>2, <3>3, <2>h DEF ServedInv, CurrentAfter
  <2> QED
    BY <2>1, <2>2, <2>3, <2>4, <2>5, <2>6
<1>5. CASE StartFetch(t)
  <2> USE <1>5 DEF StartFetch
  <2>1. TypeOK'
    BY DEF TypeOK, Versions, Served, Refused, NoValue, NoEntry, Entries, EntryInv, FetchInv
  <2>2. LockInv'
    BY DEF LockInv, TypeOK
  <2>3. TimeInv'
    BY DEF TimeInv, TypeOK
  <2>4. EntryInv'
    BY DEF EntryInv, CurrentSince, TypeOK, FetchInv, IsPlaceholder, Placeholder, TimeInv, Versions, NoEntry
  <2>5. FetchInv'
    BY DEF FetchInv, CurrentSince, Fresh, TypeOK, LockInv, EntryInv, NoEntry, NoValue, TimeInv, Versions
  <2>6. ServedInv'
    BY DEF ServedInv, CurrentAfter, TypeOK, EntryInv, FetchInv, CurrentSince, Fresh, IsPlaceholder, Placeholder, Served, NoEntry, Versions
  <2> QED
    BY <2>1, <2>2, <2>3, <2>4, <2>5, <2>6
<1>6. CASE Answer(t)
  <2> USE <1>6 DEF Answer
  <2>1. TypeOK'
    BY DEF TypeOK, Versions, Served, Refused, NoValue, NoEntry, Entries, EntryInv, FetchInv
  <2>2. LockInv'
    BY DEF LockInv, TypeOK
  <2>3. TimeInv'
    BY DEF TimeInv, TypeOK
  <2>4. EntryInv'
    BY DEF EntryInv, CurrentSince, TypeOK, FetchInv, IsPlaceholder, Placeholder, TimeInv, Versions, NoEntry
  <2>5. FetchInv'
    BY DEF FetchInv, CurrentSince, Fresh, TypeOK, LockInv, EntryInv, NoEntry, NoValue, TimeInv, Versions
  <2>6. ServedInv'
    BY DEF ServedInv, CurrentAfter, TypeOK, EntryInv, FetchInv, CurrentSince, Fresh, IsPlaceholder, Placeholder, Served, NoEntry, Versions
  <2> QED
    BY <2>1, <2>2, <2>3, <2>4, <2>5, <2>6
<1>7. CASE FetchFails(t)
  <2> USE <1>7 DEF FetchFails, Exit
  <2>1. TypeOK'
    BY DEF TypeOK, Versions, Served, Refused, NoValue, NoEntry, Entries, EntryInv, FetchInv
  <2>2. LockInv'
    BY DEF LockInv, TypeOK
  <2>3. TimeInv'
    BY DEF TimeInv, TypeOK
  <2>4. EntryInv'
    BY DEF EntryInv, CurrentSince, TypeOK, FetchInv, IsPlaceholder, Placeholder, TimeInv, Versions, NoEntry
  <2>5. FetchInv'
    BY DEF FetchInv, CurrentSince, Fresh, TypeOK, LockInv, EntryInv, NoEntry, NoValue, TimeInv, Versions
  <2>6. ServedInv'
    BY DEF ServedInv, CurrentAfter, TypeOK, EntryInv, FetchInv, CurrentSince, Fresh, IsPlaceholder, Placeholder, Served, NoEntry, Versions
  <2> QED
    BY <2>1, <2>2, <2>3, <2>4, <2>5, <2>6
<1>8. CASE RaisePlaceholder(t)
  <2> USE <1>8 DEF RaisePlaceholder, Exit
  <2>1. TypeOK'
    BY DEF TypeOK, Versions, Served, Refused, NoValue, NoEntry, Entries, EntryInv, FetchInv
  <2>2. LockInv'
    BY DEF LockInv, TypeOK
  <2>3. TimeInv'
    BY DEF TimeInv, TypeOK
  <2>4. EntryInv'
    BY DEF EntryInv, CurrentSince, TypeOK, FetchInv, IsPlaceholder, Placeholder, TimeInv, Versions, NoEntry
  <2>5. FetchInv'
    BY DEF FetchInv, CurrentSince, Fresh, TypeOK, LockInv, EntryInv, NoEntry, NoValue, TimeInv, Versions
  <2>6. ServedInv'
    BY DEF ServedInv, CurrentAfter, TypeOK, EntryInv, FetchInv, CurrentSince, Fresh, IsPlaceholder, Placeholder, Served, NoEntry, Versions
  <2> QED
    BY <2>1, <2>2, <2>3, <2>4, <2>5, <2>6
<1>9. CASE Store(t)
  <2> USE <1>9 DEF Store, Exit
  <2>1. TypeOK'
    BY DEF TypeOK, Versions, Served, Refused, NoValue, NoEntry, Entries, EntryInv, FetchInv
  <2>2. LockInv'
    BY DEF LockInv, TypeOK
  <2>3. TimeInv'
    BY DEF TimeInv, TypeOK
  <2>4. EntryInv'
    BY DEF EntryInv, CurrentSince, TypeOK, FetchInv, IsPlaceholder, Placeholder, TimeInv, Versions, NoEntry
  <2>5. FetchInv'
    BY DEF FetchInv, CurrentSince, Fresh, TypeOK, LockInv, EntryInv, NoEntry, NoValue, TimeInv, Versions
  <2>6. ServedInv'
    BY DEF ServedInv, CurrentAfter, TypeOK, EntryInv, FetchInv, CurrentSince, Fresh, IsPlaceholder, Placeholder, Served, NoEntry, Versions
  <2> QED
    BY <2>1, <2>2, <2>3, <2>4, <2>5, <2>6
<1>10. CASE Finish(t)
  <2> USE <1>10 DEF Finish
  <2>1. TypeOK'
    BY DEF TypeOK, Versions, Served, Refused, NoValue, NoEntry, Entries, EntryInv, FetchInv
  <2>2. LockInv'
    BY DEF LockInv, TypeOK
  <2>3. TimeInv'
    BY DEF TimeInv, TypeOK
  <2>4. EntryInv'
    BY DEF EntryInv, CurrentSince, TypeOK, FetchInv, IsPlaceholder, Placeholder, TimeInv, Versions, NoEntry
  <2>5. FetchInv'
    BY DEF FetchInv, CurrentSince, Fresh, TypeOK, LockInv, EntryInv, NoEntry, NoValue, TimeInv, Versions
  <2>6. ServedInv'
    BY DEF ServedInv, CurrentAfter, TypeOK, EntryInv, FetchInv, CurrentSince, Fresh, IsPlaceholder, Placeholder, Served, NoEntry, Versions
  <2> QED
    BY <2>1, <2>2, <2>3, <2>4, <2>5, <2>6
<1> QED
  BY <1>1, <1>2, <1>3, <1>4, <1>5, <1>6, <1>7, <1>8, <1>9, <1>10 DEF Step, InLock
\* Every step preserves the inductive invariant, which therefore always holds.
LEMMA InductiveInvariant == Spec => []IInv
<1>1. IInv /\ [Next]_vars => IInv'
  <2> SUFFICES ASSUME IInv, [Next]_vars PROVE IInv'
    OBVIOUS
  <2>1. CASE Tick \/ Rotate
    BY <2>1, EnvironmentIInv
  <2>2. ASSUME NEW t \in Threads, Step(t) PROVE IInv'
    BY <2>2, ThreadIInv
  <2>3. CASE UNCHANGED vars
    BY <2>3 DEF vars, external, IInv, TypeOK, LockInv, TimeInv, EntryInv, FetchInv,
                ServedInv, CurrentSince, CurrentAfter, Fresh
  <2> QED
    BY <2>1, <2>2, <2>3 DEF Next
<1> QED
  BY InitIInv, <1>1, PTL DEF Spec

\* Every variable keeps its type, and a thread carries a result exactly where
\* the helper has one in hand.
THEOREM TypeCorrect == Spec => []TypeOK
BY InductiveInvariant, PTL DEF IInv

\* The with block is a critical section: at most one thread at a time asks
\* Secrets Manager or writes _secret_cache.
THEOREM CriticalSection == Spec => []LockInv
BY InductiveInvariant, PTL DEF IInv

\* A served credential was current less than TTL before its caller began,
\* however long the caller waited for the lock.
THEOREM BoundedStaleness == Spec => []StalenessBound
<1>1. IInv => StalenessBound
  BY DEF IInv, ServedInv, StalenessBound
<1> QED
  BY <1>1, InductiveInvariant, PTL

\* The placeholder password is never cached and never handed out.
THEOREM NoPlaceholder == Spec => []PlaceholderNeverServed
<1>1. IInv => PlaceholderNeverServed
  BY DEF IInv, EntryInv, ServedInv, PlaceholderNeverServed, Placeholder, NoEntry, NoValue, TypeOK, Versions
<1> QED
  BY <1>1, InductiveInvariant, PTL

\* A step that changes the cache is a Store of the lock holder.
LEMMA OnlyStoreWrites ==
  ASSUME Next, cache' # cache
  PROVE  \E t \in Threads : Store(t)
BY DEF Next, Tick, Rotate, Step, Begin, Acquire, InLock, RaiseUnset, Hit, StartFetch, Answer,
       FetchFails, RaisePlaceholder, Finish, Exit, external

\* An entry is never overwritten before its lifetime is over.
THEOREM EntriesLiveTTL == Spec => StoresApart
<1>1. ASSUME IInv, [Next]_vars, cache' # cache, cache # NoEntry
      PROVE  cache'.at >= cache.at + TTL
  <2>1. PICK t \in Threads : Store(t)
    BY <1>1, OnlyStoreWrites DEF vars
  <2>2. cache'.at = now[t] /\ ~(now[t] - cache.at < TTL)
    BY <1>1, <2>1 DEF Store, IInv, FetchInv, Fresh
  <2>3. now[t] \in Nat /\ cache.at \in Nat
    BY <1>1 DEF IInv, TypeOK, EntryInv
  <2> QED
    BY <2>2, <2>3, TTLAssumption
<1>2. IInv /\ [Next]_vars => [cache' # cache => cache = NoEntry \/ cache'.at >= cache.at + TTL]_vars
  BY <1>1
<1> QED
  BY <1>2, InductiveInvariant, PTL DEF Spec, StoresApart

\* The cache never returns to a credential older than the one it holds.
THEOREM CacheMovesForward == Spec => NeverGoesBack
<1>1. ASSUME IInv, [Next]_vars
      PROVE  cache'.value >= cache.value
  <2>1. cache.value \in Int
    BY <1>1 DEF IInv, EntryInv, TypeOK, Versions, NoEntry, NoValue
  <2>2. CASE cache' = cache
    BY <2>1, <2>2
  <2>3. CASE cache' # cache
    <3>1. PICK t \in Threads : Store(t)
      BY <1>1, <2>3, OnlyStoreWrites DEF vars
    <3> QED
      BY <1>1, <3>1 DEF Store, IInv, FetchInv
  <2> QED
    BY <2>2, <2>3
<1>2. IInv /\ [Next]_vars => [cache'.value >= cache.value]_vars
  BY <1>1
<1> QED
  BY <1>2, InductiveInvariant, PTL DEF Spec, NeverGoesBack
\* The abstract phase and result of the threads, as functions.
Phase == [t \in Threads |-> AbstractPhase(t)]
Result == [t \in Threads |-> AbstractResult(t)]

\* A step of thread t changes the abstract phase and result of t alone.
LEMMA MappedFrame ==
  ASSUME TypeOK, NEW t \in Threads, NEW p, NEW o,
         pc' = [pc EXCEPT ![t] = p], outcome' = [outcome EXCEPT ![t] = o],
         \A u \in Threads \ {t} : got'[u] = got[u]
  PROVE  /\ Phase' = [Phase EXCEPT ![t] = IF p \in {"idle", "done"} THEN p ELSE "calling"]
         /\ Result' = [Result EXCEPT ![t] = IF o \in Served THEN got'[t] ELSE NoValue]
<1>1. /\ pc'[t] = p /\ outcome'[t] = o
      /\ \A u \in Threads \ {t} : pc'[u] = pc[u] /\ outcome'[u] = outcome[u]
  BY DEF TypeOK
<1>2. \A u \in Threads \ {t} : AbstractPhase(u)' = AbstractPhase(u) /\ AbstractResult(u)' = AbstractResult(u)
  BY <1>1 DEF AbstractPhase, AbstractResult
<1>3. AbstractPhase(t)' = (IF p \in {"idle", "done"} THEN p ELSE "calling")
  BY <1>1 DEF AbstractPhase
<1>4. AbstractResult(t)' = (IF o \in Served THEN got'[t] ELSE NoValue)
  BY <1>1 DEF AbstractResult
<1> QED
  BY <1>2, <1>3, <1>4 DEF Phase, Result

\* Each step of the helper is a step of the promise or leaves it unchanged.
LEMMA StepRefines == IInv /\ IInv' /\ [Next]_vars => [Promise!Next]_(Promise!vars)
<1> SUFFICES ASSUME IInv, IInv', [Next]_vars
             PROVE  Promise!Next \/ UNCHANGED <<clock, version, supersededAt, Phase, now, Result>>
  BY DEF Promise!vars, Phase, Result
<1> USE DEF external
<1>t. TypeOK
  BY DEF IInv
<1>1. CASE Tick
  <2>1. UNCHANGED <<version, supersededAt, Phase, now, Result>>
    BY <1>1 DEF Tick, Phase, Result, AbstractPhase, AbstractResult
  <2>2. Promise!Tick
    BY <1>1, <2>1 DEF Tick, Promise!Tick, Phase, Result
  <2> QED
    BY <2>2 DEF Promise!Next
<1>2. CASE Rotate
  <2>1. UNCHANGED <<clock, Phase, now, Result>>
    BY <1>2 DEF Rotate, Phase, Result, AbstractPhase, AbstractResult
  <2>2. Promise!Rotate
    BY <1>2, <2>1 DEF Rotate, Promise!Rotate, Phase, Result
  <2> QED
    BY <2>2 DEF Promise!Next
<1>3. ASSUME NEW t \in Threads, Step(t)
      PROVE  Promise!Next \/ UNCHANGED <<clock, version, supersededAt, Phase, now, Result>>
  <2>a. Phase[t] = AbstractPhase(t) /\ Result[t] = AbstractResult(t)
    BY DEF Phase, Result
  <2>b. /\ pc[t] \in {"timed", "locked", "fetching", "fetched"} => Phase[t] = "calling"
        /\ pc[t] \in {"timed", "locked", "fetching", "fetched"} => Result[t] = NoValue
        /\ pc[t] = "idle" => Phase[t] = "idle" /\ Result[t] = NoValue
        /\ pc[t] = "done" => Phase[t] = "done"
    BY <2>a, <1>t DEF AbstractPhase, AbstractResult, TypeOK, Served
  <2>f. /\ Phase = [Phase EXCEPT ![t] = Phase[t]] /\ Result = [Result EXCEPT ![t] = Result[t]]
    BY DEF Phase, Result
  <2>1. CASE Begin(t)
    <3>1. Phase' = [Phase EXCEPT ![t] = "calling"] /\ Result' = Result
      <4>1. outcome' = [outcome EXCEPT ![t] = "none"]
        BY <2>1, <1>t DEF Begin, TypeOK
      <4>2. pc' = [pc EXCEPT ![t] = "timed"] /\ \A u \in Threads \ {t} : got'[u] = got[u]
        BY <2>1 DEF Begin
      <4>3. /\ Phase' = [Phase EXCEPT ![t] = "calling"]
            /\ Result' = [Result EXCEPT ![t] = NoValue]
        BY ZenonT(30), <4>1, <4>2, <1>t, MappedFrame DEF Served
      <4> QED
        BY <2>1, <4>3, <2>b, <2>f DEF Begin
    <3>2. Promise!Call(t)
      BY <2>1, <3>1, <2>b DEF Begin, Promise!Call, Phase, Result
    <3> QED
      BY <3>2 DEF Promise!Next
  <2>2. CASE Acquire(t) \/ StartFetch(t) \/ Answer(t)
    <3>1. Phase' = Phase /\ Result' = Result
      <4>1. outcome' = [outcome EXCEPT ![t] = "none"] /\ \A u \in Threads \ {t} : got'[u] = got[u]
        BY <2>2, <1>t DEF Acquire, StartFetch, Answer, TypeOK
      <4>2. pc[t] \in {"timed", "locked", "fetching", "fetched"}
        BY <2>2 DEF Acquire, StartFetch, Answer
      <4>3. PICK p \in {"locked", "fetching", "fetched"} : pc' = [pc EXCEPT ![t] = p]
        BY <2>2 DEF Acquire, StartFetch, Answer
      <4>4. p \notin {"idle", "done"} /\ "none" \notin Served
        BY <4>3 DEF Served
      <4>5. /\ Phase' = [Phase EXCEPT ![t] = "calling"]
            /\ Result' = [Result EXCEPT ![t] = NoValue]
        BY <4>1, <4>3, <4>4, <1>t, MappedFrame
      <4> QED
        BY <4>2, <4>5, <2>b, <2>f
    <3> QED
      BY <2>2, <3>1 DEF Acquire, StartFetch, Answer
  <2>3. CASE RaiseUnset(t) \/ FetchFails(t) \/ RaisePlaceholder(t)
    <3>1. /\ pc[t] \in {"timed", "locked", "fetching", "fetched"}
          /\ \E how \in Refused : Exit(t, how)
          /\ \A u \in Threads \ {t} : got'[u] = got[u]
      BY <2>3, <1>t DEF RaiseUnset, FetchFails, RaisePlaceholder, Refused, TypeOK
    <3>2. Phase' = [Phase EXCEPT ![t] = "done"] /\ Result' = Result
      BY <3>1, <1>t, <2>b, <2>f, MappedFrame DEF Exit, Served, Refused
    <3>3. Promise!Fail(t)
      BY <3>1, <3>2, <2>b DEF Exit, Promise!Fail, Phase, Result
    <3> QED
      BY <3>3 DEF Promise!Next
  <2>4. CASE Hit(t) \/ Store(t)
    <3>1. /\ pc[t] \in {"timed", "locked", "fetching", "fetched"}
          /\ \E how \in Served : Exit(t, how)
          /\ \A u \in Threads \ {t} : got'[u] = got[u]
      BY <2>4, <1>t DEF Hit, Store, Served, TypeOK
    <3>2. Phase' = [Phase EXCEPT ![t] = "done"] /\ Result' = [Result EXCEPT ![t] = got'[t]]
      BY <3>1, <1>t, MappedFrame DEF Exit, Served
    <3>3. outcome'[t] \in Served /\ now' = now /\ version' = version /\ supersededAt' = supersededAt
      BY <3>1, <1>t DEF Exit, TypeOK
    <3>4. got'[t] \in 1..version /\ CurrentAfter(got'[t], now[t] - TTL)
      BY <3>3 DEF IInv, ServedInv, CurrentAfter
    <3>5. got'[t] \in Versions \ {0} /\ Promise!CurrentAfter(got'[t], now[t] - TTL)
      <4>1. version \in 0..MaxVersion /\ MaxVersion \in Nat
        BY <1>t, BoundsAssumption DEF TypeOK, Versions
      <4>2. got'[t] \in Versions \ {0}
        BY <3>4, <4>1 DEF Versions
      <4>3. Promise!CurrentAfter(got'[t], now[t] - TTL)
        BY <3>4 DEF CurrentAfter, Promise!CurrentAfter
      <4> QED
        BY <4>2, <4>3
    <3>6. Promise!Serve(t)
      BY <3>1, <3>2, <3>5, <2>b DEF Exit, Promise!Serve, Promise!Versions, Promise!Placeholder, Versions, Phase, Result
    <3> QED
      BY <3>6 DEF Promise!Next
  <2>5. CASE Finish(t)
    <3>1. Phase' = [Phase EXCEPT ![t] = "idle"] /\ Result' = [Result EXCEPT ![t] = NoValue]
      BY <2>5, <1>t, MappedFrame DEF Finish, Served, TypeOK
    <3>2. Promise!Leave(t)
      BY <2>5, <3>1, <2>b DEF Finish, Promise!Leave, Promise!NoResult, NoValue, Phase, Result
    <3> QED
      BY <3>2 DEF Promise!Next
  <2> QED
    BY <1>3, <2>1, <2>2, <2>3, <2>4, <2>5 DEF Step, InLock
<1>4. CASE UNCHANGED vars
  BY <1>4 DEF vars, Phase, Result, AbstractPhase, AbstractResult
<1> QED
  BY <1>1, <1>2, <1>3, <1>4 DEF Next

\* The cache, the lock and the retries implement the cache-free promise: a
\* call ends in an error or in a credential current less than TTL before it
\* began.
THEOREM CacheImplementsPromise == Spec => ImplementsFreshCredential
<1>1. Init => Promise!Init
  BY DEF Init, Promise!Init, Promise!Versions, Versions, Promise!Placeholder, Placeholder,
         Promise!NoResult, NoValue, AbstractPhase, AbstractResult, Served
<1> QED
  BY <1>1, StepRefines, InductiveInvariant, PTL DEF Spec, ImplementsFreshCredential, Promise!Spec
==========================================================================
