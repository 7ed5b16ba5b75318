------------------------- MODULE CredentialCache -------------------------
(***************************************************************************)
(* _fetch_db_credentials of the two RDS inspection servers (the PostgreSQL *)
(* one is the reference, the MySQL one is the same text): a process-wide   *)
(* cache of the database credential, filled from Secrets Manager under a   *)
(* lock and reused for TTL seconds.                                        *)
(*                                                                         *)
(* Each thread runs the helper over and over.  The clock and the operator, *)
(* who replaces the content of the secret, move between any two steps.     *)
(* Credentials are numbered in the order in which the secret holds them;   *)
(* number 0 is the placeholder the deployment stores when it creates it.   *)
(***************************************************************************)
EXTENDS Integers

CONSTANTS
  Threads,      \* threads that call _fetch_db_credentials
  NoThread,     \* "the lock is free"
  TTL,          \* _SECRET_TTL_SECONDS
  MaxTime,      \* bound on the clock
  MaxVersion    \* bound on the number of rotations

ASSUME ThreadsAssumption == NoThread \notin Threads
ASSUME TTLAssumption == TTL \in Nat \ {0}
ASSUME BoundsAssumption == MaxTime \in Nat /\ MaxVersion \in Nat

VARIABLES
  configured,   \* DB_SECRET_NAME is set; read once, at import
  clock,        \* time.monotonic()
  version,      \* number of the credential the secret holds now
  supersededAt, \* history: when each earlier credential was replaced
  cache,        \* _secret_cache: NoEntry or [at, value]
  lock,         \* _secret_cache_lock: its holder, or NoThread
  pc,           \* pc[t]: where thread t is in the helper
  now,          \* now[t]: the helper's local variable
  got,          \* got[t]: the credential thread t holds, or NoValue
  outcome       \* outcome[t]: how the call of t ended, while pc[t] = "done"

external == <<clock, version, supersededAt>>
vars == <<configured, external, cache, lock, pc, now, got, outcome>>

Versions == 0..MaxVersion
Placeholder == 0
NoValue == -1
NoEntry == [at |-> -1, value |-> NoValue]

Critical == {"locked", "fetching", "fetched"}
Served == {"hit", "stored"}
Refused == {"unset", "failed", "placeholder"}
--------------------------------------------------------------------------
Init ==
  /\ configured \in BOOLEAN
  /\ clock = 0
  /\ version = Placeholder
  /\ supersededAt = [v \in Versions |-> 0]
  /\ cache = NoEntry
  /\ lock = NoThread
  /\ pc = [t \in Threads |-> "idle"]
  /\ now = [t \in Threads |-> 0]
  /\ got = [t \in Threads |-> NoValue]
  /\ outcome = [t \in Threads |-> "none"]

\* Time passes.
Tick ==
  /\ clock < MaxTime
  /\ clock' = clock + 1
  /\ UNCHANGED <<configured, version, supersededAt, cache, lock, pc, now, got, outcome>>

\* The operator stores the real password, or a new one, in Secrets Manager.
Rotate ==
  /\ version < MaxVersion
  /\ version' = version + 1
  /\ supersededAt' = [supersededAt EXCEPT ![version] = clock]
  /\ UNCHANGED <<configured, clock, cache, lock, pc, now, got, outcome>>
--------------------------------------------------------------------------
\* now = time.monotonic(), before the lock is taken.
Begin(t) ==
  /\ pc[t] = "idle"
  /\ pc' = [pc EXCEPT ![t] = "timed"]
  /\ now' = [now EXCEPT ![t] = clock]
  /\ UNCHANGED <<configured, external, cache, lock, got, outcome>>

Acquire(t) ==
  /\ pc[t] = "timed"
  /\ lock = NoThread
  /\ lock' = t
  /\ pc' = [pc EXCEPT ![t] = "locked"]
  /\ UNCHANGED <<configured, external, cache, now, got, outcome>>

\* Leaving the with block, by return or by an exception, releases the lock.
Exit(t, how) ==
  /\ lock' = NoThread
  /\ pc' = [pc EXCEPT ![t] = "done"]
  /\ outcome' = [outcome EXCEPT ![t] = how]
  /\ UNCHANGED <<configured, external, now>>

\* Mutant: the entry is ignored when the caller's clock is behind it.
MutFreshSigned(t) == cache # NoEntry /\ now[t] - cache.at \in 0..(TTL - 1)

\* Mutant: the last instant of the lifetime still counts as fresh.
MutFreshInclusive(t) == cache # NoEntry /\ now[t] - cache.at <= TTL

Fresh(t) == cache # NoEntry /\ now[t] - cache.at < TTL

RaiseUnset(t) ==
  /\ pc[t] = "locked"
  /\ ~configured
  /\ Exit(t, "unset")
  /\ UNCHANGED <<cache, got>>

Hit(t) ==
  /\ pc[t] = "locked"
  /\ configured
  /\ Fresh(t)
  /\ got' = [got EXCEPT ![t] = cache.value]
  /\ Exit(t, "hit")
  /\ UNCHANGED cache

\* Mutant: the lock is given back while Secrets Manager is asked.
MutStartFetchUnlocked(t) ==
  /\ pc[t] = "locked"
  /\ configured
  /\ ~Fresh(t)
  /\ lock' = NoThread
  /\ pc' = [pc EXCEPT ![t] = "fetching"]
  /\ UNCHANGED <<configured, external, cache, now, got, outcome>>

\* get_secret_value is called with the lock held.
StartFetch(t) ==
  /\ pc[t] = "locked"
  /\ configured
  /\ ~Fresh(t)
  /\ pc' = [pc EXCEPT ![t] = "fetching"]
  /\ UNCHANGED <<configured, external, cache, lock, now, got, outcome>>

\* Secrets Manager reads the secret; its answer is still on its way.
Answer(t) ==
  /\ pc[t] = "fetching"
  /\ got' = [got EXCEPT ![t] = version]
  /\ pc' = [pc EXCEPT ![t] = "fetched"]
  /\ UNCHANGED <<configured, external, cache, lock, now, outcome>>

\* Mutant: an exception of the API call leaves the lock taken.
MutFetchFailsLocked(t) ==
  /\ pc[t] = "fetching"
  /\ pc' = [pc EXCEPT ![t] = "done"]
  /\ outcome' = [outcome EXCEPT ![t] = "failed"]
  /\ UNCHANGED <<configured, external, now, lock, cache, got>>

\* The API call, json.loads or a missing key raises: nothing is cached.
FetchFails(t) ==
  /\ pc[t] = "fetching"
  /\ Exit(t, "failed")
  /\ UNCHANGED <<cache, got>>

IsPlaceholder(v) == v = Placeholder

RaisePlaceholder(t) ==
  /\ pc[t] = "fetched"
  /\ IsPlaceholder(got[t])
  /\ got' = [got EXCEPT ![t] = NoValue]
  /\ Exit(t, "placeholder")
  /\ UNCHANGED cache

\* Mutant: the entry is stamped before the secret is known.
MutStoreNothing(t) ==
  /\ pc[t] = "fetched"
  /\ ~IsPlaceholder(got[t])
  /\ cache' = [at |-> now[t], value |-> NoValue]
  /\ Exit(t, "stored")
  /\ UNCHANGED got

Store(t) ==
  /\ pc[t] = "fetched"
  /\ ~IsPlaceholder(got[t])
  /\ cache' = [at |-> now[t], value |-> got[t]]
  /\ Exit(t, "stored")
  /\ UNCHANGED got

\* The caller takes the result and calls again later; its frame is gone.
Finish(t) ==
  /\ pc[t] = "done"
  /\ pc' = [pc EXCEPT ![t] = "idle"]
  /\ now' = [now EXCEPT ![t] = 0]
  /\ got' = [got EXCEPT ![t] = NoValue]
  /\ outcome' = [outcome EXCEPT ![t] = "none"]
  /\ UNCHANGED <<configured, external, cache, lock>>
--------------------------------------------------------------------------
\* The steps a thread takes while it holds the lock.
InLock(t) ==
  \/ RaiseUnset(t) \/ Hit(t) \/ StartFetch(t) \/ Answer(t)
  \/ FetchFails(t) \/ RaisePlaceholder(t) \/ Store(t)

Step(t) == Begin(t) \/ Acquire(t) \/ InLock(t) \/ Finish(t)

Next == Tick \/ Rotate \/ \E t \in Threads : Step(t)

Spec == Init /\ [][Next]_vars

\* The lock holder is never descheduled for good; boto3's own connect and
\* read timeouts end an API call that gets no answer.
FairSpec == Spec /\ \A t \in Threads : WF_vars(InLock(t))
--------------------------------------------------------------------------
Entries == [at : 0..MaxTime, value : Versions] \cup {NoEntry}

\* Every variable has its type, and a thread carries a result exactly where
\* the helper has one in hand.
TypeOK ==
  /\ configured \in BOOLEAN
  /\ clock \in 0..MaxTime
  /\ version \in Versions
  /\ supersededAt \in [Versions -> 0..MaxTime]
  /\ cache \in Entries
  /\ lock \in Threads \cup {NoThread}
  /\ pc \in [Threads -> {"idle", "timed", "done"} \cup Critical]
  /\ now \in [Threads -> 0..MaxTime]
  /\ got \in [Threads -> Versions \cup {NoValue}]
  /\ outcome \in [Threads -> {"none"} \cup Served \cup Refused]
  /\ \A t \in Threads :
        /\ (outcome[t] # "none") <=> (pc[t] = "done")
        /\ (got[t] # NoValue) <=> (pc[t] = "fetched" \/ outcome[t] \in Served)

\* A thread is inside the with block exactly when it holds the lock, so at
\* most one thread asks Secrets Manager or writes the cache at any time.
LockInv == \A t \in Threads : pc[t] \in Critical <=> lock = t

\* Credential v was still the current one at some instant later than time x.
CurrentAfter(v, x) == v = version \/ (v < version /\ supersededAt[v] > x)

\* A credential handed to a caller was the current one less than TTL before
\* the caller began, whatever the threads did while it waited for the lock.
StalenessBound ==
  \A t \in Threads : outcome[t] \in Served => CurrentAfter(got[t], now[t] - TTL)

\* The placeholder of the freshly deployed secret is neither cached nor
\* handed out: no caller tries to log in with it.
PlaceholderNeverServed ==
  /\ cache.value # Placeholder
  /\ \A t \in Threads : outcome[t] \in Served => got[t] # Placeholder

\* Two entries written to the cache are at least TTL apart: an entry that
\* still has a lifetime is never overwritten, not even by a thread that read
\* its clock long before it got the lock.
StoresApart ==
  [][cache' # cache => cache = NoEntry \/ cache'.at >= cache.at + TTL]_vars

\* The cache never goes back to a credential older than the one it held.
NeverGoesBack == [][cache'.value >= cache.value]_vars

\* No path out of the with block keeps the lock: whoever takes it gives it
\* back, with a result or with an exception.
LockReleased == \A t \in Threads : (lock = t) ~> (lock # t)
--------------------------------------------------------------------------
\* What the module implements.
AbstractPhase(t) == IF pc[t] \in {"idle", "done"} THEN pc[t] ELSE "calling"

AbstractResult(t) == IF outcome[t] \in Served THEN got[t] ELSE NoValue

Promise == INSTANCE FreshCredential WITH
  phase <- [t \in Threads |-> AbstractPhase(t)],
  start <- now,
  result <- [t \in Threads |-> AbstractResult(t)]

\* The cached helper implements the cache-free promise: every call ends in
\* an error or in a credential current less than TTL before it began.
ImplementsFreshCredential == Promise!Spec
==========================================================================
