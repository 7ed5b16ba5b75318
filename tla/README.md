# A TLA+ verification of aws-devops-mcp-platform

The repository gives an agent read access to databases, caches and search
clusters: four MCP servers (PostgreSQL, MySQL, ElastiCache, OpenSearch), each a
process of its own behind an AgentCore gateway, and the CDK code that deploys
them. This directory holds TLA+ models of the parts in which threads, failures,
limits or the order of things decide whether an answer is right, the TLC
configurations that check them on small instances, and proofs, checked by
TLAPS, of the safety properties of all of them for instances of any size.

To check a model: `tlc -config MC_X.cfg MC_X`. To check a proof: `tlapm X_proofs.tla`.

## 1. The system

| Component | State it keeps | Operations | Talks to |
|---|---|---|---|
| secret cache (`rds_postgres/main.py`, `rds_mysql/main.py`) | `_secret_cache`, its lock | `_fetch_db_credentials` | Secrets Manager; called by every connection |
| TLS negotiation (`elasticache/main.py`) | `_tls_cache`, its lock | `_resolve_tls`, `_build_redis`, `_connect` | the cluster, `_fetch_auth` |
| tools on one database (`rds_postgres/main.py`) | a connection and its transaction, for one call | 25 `inspect_*` tools | the writer or the reader endpoint |
| tools that scan databases (same file) | the list and the results, for one call | `_resolve_scan_db_list`, three tools | one connection for each database |
| MySQL tools (`rds_mysql/main.py`) | a connection, for one call | 18 `inspect_*` tools, `_global_status`, `_global_variables` | the writer or the reader endpoint |
| key scans (`elasticache/main.py`) | the keys collected, for one call | `inspect_big_keys`, `inspect_hot_keys` | the keyspace of a cluster |
| verdicts (three `main.py`) | none | the second half of the 56 tools | the agent |
| OpenSearch API call (`generic_api_tool.py`, `client.py`, `connection.py`) | a client and its session, for one call | `generic_opensearch_api_tool`, the buffered connection, its fallback | the cluster; retried by opensearch-py |
| agent memory (`memory_tools.py`) | the memory index, the data access policy: outside the process, shared by all servers | save, search, delete | OpenSearch, STS, AOSS |
| tool registry (`tools.py`, `tool_filter.py`, `tool_generator.py`, `config.py`) | `TOOL_REGISTRY`, the resolved write setting | generate, rename, filter, check the version, execute | GitHub (the API specification), the cluster |
| credentials (`entrypoint.py`, `client.py`) | environment variables read at start | choice of the authentication | every OpenSearch client |
| transports, cluster registry (`stdio_server.py`, `streaming_server.py`, `clusters_information.py`, `global_state.py`) | mode, profile, clusters; set once | start-up | the `mcp` library |
| deployment (`app.py`, `framework/`, `stacks/`, `scripts/`) | none at run time | CDK constructs, smoke tests | CloudFormation |
| `devops_skills/` | none | prompts and runbooks in Markdown | the agent |

An agent calls a tool; the tool takes a credential from the cache, opens a
connection of its own, runs fixed statements, grades what it read and closes the
connection. What survives a call is a cache (secret, TLS decision), the registry,
and what lives in AWS. So the hard behaviours are these:

* **Concurrent calls around a cache.** The two caches are guarded by locks, one
  across a network call, the other only for each access. FastMCP as pinned runs
  plain functions on its event loop; the code is nevertheless written for threads
  ("线程安全", `rds_postgres/main.py:166`) and takes locks, and the models are about
  what it promises: any number of threads.
* **Failure between two statements.** PostgreSQL aborts a transaction at the first
  error, also when Python catches it; connections break; clusters fail over.
* **Retries of what was perhaps done.** A streamed request is repeated by a fallback
  and by the transport above it.
* **Cutting and grading.** Rows are sorted and cut by SQL, graded in Python, cut
  again for the findings; the agent sees a status and a few findings.
* **A start-up that must not fail, and calls that bring credentials.** The OpenSearch
  container starts without a password, without the API specification and without a
  cluster; later every call builds its client from environment, arguments and headers,
  and the tools were filtered for a cluster that is not always the one it goes to.
* **Shared AWS state.** Several servers read, change and race for one policy and
  one index, which an administrator edits too.

What makes each component correct is stated in section 3, next to what its model checks.

## 2. The plan

In this order, the core of the system first:

1. `FreshCredential`, `CredentialCache`: done, proved.
2. `TlsProbe`: done, proved.
3. `OpenSearchCall`: done, proved.
4. `PgStatements`, `MyStatements`, `DbSession`, `PgScan`: done, proved.
5. `Grading`, `PgVerdict`, `MyVerdict`, `RedisVerdict`, `ToolReport`: done, proved.
6. `AgentMemory`: done, proved.
7. `Orders`, `KeyScan`: done, proved.
8. `ToolFilter`, `OpenSearchAuth`, `ApiEndpoint`, and `OpenSearchServer`, which
   composes them: done, proved.
9. A composition: one tool call of a database server from the cache over the
    connection to the report, which refines "an answer or an error, from one credential".

Abstract specifications worth stating: `FreshCredential` (done, refined by
`CredentialCache`); "at most one execution that was answered" for the OpenSearch
call; "the status is the worst of what the server had" for the reports. None of the
modules declares a RECURSIVE operator, so that all of them can be proved about.

## 3. The modules

In every module an action carries the name of the step or function it models, and
operators whose name starts with `Mut` are deliberate bugs: putting one in the
place of the definition below it must break a property. They are never part
of `Next`.

### CredentialCache (and FreshCredential)

`_fetch_db_credentials` of the two RDS servers. A thread is `idle`, has read the
clock (`timed`), is inside the `with` block (`locked`, `fetching`, `fetched`) or
`done`. The line that matters is the first one: `now` is read *before* the lock is
taken, so a thread may compare an old time with a newer entry. `Answer` is the
moment Secrets Manager reads the secret; the operator may rotate it before or
after. Credentials are numbered, 0 is the placeholder of a fresh deployment.

* `StalenessBound`: a served credential was the current one less than TTL before
  the call read its clock.
* `StoresApart`, `NeverGoesBack`: entries are stamped at least TTL apart and never
  go back to an older credential.
* `LockReleased` (liveness): whatever fails, nobody keeps the lock.
* `LockInv` and `PlaceholderNeverServed` are parts of the inductive invariant and are
  proved (section 6); a placeholder that is served also breaks the refinement.
* `ImplementsFreshCredential`: under a refinement mapping the module implements
  `FreshCredential`, which knows no cache, no lock and no API call.

The comment at `rds_postgres/main.py:157` promises more: a rotated password is in use
after at most TTL seconds. Measured from the moment a call *returns* this fails, for
a call may wait for the lock, with its old clock, for longer than that; what holds is
`StalenessBound`, measured from the start of the call. Likewise "concurrent calls
trigger one API call" (line 166) holds only if that one succeeds: a failure stores
nothing, and every waiting call asks again.

### TlsProbe

`_resolve_tls` in mode `auto` tries PING over TLS, then in plaintext, and keeps the
answer for the life of the process. The cache is locked for each access, not
across the probe, so two calls may probe at once. The `except` clauses are modelled
with the class hierarchy of redis-py (`Classes`) and in their order (`Handler`).
`Begin` to `Finish` is one tool call; `inspect_overview` resolves twice (`Report`).

* `CacheProven`: without a reconfiguration a remembered decision works.
* `AutoConnects`: without faults, TLS wherever the cluster offers it, and no failure
  on a cluster that answers.
* `CallsEnd` (liveness).

The conditions mark what the code does not promise. A decision is never asked for again, so it
outlives a change of the encryption mode (line 229), and a TLS probe that merely times out lets
plaintext decide (line 236): both cases are reached, and no property of the code rules them out.

Visible in the model, in disagreement with a comment, and checked by no run: the clause
for `AuthenticationError` at line 245 is never reached, because the class is a subclass
of `ConnectionError`, which the clause at line 243 takes. So a handshake that gets as
far as authentication does not settle the transport, as the comment at line 246 says it
does, but moves on to plaintext.

Likewise, when the first resolution cached
nothing, the second one, for `raw_data.tls`, may report another transport than the
one the connection used (line 347).

### OpenSearchCall

A call of `GenericOpenSearchApiTool`: the write gate, the client opened for the call,
up to `1 + MaxRetries` attempts of the transport, in each of them a streamed request
under the size limit and, unless that ended well or by the size error, a second
request by the fallback. `executed` counts how often the cluster carried the request
out, `lost` how often the answer did not arrive.

* `ResultWithinLimit`: no tool sees a response over the limit, on either path.
  `StreamWithinLimit`, the same for what the streamed request buffers, is proved.
* `RepeatedOnlyWhenLost`: a request is executed again only because an answer was lost.
* `ClientReleased`: a client outlives its call only because its `close()` raised or was
  cancelled. `cleanup` remembers how `close()` went: an exception is logged and dropped
  (`client.py:140`), but a `CancelledError` at the await is no `Exception` and leaves the
  clause, so that "ensures that OpenSearch clients are properly closed" (`client.py:112`)
  is more than the code can promise. Whether the session is gone by then is the
  library's affair; the model allows both.
* `GoodAnswerKept`: after a good, complete answer within the limit to the last request the
  result is that answer; neither an earlier failure nor `close()` masks it
  (`client.py:141`), only a cancellation loses it.
* `CallEnds`.

Visible in the model, checked by no run: the fallback "is used when streaming is not
available or fails" (`connection.py:280`), but the clause at line 266 also takes the
error that line 247 raises for a status the cluster did answer with, so every 4xx and 5xx
is requested twice. And the fallback downloads a whole response before it measures it,
while the class docstring (`connection.py:74-78`) says reading stops.

### Statements, PgStatements, MyStatements, DbSession

The tools that read one database, as scripts of statements with the exceptions each
`except` clause names (`PgStatements`, `MyStatements`: pure). `DbSession` is one call
against a cluster of two servers, of which one is the writer; `Failover` exchanges them
at any moment, connections are refused or lost, statements time out. In PostgreSQL a
statement that fails aborts the transaction whether or not the exception is caught; in
MySQL the connection goes on. The kinds of cluster: Aurora or not, PostgreSQL 17 or
older, MySQL 8.0 or 5.7, privileges, streaming replicas, pg_stat_statements absent, created
but not preloaded, older than 1.8 or ready, and tables whose names need quotes.

* `RaisesForUnasked`: on a healthy writer a tool raises exactly for what it needs and neither
  asks about nor catches (`Unasked`), and for nothing else the cluster lacks.
  `inspect_top_queries` only asks whether the extension was created (`rds_postgres/main.py:461`),
  although `inspect_extensions` tells created from preloaded (lines 2169-2195) and the header
  (line 70) promises a degraded answer; `inspect_table_sizes` and `inspect_table_bloat` build a
  regclass from unquoted names (line 1058); `inspect_long_transactions` of MySQL reads
  INNODB_TRX, which takes PROCESS (`rds_mysql/main.py:415`, header line 55).
* `VerdictComplete`: a verdict rests on an answer to every statement it needs.
* `DegradedHasReason`: a time-out is not mistaken for a missing feature.
* `TypeOK` includes that a call is connected exactly while it has a transaction.
* `MissingFunctionDegrades` **is violated** (run `db_session_degrade`):
  `inspect_replica_lag` on a standby of plain PostgreSQL catches the missing function
  and then runs a statement in the aborted transaction.

`Hidden` names where `VerdictComplete` is false of the MySQL server, whose clauses take
every `MySQLError`: a connection lost in `_global_status` (`rds_mysql/main.py:268`) leaves
counters of zero; so does a time-out where the second form of the statement fails too or
the role may not use the first; and a role that may not see the replication, or two
statements that fail, read like a node that is no replica (lines 1515-1527).

Also visible: `inspect_pg_stat_replication` reads the list of replicas and the role
of the server on two connections (line 2478); a failover in between makes it say
"primary 上无 streaming replica" of a list a standby gave.

### PgScan

`_resolve_scan_db_list` and the loop of the three tools that visit every database,
with databases that come and go and vacuums that start and end.

* `EveryDatabaseAccounted`: every database of the list was read to its end or is in
  `db_errors`, and the result says so when the cap left one out.
* `FailureIsolated`: one failure does not end the scan.
* `VacuumsCountedOnce` **is violated** (run `pg_scan_once`): the view shows the vacuums of
  the whole cluster and is read once in every database.

The comment at lines 117-119 says a scan over the cap is refused; the code scans the
first `max_databases` and adds a note, which is part of `EveryDatabaseAccounted`.

### Grading, PgVerdict, MyVerdict, RedisVerdict, ToolReport

A row is the grade of what a tool measures in it (0 ok, 1 warning, 2 critical), or a
small record where a tool looks at two things. Each tool is an operator from rows to
a status and a list of findings; `Rows` says in which order its statement returns
them. `ToolReport` is a call: `Ask` clamps `top_n`, `Query` sorts and cuts, `Conclude` grades
and cuts the findings, `Return` ends it. Leaving rows out and the one stable sort are those of
`Orders`.

* `NeverUnderstates`: no finding is graver than the status.
* `VerdictIsShown`: the slice that is shown holds a finding as grave as the status.
* `LimitHidesNothing`: the rows the LIMIT cut off would not have changed the status.
* `ReportTypeOK` includes that LIMIT is never zero or negative.

Each of the other three excepts tools by name, and the exceptions are the interesting
part: they are the tools for which the sentence is false of the code.

* `OwnScale`: a finding may be graver than the status, e.g. fragmentation in
  `inspect_memory` is a critical finding under the status "warning".
* `NotShown`: even what is critical may be in the text only, because the tool lists rows and grades
  a sum (`inspect_replication_slots`) or cuts off the row it is about (`inspect_index_usage`).
* `TextOnly`: a warning may be in the text only, what is critical is shown. One of these needs
  more than ten databases: each with less than a GB of temporary files, together over the ten of
  the warning.
* `Degrading`: a tool that finds nothing to read warns in the text alone: pg_stat_statements was
  not created (`rds_postgres/main.py:461`), the cluster is not Aurora or the server not its writer
  (line 811), the endpoint is a standby (line 2484), a view of performance_schema or sys cannot be
  read. `VerdictIsShown` takes this for an answer only when `total` is `None`, that is, when there
  really was nothing.
* `OtherOrder`: the statement sorts by something else than what is graded:
  `inspect_index_usage` keeps 20 tables by percentage while the status is about large
  tables; `inspect_wait_events` cuts before it sums by type; `inspect_metadata_locks`
  sorts GRANTED before PENDING, so 100 granted locks hide every pending one and the
  text says there is none (`rds_mysql/main.py:589-625`).

### AgentMemory

`save_memory_tool` and `delete_memory_tool` of several server processes. A save looks
for the index, and if it is not there adds its role to the policy
`mcp-memory-access` (read, then update with the version that was read, or create) and
creates the index. `applied` lags behind the policy. The administrator adds rule sets,
deletes the policy, drops an index. Each AWS request is an action and may fail.

* `NoLostGrant`: of two servers that change the policy at once, neither undoes the other.
  The administrator may make the policy first, and then both servers read it and update it.
* `EnrichedWhenWriting`: while the administrator stays away, a memory is only written
  to an index with semantic enrichment, whatever failed on the way.
* `ListedWhenSaving` (liveness): the loser of a race gets in, if it goes on saving.
* `GrantsThisCollection` **is violated** (run `memory_grant`): the policy has one name for
  all collections, and a role it lists counts as covered for every one of them.

If the index is dropped between the check and the write, the service makes a plain one
and no later save repairs it: that is why `EnrichedWhenWriting` asks for `edits = 0`.

### Orders, KeyScan

`inspect_big_keys` and `inspect_hot_keys`. `Scan` is one turn of the loop: the server
returns a batch of keys, perhaps empty, perhaps with a key it returned before, and may end
the SCAN once every key that was there all the time has been returned. Clients create,
change and delete keys at any moment, an operator changes `maxmemory-policy`. `Measure` is
one round of pipelines; a key that is gone is left out, a command the policy does not
understand raises. `Orders` is what the code does to its lists: leaving rows out (`Picked`)
and the stable sort (`ByScore`), as functions of the positions rather than by recursion.

* `NothingBiggerMissed`: a report that is not called truncated lists every key that did not
  change during the call, or is full of keys at least as big.
* `ScanEnds` (liveness): the loop ends even if the server returns empty batches.

The exception is `Untold`. The loop may stop after a thousand turns below the cap, or cut
the last batch of a complete SCAN, and `scan_truncated` (line 936) is false in both cases,
while the README of the server says that a capped scan says so
("扫到上限即停并提示", `src/mcp_servers/elasticache/README.md:154`).

### ToolFilter, OpenSearchAuth, ApiEndpoint, OpenSearchServer

`OpenSearchServer` is a process from the start of its container to the end of a call, and
its restart. The other three are pure: which tools are offered under which names, which
credentials a call ends up with, which path a generated tool takes. A few tools stand for
all of them, one of each kind; a credential is the place it comes from.

`Start` to `Offer` is the start-up: `entrypoint.main` reads the secret and installs the lock
around `_create_opensearch_client`, then clusters are loaded, two files of the API
specification are fetched, each of which may fail, tools are renamed and filtered. `Call`
to `Return` is a call: the gate of the generic tool, the version of the cluster *this* call
goes to, one request. Meanwhile passwords are rotated and clusters upgraded.

* `ReadOnlyHolds`: while writing is off no request writes, but for memory and exempted
  categories.
* `SupportedWhenSent`: a cluster only carries out what its version supports, also when a
  call names another cluster, unless the version could not be read. A tool is never too new for
  the cluster that carries it out. It may be too old for it: a generated tool has a last version
  (`x-version-deprecated`, `tool_generator.py:212`), and the cluster may be upgraded between the
  check (`tools.py:101`) and the request, which the property says is the only way.
* `LockHolds`: in a locked container no combination of arguments and headers leads to a role,
  to keys or to a token, and with a password from the secret every request is made with
  basic authentication, but for the calls `Opens` names.
* `OrdinaryCallsWork`: with the current password every call that brings nothing of its own
  is let in, and a generated tool addresses what the call names. A container that is not
  locked and has a role to assume is left out: there the role comes before the password.
* `ContainerStarts` (liveness): the container serves whatever is wrong with the secret, the
  specification or the cluster. It follows the docstring of `_load_credentials_into_env`
  (`entrypoint.py:82-92`: the function never exits) and the code; the header of the file
  (line 26) still says that missing credentials are fail-fast.

`Unfiltered` names where `ReadOnlyHolds` is false of the code: the server for several
clusters filters nothing; a file whose settings leave `allow_write` out counts as "yes" for
the filter and falls back on the environment for the gate, although the comment at
`tool_filter.py:88` says both use the same logic; and a null list of categories raises before
the first filter and is swallowed at line 400. In the other direction, a file without
settings takes the tools that write out of the list although the setting that was resolved says yes.

Also visible, checked by no run:

* `_validate_config` promises that no duplicate display names are created
  (`config.py:128`), but a configured tool's own name is free for another one to take.
* A configuration that renames a generated tool ends the start with a ValueError when the
  specification cannot be fetched; a renamed skill falls out of its category.
* The skills, memory and generic tools never check the version.
* The docstring of the lock says only basic authentication is left ("只能落 basic auth",
  `entrypoint.py:48`). The branch "session" is left too: it is taken when there is no password,
  or when an argument of the call blanks the user name (`Opens`).
* A user name from a call is paired with the password of the environment.
* The password is read once: after a rotation the server is refused until it restarts.

## 4. The runs

| Run | Shows | Bounds |
|---|---|---|
| `credential` | the properties of `CredentialCache` and the refinement | 2 threads, TTL 2, 5 ticks, 2 rotations |
| `tls` | the properties of `TlsProbe` | 2 threads, 1 endpoint, 2 faults, 1 reconfiguration |
| `opensearch` | the properties of `OpenSearchCall` | limits -1, 1, 3 and none; chunks of 2; bodies to 7; 2 retries |
| `db_session` | the properties of `DbSession` | 128 kinds of PostgreSQL and 8 of MySQL cluster, 15 scripts, 2 failovers, 2 faults |
| `db_session_degrade` | the aborted transaction | no failover, no fault |
| `pg_scan` | the properties of `PgScan` | 3 databases, caps -1, 1, 2, 3; 1 change, 1 fault |
| `pg_scan_once` | the vacuum counted twice | the same without fault |
| `report` | the properties of `ToolReport` | 56 tools, up to 4 rows, LIMIT 1 to 3, 2 findings shown |
| `memory` | the properties of `AgentMemory` | 3 servers, 2 collections, 2 roles, 1 fault, 1 edit |
| `memory_grant` | the role taken for covered | 2 servers, 2 collections, 1 fault |
| `key_scan` | the properties of `KeyScan` | 3 keys, scores 0, 1, 3, caps below the floor and above the hard limit, 2 turns, pipelines of 2, 2 rows shown, 1 change |
| `opensearch_server` | the properties of `OpenSearchServer` | 77 deployments, 16 requests, 9 tools, 2 clusters, 2 passwords after the placeholder |

Why the bounds are enough. *Credential*: the hard case is a holder of the lock and a
waiter with an older clock; five ticks are more than two lifetimes, so an entry is
stored, ages, expires and is replaced; the proofs cover the rest. *TLS*: two threads are
enough for both to miss the cache and to write it in either order; two faults let both
pings of one probe time out. *OpenSearch*: chunk 2 and bodies to 7 put a
body below, at and above each limit and end on a whole and on a part of a chunk.
*DbSession*: statements of a script are at most six; two failovers bring the writer
back; two faults let both forms of a statement fail. *PgScan*: a cap of 2 cuts a list of 3; -1 is Python's slice from the end.
*Report*: with four rows and a LIMIT of at most three the cut-off row exists for every
LIMIT, and with two findings shown the third row is the one not shown. *Memory*: two
servers race for the policy, the third one has a managed domain and no policy.
*KeyScan*: with three turns of two keys the loop ends by the cap, by the iterations and by the
cursor, and the cap cuts a batch; two rows of three keys leave one out. *OpenSearchServer*:
`MC_OpenSearchServer` varies what interacts together and the rest one at a time; one tool of each
kind (writes, exempt, memory, skill, generated with one or two paths, several clusters only)
meets every filter; two passwords let the one that was read be outdated.

Deadlock is checked in every run.

## 5. Fairness

* `CredentialCache`: weak fairness of each thread's steps inside the `with` block.
  boto3's time-outs end an API call, and a thread that holds the lock is scheduled.
  Nothing is assumed of threads outside it, not even that they get the lock.
* `TlsProbe`: weak fairness of a call's steps; connect and socket time-outs are set.
* `OpenSearchCall`: weak fairness of the call; aiohttp's total time-out ends an
  exchange. Starting and cancelling a call is not fair.
* `AgentMemory`: weak fairness of a started call and of the propagation of the policy;
  `ListedWhenSaving` assumes in its own left-hand side that the caller goes on saving.
* `KeyScan`: weak fairness of the call; socket time-outs end every request. The batches
  themselves are not fair: the server may return empty ones for ever.
* `OpenSearchServer`: weak fairness of the start-up, each request of which has a time-out. No
  call, rotation, upgrade or restart is fair.
* `DbSession`, `PgScan`, `ToolReport`: none, they state safety only.

## 6. The proofs

`CredentialCache_proofs` proves for any set of threads, any TTL of at least one, and
any bounds on the clock and the rotations: `TypeCorrect`, `CriticalSection`,
`BoundedStaleness`, `NoPlaceholder`, `EntriesLiveTTL`, `CacheMovesForward`,
`CacheImplementsPromise`. The assumptions are those of the module: `NoThread` is no
thread, TTL is a positive natural, the bounds are naturals.

`StalenessBound` is not inductive. The strengthening `IInv` adds: no time stamp lies
in the future (`TimeInv`); the cached credential is a real one and was current at its
stamp or later (`EntryInv`); a thread that fetches found no fresh entry *and still
does*, and what it fetched is not older than the entry (`FetchInv`); and the bound for
each served result (`ServedInv`). `FetchInv` is where the lock is needed: between the
look at the cache and the store nobody else writes. From it follow `StoresApart` and
`NeverGoesBack` as action properties, since only `Store` writes the cache
(`OnlyStoreWrites`). The refinement is proved by mapping each step: `Begin` to the
abstract call, `Hit` and `Store` to serving (this needs `ServedInv`), the raising steps
to failing, all else to stuttering.

`OpenSearchCall_proofs` proves for any set of limits, chunk size, body bound and number of
retries: `TypeCorrect`, `StreamingStopsAtLimit`, `NoOversizeResult`,
`RepeatsAreLostAnswers`, `ClientIsReleased`, `GoodAnswersAreKept`. `RepeatedOnlyWhenLost` is not inductive
either: `IInv` adds that wherever another request may be sent every execution is a lost
one (`CarriedOutInv`), that each attempt used exactly two requests (`BudgetInv`, which
gives the bound on `sends` in `TypeOK`), what is in hand at each place (`FrameInv`), and that
a good answer is the result from the moment the `async with` block is left (`KeptInv`).

`TlsProbe_proofs` proves for any sets of threads and endpoints and any number of faults and
reconfigurations (`EndpointsAssumption`: `NoEndpoint` is none): `TypeCorrect`,
`RememberedIsProven`, `AutoAlwaysConnects`. The properties speak of the cache, of
open connections and of finished calls; `IInv` follows a decision from the probe to there:
what a thread is about to remember was answered (`SettledInv`), plaintext is only tried after
TLS and decided only where TLS is disabled (`PlainInv`), a decision works where the cluster
answers (`WorksInv`). No lock is needed: two probes that race store decisions that are both proven.

`DbSession_proofs` proves for any number of failovers and of faults: `TypeCorrect`,
`WritersAreServed`, `VerdictsAreComplete`, `DegradedIsJustified`. What a call may conclude
depends on which statements it executed, so the module first states the 15 scripts as tuples
(`PgScripts`, `MyScripts`) and what is common to them (`PgShape`, `MyShape`: a statement comes
after those its condition is about, is executed once, and a connection that may be refused is
for the tables only). The loop over a script has the invariant `Considered`: every statement
passed whose condition holds was answered, or failed and was caught. `IInv` adds what a server
may have said of itself (`AnswerInv`); that on a healthy writer a transaction only aborts at
`aurora_replica_status()`, after which only the lag of a standby is asked (`TxInv`, which is why
`RaisesForUnasked` holds although `MissingFunctionDegrades` does not), and that a statement the
cluster refuses is never answered there (`ServedInv`); and why a caught error
happened (`CauseInv`). `FaultInv` counts: two statements that nothing in the cluster refuses and
that both failed cost two faults, which is what `Hidden` says of a single time-out.

`PgScan_proofs` proves for any finite set of databases, any caps and any number of changes and
faults: `TypeCorrect`, `ScanAccountsForAll`, `FailuresAreIsolated`. The invariant of the loop
(`ScanInv`) divides the list into the databases read, failed and to come. `DatabasesAssumption`
asks for natural numbers in the place of names, for the order in which the server lists them,
and that they are finitely many; a least element is found by well-foundedness (`LeastOf`).

`AgentMemory_proofs` proves for any sets of servers, roles and collections and any number of
faults and edits: `TypeCorrect`, `WritesAreEnriched`, `GrantsAreKept` (an action property).
`VersionInv` is the reason for the last one: a caller that read the version which is still there
has the rules in hand which are still there, so that its update only adds a role.

`OpenSearchServer_proofs` proves for any sets of deployments and requests and any number of
rotations: `TypeCorrect`, `WritingIsOff`, `VersionIsChecked`, `LockIsKept`, `PlainCallsAreServed`.
`IInv` says what the process remembers on the way to a request: how the tools on offer were
chosen (`OfferInv`), that the call passed the gate (`GateInv`), that the version it saw is not
newer than that of its cluster and the one the cluster had then (`SeenInv`), and which identity it was sent with (`SentInv`).
`DeploymentsAssumption` says that two settings of a deployment are Boolean.

`Reports_proofs` is about what tools report of what they read. Of `KeyScan` it proves for any set
of keys, any caps, batches and scores and any number of changes: `TypeCorrect`,
`NoBiggerKeyIsMissed`. Its lemmas about lists come first: a strict total
order arranges a finite set without gaps (`Arrangement`, by counting what comes before), so
that picking and sorting lose nothing (`PickedIs`, `SortedIs`, `HighestIs`). `IInv` then follows
a key that does not change: it is due or collected while SCAN runs (`DueInv`), collected once
the SCAN has come to its end (`StoppedInv`), measured as it is (`MeasuredInv`) and ranked in the
report (`ReportInv`). `CapsAssumption` orders the floor and the limit of the caps as the code does.

Of `ToolReport` it proves for any number of rows, any `_QUERY_LIMIT` and any slice:
`ReportTypeCorrect`, `StatusNeverUnderstates`, `VerdictsAreShown`, `LimitsHideNothing`. The
invariant of a call is short (`CallInv`): the LIMIT is positive, what was fetched is all rows or
the first of them, and the result is the verdict on what was fetched. The work is in `Judged`:
for every tool, whatever its statement may return and whatever cut of it, the verdict is `Sound`,
which is the four properties in terms of a verdict on the cut and a verdict on all rows. It is
proved tool by tool, those of a server that have the same form together. Rows
sorted by what is graded have the worst first, and every cut and every slice keeps the first
(`WorstIsFirst`, `CutKeepsWorst`); a series of checks shows what it raises (`ChecksAre`,
`RaisedIs`); a listing is as grave as its one grade (`Listing`). Where a tool has none of these
forms it is in one of the exceptions, and the proof says which of the four it still meets.
`PgShares`, `MyShares` and `RedisShares` say that the three instances grade with the same
operators. A tool of `Degrading` that had nothing to read is not `Sound` but `Refused`: a warning
without a finding, the same for every LIMIT. The module holds both proofs because they use the same lemmas; the names of
`ToolReport` are therefore not those of `KeyScan`.

Some attempts at a proof showed something. `Handler` of `TlsProbe` was a CASE whose guards
overlap, which leaves the choice of the arm open, while the first `except` clause that fits is
the one Python takes; it is now an IF. And `OrdinaryCallsWork` was false for a container that is
not locked and has a role to assume, which no deployment of the run was: the run now has one,
and the property names the condition. Arms of the CASEs of `PgVerdict` and `MyVerdict` overlapped too and
are now disjoint. Following each tool to its exceptions showed that `VerdictIsShown` said less than
is true: eight tools were excepted of which only a warning can be missing, and a sum over databases
was modelled so coarsely that its exception could not occur.

In each of these modules the inductive invariant was checked by TLC on the run of the component
before it was proved.

Model-checked only: all liveness (`LockReleased`, `CallsEnd`, `CallEnds`,
`ListedWhenSaving`, `ScanEnds`, `ContainerStarts`), which with fairness and ENABLED is out of the
prover's reach. `ImplementsFreshCredential` is proved for the safety of `FreshCredential`, which is
all it states. No safety property that a passing run checks is without a theorem; the three runs
that expect a violation show that theirs is false. What `FoldSeq` computes (the sums of
`inspect_wait_events`, `inspect_replication_slots` and `inspect_temp_file_usage`) would take an
induction over the rows; the theorems need of these tools only that the status is a grade, and
what the sums come to is left to the run.

## 7. What is not modelled

* `_fetch_auth` of the ElastiCache server: a secret cache like that of `CredentialCache`,
  except that it knows no placeholder.
* Of the OpenSearch operations (`helper.py`, most of `tools.py`, the agentic memory and skills
  tools): the bodies, the paths and the formats of single operations. They keep no state
  between requests; what they share, the check of the version and the request, is in
  `OpenSearchServer` and `OpenSearchCall`. `search_memory_tool` likewise.
* Of the registry: the texts of arguments, the fields taken out of schemas, the default of
  the memory container; lists of patterns are the sets of names they match.
* Transports, logging, installer: input and output around the `mcp` library.
* CDK constructs: declarations carried out by CloudFormation. Scripts: sequential smoke
  tests. Skills: Markdown.
* Texts of the reports, SQL and formats: only what a status or finding depends on is kept.
