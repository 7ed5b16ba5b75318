------------------------------ MODULE ToolReport ------------------------------
(***************************************************************************)
(* A call of an inspection tool of the PostgreSQL, the MySQL or the        *)
(* ElastiCache server, seen from the data: the statement sorts the rows    *)
(* the server has and cuts them (LIMIT), and the tool turns what is left   *)
(* into a status and a slice of findings.  Its names are not those of      *)
(* KeyScan: what a key scan reports is proved in the same module.          *)
(***************************************************************************)
EXTENDS Grading

CONSTANT
  QueryLimit    \* _QUERY_LIMIT: most rows a statement returns

ASSUME QueryLimitAssumption == QueryLimit \in Nat \ {0}

Pg == INSTANCE PgVerdict
My == INSTANCE MyVerdict
Redis == INSTANCE RedisVerdict

VARIABLES
  phase,     \* "idle", "called", "fetched" or "done"
  asked,     \* <<server, tool>>
  limit,     \* LIMIT of the statement
  stored,    \* history: all the rows the server had for the statement
  fetched,   \* the rows it returned
  other,     \* the rows of the tool's second statement
  total,     \* the numbers, settings or arguments it grades besides
  result     \* status and findings

call == <<phase, asked, limit, stored, fetched, other, total, result>>
--------------------------------------------------------------------------
On(server, tools) == {server} \X tools

Tools == On("postgres", Pg!Tools) \cup On("mysql", My!Tools) \cup On("redis", Redis!Tools)

Unlimited == On("postgres", Pg!Unlimited) \cup On("mysql", My!Unlimited) \cup On("redis", Redis!Unlimited)

FixedLimit == On("postgres", Pg!FixedLimit) \cup On("mysql", My!FixedLimit)

RowsOf(t) ==
  CASE t[1] = "postgres" -> Pg!Rows(t[2])
    [] t[1] = "mysql" -> My!Rows(t[2])
    [] t[1] = "redis" -> Redis!Rows(t[2])

\* Only tools of the PostgreSQL server run a second statement with rows.
Others(t, first) == IF t[1] = "postgres" THEN Pg!Others(t[2], first) ELSE {<<>>}

Totals(t, first) ==
  CASE t[1] = "postgres" -> Pg!Totals(t[2], first)
    [] t[1] = "mysql" -> My!Totals(t[2], first)
    [] t[1] = "redis" -> Redis!Totals(t[2], first)

Judge(t, list, second, figure) ==
  CASE t[1] = "postgres" -> Pg!Judge(t[2], list, second, figure)
    [] t[1] = "mysql" -> My!Judge(t[2], list, figure)
    [] t[1] = "redis" -> Redis!Judge(t[2], list, figure)
--------------------------------------------------------------------------
Nothing == Verdict(0, <<>>)

Resting == <<"redis", "overview">>

Idle ==
  /\ phase = "idle" /\ asked = Resting
  /\ limit = QueryLimit
  /\ stored = <<>> /\ fetched = <<>> /\ other = <<>> /\ total = 0
  /\ result = Nothing

\* Mutant: the argument is not forced into the range of a LIMIT.
MutClamp(k) == k

\* n = max(1, min(top_n, _QUERY_LIMIT))
Clamp(k) == IF k < 1 THEN 1 ELSE IF k > QueryLimit THEN QueryLimit ELSE k

Ask(t, top_n) ==
  /\ phase = "idle"
  /\ phase' = "called" /\ asked' = t
  /\ limit' = IF t \in FixedLimit THEN QueryLimit ELSE Clamp(top_n)
  /\ UNCHANGED <<stored, fetched, other, total, result>>

Query ==
  /\ phase = "called"
  /\ phase' = "fetched"
  /\ stored' \in RowsOf(asked)
  /\ fetched' = IF asked \in Unlimited THEN stored' ELSE First(limit, stored')
  /\ other' \in Others(asked, stored')
  /\ total' \in Totals(asked, stored')
  /\ UNCHANGED <<asked, limit, result>>

Conclude ==
  /\ phase = "fetched"
  /\ phase' = "done"
  /\ result' = Judge(asked, fetched, other, total)
  /\ UNCHANGED <<asked, limit, stored, fetched, other, total>>

Return ==
  /\ phase = "done"
  /\ phase' = "idle" /\ asked' = Resting /\ limit' = QueryLimit
  /\ stored' = <<>> /\ fetched' = <<>> /\ other' = <<>> /\ total' = 0
  /\ result' = Nothing

CallStep == (\E t \in Tools, k \in -1..(QueryLimit + 1) : Ask(t, k)) \/ Query \/ Conclude \/ Return

Calls == Idle /\ [][CallStep]_call
--------------------------------------------------------------------------
\* Every variable has its type; LIMIT is never zero or negative, whatever
\* top_n the agent passes, and the result fits the tool.
ReportTypeOK ==
  /\ phase \in {"idle", "called", "fetched", "done"}
  /\ asked \in Tools
  /\ limit \in 1..QueryLimit
  /\ phase \in {"fetched", "done"} =>
        stored \in RowsOf(asked) /\ other \in Others(asked, stored) /\ total \in Totals(asked, stored)
  /\ result.status \in Grades
  /\ \A i \in DOMAIN result.findings : result.findings[i] \in Grades

\* Tools whose findings may be graver than their status: they grade single
\* slots, tables or databases on a scale of their own, read a second list
\* later, or raise a finding without raising the status.
OwnScale ==
  On("postgres", {"replication_slots", "index_usage", "cache_hit_ratio", "temp_file_usage", "xid_wraparound"})
    \cup On("redis", {"overview", "memory", "clients", "eviction"})

\* An agent that reads only the status of a result misses nothing: no finding
\* is graver.  (It does miss something with the tools of OwnScale.)
NeverUnderstates ==
  phase = "done" /\ asked \notin OwnScale =>
    \A i \in DOMAIN result.findings : result.findings[i] <= result.status

\* Tools of which even what is critical may have no such finding: they list
\* rows and grade a sum or a number, or cut off the row the status is about.
NotShown ==
  On("postgres", {"table_sizes", "index_usage", "replication_slots"}) \cup On("redis", {"clients", "pubsub"})

\* Tools that may warn without a finding that does: they grade something
\* else than what they list, or a sum of it, or miss a sample, a lag, a limit
\* or a replica.
TextOnly ==
  On("postgres", {"database_sizes", "wait_events", "autovacuum_tuning", "table_io_stats", "temp_file_usage",
                  "cache_hit_ratio"})
    \cup On("mysql", {"index_usage", "variables", "replica_status"})
    \cup On("redis", {"replication", "eviction", "cluster_mode"})

\* Tools that warn without a finding when the extension, the views or the
\* role they need are missing.
Degrading == On("postgres", Pg!Degrading) \cup On("mysql", My!Degrading)

\* An agent that reads only the findings misses nothing either: the slice
\* that is shown holds a finding as grave as the status, but for a warning
\* of TextOnly and for the answer that there was nothing to read (total is
\* None).  What is critical is always shown, but for NotShown.
VerdictIsShown ==
  phase = "done" /\ asked \notin NotShown /\ result.status > 0 =>
    \/ \E i \in DOMAIN result.findings : result.findings[i] >= result.status
    \/ asked \in TextOnly /\ result.status = 1
    \/ asked \in Degrading /\ total = None /\ result.status = 1

\* Tools whose statement sorts by something else than what Python grades.
OtherOrder ==
  On("postgres", {"table_bloat", "top_queries", "table_io_stats", "index_usage", "wait_events",
                  "autovacuum_tuning"})
    \cup On("mysql", {"processlist", "metadata_locks", "active_clients", "slow_queries", "table_sizes",
                      "auto_increment"})
    \cup On("redis", {"slow_queries"})

\* The LIMIT does not change the status: the rows it cuts off, however many
\* there are and however small top_n is, would not have made it graver.
LimitHidesNothing ==
  phase = "done" /\ asked \notin OtherOrder => result.status = Judge(asked, stored, other, total).status
=============================================================================
