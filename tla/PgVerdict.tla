------------------------------ MODULE PgVerdict ------------------------------
(***************************************************************************)
(* What the PostgreSQL inspection tools make of the rows they read: the    *)
(* status of the result and the severity of each finding, one operator for *)
(* each tool, and which rows their statements can return.                  *)
(***************************************************************************)
EXTENDS Grading
--------------------------------------------------------------------------
\* The tools.  rows is the list a tool grades, total its one graded number,
\* or None when there is none, or nothing to read.
inspect_long_transactions(rows) == Verdict(Worst(AtLeastWarning(rows)), AtLeastWarning(rows))

\* None: pg_stat_statements was not created.
inspect_top_queries(rows, total) == IF total = None THEN Degraded ELSE Verdict(Worst(rows), rows)

inspect_table_bloat(rows) == Verdict(Worst(AtLeastWarning(rows)), AtLeastWarning(rows))

\* None: not an Aurora cluster, or not its writer.
inspect_replica_lag(rows, total) == IF total = None THEN Degraded ELSE Verdict(Worst(rows), rows)

inspect_blocking_chains(rows) == Verdict(Worst(AtLeastWarning(rows)), AtLeastWarning(rows))

\* None: no replicas, because the endpoint is itself a standby.
inspect_pg_stat_replication(rows, total) == IF total = None THEN Degraded ELSE Verdict(Worst(rows), rows)

inspect_current_queries(rows) == Verdict(Worst(rows), FirstFew(rows))

\* bloated[0] is taken for the worst; grade 1 is the caller's threshold.
inspect_index_bloat(rows) ==
  LET bloated == Raised(rows)
  IN  IF bloated = <<>> THEN Verdict(0, <<>>)
      ELSE Verdict(IF bloated[1] = 2 THEN 2 ELSE 1, FirstFew(bloated))

inspect_table_stats_freshness(rows) ==
  Verdict(IF rows = <<>> THEN 0 ELSE 1, FirstFew(All(1, rows)))

\* other: the tables of the database with the oldest xid.
inspect_xid_wraparound(rows, other) ==
  Verdict(Worst(rows), rows \o All(1, Raised(FirstFew(other))))

\* A table: [pct |-> grade of seq_pct, large |-> it has 10000 rows].
\* other: the indexes that are hardly used.
inspect_index_usage(rows, other) ==
  LET seq(p) == \E i \in DOMAIN rows : rows[i].large /\ rows[i].pct >= p
      severity(t) == IF t.large /\ t.pct = 2 THEN 2 ELSE 1
  IN  Verdict(IF seq(2) THEN 2 ELSE IF seq(1) \/ other # <<>> THEN 1 ELSE 0,
              All(1, FirstFew(other)) \o [i \in DOMAIN FirstFew(rows) |-> severity(rows[i])])

\* A slot: [active, mb |-> WAL it holds back in units of 100 MB].
inspect_replication_slots(rows, limit) ==
  LET inactive == Picked(rows, {i \in DOMAIN rows : ~rows[i].active})
      held == FoldSeq(LAMBDA s, sum : s.mb + sum, 0, inactive)
      severity(s) == IF s.active THEN 0 ELSE IF s.mb >= 1 THEN 2 ELSE 1
  IN  Verdict(IF held >= limit THEN 2 ELSE IF inactive # <<>> THEN 1 ELSE 0,
              [i \in DOMAIN rows |-> severity(rows[i])])

\* A wait event: [type, count]; the status follows the type most
\* connections wait for, among those the statement returned.
Waiting(t, rows) ==
  FoldSeq(LAMBDA e, sum : e.count + sum, 0, Picked(rows, {i \in DOMAIN rows : rows[i].type = t}))

TopTypes(rows) ==
  LET types == {rows[i].type : i \in DOMAIN rows}
  IN  {t \in types : \A u \in types : Waiting(u, rows) <= Waiting(t, rows)}

\* Ties are resolved by the order of first appearance (a stable sort).
TopType(rows) ==
  LET i == CHOOSE i \in DOMAIN rows :
             rows[i].type \in TopTypes(rows) /\ \A j \in 1..(i - 1) : rows[j].type \notin TopTypes(rows)
  IN  rows[i].type

inspect_wait_events(rows) ==
  Verdict(IF rows = <<>> THEN 0 ELSE IF TopType(rows) \in {"Lock", "IO"} THEN 1 ELSE 0,
          All(0, FirstFew(rows)))

\* total: the hit ratio of the whole database, or None without a sample.
inspect_cache_hit_ratio(rows, total) ==
  LET global == IF total \in {1, 2} THEN <<total>> ELSE <<>>
      low == Picked(FirstFew(rows), {i \in DOMAIN FirstFew(rows) : rows[i] = 2})
  IN  Verdict(IF total = None THEN 1 ELSE total, global \o All(1, low))

\* A table: [lagging, large]; autovacuum may be off altogether, and large
\* tables are mentioned unless the global scale factor was lowered.
inspect_autovacuum_tuning(rows, off, tuned) ==
  LET lagging == Picked(rows, {i \in DOMAIN rows : rows[i].lagging})
      big == Picked(rows, {i \in DOMAIN rows : rows[i].large /\ ~tuned})
  IN  Verdict(IF off THEN 2 ELSE IF lagging # <<>> \/ big # <<>> THEN 1 ELSE 0,
              (IF off THEN <<2>> ELSE <<>>)
                \o All(1, FirstFew(lagging)) \o All(0, FirstFew(big)))

inspect_table_io_stats(rows) == Verdict(IF Some(1, rows) THEN 1 ELSE 0, FirstFew(rows))

\* rows: temporary files of each database, in halves of a GB.  Many databases
\* below a GB may together exceed the ten of the warning.
inspect_temp_file_usage(rows) ==
  Verdict(IF FoldSeq(LAMBDA half, sum : half + sum, 0, rows) >= 20 THEN 1 ELSE 0,
          FirstFew([i \in DOMAIN rows |-> IF rows[i] >= 2 THEN 1 ELSE 0]))

inspect_connections(rows, total) == Verdict(total, FirstFew(All(total, rows)))

inspect_table_sizes(rows, total) == Verdict(total, FirstFew(All(0, rows)))

inspect_database_sizes(rows, total) == Verdict(IF total >= 1 THEN 1 ELSE 0, FirstFew(All(0, rows)))

inspect_active_clients(rows) == Verdict(0, FirstFew(All(0, rows)))

inspect_schema_objects(rows) == Verdict(0, FirstFew(All(0, rows)))

\* rows: the parameters that wait for a restart, whatever the category.
inspect_settings(rows) == Verdict(IF rows = <<>> THEN 0 ELSE 1, All(1, rows))

inspect_extensions(preloaded, created) ==
  LET missing == IF preloaded /\ created THEN <<>> ELSE <<1>>
  IN  Verdict(IF missing = <<>> THEN 0 ELSE 1, missing)

inspect_checkpoint_stats(total) == Verdict(total, IF total = 1 THEN <<1>> ELSE <<>>)
--------------------------------------------------------------------------
\* How the statements order and filter the graded list.
ByMeasure == {"long_transactions", "top_queries by mean", "blocking_chains", "index_bloat",
              "current_queries", "table_stats_freshness", "xid_wraparound", "cache_hit_ratio"}
ByOther == {"table_bloat", "top_queries", "table_io_stats", "replica_lag", "pg_stat_replication"}
Graded == ByMeasure \cup ByOther
Listings == {"settings", "connections", "table_sizes", "database_sizes", "active_clients", "schema_objects"}
Tools == Graded \cup Listings
           \cup {"index_usage", "replication_slots", "wait_events", "autovacuum_tuning",
                 "temp_file_usage", "extensions", "checkpoint_stats"}

\* The tools that look first whether there is anything to read.
Degrading == {"top_queries", "top_queries by mean", "replica_lag", "pg_stat_replication"}

\* WHERE leaves only rows at or over the threshold of a warning.
Filtered == {"long_transactions", "blocking_chains", "table_stats_freshness", "table_bloat"}

\* Statements without a LIMIT, with a fixed one; the others take top_n.
Unlimited == {"replica_lag", "pg_stat_replication", "settings", "xid_wraparound", "replication_slots",
              "database_sizes", "temp_file_usage", "extensions", "checkpoint_stats"}
FixedLimit == {"long_transactions", "table_bloat", "blocking_chains", "connections", "active_clients",
               "index_usage"}

Measures(t) ==
  LET lists == Lists(IF t \in Filtered THEN {1, 2} ELSE IF t = "table_io_stats" THEN {0, 1} ELSE Grades)
  IN  IF t \in ByMeasure THEN {s \in lists : Descending(s)} ELSE lists

\* All the rows a tool's statement has to choose from, in its order.  The
\* tool's own connection is one of the client connections.
Rows(t) ==
  CASE t \in Graded -> Measures(t)
    [] t \in {"connections", "active_clients"} -> Lists({0}) \ {<<>>}
    [] t \in Listings \ {"connections", "active_clients"} -> Lists({0})
    [] t = "index_usage" ->
         {s \in Lists([pct : Grades, large : BOOLEAN]) : Descending([i \in DOMAIN s |-> s[i].pct])}
    [] t = "replication_slots" ->
         {s \in Lists([active : BOOLEAN, mb : {0, 1}]) : Descending([i \in DOMAIN s |-> s[i].mb])}
    [] t = "wait_events" ->
         {s \in Lists([type : {"Lock", "IO", "Client"}, count : {1, 2}]) \ {<<>>} :
            Descending([i \in DOMAIN s |-> s[i].count])}
    [] t = "autovacuum_tuning" -> Lists([lagging : BOOLEAN, large : BOOLEAN])
    [] t = "temp_file_usage" -> {s \in Lists({0, 1, 2, 10, 20}) : Descending(s)}
    [] OTHER -> {<<>>}

\* The second list of a tool.  The ages of the tables are read after those of
\* the databases, on a connection that may fail, and have grown by then.
Others(t, first) ==
  CASE t = "index_usage" -> Lists({0})
    [] t = "xid_wraparound" ->
         {s \in Lists(Grades) : Descending(s) /\ (s # <<>> => first # <<>> /\ s[1] <= first[1] + 1)}
    [] OTHER -> {<<>>}

\* The number, the setting or the argument a tool grades next to its lists.
Totals(t, first) ==
  CASE t \in {"connections", "table_sizes", "database_sizes"} -> Grades
    [] t = "checkpoint_stats" -> {0, 1}
    [] t = "cache_hit_ratio" -> IF first = <<>> THEN Grades \cup {None} ELSE Grades
    [] t = "replication_slots" -> {0, 1, 2}
    [] t = "autovacuum_tuning" -> [off : BOOLEAN, tuned : BOOLEAN]
    [] t = "extensions" -> [preloaded : BOOLEAN, created : BOOLEAN]
    [] t \in Degrading /\ first = <<>> -> {0, None}
    [] OTHER -> {0}

Judge(t, list, second, figure) ==
  CASE t = "long_transactions" -> inspect_long_transactions(list)
    [] t \in {"top_queries", "top_queries by mean"} -> inspect_top_queries(list, figure)
    [] t = "table_bloat" -> inspect_table_bloat(list)
    [] t = "replica_lag" -> inspect_replica_lag(list, figure)
    [] t = "blocking_chains" -> inspect_blocking_chains(list)
    [] t = "pg_stat_replication" -> inspect_pg_stat_replication(list, figure)
    [] t = "current_queries" -> inspect_current_queries(list)
    [] t = "index_bloat" -> inspect_index_bloat(list)
    [] t = "table_stats_freshness" -> inspect_table_stats_freshness(list)
    [] t = "xid_wraparound" -> inspect_xid_wraparound(list, second)
    [] t = "index_usage" -> inspect_index_usage(list, second)
    [] t = "replication_slots" -> inspect_replication_slots(list, figure)
    [] t = "wait_events" -> inspect_wait_events(list)
    [] t = "cache_hit_ratio" -> inspect_cache_hit_ratio(list, figure)
    [] t = "autovacuum_tuning" -> inspect_autovacuum_tuning(list, figure.off, figure.tuned)
    [] t = "table_io_stats" -> inspect_table_io_stats(list)
    [] t = "temp_file_usage" -> inspect_temp_file_usage(list)
    [] t = "connections" -> inspect_connections(list, figure)
    [] t = "table_sizes" -> inspect_table_sizes(list, figure)
    [] t = "database_sizes" -> inspect_database_sizes(list, figure)
    [] t = "active_clients" -> inspect_active_clients(list)
    [] t = "schema_objects" -> inspect_schema_objects(list)
    [] t = "settings" -> inspect_settings(list)
    [] t = "extensions" -> inspect_extensions(figure.preloaded, figure.created)
    [] t = "checkpoint_stats" -> inspect_checkpoint_stats(figure)
=============================================================================
