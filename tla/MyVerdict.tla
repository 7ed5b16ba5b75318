------------------------------ MODULE MyVerdict ------------------------------
(***************************************************************************)
(* What the MySQL inspection tools make of the rows and counters they      *)
(* read, one operator for each tool, and what their statements can return. *)
(***************************************************************************)
EXTENDS Grading
--------------------------------------------------------------------------
\* A thread: [query |-> it runs a statement, time |-> grade of its TIME].
inspect_processlist(rows) ==
  LET long_running == Picked(rows, {i \in DOMAIN rows : rows[i].query /\ rows[i].time >= 1})
      times == [i \in DOMAIN long_running |-> long_running[i].time]
  IN  Verdict(Worst(times), FirstFew(times))

inspect_long_transactions(rows) == Verdict(Worst(AtLeastWarning(rows)), AtLeastWarning(rows))

inspect_lock_waits(rows) == Verdict(Worst(AtLeastWarning(rows)), AtLeastWarning(rows))

\* A table lock: [pending, late |-> its owner has been at it for a minute].
Pending(rows) == Picked(rows, {i \in DOMAIN rows : rows[i].pending})

inspect_metadata_locks(rows) ==
  LET grades == [i \in DOMAIN Pending(rows) |-> IF Pending(rows)[i].late THEN 2 ELSE 1]
  IN  Verdict(Worst(grades), grades)

inspect_connections(used, refused) == Checks(<<used, If(refused, 2)>>)

\* rows: connections of each user and host, in units of fifty.
inspect_active_clients(rows) ==
  LET total == FoldSeq(LAMBDA c, sum : c + sum, 0, rows)
  IN  Checks(<<If(rows # <<>> /\ rows[1] >= 1 /\ 2 * rows[1] >= total, 1)>>)

\* hit: None while there are too few reads to judge.
inspect_buffer_pool(hit, waited, dirty) ==
  Checks(<<If(hit # None, hit), If(waited, 1), If(dirty, 1)>>)

inspect_slow_queries(rows) == Verdict(Worst(rows), rows)

inspect_current_queries(rows) == Verdict(Worst(AtLeastWarning(rows)), AtLeastWarning(rows))

inspect_table_io(rows) == Verdict(0, FirstFew(All(0, rows)))

inspect_temp_tables(disk, merges) == Checks(<<disk, If(merges, 1)>>)

inspect_global_status(slow, joins) == Checks(<<If(slow, 1), If(joins, 1)>>)

\* rows: for each table, whether its engine is another than InnoDB.
inspect_table_sizes(rows) ==
  LET non_innodb == If(\E i \in DOMAIN rows : rows[i], 1)
  IN  Verdict(non_innodb, FirstFew(All(0, rows)) \o Raised(<<non_innodb>>))

inspect_schema_objects(rows) == Verdict(0, <<>>)

inspect_index_usage(rows) == Verdict(If(rows # <<>>, 1), FirstFew(All(0, rows)))

\* items are sorted by usage once the rows under the threshold are gone.
inspect_auto_increment(rows) ==
  LET raised == Raised(rows)
      items == ByScore([i \in DOMAIN raised |-> [score |-> raised[i]]])
  IN  Verdict(If(items # <<>>, items[1].score), [i \in DOMAIN items |-> items[i].score])

inspect_variables(binlog, flush) ==
  LET findings == (IF binlog THEN <<1>> ELSE <<>>) \o (IF flush THEN <<0>> ELSE <<>>)
  IN  Verdict(If(findings # <<>>, 1), findings)

\* rows: lag of Aurora's readers; a replica of RDS has its threads down or a
\* lag, None while MySQL reports NULL.
inspect_replica_status(rows, kind, down, lag) ==
  CASE kind = "aurora" -> IF rows = <<>> THEN Verdict(1, <<>>) ELSE Verdict(Worst(rows), rows)
    [] kind = "source" -> Verdict(0, <<>>)
    [] kind = "replica" ->
         IF down THEN Verdict(2, <<2>>) ELSE IF lag = None THEN Verdict(1, <<>>) ELSE Checks(<<lag>>)
--------------------------------------------------------------------------
Tools == {"processlist", "long_transactions", "lock_waits", "metadata_locks", "connections",
          "active_clients", "buffer_pool", "slow_queries", "slow_queries by avg", "current_queries",
          "table_io", "temp_tables", "global_status", "table_sizes", "schema_objects", "index_usage",
          "auto_increment", "variables", "replica_status"}

\* The tools whose statement may fail without the call failing.
Degrading == {"lock_waits", "metadata_locks", "slow_queries", "slow_queries by avg", "table_io", "index_usage"}

\* Tools without a LIMIT, with a fixed one; the others take top_n.
Unlimited == {"connections", "buffer_pool", "temp_tables", "global_status", "variables", "replica_status"}
FixedLimit == {"processlist", "long_transactions", "lock_waits", "metadata_locks", "active_clients",
               "current_queries", "schema_objects", "index_usage", "auto_increment"}

\* LOCK_STATUS sorts "GRANTED" before "PENDING"; within one status the
\* longest time comes first.
SortedLocks(s) ==
  \A i \in 1..(Len(s) - 1) :
    \/ ~s[i].pending /\ s[i + 1].pending
    \/ s[i].pending = s[i + 1].pending /\ (s[i + 1].late => s[i].late)

Rows(t) ==
  CASE t = "processlist" ->
         {s \in Lists([query : BOOLEAN, time : Grades]) : Descending([i \in DOMAIN s |-> s[i].time])}
    [] t \in {"long_transactions", "lock_waits", "current_queries"} ->
         {s \in Lists({1, 2}) : Descending(s)}
    [] t = "metadata_locks" -> {s \in Lists([pending : BOOLEAN, late : BOOLEAN]) : SortedLocks(s)}
    [] t \in {"active_clients", "slow_queries by avg"} -> {s \in Lists(Grades) : Descending(s)}
    [] t \in {"slow_queries", "auto_increment", "replica_status"} -> Lists(Grades)
    [] t \in {"table_io", "schema_objects", "index_usage"} -> Lists({0})
    [] t = "table_sizes" -> Lists(BOOLEAN)
    [] OTHER -> {<<>>}

\* The counters a tool grades; None when its statement failed.
Totals(t, rows) ==
  CASE t = "connections" -> [used : Grades, refused : BOOLEAN]
    [] t = "buffer_pool" -> [hit : Grades \cup {None}, waited : BOOLEAN, dirty : BOOLEAN]
    [] t = "temp_tables" -> [disk : Grades, merges : BOOLEAN]
    [] t = "global_status" -> [slow : BOOLEAN, joins : BOOLEAN]
    [] t = "variables" -> [binlog : BOOLEAN, flush : BOOLEAN]
    [] t = "replica_status" ->
         [kind : IF rows = <<>> THEN {"aurora", "source", "replica"} ELSE {"aurora"},
          down : BOOLEAN, lag : Grades \cup {None}]
    [] t \in Degrading /\ rows = <<>> -> {0, None}
    [] OTHER -> {0}

Judge(t, rows, figure) ==
  IF t \in Degrading /\ figure = None THEN Degraded
  ELSE
  CASE t = "processlist" -> inspect_processlist(rows)
    [] t = "long_transactions" -> inspect_long_transactions(rows)
    [] t = "lock_waits" -> inspect_lock_waits(rows)
    [] t = "metadata_locks" -> inspect_metadata_locks(rows)
    [] t = "connections" -> inspect_connections(figure.used, figure.refused)
    [] t = "active_clients" -> inspect_active_clients(rows)
    [] t = "buffer_pool" -> inspect_buffer_pool(figure.hit, figure.waited, figure.dirty)
    [] t \in {"slow_queries", "slow_queries by avg"} -> inspect_slow_queries(rows)
    [] t = "current_queries" -> inspect_current_queries(rows)
    [] t = "table_io" -> inspect_table_io(rows)
    [] t = "temp_tables" -> inspect_temp_tables(figure.disk, figure.merges)
    [] t = "global_status" -> inspect_global_status(figure.slow, figure.joins)
    [] t = "table_sizes" -> inspect_table_sizes(rows)
    [] t = "schema_objects" -> inspect_schema_objects(rows)
    [] t = "index_usage" -> inspect_index_usage(rows)
    [] t = "auto_increment" -> inspect_auto_increment(rows)
    [] t = "variables" -> inspect_variables(figure.binlog, figure.flush)
    [] t = "replica_status" -> inspect_replica_status(rows, figure.kind, figure.down, figure.lag)
=============================================================================
