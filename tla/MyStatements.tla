---------------------------- MODULE MyStatements ----------------------------
(***************************************************************************)
(* The MySQL inspection tools: their statements, the clauses around them,  *)
(* what a server answers and what a tool makes of the answers, as in       *)
(* PgStatements.  Every clause of this server takes pymysql.MySQLError,    *)
(* that is everything.                                                     *)
(***************************************************************************)
EXTENDS Naturals, Sequences, Statements

\* privileged: the monitoring role has the grants the tool at hand needs, to
\* read performance_schema, the state of the replication or, with PROCESS,
\* INNODB_TRX.
Clusters == [engine : {"mysql"}, aurora : BOOLEAN, v8 : BOOLEAN, privileged : BOOLEAN]
--------------------------------------------------------------------------
\* _connect: the limit for statements is set when the server takes it.
Session == << Connect, Try(Ask("max_execution_time")) >>

\* Mutant: no second way to the counters.
MutGlobalStatus == << Try(Ask("ps_status")) >>

\* _global_status and _global_variables: SHOW asks for one name after the
\* other; one failure stands for any of them.
GlobalStatus == << Try(Ask("ps_status")), Try(AskIf("show_status", "no ps_status")) >>

GlobalVariables == << Try(Ask("ps_variables")), Try(AskIf("show_variables", "no ps_variables")) >>

\* connections, buffer_pool and temp_tables.
counters == Session \o GlobalStatus \o GlobalVariables
global_status == Session \o GlobalStatus
variables == Session \o GlobalVariables

replica_status ==
  Session \o << Try(Ask("aurora_hosts")), Try(AskIf("replica", "no hosts")),
                Try(AskIf("slave", "no hosts, replica failed")) >>

\* lock_waits, metadata_locks, slow_queries, table_io and index_usage.
performance_view == Session \o << Try(Ask("ps_view")) >>

\* INNODB_TRX is the one view outside a clause that asks for a privilege; of
\* PROCESSLIST a role without PROCESS is shown its own threads.
long_transactions == Session \o << Ask("innodb_trx") >>

\* The other tools: nothing caught.
simple == Session \o << Ask("first"), Ask("second") >>

Script(t) ==
  CASE t = "counters" -> counters
    [] t = "global_status" -> global_status
    [] t = "variables" -> variables
    [] t = "replica_status" -> replica_status
    [] t = "performance_view" -> performance_view
    [] t = "long_transactions" -> long_transactions
    [] OTHER -> simple

Tools == {"counters", "global_status", "variables", "replica_status", "performance_view",
          "long_transactions", "simple"}

Questions == {"max_execution_time", "ps_status", "show_status", "ps_variables", "show_variables",
              "aurora_hosts", "replica", "slave", "ps_view", "innodb_trx", "first", "second"}
--------------------------------------------------------------------------
\* Only a replica outside Aurora has a row in SHOW REPLICA STATUS.
Truth(q, first, c) == q \in {"replica", "slave"} => ~first /\ ~c.aurora

Errors(q, first, c) ==
  CASE q \in {"ps_status", "ps_variables", "ps_view"} /\ ~c.v8 -> {"UndefinedTable"}
    [] q \in {"ps_status", "ps_variables", "ps_view"} /\ c.v8 /\ ~c.privileged -> {"InsufficientPrivilege"}
    [] q = "aurora_hosts" /\ ~c.aurora -> {"UndefinedTable"}
    [] q = "replica" /\ ~c.v8 -> {"SyntaxError"}
    [] q = "replica" /\ c.v8 /\ ~c.privileged -> {"InsufficientPrivilege"}
    [] q \in {"slave", "innodb_trx"} /\ ~c.privileged -> {"InsufficientPrivilege"}
    [] OTHER -> {}

Holds(condition, saw) ==
  CASE condition = "no ps_status" -> saw["ps_status"] = "error"
    [] condition = "no ps_variables" -> saw["ps_variables"] = "error"
    [] condition = "no hosts" -> saw["aurora_hosts"] # "yes"
    [] condition = "no hosts, replica failed" -> saw["aurora_hosts"] # "yes" /\ saw["replica"] = "error"
    [] OTHER -> TRUE

\* Without an answer the counters are zero and the node is no replica.
Verdict(t, saw) ==
  CASE t = "performance_view" /\ saw["ps_view"] = "error" -> "degraded"
    [] t = "replica_status" /\ ~(\E q \in {"aurora_hosts", "replica", "slave"} : saw[q] = "yes") ->
         "no replicas"
    [] OTHER -> "verdict"

\* The answers a verdict rests on: one of each of these sets.
Needs(t, c) ==
  CASE t = "counters" -> {{"ps_status", "show_status"}, {"ps_variables", "show_variables"}}
    [] t = "global_status" -> {{"ps_status", "show_status"}}
    [] t = "variables" -> {{"ps_variables", "show_variables"}}
    [] t = "replica_status" -> {IF c.aurora THEN {"aurora_hosts"} ELSE {"replica", "slave"}}
    [] t = "performance_view" -> {{"ps_view"}}
    [] t = "long_transactions" -> {{"innodb_trx"}}
    [] OTHER -> {{"first"}, {"second"}}
=============================================================================
