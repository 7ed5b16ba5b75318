---------------------------- MODULE PgStatements ----------------------------
(***************************************************************************)
(* The PostgreSQL inspection tools that talk to one database: which        *)
(* statements a tool executes, on which connection and under which except  *)
(* clauses, what a server answers, and what the tool makes of the answers. *)
(* c is the cluster, first says whether the server is the writer, saw[q]   *)
(* is the answer to q that the call has in hand.                           *)
(***************************************************************************)
EXTENDS Naturals, Sequences, Statements

\* privileged: the monitoring role may read aurora_replica_status();
\* streaming: the writer of a non-Aurora cluster has connected replicas;
\* pgss: the extension is not created, created but not preloaded, older than
\* 1.8, or ready; nameable: every table is found by schema || '.' || name,
\* that is, none needs quotes or is dropped in between.
Clusters ==
  [engine : {"postgres"}, aurora : BOOLEAN, pg17 : BOOLEAN, privileged : BOOLEAN, streaming : BOOLEAN,
   pgss : {"absent", "unloaded", "old", "ready"}, nameable : BOOLEAN]
--------------------------------------------------------------------------
\* Mutant: every exception of aurora_replica_status() is a missing feature.
MutReplicaLag ==
  << Connect,
     Ask("in_recovery"),
     Try(Ask("aurora_status")),
     [q |-> "own_lag", when |-> "in_recovery",
      catch |-> {"FeatureNotSupported", "UndefinedFunction", "InternalError"}] >>

replica_lag ==
  << Connect,
     Ask("in_recovery"),
     [q |-> "aurora_status", when |-> "always",
      catch |-> {"UndefinedFunction", "InsufficientPrivilege", "FeatureNotSupported", "ReadOnly"}],
     [q |-> "own_lag", when |-> "in_recovery",
      catch |-> {"FeatureNotSupported", "UndefinedFunction", "InternalError"}] >>

pg_stat_replication ==
  << Connect, Ask("replicas"), AskIf("connect", "no replicas"), AskIf("in_recovery", "no replicas") >>

xid_wraparound ==
  << Connect, Ask("databases"), Ask("freeze_max_age"), Try(Connect), Try(Ask("tables")) >>

checkpoint_stats ==
  << Connect, Ask("version"), AskIf("checkpointer_view", "pg17"), AskIf("bgwriter_view", "pg17"),
     AskIf("old_bgwriter_view", "before pg17") >>

\* Mutant: nobody looks whether the extension is there.
MutTopQueries == << Connect, Ask("pgss_view") >>

top_queries == << Connect, Ask("pgss_installed"), AskIf("pgss_view", "pgss") >>

replication_slots == << Connect, Ask("slots"), Ask("wal_settings") >>

\* table_sizes, and table_bloat, which begins with the second statement.
table_sizes == << Connect, Ask("first"), Ask("relation_sizes") >>

\* The other tools on one database: one connection, nothing caught.
plain == << Connect, Ask("first"), Ask("second") >>

Script(t) ==
  CASE t = "replica_lag" -> replica_lag
    [] t = "pg_stat_replication" -> pg_stat_replication
    [] t = "xid_wraparound" -> xid_wraparound
    [] t = "checkpoint_stats" -> checkpoint_stats
    [] t = "top_queries" -> top_queries
    [] t = "replication_slots" -> replication_slots
    [] t = "table_sizes" -> table_sizes
    [] OTHER -> plain

Tools == {"replica_lag", "pg_stat_replication", "xid_wraparound", "checkpoint_stats",
          "top_queries", "replication_slots", "table_sizes", "plain"}

Questions == {"in_recovery", "aurora_status", "own_lag", "replicas", "databases", "freeze_max_age",
              "tables", "version", "checkpointer_view", "bgwriter_view", "old_bgwriter_view",
              "pgss_installed", "pgss_view", "slots", "wal_settings", "relation_sizes", "first", "second"}
--------------------------------------------------------------------------
\* What a server answers to a question: the truth, or classes of errors.
Truth(q, first, c) ==
  CASE q = "in_recovery" -> ~first
    [] q = "replicas" -> first /\ c.streaming /\ ~c.aurora
    [] q = "version" -> c.pg17
    [] q = "pgss_installed" -> c.pgss # "absent"
    [] OTHER -> TRUE

Errors(q, first, c) ==
  CASE q = "aurora_status" /\ ~c.aurora -> {"UndefinedFunction"}
    [] q = "aurora_status" /\ c.aurora /\ ~first -> {"InsufficientPrivilege", "ReadOnly"}
    [] q = "aurora_status" /\ c.aurora /\ first /\ ~c.privileged -> {"InsufficientPrivilege"}
    [] q = "own_lag" /\ c.aurora -> {"FeatureNotSupported"}
    [] q = "slots" /\ ~first -> {"NotInRecoveryState"}
    [] q = "pgss_view" /\ c.pgss = "absent" -> {"UndefinedTable"}
    [] q = "pgss_view" /\ c.pgss = "unloaded" -> {"ObjectNotInPrerequisiteState"}
    [] q = "pgss_view" /\ c.pgss = "old" -> {"UndefinedColumn"}
    [] q = "relation_sizes" /\ ~c.nameable -> {"UndefinedTable"}
    [] q \in {"checkpointer_view", "bgwriter_view"} /\ ~c.pg17 -> {"UndefinedTable"}
    [] q = "old_bgwriter_view" /\ c.pg17 -> {"UndefinedTable"}
    [] OTHER -> {}

Holds(condition, saw) ==
  CASE condition = "in_recovery" -> saw["in_recovery"] = "yes"
    [] condition = "no replicas" -> saw["replicas"] = "no"
    [] condition = "pg17" -> saw["version"] = "yes"
    [] condition = "before pg17" -> saw["version"] = "no"
    [] condition = "pgss" -> saw["pgss_installed"] = "yes"
    [] OTHER -> TRUE

\* Mutant: an Aurora cluster always gets a verdict.
MutVerdict(t, saw) ==
  CASE t = "pg_stat_replication" /\ saw["replicas"] = "no" ->
         IF saw["in_recovery"] = "yes" THEN "degraded" ELSE "no replicas"
    [] t = "top_queries" /\ saw["pgss_installed"] = "no" -> "degraded"
    [] OTHER -> "verdict"

\* What a tool returns when no exception left it.
Verdict(t, saw) ==
  CASE t = "replica_lag" /\ saw["aurora_status"] = "error" -> "degraded"
    [] t = "pg_stat_replication" /\ saw["replicas"] = "no" ->
         IF saw["in_recovery"] = "yes" THEN "degraded" ELSE "no replicas"
    [] t = "top_queries" /\ saw["pgss_installed"] = "no" -> "degraded"
    [] OTHER -> "verdict"
=============================================================================
