--------------------------- MODULE DbSession_proofs ---------------------------
(***************************************************************************)
(* Theorems about DbSession, for any number of failovers and of faults.    *)
(* What a call may conclude from the answers it has in hand depends on     *)
(* which statements it executed; so the scripts come first, and then the   *)
(* invariants of the loop over a script.                                   *)
(***************************************************************************)
EXTENDS DbSession, SequenceTheorems, TLAPS

S(q, when, catch) == [q |-> q, catch |-> catch, when |-> when]

LagErrors == {"UndefinedFunction", "InsufficientPrivilege", "FeatureNotSupported", "ReadOnly"}
OwnLagErrors == {"FeatureNotSupported", "UndefinedFunction", "InternalError"}

\* The scripts of the PostgreSQL tools, statement by statement.
LEMMA PgScripts ==
  /\ Pg!Script("replica_lag") =
       << S("connect", "always", {}), S("in_recovery", "always", {}),
          S("aurora_status", "always", LagErrors), S("own_lag", "in_recovery", OwnLagErrors) >>
  /\ Pg!Script("pg_stat_replication") =
       << S("connect", "always", {}), S("replicas", "always", {}),
          S("connect", "no replicas", {}), S("in_recovery", "no replicas", {}) >>
  /\ Pg!Script("xid_wraparound") =
       << S("connect", "always", {}), S("databases", "always", {}), S("freeze_max_age", "always", {}),
          S("connect", "always", Everything), S("tables", "always", Everything) >>
  /\ Pg!Script("checkpoint_stats") =
       << S("connect", "always", {}), S("version", "always", {}), S("checkpointer_view", "pg17", {}),
          S("bgwriter_view", "pg17", {}), S("old_bgwriter_view", "before pg17", {}) >>
  /\ Pg!Script("top_queries") =
       << S("connect", "always", {}), S("pgss_installed", "always", {}), S("pgss_view", "pgss", {}) >>
  /\ Pg!Script("replication_slots") =
       << S("connect", "always", {}), S("slots", "always", {}), S("wal_settings", "always", {}) >>
  /\ Pg!Script("table_sizes") =
       << S("connect", "always", {}), S("first", "always", {}), S("relation_sizes", "always", {}) >>
  /\ \A t \in {"plain", NoTool} :
       Pg!Script(t) = << S("connect", "always", {}), S("first", "always", {}), S("second", "always", {}) >>
<1>1. \A q : Pg!Try(Pg!Ask(q)) = S(q, "always", Everything)
  BY DEF Pg!Try, Pg!Ask, Pg!Everything, Everything, S
<1>2. \A q : Pg!Ask(q) = S(q, "always", {})
  BY DEF Pg!Ask, S
<1>3. \A q, c : Pg!AskIf(q, c) = S(q, c, {})
  BY DEF Pg!AskIf, S
<1>4. Pg!Connect = S("connect", "always", {}) /\ Pg!Try(Pg!Connect) = S("connect", "always", Everything)
  BY <1>1, <1>2 DEF Pg!Connect
<1>5. /\ [q |-> "aurora_status", when |-> "always", catch |-> LagErrors] = S("aurora_status", "always", LagErrors)
      /\ [q |-> "own_lag", when |-> "in_recovery", catch |-> OwnLagErrors] = S("own_lag", "in_recovery", OwnLagErrors)
  BY DEF S
<1>6. /\ Pg!Script("replica_lag") = Pg!replica_lag
      /\ Pg!Script("pg_stat_replication") = Pg!pg_stat_replication
      /\ Pg!Script("xid_wraparound") = Pg!xid_wraparound
      /\ Pg!Script("checkpoint_stats") = Pg!checkpoint_stats
      /\ Pg!Script("top_queries") = Pg!top_queries
      /\ Pg!Script("replication_slots") = Pg!replication_slots
      /\ Pg!Script("table_sizes") = Pg!table_sizes
      /\ \A t \in {"plain", NoTool} : Pg!Script(t) = Pg!plain
  BY DEF Pg!Script, NoTool
<1> QED
  BY <1>1, <1>2, <1>3, <1>4, <1>5, <1>6
     DEF Pg!replica_lag, Pg!pg_stat_replication, Pg!xid_wraparound, Pg!checkpoint_stats,
         Pg!top_queries, Pg!replication_slots, Pg!table_sizes, Pg!plain, LagErrors, OwnLagErrors

LEMMA TwoAndOne ==
  ASSUME NEW a, NEW b, NEW c
  PROVE  << a, b >> \o << c >> = << a, b, c >>
<1> DEFINE T == {a, b, c}
           u == << a, b >> \o << c >>
           v == << a, b, c >>
<1>1. u \in Seq(T) /\ v \in Seq(T) /\ Len(u) = 3 /\ Len(v) = 3
  OBVIOUS
<1>2. \A i \in 1..3 : u[i] = v[i]
  OBVIOUS
<1> HIDE DEF u, v, T
<1>3. u = v
  BY <1>1, <1>2, SeqEqual
<1> QED
  BY <1>3 DEF u, v

LEMMA TwoAndTwo ==
  ASSUME NEW a, NEW b, NEW c, NEW d
  PROVE  << a, b >> \o << c, d >> = << a, b, c, d >>
<1> DEFINE T == {a, b, c, d}
           u == << a, b >> \o << c, d >>
           v == << a, b, c, d >>
<1>1. u \in Seq(T) /\ v \in Seq(T) /\ Len(u) = 4 /\ Len(v) = 4
  OBVIOUS
<1>2. \A i \in 1..4 : u[i] = v[i]
  OBVIOUS
<1> HIDE DEF u, v, T
<1>3. u = v
  BY <1>1, <1>2, SeqEqual
<1> QED
  BY <1>3 DEF u, v

LEMMA TwoAndThree ==
  ASSUME NEW a, NEW b, NEW c, NEW d, NEW e
  PROVE  << a, b >> \o << c, d, e >> = << a, b, c, d, e >>
<1> DEFINE T == {a, b, c, d, e}
           u == << a, b >> \o << c, d, e >>
           v == << a, b, c, d, e >>
<1>1. u \in Seq(T) /\ v \in Seq(T) /\ Len(u) = 5 /\ Len(v) = 5
  OBVIOUS
<1>2. \A i \in 1..5 : u[i] = v[i]
  OBVIOUS
<1> HIDE DEF u, v, T
<1>3. u = v
  BY <1>1, <1>2, SeqEqual
<1> QED
  BY <1>3 DEF u, v

LEMMA FourAndTwo ==
  ASSUME NEW a, NEW b, NEW c, NEW d, NEW e, NEW f
  PROVE  << a, b, c, d >> \o << e, f >> = << a, b, c, d, e, f >>
<1> DEFINE T == {a, b, c, d, e, f}
           u == << a, b, c, d >> \o << e, f >>
           v == << a, b, c, d, e, f >>
<1>1. u \in Seq(T) /\ v \in Seq(T) /\ Len(u) = 6 /\ Len(v) = 6
  OBVIOUS
<1>2. \A i \in 1..6 : u[i] = v[i]
  OBVIOUS
<1> HIDE DEF u, v, T
<1>3. u = v
  BY <1>1, <1>2, SeqEqual
<1> QED
  BY <1>3 DEF u, v

\* Those of the MySQL tools.
LEMMA MyScripts ==
  /\ My!Script("counters") =
       << S("connect", "always", {}), S("max_execution_time", "always", Everything),
          S("ps_status", "always", Everything), S("show_status", "no ps_status", Everything),
          S("ps_variables", "always", Everything), S("show_variables", "no ps_variables", Everything) >>
  /\ My!Script("global_status") =
       << S("connect", "always", {}), S("max_execution_time", "always", Everything),
          S("ps_status", "always", Everything), S("show_status", "no ps_status", Everything) >>
  /\ My!Script("variables") =
       << S("connect", "always", {}), S("max_execution_time", "always", Everything),
          S("ps_variables", "always", Everything), S("show_variables", "no ps_variables", Everything) >>
  /\ My!Script("replica_status") =
       << S("connect", "always", {}), S("max_execution_time", "always", Everything),
          S("aurora_hosts", "always", Everything), S("replica", "no hosts", Everything),
          S("slave", "no hosts, replica failed", Everything) >>
  /\ My!Script("performance_view") =
       << S("connect", "always", {}), S("max_execution_time", "always", Everything),
          S("ps_view", "always", Everything) >>
  /\ My!Script("long_transactions") =
       << S("connect", "always", {}), S("max_execution_time", "always", Everything),
          S("innodb_trx", "always", {}) >>
  /\ \A t \in {"simple", NoTool} :
       My!Script(t) = << S("connect", "always", {}), S("max_execution_time", "always", Everything),
                         S("first", "always", {}), S("second", "always", {}) >>
<1>1. \A q : My!Try(My!Ask(q)) = S(q, "always", Everything)
  BY DEF My!Try, My!Ask, My!Everything, Everything, S
<1>2. \A q, c : My!Try(My!AskIf(q, c)) = S(q, c, Everything)
  BY DEF My!Try, My!AskIf, My!Everything, Everything, S
<1>3. \A q : My!Ask(q) = S(q, "always", {})
  BY DEF My!Ask, S
<1>4. My!Connect = S("connect", "always", {})
  BY <1>3 DEF My!Connect
<1>5. /\ My!Script("counters") = My!counters
      /\ My!Script("global_status") = My!global_status
      /\ My!Script("variables") = My!variables
      /\ My!Script("replica_status") = My!replica_status
      /\ My!Script("performance_view") = My!performance_view
      /\ My!Script("long_transactions") = My!long_transactions
      /\ \A t \in {"simple", NoTool} : My!Script(t) = My!simple
  BY DEF My!Script, NoTool
<1>6. /\ My!Session = << S("connect", "always", {}), S("max_execution_time", "always", Everything) >>
      /\ My!GlobalStatus = << S("ps_status", "always", Everything), S("show_status", "no ps_status", Everything) >>
      /\ My!GlobalVariables =
           << S("ps_variables", "always", Everything), S("show_variables", "no ps_variables", Everything) >>
  BY <1>1, <1>2, <1>4 DEF My!Session, My!GlobalStatus, My!GlobalVariables
<1> DEFINE connect == S("connect", "always", {})
           limit == S("max_execution_time", "always", Everything)
           status == S("ps_status", "always", Everything)
           showStatus == S("show_status", "no ps_status", Everything)
           variable == S("ps_variables", "always", Everything)
           showVariable == S("show_variables", "no ps_variables", Everything)
<1>7. << connect, limit >> \o << status, showStatus >> = << connect, limit, status, showStatus >>
  BY TwoAndTwo
<1>8. << connect, limit >> \o << variable, showVariable >> = << connect, limit, variable, showVariable >>
  BY TwoAndTwo
<1>9. << connect, limit, status, showStatus >> \o << variable, showVariable >>
        = << connect, limit, status, showStatus, variable, showVariable >>
  <2> HIDE DEF connect, limit, status, showStatus, variable, showVariable
  <2> QED
    BY FourAndTwo
<1>10. /\ My!counters = << connect, limit, status, showStatus, variable, showVariable >>
       /\ My!global_status = << connect, limit, status, showStatus >>
       /\ My!variables = << connect, limit, variable, showVariable >>
  BY <1>6, <1>7, <1>8, <1>9 DEF My!counters, My!global_status, My!variables
<1>11. My!performance_view = << connect, limit, S("ps_view", "always", Everything) >>
  <2>1. << connect, limit >> \o << S("ps_view", "always", Everything) >>
          = << connect, limit, S("ps_view", "always", Everything) >>
    BY TwoAndOne
  <2> QED
    BY <1>1, <1>6, <2>1 DEF My!performance_view
<1>12. My!simple = << connect, limit, S("first", "always", {}), S("second", "always", {}) >>
  <2>1. << connect, limit >> \o << S("first", "always", {}), S("second", "always", {}) >>
          = << connect, limit, S("first", "always", {}), S("second", "always", {}) >>
    BY TwoAndTwo
  <2> QED
    BY <1>3, <1>6, <2>1 DEF My!simple
<1>13. My!replica_status =
         << connect, limit, S("aurora_hosts", "always", Everything), S("replica", "no hosts", Everything),
            S("slave", "no hosts, replica failed", Everything) >>
  <2> DEFINE hosts == S("aurora_hosts", "always", Everything)
             replica == S("replica", "no hosts", Everything)
             slave == S("slave", "no hosts, replica failed", Everything)
  <2>1. << connect, limit >> \o << hosts, replica, slave >> = << connect, limit, hosts, replica, slave >>
    BY TwoAndThree
  <2> QED
    BY <1>1, <1>2, <1>6, <2>1 DEF My!replica_status
<1>14. My!long_transactions = << connect, limit, S("innodb_trx", "always", {}) >>
  <2>1. << connect, limit >> \o << S("innodb_trx", "always", {}) >>
          = << connect, limit, S("innodb_trx", "always", {}) >>
    BY TwoAndOne
  <2> QED
    BY <1>3, <1>6, <2>1 DEF My!long_transactions
<1> QED
  BY <1>5, <1>10, <1>11, <1>12, <1>13, <1>14
--------------------------------------------------------------------------
\* The questions a condition is about.
About(condition) ==
  CASE condition = "in_recovery" -> {"in_recovery"}
    [] condition = "no replicas" -> {"replicas"}
    [] condition \in {"pg17", "before pg17"} -> {"version"}
    [] condition = "pgss" -> {"pgss_installed"}
    [] condition = "no ps_status" -> {"ps_status"}
    [] condition = "no ps_variables" -> {"ps_variables"}
    [] condition = "no hosts" -> {"aurora_hosts"}
    [] condition = "no hosts, replica failed" -> {"aurora_hosts", "replica"}
    [] OTHER -> {}

\* A statement is executed at most once, and after what its condition and
\* those before it are about; a connection that may be refused is for tables,
\* and only the own lag of the server is asked after aurora_replica_status().
Before(s1, s2) ==
  /\ s2.q \notin About(s1.when)
  /\ s1.q = s2.q => s1.q = "connect"
  /\ s1.q = "connect" /\ s1.catch # {} => s2.q \in {"connect", "tables"}
  /\ s1.q = "aurora_status" => s2.q = "own_lag"

Ordered(script) == \A i, j \in 1..Len(script) : i < j => Before(script[i], script[j])

\* What a statement of a PostgreSQL tool catches, and when it is executed.
PgStatement(t, s) ==
  /\ s.q \in Questions \cup {"connect"}
  /\ s.q = "aurora_status" => s.catch = LagErrors /\ t = "replica_lag"
  /\ s.q = "own_lag" => s.when = "in_recovery"
  /\ s.q = "pgss_view" => s.when = "pgss" /\ t = "top_queries"
  /\ s.q = "relation_sizes" => t = "table_sizes"
  /\ s.q \in {"checkpointer_view", "bgwriter_view"} => s.when = "pg17"
  /\ s.q = "old_bgwriter_view" => s.when = "before pg17"
  /\ s.catch # {} => s.q \in {"connect", "aurora_status", "own_lag", "tables"}

\* What a statement of a MySQL tool catches: everything or nothing.
MyStatement(t, s) ==
  /\ s.q \in Questions \cup {"connect"}
  /\ s.q = "connect" => s.catch = {}
  /\ s.q = "innodb_trx" => t = "long_transactions"
  /\ s.q \notin {"connect", "first", "second", "innodb_trx"} => s.catch = Everything

LEMMA AboutIs ==
  /\ About("always") = {} /\ About("in_recovery") = {"in_recovery"} /\ About("no replicas") = {"replicas"}
  /\ About("pg17") = {"version"} /\ About("before pg17") = {"version"} /\ About("pgss") = {"pgss_installed"}
  /\ About("no ps_status") = {"ps_status"} /\ About("no ps_variables") = {"ps_variables"}
  /\ About("no hosts") = {"aurora_hosts"} /\ About("no hosts, replica failed") = {"aurora_hosts", "replica"}
  BY DEF About

LEMMA PgHoldsAbout ==
  ASSUME NEW condition, NEW old, NEW new, \A q \in About(condition) : old[q] = new[q]
  PROVE  Pg!Holds(condition, old) <=> Pg!Holds(condition, new)
  BY DEF About, Pg!Holds

LEMMA MyHoldsAbout ==
  ASSUME NEW condition, NEW old, NEW new, \A q \in About(condition) : old[q] = new[q]
  PROVE  My!Holds(condition, old) <=> My!Holds(condition, new)
  BY DEF About, My!Holds

LEMMA Words ==
  /\ Questions = {"in_recovery", "aurora_status", "own_lag", "replicas", "databases", "freeze_max_age",
                  "tables", "version", "checkpointer_view", "bgwriter_view", "old_bgwriter_view",
                  "pgss_installed", "pgss_view", "slots", "wal_settings", "relation_sizes", "first", "second",
                  "max_execution_time", "ps_status", "show_status", "ps_variables", "show_variables",
                  "aurora_hosts", "replica", "slave", "ps_view", "innodb_trx"}
  /\ "connect" \notin Questions
  BY DEF Questions, Pg!Questions, My!Questions

LEMMA OrderedThree ==
  ASSUME NEW a, NEW b, NEW c,
         Before(a, b), Before(a, c), Before(b, c)
  PROVE  Ordered(<< a, b, c >>)
  BY DEF Ordered

LEMMA OrderedFour ==
  ASSUME NEW a, NEW b, NEW c, NEW d,
         Before(a, b), Before(a, c), Before(b, c), Before(a, d), Before(b, d),
         Before(c, d)
  PROVE  Ordered(<< a, b, c, d >>)
  BY DEF Ordered

LEMMA OrderedFive ==
  ASSUME NEW a, NEW b, NEW c, NEW d, NEW e,
         Before(a, b), Before(a, c), Before(b, c), Before(a, d), Before(b, d),
         Before(c, d), Before(a, e), Before(b, e), Before(c, e), Before(d, e)
  PROVE  Ordered(<< a, b, c, d, e >>)
  BY DEF Ordered

LEMMA OrderedSix ==
  ASSUME NEW a, NEW b, NEW c, NEW d, NEW e, NEW f,
         Before(a, b), Before(a, c), Before(b, c), Before(a, d), Before(b, d),
         Before(c, d), Before(a, e), Before(b, e), Before(c, e), Before(d, e),
         Before(a, f), Before(b, f), Before(c, f), Before(d, f), Before(e, f)
  PROVE  Ordered(<< a, b, c, d, e, f >>)
  BY DEF Ordered

LEMMA PgShape ==
  ASSUME NEW t \in Pg!Tools \cup {NoTool}
  PROVE  /\ Len(Pg!Script(t)) \in 3..5 /\ Ordered(Pg!Script(t))
         /\ \A i \in 1..Len(Pg!Script(t)) : PgStatement(t, Pg!Script(t)[i])
<1>1. CASE t = "replica_lag"
  <2> DEFINE a == S("connect", "always", {})
             b == S("in_recovery", "always", {})
             c == S("aurora_status", "always", LagErrors)
             d == S("own_lag", "in_recovery", OwnLagErrors)
  <2>1. Pg!Script(t) = << a, b, c, d >>
    BY <1>1, PgScripts
  <2>2. /\ Before(a, b) /\ Before(a, c) /\ Before(b, c) /\ Before(a, d)
        /\ Before(b, d) /\ Before(c, d)
    BY AboutIs DEF Before, S
  <2>3. PgStatement(t, a) /\ PgStatement(t, b) /\ PgStatement(t, c) /\ PgStatement(t, d)
    BY <1>1, Words DEF PgStatement, S, LagErrors, OwnLagErrors
  <2> HIDE DEF a, b, c, d
  <2>4. Ordered(<< a, b, c, d >>)
    BY <2>2, OrderedFour
  <2> QED
    BY <2>1, <2>3, <2>4
<1>2. CASE t = "pg_stat_replication"
  <2> DEFINE a == S("connect", "always", {})
             b == S("replicas", "always", {})
             c == S("connect", "no replicas", {})
             d == S("in_recovery", "no replicas", {})
  <2>1. Pg!Script(t) = << a, b, c, d >>
    BY <1>2, PgScripts
  <2>2. /\ Before(a, b) /\ Before(a, c) /\ Before(b, c) /\ Before(a, d)
        /\ Before(b, d) /\ Before(c, d)
    BY AboutIs DEF Before, S
  <2>3. PgStatement(t, a) /\ PgStatement(t, b) /\ PgStatement(t, c) /\ PgStatement(t, d)
    BY <1>2, Words DEF PgStatement, S
  <2> HIDE DEF a, b, c, d
  <2>4. Ordered(<< a, b, c, d >>)
    BY <2>2, OrderedFour
  <2> QED
    BY <2>1, <2>3, <2>4
<1>3. CASE t = "xid_wraparound"
  <2> DEFINE a == S("connect", "always", {})
             b == S("databases", "always", {})
             c == S("freeze_max_age", "always", {})
             d == S("connect", "always", Everything)
             e == S("tables", "always", Everything)
  <2>1. Pg!Script(t) = << a, b, c, d, e >>
    BY <1>3, PgScripts
  <2>2. /\ Before(a, b) /\ Before(a, c) /\ Before(b, c) /\ Before(a, d)
        /\ Before(b, d) /\ Before(c, d) /\ Before(a, e) /\ Before(b, e)
        /\ Before(c, e) /\ Before(d, e)
    BY AboutIs DEF Before, S
  <2>3. PgStatement(t, a) /\ PgStatement(t, b) /\ PgStatement(t, c) /\ PgStatement(t, d) /\ PgStatement(t, e)
    BY <1>3, Words DEF PgStatement, S
  <2> HIDE DEF a, b, c, d, e
  <2>4. Ordered(<< a, b, c, d, e >>)
    BY <2>2, OrderedFive
  <2> QED
    BY <2>1, <2>3, <2>4
<1>4. CASE t = "checkpoint_stats"
  <2> DEFINE a == S("connect", "always", {})
             b == S("version", "always", {})
             c == S("checkpointer_view", "pg17", {})
             d == S("bgwriter_view", "pg17", {})
             e == S("old_bgwriter_view", "before pg17", {})
  <2>1. Pg!Script(t) = << a, b, c, d, e >>
    BY <1>4, PgScripts
  <2>2. /\ Before(a, b) /\ Before(a, c) /\ Before(b, c) /\ Before(a, d)
        /\ Before(b, d) /\ Before(c, d) /\ Before(a, e) /\ Before(b, e)
        /\ Before(c, e) /\ Before(d, e)
    BY AboutIs DEF Before, S
  <2>3. PgStatement(t, a) /\ PgStatement(t, b) /\ PgStatement(t, c) /\ PgStatement(t, d) /\ PgStatement(t, e)
    BY <1>4, Words DEF PgStatement, S
  <2> HIDE DEF a, b, c, d, e
  <2>4. Ordered(<< a, b, c, d, e >>)
    BY <2>2, OrderedFive
  <2> QED
    BY <2>1, <2>3, <2>4
<1>5. CASE t = "top_queries"
  <2> DEFINE a == S("connect", "always", {})
             b == S("pgss_installed", "always", {})
             c == S("pgss_view", "pgss", {})
  <2>1. Pg!Script(t) = << a, b, c >>
    BY <1>5, PgScripts
  <2>2. Before(a, b) /\ Before(a, c) /\ Before(b, c)
    BY AboutIs DEF Before, S
  <2>3. PgStatement(t, a) /\ PgStatement(t, b) /\ PgStatement(t, c)
    BY <1>5, Words DEF PgStatement, S
  <2> HIDE DEF a, b, c
  <2>4. Ordered(<< a, b, c >>)
    BY <2>2, OrderedThree
  <2> QED
    BY <2>1, <2>3, <2>4
<1>6. CASE t = "replication_slots"
  <2> DEFINE a == S("connect", "always", {})
             b == S("slots", "always", {})
             c == S("wal_settings", "always", {})
  <2>1. Pg!Script(t) = << a, b, c >>
    BY <1>6, PgScripts
  <2>2. Before(a, b) /\ Before(a, c) /\ Before(b, c)
    BY AboutIs DEF Before, S
  <2>3. PgStatement(t, a) /\ PgStatement(t, b) /\ PgStatement(t, c)
    BY <1>6, Words DEF PgStatement, S
  <2> HIDE DEF a, b, c
  <2>4. Ordered(<< a, b, c >>)
    BY <2>2, OrderedThree
  <2> QED
    BY <2>1, <2>3, <2>4
<1>7. CASE t \in {"plain", NoTool}
  <2> DEFINE a == S("connect", "always", {})
             b == S("first", "always", {})
             c == S("second", "always", {})
  <2>1. Pg!Script(t) = << a, b, c >>
    BY <1>7, PgScripts
  <2>2. Before(a, b) /\ Before(a, c) /\ Before(b, c)
    BY AboutIs DEF Before, S
  <2>3. PgStatement(t, a) /\ PgStatement(t, b) /\ PgStatement(t, c)
    BY <1>7, Words DEF PgStatement, S
  <2> HIDE DEF a, b, c
  <2>4. Ordered(<< a, b, c >>)
    BY <2>2, OrderedThree
  <2> QED
    BY <2>1, <2>3, <2>4
<1>8. CASE t = "table_sizes"
  <2> DEFINE a == S("connect", "always", {})
             b == S("first", "always", {})
             c == S("relation_sizes", "always", {})
  <2>1. Pg!Script(t) = << a, b, c >>
    BY <1>8, PgScripts
  <2>2. Before(a, b) /\ Before(a, c) /\ Before(b, c)
    BY AboutIs DEF Before, S
  <2>3. PgStatement(t, a) /\ PgStatement(t, b) /\ PgStatement(t, c)
    BY <1>8, Words DEF PgStatement, S
  <2> HIDE DEF a, b, c
  <2>4. Ordered(<< a, b, c >>)
    BY <2>2, OrderedThree
  <2> QED
    BY <2>1, <2>3, <2>4
<1> QED
  BY <1>1, <1>2, <1>3, <1>4, <1>5, <1>6, <1>7, <1>8 DEF Pg!Tools

LEMMA MyShape ==
  ASSUME NEW t \in My!Tools \cup {NoTool}
  PROVE  /\ Len(My!Script(t)) \in 3..6 /\ Ordered(My!Script(t))
         /\ \A i \in 1..Len(My!Script(t)) : MyStatement(t, My!Script(t)[i])
<1>1. CASE t = "counters"
  <2> DEFINE a == S("connect", "always", {})
             b == S("max_execution_time", "always", Everything)
             c == S("ps_status", "always", Everything)
             d == S("show_status", "no ps_status", Everything)
             e == S("ps_variables", "always", Everything)
             f == S("show_variables", "no ps_variables", Everything)
  <2>1. My!Script(t) = << a, b, c, d, e, f >>
    BY <1>1, MyScripts
  <2>2. /\ Before(a, b) /\ Before(a, c) /\ Before(b, c) /\ Before(a, d)
        /\ Before(b, d) /\ Before(c, d) /\ Before(a, e) /\ Before(b, e)
        /\ Before(c, e) /\ Before(d, e) /\ Before(a, f) /\ Before(b, f)
        /\ Before(c, f) /\ Before(d, f) /\ Before(e, f)
    BY AboutIs DEF Before, S
  <2>3. MyStatement(t, a) /\ MyStatement(t, b) /\ MyStatement(t, c) /\ MyStatement(t, d) /\ MyStatement(t, e) /\ MyStatement(t, f)
    BY Words DEF MyStatement, S
  <2> HIDE DEF a, b, c, d, e, f
  <2>4. Ordered(<< a, b, c, d, e, f >>)
    BY <2>2, OrderedSix
  <2> QED
    BY <2>1, <2>3, <2>4
<1>2. CASE t = "global_status"
  <2> DEFINE a == S("connect", "always", {})
             b == S("max_execution_time", "always", Everything)
             c == S("ps_status", "always", Everything)
             d == S("show_status", "no ps_status", Everything)
  <2>1. My!Script(t) = << a, b, c, d >>
    BY <1>2, MyScripts
  <2>2. /\ Before(a, b) /\ Before(a, c) /\ Before(b, c) /\ Before(a, d)
        /\ Before(b, d) /\ Before(c, d)
    BY AboutIs DEF Before, S
  <2>3. MyStatement(t, a) /\ MyStatement(t, b) /\ MyStatement(t, c) /\ MyStatement(t, d)
    BY Words DEF MyStatement, S
  <2> HIDE DEF a, b, c, d
  <2>4. Ordered(<< a, b, c, d >>)
    BY <2>2, OrderedFour
  <2> QED
    BY <2>1, <2>3, <2>4
<1>3. CASE t = "variables"
  <2> DEFINE a == S("connect", "always", {})
             b == S("max_execution_time", "always", Everything)
             c == S("ps_variables", "always", Everything)
             d == S("show_variables", "no ps_variables", Everything)
  <2>1. My!Script(t) = << a, b, c, d >>
    BY <1>3, MyScripts
  <2>2. /\ Before(a, b) /\ Before(a, c) /\ Before(b, c) /\ Before(a, d)
        /\ Before(b, d) /\ Before(c, d)
    BY AboutIs DEF Before, S
  <2>3. MyStatement(t, a) /\ MyStatement(t, b) /\ MyStatement(t, c) /\ MyStatement(t, d)
    BY Words DEF MyStatement, S
  <2> HIDE DEF a, b, c, d
  <2>4. Ordered(<< a, b, c, d >>)
    BY <2>2, OrderedFour
  <2> QED
    BY <2>1, <2>3, <2>4
<1>4. CASE t = "replica_status"
  <2> DEFINE a == S("connect", "always", {})
             b == S("max_execution_time", "always", Everything)
             c == S("aurora_hosts", "always", Everything)
             d == S("replica", "no hosts", Everything)
             e == S("slave", "no hosts, replica failed", Everything)
  <2>1. My!Script(t) = << a, b, c, d, e >>
    BY <1>4, MyScripts
  <2>2. /\ Before(a, b) /\ Before(a, c) /\ Before(b, c) /\ Before(a, d)
        /\ Before(b, d) /\ Before(c, d) /\ Before(a, e) /\ Before(b, e)
        /\ Before(c, e) /\ Before(d, e)
    BY AboutIs DEF Before, S
  <2>3. MyStatement(t, a) /\ MyStatement(t, b) /\ MyStatement(t, c) /\ MyStatement(t, d) /\ MyStatement(t, e)
    BY Words DEF MyStatement, S
  <2> HIDE DEF a, b, c, d, e
  <2>4. Ordered(<< a, b, c, d, e >>)
    BY <2>2, OrderedFive
  <2> QED
    BY <2>1, <2>3, <2>4
<1>5. CASE t = "performance_view"
  <2> DEFINE a == S("connect", "always", {})
             b == S("max_execution_time", "always", Everything)
             c == S("ps_view", "always", Everything)
  <2>1. My!Script(t) = << a, b, c >>
    BY <1>5, MyScripts
  <2>2. Before(a, b) /\ Before(a, c) /\ Before(b, c)
    BY AboutIs DEF Before, S
  <2>3. MyStatement(t, a) /\ MyStatement(t, b) /\ MyStatement(t, c)
    BY Words DEF MyStatement, S
  <2> HIDE DEF a, b, c
  <2>4. Ordered(<< a, b, c >>)
    BY <2>2, OrderedThree
  <2> QED
    BY <2>1, <2>3, <2>4
<1>6. CASE t \in {"simple", NoTool}
  <2> DEFINE a == S("connect", "always", {})
             b == S("max_execution_time", "always", Everything)
             c == S("first", "always", {})
             d == S("second", "always", {})
  <2>1. My!Script(t) = << a, b, c, d >>
    BY <1>6, MyScripts
  <2>2. /\ Before(a, b) /\ Before(a, c) /\ Before(b, c) /\ Before(a, d)
        /\ Before(b, d) /\ Before(c, d)
    BY AboutIs DEF Before, S
  <2>3. MyStatement(t, a) /\ MyStatement(t, b) /\ MyStatement(t, c) /\ MyStatement(t, d)
    BY Words DEF MyStatement, S
  <2> HIDE DEF a, b, c, d
  <2>4. Ordered(<< a, b, c, d >>)
    BY <2>2, OrderedFour
  <2> QED
    BY <2>1, <2>3, <2>4
<1>7. CASE t = "long_transactions"
  <2> DEFINE a == S("connect", "always", {})
             b == S("max_execution_time", "always", Everything)
             c == S("innodb_trx", "always", {})
  <2>1. My!Script(t) = << a, b, c >>
    BY <1>7, MyScripts
  <2>2. Before(a, b) /\ Before(a, c) /\ Before(b, c)
    BY AboutIs DEF Before, S
  <2>3. MyStatement(t, a) /\ MyStatement(t, b) /\ MyStatement(t, c)
    BY <1>7, Words DEF MyStatement, S
  <2> HIDE DEF a, b, c
  <2>4. Ordered(<< a, b, c >>)
    BY <2>2, OrderedThree
  <2> QED
    BY <2>1, <2>3, <2>4
<1> QED
  BY <1>1, <1>2, <1>3, <1>4, <1>5, <1>6, <1>7 DEF My!Tools
--------------------------------------------------------------------------
HoldsIn(postgres, condition, answers) ==
  IF postgres THEN Pg!Holds(condition, answers) ELSE My!Holds(condition, answers)

\* Every statement before n whose condition holds has an answer, or an error
\* that was caught.  The list of tables is left out: its connection may be
\* refused, and then the call goes on without it.
Considered(postgres, script, n, answers) ==
  \A i \in 1..Len(script) :
    i < n /\ script[i].q \notin {"connect", "tables"} /\ HoldsIn(postgres, script[i].when, answers) =>
      /\ answers[script[i].q] # "unasked"
      /\ answers[script[i].q] = "error" => script[i].catch # {}

\* A call starts with nothing in hand and ends without a connection.
RestInv ==
  /\ pc = "idle" =>
       /\ step = 1 /\ swallowed = {} /\ endpoint = "writer" /\ tool = NoTool
       /\ saw = [q \in Questions |-> "unasked"]
       /\ by = [q \in Questions |-> "nobody"]
  /\ pc # "idle" => tool \in Tools
  /\ pc # "running" => peer = NoServer
  /\ pc # "done" => result = "none"
  /\ pc = "done" /\ result # "exception" => result = Verdict(tool) /\ step = Len(Script(tool)) + 1

\* Without a failover the writer endpoint is the writer.
Primary == failovers = 0 /\ endpoint = "writer"

PlaceInv == Primary => peer \in {NoServer, writer}

\* What a server of a PostgreSQL cluster said of itself is true, of MySQL it
\* answers only what it has.
AnswerInv ==
  IF Postgres
  THEN /\ saw["in_recovery"] = "yes" => by["in_recovery"] = "standby" /\ ~Primary
       /\ saw["version"] = "yes" => cluster.pg17
       /\ saw["version"] = "no" => ~cluster.pg17
       /\ saw["pgss_installed"] = "yes" => cluster.pgss # "absent"
       /\ saw["pgss_installed"] = "no" => cluster.pgss = "absent"
       /\ \A q \in {"pgss_view", "relation_sizes"} : Answered(saw[q]) => Pg!Errors(q, TRUE, cluster) = {}
  ELSE \A q \in Questions : Answered(saw[q]) => My!Errors(q, TRUE, cluster) = {}

AskedInv == result # "exception" => Considered(Postgres, Script(tool), step, saw)

\* The transaction of a call to the writer of a healthy cluster is in order,
\* but after aurora_replica_status(), where only the own lag may follow.
TxInv ==
  /\ ~Postgres => tx # "aborted"
  /\ Quiet => tx # "lost"
  /\ Quiet /\ endpoint = "writer" /\ tx = "aborted" =>
       \E i \in 1..Len(Script(tool)) : i < step /\ Script(tool)[i].q = "aurora_status"

\* An error that was caught has a reason in the cluster, or it is a fault.
CauseInv ==
  result # "exception" =>
    IF Postgres
    THEN saw["aurora_status"] = "error" => ~cluster.aurora \/ ~cluster.privileged \/ ~Primary
    ELSE \A q \in Questions : saw[q] = "error" =>
           \/ "Lost" \in swallowed
           \/ "Timeout" \in swallowed
           \/ \E x \in My!Errors(q, TRUE, cluster) : x \in swallowed

\* A MySQL statement that nothing in the cluster refuses failed by a fault of
\* its own, unless the connection was lost.
FaultInv ==
  ~Postgres /\ result # "exception" /\ "Lost" \notin swallowed =>
    \A q \in Questions : saw[q] = "error" /\ My!Errors(q, TRUE, cluster) = {} =>
      /\ "Timeout" \in swallowed /\ faults > 0
      /\ \A r \in Questions \ {q} : saw[r] = "error" /\ My!Errors(r, TRUE, cluster) = {} => faults > 1

\* On a healthy writer only what a tool does not ask about raises.
ServedInv == Quiet /\ endpoint = "writer" /\ ~Unasked => result # "exception"

IInv ==
  /\ TypeOK /\ RestInv /\ PlaceInv /\ AnswerInv /\ AskedInv /\ TxInv /\ CauseInv /\ FaultInv
  /\ ServedInv
--------------------------------------------------------------------------
LEMMA Engines ==
  ASSUME cluster \in Pg!Clusters \cup My!Clusters
  PROVE  Postgres <=> cluster \in Pg!Clusters
  BY DEF Postgres, Pg!Clusters, My!Clusters

LEMMA PgErrorsType ==
  ASSUME NEW q, NEW first, NEW c
  PROVE  Pg!Errors(q, first, c) \subseteq Everything \ {"Lost", "Timeout"}
  BY DEF Pg!Errors, Everything

LEMMA MyErrorsType ==
  ASSUME NEW q, NEW first, NEW c
  PROVE  /\ My!Errors(q, first, c) \subseteq Everything \ {"Lost", "Timeout"}
         /\ My!Errors(q, first, c) = My!Errors(q, TRUE, c)
  BY DEF My!Errors, Everything

LEMMA VerdictType ==
  ASSUME NEW t
  PROVE  Verdict(t) \in {"verdict", "degraded", "no replicas"}
<1>1. Pg!Verdict(t, saw) \in {"verdict", "degraded", "no replicas"}
  BY DEF Pg!Verdict
<1>2. My!Verdict(t, saw) \in {"verdict", "degraded", "no replicas"}
  BY DEF My!Verdict
<1> QED
  BY <1>1, <1>2 DEF Verdict

LEMMA ScriptShape ==
  ASSUME NEW t \in Tools \cup {NoTool}
  PROVE  /\ Len(Script(t)) \in 3..6 /\ Len(Script(t)) \in Nat
         /\ Ordered(Script(t))
         /\ \A i \in 1..Len(Script(t)) :
              IF Postgres THEN PgStatement(t, Script(t)[i]) ELSE MyStatement(t, Script(t)[i])
<1>1. CASE Postgres
  BY <1>1, PgShape DEF Script, Tools
<1>2. CASE ~Postgres
  BY <1>2, MyShape DEF Script, Tools
<1> QED
  BY <1>1, <1>2

LEMMA Frame ==
  ASSUME cluster' = cluster
  PROVE  /\ Postgres' = Postgres
         /\ Tools' = Tools
         /\ tool' = tool => Script(tool)' = Script(tool)
         /\ tool' = tool /\ saw' = saw => Verdict(tool)' = Verdict(tool)
  BY DEF Postgres, Tools, Script, Verdict

\* An answer that nothing before it waited for.
LEMMA ConsideredNext ==
  ASSUME NEW postgres \in BOOLEAN, NEW script, NEW n \in 1..Len(script), Len(script) \in Nat,
         Ordered(script), NEW old \in [Questions -> {"unasked", "yes", "no", "error"}], NEW answer, script[n].q \in Questions,
         Considered(postgres, script, n, old),
         answer # "unasked", answer = "error" => script[n].catch # {}
  PROVE  Considered(postgres, script, n + 1, [old EXCEPT ![script[n].q] = answer])
<1> DEFINE new == [old EXCEPT ![script[n].q] = answer]
<1> SUFFICES ASSUME NEW i \in 1..Len(script), i < n + 1, script[i].q \notin {"connect", "tables"},
                    HoldsIn(postgres, script[i].when, new)
             PROVE  /\ new[script[i].q] # "unasked"
                    /\ new[script[i].q] = "error" => script[i].catch # {}
  BY DEF Considered
<1>1. CASE i = n
  BY <1>1
<1>2. CASE i < n
  <2>1. script[n].q \notin About(script[i].when) /\ script[i].q # script[n].q
    BY <1>2 DEF Ordered, Before
  <2>2. \A q \in About(script[i].when) : new[q] = old[q]
    BY <2>1
  <2>3. HoldsIn(postgres, script[i].when, old)
    BY <2>2, PgHoldsAbout, MyHoldsAbout DEF HoldsIn
  <2>4. new[script[i].q] = old[script[i].q]
    BY <2>1
  <2> QED
    BY <1>2, <2>3, <2>4 DEF Considered
<1> QED
  BY <1>1, <1>2

LEMMA ConsideredOver ==
  ASSUME NEW postgres \in BOOLEAN, NEW script, NEW n \in 1..Len(script), Len(script) \in Nat,
         NEW answers, Considered(postgres, script, n, answers),
         \/ script[n].q \in {"connect", "tables"}
         \/ ~HoldsIn(postgres, script[n].when, answers)
  PROVE  Considered(postgres, script, n + 1, answers)
  BY DEF Considered
--------------------------------------------------------------------------
LEMMA InitIInv == Init => IInv
<1> SUFFICES ASSUME Init PROVE IInv
  OBVIOUS
<1>1. /\ step = 1 /\ NoTool \in Tools \cup {NoTool} /\ tool = NoTool
      /\ Len(Script(tool)) \in 3..6
  <2>1. Len(Script(NoTool)) \in 3..6
    BY ScriptShape
  <2> QED
    BY <2>1 DEF Init
<1>2. TypeOK
  BY <1>1, BoundsAssumption DEF Init, TypeOK, Servers, NoServer, Everything
<1>3. RestInv
  BY DEF Init, RestInv
<1>4. \A q \in Questions : saw[q] = "unasked"
  BY DEF Init
<1>5. AnswerInv
  BY <1>4, Words DEF AnswerInv, Answered
<1>6. AskedInv
  BY <1>1 DEF AskedInv, Considered
<1>7. PlaceInv /\ TxInv /\ ServedInv
  BY DEF Init, PlaceInv, TxInv, ServedInv
<1>8. CauseInv
  BY <1>4, Words DEF CauseInv
<1>9. FaultInv
  BY <1>4 DEF FaultInv
<1> QED
  BY <1>2, <1>3, <1>5, <1>6, <1>7, <1>8, <1>9 DEF IInv

LEMMA Counters ==
  ASSUME IInv
  PROVE  /\ failovers \in Nat /\ failovers <= MaxFailovers /\ failovers + 1 # 0
         /\ faults \in Nat /\ faults <= MaxFaults /\ faults + 1 # 0
         /\ writer \in 1..2 /\ 3 - writer \in 1..2
<1>1. failovers \in 0..MaxFailovers /\ faults \in 0..MaxFaults /\ writer \in {1, 2}
  BY DEF IInv, TypeOK, Servers
<1> QED
  BY <1>1, BoundsAssumption

\* What a step that leaves the call and its answers alone keeps.
LEMMA CallStays ==
  ASSUME IInv, UNCHANGED <<cluster, faults, pc, tool, endpoint, step, saw, by, swallowed, result>>,
         failovers' = failovers \/ failovers' = failovers + 1, peer' = peer
  PROVE  RestInv' /\ AnswerInv' /\ AskedInv' /\ CauseInv' /\ FaultInv' /\ (failovers' = failovers => Quiet' = Quiet)
<1>1. /\ Postgres' = Postgres /\ Tools' = Tools /\ Script(tool)' = Script(tool)
      /\ Verdict(tool)' = Verdict(tool)
  BY Frame
<1>2. failovers \in Nat /\ (Primary' => Primary)
  BY Counters DEF Primary
<1>3. RestInv'
  BY <1>1 DEF IInv, RestInv
<1>4. AnswerInv'
  BY <1>1, <1>2 DEF IInv, AnswerInv
<1>5. AskedInv'
  BY <1>1 DEF IInv, AskedInv
<1>6. CauseInv'
  BY <1>1, <1>2 DEF IInv, CauseInv
<1>7. FaultInv'
  BY <1>1 DEF IInv, FaultInv
<1> QED
  BY <1>3, <1>4, <1>5, <1>6, <1>7 DEF Quiet

LEMMA StutterKeeps ==
  ASSUME IInv, UNCHANGED vars
  PROVE  IInv'
<1> USE DEF vars, environment, call, memory
<1>1. RestInv' /\ AnswerInv' /\ AskedInv' /\ CauseInv' /\ FaultInv' /\ Quiet' = Quiet
  BY CallStays
<1>2. /\ Postgres' = Postgres /\ Tools' = Tools /\ Script(tool)' = Script(tool)
  BY Frame
<1>3. TypeOK'
  BY <1>2 DEF IInv, TypeOK
<1>4. PlaceInv'
  BY DEF IInv, PlaceInv, Primary
<1>5. TxInv'
  BY <1>1, <1>2 DEF IInv, TxInv
<1>6. ServedInv'
  BY <1>1 DEF IInv, ServedInv, Unasked
<1> QED
  BY <1>1, <1>3, <1>4, <1>5, <1>6 DEF IInv

LEMMA FailoverKeeps ==
  ASSUME IInv, Failover
  PROVE  IInv'
<1>1. /\ failovers < MaxFailovers /\ failovers' = failovers + 1 /\ writer' = 3 - writer
      /\ UNCHANGED <<cluster, faults, pc, tool, endpoint, step, peer, saw, by, swallowed, result, raised>>
      /\ tx' \in (IF peer = writer THEN {"lost"} ELSE IF peer = NoServer THEN {tx} ELSE {tx, "lost"})
  BY DEF Failover, call, memory
<1>2. RestInv' /\ AnswerInv' /\ AskedInv' /\ CauseInv' /\ FaultInv'
  BY <1>1, CallStays
<1>3. /\ Postgres' = Postgres /\ Tools' = Tools /\ Script(tool)' = Script(tool)
  BY <1>1, Frame
<1>4. TypeOK'
  <2>1. writer' \in Servers /\ writer # NoServer
    BY <1>1, Counters DEF Servers, NoServer
  <2>2. failovers' \in 0..MaxFailovers
    BY <1>1, Counters, BoundsAssumption
  <2>3. tx' \in {"none", "open", "aborted", "lost"} /\ ((tx' = "none") <=> (peer' = NoServer))
    BY <1>1, <2>1 DEF IInv, TypeOK
  <2> QED
    BY <1>1, <1>3, <2>1, <2>2, <2>3 DEF IInv, TypeOK
<1>5. failovers' # 0
  BY <1>1, Counters
<1>6. PlaceInv' /\ ServedInv'
  BY <1>5 DEF PlaceInv, Primary, ServedInv, Quiet
<1>7. TxInv'
  BY <1>1, <1>3, <1>5 DEF IInv, TxInv, Quiet
<1> QED
  BY <1>2, <1>4, <1>6, <1>7 DEF IInv

LEMMA CallKeeps ==
  ASSUME IInv, NEW t \in Tools, NEW e \in {"writer", "reader"}, Call(t, e)
  PROVE  IInv'
<1>1. /\ pc = "idle" /\ pc' = "running" /\ tool' = t /\ endpoint' = e
      /\ UNCHANGED <<cluster, writer, failovers, faults, step, peer, tx, saw, by, swallowed, result, raised>>
  BY DEF Call, environment, memory
<1>2. /\ step = 1 /\ saw = [q \in Questions |-> "unasked"] /\ peer = NoServer /\ tx = "none"
      /\ result = "none"
  BY <1>1 DEF IInv, RestInv, TypeOK
<1>3. \A q \in Questions : saw'[q] = "unasked"
  BY <1>1, <1>2
<1>4. /\ Postgres' = Postgres /\ Tools' = Tools
  BY <1>1, Frame
<1>5. Len(Script(tool)') \in 3..6
  <2>1. Len(Script(t)) \in 3..6
    BY ScriptShape
  <2> QED
    BY <1>1, <2>1 DEF Script, Postgres
<1>6. TypeOK'
  BY <1>1, <1>2, <1>4, <1>5 DEF IInv, TypeOK
<1>7. RestInv'
  BY <1>1, <1>2, <1>4 DEF RestInv
<1>8. AnswerInv'
  BY <1>3, Words DEF AnswerInv, Answered
<1>9. AskedInv'
  BY <1>1, <1>2 DEF AskedInv, Considered
<1>10. PlaceInv' /\ TxInv' /\ ServedInv'
  BY <1>1, <1>2 DEF PlaceInv, TxInv, ServedInv
<1>11. CauseInv'
  BY <1>3, Words DEF CauseInv
<1>12. FaultInv'
  BY <1>3 DEF FaultInv
<1> QED
  BY <1>6, <1>7, <1>8, <1>9, <1>10, <1>11, <1>12 DEF IInv

\* Where a running call stands.
LEMMA Position ==
  ASSUME IInv, pc = "running"
  PROVE  /\ Len(Script(tool)) \in Nat /\ step \in Nat /\ Ordered(Script(tool))
         /\ step <= Len(Script(tool)) =>
              step \in 1..Len(Script(tool)) /\ step + 1 \in 1..(Len(Script(tool)) + 1)
         /\ Len(Script(tool)) + 1 \in 1..(Len(Script(tool)) + 1)
         /\ \A i \in 1..Len(Script(tool)) :
              IF Postgres THEN PgStatement(tool, Script(tool)[i]) ELSE MyStatement(tool, Script(tool)[i])
<1>1. tool \in Tools /\ step \in 1..(Len(Script(tool)) + 1)
  BY DEF IInv, RestInv, TypeOK
<1> QED
  BY <1>1, ScriptShape

\* PassOver: nothing asked, nothing learnt.
LEMMA PassOverKeeps ==
  ASSUME IInv, PassOver
  PROVE  IInv'
<1>1. /\ pc = "running" /\ step <= Len(Script(tool)) /\ step' = step + 1
      /\ UNCHANGED <<cluster, writer, failovers, faults, pc, tool, endpoint, peer, tx, saw, by,
                     swallowed, result, raised>>
  BY DEF PassOver, Running, environment, call, memory
<1>2. /\ Postgres' = Postgres /\ Tools' = Tools /\ Script(tool)' = Script(tool)
  BY <1>1, Frame
<1>3. /\ step \in 1..Len(Script(tool)) /\ step + 1 \in 1..(Len(Script(tool)) + 1)
      /\ Len(Script(tool)) \in Nat
  BY <1>1, Position
<1>4. TypeOK'
  BY <1>1, <1>2, <1>3 DEF IInv, TypeOK
<1>5. RestInv'
  BY <1>1, <1>2 DEF IInv, RestInv
<1>6. AskedInv'
  <2>1. Considered(Postgres, Script(tool), step, saw)
    BY <1>1 DEF IInv, AskedInv, RestInv
  <2>2. ~HoldsIn(Postgres, Script(tool)[step].when, saw)
    BY DEF PassOver, Current, Holds, HoldsIn
  <2>3. Considered(Postgres, Script(tool), step + 1, saw)
    BY <1>3, <2>1, <2>2, ConsideredOver DEF Postgres
  <2> QED
    BY <1>1, <1>2, <2>3 DEF AskedInv
<1>7. AnswerInv' /\ PlaceInv'
  BY <1>1, <1>2 DEF IInv, AnswerInv, PlaceInv, Primary
<1>8. CauseInv'
  BY <1>1, <1>2 DEF IInv, CauseInv, Primary
<1>9. FaultInv'
  BY <1>1, <1>2 DEF IInv, FaultInv
<1>10. TxInv'
  <2>1. \A i \in 1..Len(Script(tool)) : i < step => i < step + 1
    BY <1>3
  <2> QED
    BY <1>1, <1>2, <2>1 DEF IInv, TxInv, Quiet
<1>11. ServedInv'
  BY <1>1 DEF IInv, ServedInv, Quiet, Unasked
<1> QED
  BY <1>4, <1>5, <1>6, <1>7, <1>8, <1>9, <1>10, <1>11 DEF IInv

LEMMA ConcludeKeeps ==
  ASSUME IInv, Conclude
  PROVE  IInv'
<1>1. /\ pc = "running" /\ step = Len(Script(tool)) + 1 /\ result' = Verdict(tool) /\ pc' = "done"
      /\ peer' = NoServer /\ tx' = "none"
      /\ UNCHANGED <<cluster, writer, failovers, faults, tool, endpoint, step, saw, by, swallowed, raised>>
  BY DEF Conclude, environment, call, memory
<1>2. /\ Postgres' = Postgres /\ Tools' = Tools /\ Script(tool)' = Script(tool)
      /\ Verdict(tool)' = Verdict(tool)
  BY <1>1, Frame
<1>3. result' \in {"verdict", "degraded", "no replicas"}
  BY <1>1, VerdictType
<1>4. result = "none"
  BY <1>1 DEF IInv, RestInv
<1>5. TypeOK'
  BY <1>1, <1>2, <1>3 DEF IInv, TypeOK
<1>6. RestInv'
  BY <1>1, <1>2 DEF IInv, RestInv
<1>7. AnswerInv' /\ PlaceInv' /\ TxInv'
  BY <1>1, <1>2 DEF IInv, AnswerInv, PlaceInv, Primary, TxInv
<1>8. AskedInv'
  BY <1>1, <1>2, <1>4 DEF IInv, AskedInv
<1>9. CauseInv'
  BY <1>1, <1>2, <1>4 DEF IInv, CauseInv, Primary
<1>10. FaultInv'
  BY <1>1, <1>2, <1>4 DEF IInv, FaultInv
<1>11. ServedInv'
  BY <1>3 DEF ServedInv
<1> QED
  BY <1>5, <1>6, <1>7, <1>8, <1>9, <1>10, <1>11 DEF IInv

LEMMA FinishKeeps ==
  ASSUME IInv, Finish
  PROVE  IInv'
<1>1. /\ pc = "done" /\ pc' = "idle" /\ tool' = NoTool /\ endpoint' = "writer" /\ step' = 1
      /\ saw' = [q \in Questions |-> "unasked"] /\ by' = [q \in Questions |-> "nobody"]
      /\ swallowed' = {} /\ result' = "none" /\ raised' = "none"
      /\ UNCHANGED <<cluster, writer, failovers, faults, peer, tx>>
  BY DEF Finish, environment
<1>2. peer = NoServer /\ tx = "none"
  BY <1>1 DEF IInv, RestInv, TypeOK
<1>3. \A q \in Questions : saw'[q] = "unasked"
  BY <1>1
<1>4. /\ Postgres' = Postgres /\ Tools' = Tools
  BY <1>1, Frame
<1>5. Len(Script(tool)') \in 3..6
  <2>1. Len(Script(NoTool)) \in 3..6
    BY ScriptShape
  <2> QED
    BY <1>1, <2>1 DEF Script, Postgres
<1>6. TypeOK'
  <2>1. by' \in [Questions -> Roles \cup {"nobody"}]
    BY <1>1
  <2>2. saw' \in [Questions -> {"unasked", "yes", "no", "error"}]
    BY <1>1
  <2>3. step' \in 1..(Len(Script(tool)') + 1)
    BY <1>1, <1>5
  <2> QED
    BY <1>1, <1>2, <1>4, <2>1, <2>2, <2>3 DEF IInv, TypeOK
<1>7. RestInv'
  BY <1>1, <1>2 DEF RestInv
<1>8. AnswerInv'
  BY <1>3, Words DEF AnswerInv, Answered
<1>9. AskedInv'
  BY <1>1 DEF AskedInv, Considered
<1>10. PlaceInv' /\ TxInv' /\ ServedInv'
  BY <1>1, <1>2 DEF PlaceInv, TxInv, ServedInv
<1>11. CauseInv'
  BY <1>3, Words DEF CauseInv
<1>12. FaultInv'
  BY <1>3 DEF FaultInv
<1> QED
  BY <1>6, <1>7, <1>8, <1>9, <1>10, <1>11, <1>12 DEF IInv

\* OpenConnection: a new transaction, a call that goes on without its list of
\* tables, or the end of the call.
LEMMA OpenConnectionKeeps ==
  ASSUME IInv, OpenConnection
  PROVE  IInv'
<1>1. /\ pc = "running" /\ step <= Len(Script(tool)) /\ Script(tool)[step].q = "connect"
      /\ UNCHANGED <<cluster, writer, failovers, tool, endpoint, saw, by>>
  BY DEF OpenConnection, At, Running, Current, call
<1>2. /\ Postgres' = Postgres /\ Tools' = Tools /\ Script(tool)' = Script(tool)
      /\ result = "none" /\ tool \in Tools
  BY <1>1, Frame DEF IInv, RestInv
<1>3. /\ step \in 1..Len(Script(tool)) /\ step + 1 \in 1..(Len(Script(tool)) + 1)
      /\ Len(Script(tool)) \in Nat /\ step \in Nat
      /\ Len(Script(tool)) + 1 \in 1..(Len(Script(tool)) + 1)
  BY <1>1, Position
<1>4. Considered(Postgres, Script(tool), step, saw)
  BY <1>2 DEF IInv, AskedInv
<1>5. AnswerInv'
  BY <1>1, <1>2 DEF IInv, AnswerInv, Primary
<1>6. CASE /\ peer' = Target /\ tx' = "open" /\ step' = step + 1
           /\ UNCHANGED <<faults, pc, swallowed, result, raised>>
  <2>1. Target \in Servers /\ Target # NoServer /\ (endpoint = "writer" => Target = writer)
    <3>1. \E s \in Servers : s # writer
      BY Counters DEF Servers
    <3> QED
      BY <3>1, Counters DEF Target, Servers, NoServer
  <2>2. TypeOK'
    BY <1>1, <1>2, <1>3, <1>6, <2>1 DEF IInv, TypeOK
  <2>3. RestInv'
    BY <1>1, <1>2, <1>6 DEF IInv, RestInv
  <2>4. PlaceInv'
    BY <1>1, <1>6, <2>1 DEF PlaceInv, Primary
  <2>5. AskedInv'
    <3>1. Considered(Postgres, Script(tool), step + 1, saw)
      BY <1>1, <1>3, <1>4, ConsideredOver DEF Postgres
    <3> QED
      BY <1>1, <1>2, <1>6, <3>1 DEF AskedInv
  <2>6. TxInv' /\ ServedInv'
    BY <1>2, <1>6 DEF TxInv, ServedInv
  <2>7. CauseInv'
    BY <1>1, <1>2, <1>6 DEF IInv, CauseInv, Primary
  <2>8. FaultInv'
    BY <1>1, <1>2, <1>6 DEF IInv, FaultInv
  <2> QED
    BY <1>5, <2>2, <2>3, <2>4, <2>5, <2>6, <2>7, <2>8 DEF IInv
<1>7. CASE /\ faults < MaxFaults /\ faults' = faults + 1
           /\ "Refused" \in Script(tool)[step].catch
           /\ step' = Len(Script(tool)) + 1 /\ swallowed' = swallowed \cup {"Refused"}
           /\ peer' = NoServer /\ tx' = "none"
           /\ UNCHANGED <<pc, result, raised>>
  <2>1. Postgres /\ (\A j \in 1..Len(Script(tool)) : step < j => Script(tool)[j].q \in {"connect", "tables"})
    <3>1. Postgres
      BY <1>1, <1>3, <1>7, Position DEF MyStatement
    <3> QED
      BY <1>1, <1>3, <1>7, <3>1, Position DEF Ordered, Before
  <2>2. /\ faults' \in 0..MaxFaults /\ faults' # 0
    BY <1>7, Counters, BoundsAssumption
  <2>3. TypeOK'
    <3>1. swallowed' \subseteq Everything
      BY <1>7 DEF IInv, TypeOK, Everything
    <3> QED
      BY <1>1, <1>2, <1>3, <1>7, <2>2, <3>1 DEF IInv, TypeOK
  <2>4. RestInv'
    BY <1>1, <1>2, <1>7 DEF IInv, RestInv
  <2>5. PlaceInv' /\ TxInv' /\ ServedInv'
    BY <1>2, <1>7 DEF PlaceInv, TxInv, ServedInv
  <2>6. AskedInv'
    <3>1. \A i \in 1..Len(Script(tool)) : Script(tool)[i].q \notin {"connect", "tables"} => i < step
      BY <1>1, <1>3, <2>1
    <3>2. Considered(Postgres, Script(tool), Len(Script(tool)) + 1, saw)
      BY <1>4, <3>1 DEF Considered
    <3> QED
      BY <1>1, <1>2, <1>7, <3>2 DEF AskedInv
  <2>7. CauseInv'
    BY <1>1, <1>2, <1>7, <2>1 DEF IInv, CauseInv, Primary
  <2>8. FaultInv'
    BY <1>2, <2>1 DEF FaultInv
  <2> QED
    BY <1>5, <2>3, <2>4, <2>5, <2>6, <2>7, <2>8 DEF IInv
<1>8. CASE /\ faults < MaxFaults /\ faults' = faults + 1
           /\ pc' = "done" /\ result' = "exception" /\ raised' = "Refused"
           /\ tx' = "none" /\ peer' = NoServer
           /\ UNCHANGED <<step, swallowed>>
  <2>1. /\ faults' \in 0..MaxFaults /\ faults' # 0
    BY <1>8, Counters, BoundsAssumption
  <2>2. TypeOK'
    <3>1. raised' \in Everything
      BY <1>8 DEF Everything
    <3> QED
      BY <1>1, <1>2, <1>8, <2>1, <3>1 DEF IInv, TypeOK
  <2>3. RestInv' /\ PlaceInv' /\ TxInv'
    BY <1>1, <1>2, <1>8 DEF IInv, RestInv, PlaceInv, TxInv
  <2>4. AskedInv' /\ CauseInv' /\ FaultInv'
    BY <1>8 DEF AskedInv, CauseInv, FaultInv
  <2>5. ServedInv'
    BY <2>1 DEF ServedInv, Quiet
  <2> QED
    BY <1>5, <2>2, <2>3, <2>4, <2>5 DEF IInv
<1> QED
  BY <1>1, <1>6, <1>7, <1>8 DEF OpenConnection, At, Fault, Fail, Current
--------------------------------------------------------------------------
\* The statement a call is about to execute.
Here(q) ==
  /\ q \in Questions
  /\ pc = "running" /\ step <= Len(Script(tool))
  /\ Script(tool)[step].q = q
  /\ Holds(Script(tool)[step].when)

LEMMA HereIs ==
  ASSUME IInv, NEW q, Here(q)
  PROVE  /\ q # "connect" /\ result = "none" /\ tool \in Tools
         /\ step \in 1..Len(Script(tool)) /\ step + 1 \in 1..(Len(Script(tool)) + 1)
         /\ Len(Script(tool)) \in Nat /\ step \in Nat
         /\ IF Postgres THEN PgStatement(tool, Script(tool)[step]) ELSE MyStatement(tool, Script(tool)[step])
         /\ Considered(Postgres, Script(tool), step, saw)
         /\ saw \in [Questions -> {"unasked", "yes", "no", "error"}]
<1>1. result = "none" /\ tool \in Tools
  BY DEF Here, IInv, RestInv
<1>2. q # "connect"
  BY Words DEF Here
<1>3. Considered(Postgres, Script(tool), step, saw)
  BY <1>1 DEF IInv, AskedInv
<1>4. saw \in [Questions -> {"unasked", "yes", "no", "error"}]
  BY DEF IInv, TypeOK
<1> QED
  BY <1>1, <1>2, <1>3, <1>4, Position DEF Here

\* On the writer of a cluster a tool catches everything it may be refused, but
\* for what it does not ask about, and the only statement of a PostgreSQL tool
\* that is refused and caught is aurora_replica_status().
LEMMA RefusedOnWriter ==
  ASSUME IInv, NEW q, Here(q), Primary, peer # NoServer, NEW x \in Errors(q)
  PROVE  /\ x \in Script(tool)[step].catch \/ Unasked
         /\ Postgres /\ x \in Script(tool)[step].catch => q = "aurora_status"
<1>1. peer = writer
  BY DEF IInv, PlaceInv
<1>2. CASE Postgres
  <2>1. x \in Pg!Errors(q, TRUE, cluster)
    BY <1>1, <1>2 DEF Errors
  <2>2. PgStatement(tool, Script(tool)[step]) /\ Script(tool)[step].q = q
    BY <1>2, HereIs DEF Here
  <2>3. Pg!Holds(Script(tool)[step].when, saw)
    BY <1>2 DEF Here, Holds
  <2>4. q # "own_lag"
    <3>1. q = "own_lag" => saw["in_recovery"] = "yes"
      BY <2>2, <2>3 DEF PgStatement, Pg!Holds
    <3> QED
      BY <1>2, <3>1 DEF IInv, AnswerInv
  <2>5. q = "pgss_view" => cluster.pgss # "absent"
    <3>1. q = "pgss_view" => saw["pgss_installed"] = "yes"
      BY <2>2, <2>3 DEF PgStatement, Pg!Holds
    <3> QED
      BY <1>2, <3>1 DEF IInv, AnswerInv
  <2>6. q \in {"checkpointer_view", "bgwriter_view"} => cluster.pg17
    <3>1. q \in {"checkpointer_view", "bgwriter_view"} => saw["version"] = "yes"
      BY <2>2, <2>3 DEF PgStatement, Pg!Holds
    <3> QED
      BY <1>2, <3>1 DEF IInv, AnswerInv
  <2>7. q = "old_bgwriter_view" => ~cluster.pg17
    <3>1. q = "old_bgwriter_view" => saw["version"] = "no"
      BY <2>2, <2>3 DEF PgStatement, Pg!Holds
    <3> QED
      BY <1>2, <3>1 DEF IInv, AnswerInv
  <2>8. \/ q = "aurora_status" /\ x \in LagErrors
        \/ q = "pgss_view" /\ cluster.pgss \in {"unloaded", "old"}
        \/ q = "relation_sizes" /\ ~cluster.nameable
    BY <2>1, <2>4, <2>5, <2>6, <2>7 DEF Pg!Errors, LagErrors
  <2>9. q \in {"pgss_view", "relation_sizes"} => Script(tool)[step].catch = {}
    BY <2>2 DEF PgStatement
  <2> QED
    BY <2>2, <2>8, <2>9 DEF PgStatement, Unasked
<1>3. CASE ~Postgres
  <2>1. x \in My!Errors(q, peer = writer, cluster)
    BY <1>3 DEF Errors
  <2>2. q \notin {"first", "second"} /\ (q = "innodb_trx" => ~cluster.privileged)
    BY <2>1 DEF My!Errors
  <2>3. x \in Everything
    BY <2>1, MyErrorsType
  <2>4. MyStatement(tool, Script(tool)[step]) /\ Script(tool)[step].q = q /\ q # "connect"
    BY <1>3, HereIs DEF Here
  <2> QED
    BY <1>3, <2>2, <2>3, <2>4 DEF MyStatement, Unasked
<1> QED
  BY <1>2, <1>3

LEMMA AnswerKeeps ==
  ASSUME IInv, NEW q, Here(q), Answer(q), UNCHANGED <<cluster, writer, failovers, tool, endpoint>>
  PROVE  IInv'
<1>1. /\ tx = "open" /\ Errors(q) = {} /\ step' = step + 1
      /\ saw' = [saw EXCEPT ![q] = IF Truth(q) THEN "yes" ELSE "no"]
      /\ by' = [by EXCEPT ![q] = Role(peer)]
      /\ UNCHANGED <<cluster, writer, failovers, tool, endpoint, faults, pc, peer, tx, swallowed, result, raised>>
  BY DEF Answer
<1>2. /\ Postgres' = Postgres /\ Tools' = Tools /\ Script(tool)' = Script(tool)
  BY <1>1, Frame
<1>3. saw'[q] \in {"yes", "no"} /\ saw' = [saw EXCEPT ![q] = saw'[q]]
  BY <1>1, HereIs DEF Here
<1>4. \A r \in Questions \ {q} : saw'[r] = saw[r]
  BY <1>1, HereIs
<1>5. TypeOK'
  <2>1. saw' \in [Questions -> {"unasked", "yes", "no", "error"}]
    BY <1>1, HereIs
  <2>2. by' \in [Questions -> Roles \cup {"nobody"}]
    <3>1. by \in [Questions -> Roles \cup {"nobody"}]
      BY DEF IInv, TypeOK
    <3> QED
      BY <1>1, <3>1 DEF Role, Roles
  <2> QED
    BY <1>1, <1>2, <2>1, <2>2, HereIs DEF IInv, TypeOK
<1>6. RestInv'
  BY <1>1, <1>2, HereIs DEF IInv, RestInv, Here
<1>7. PlaceInv' /\ TxInv' /\ ServedInv'
  BY <1>1, <1>2, HereIs DEF IInv, PlaceInv, Primary, TxInv, ServedInv
<1>8. AnswerInv'
  <2>1. CASE Postgres
    <3>1. peer # NoServer
      BY <1>1 DEF IInv, TypeOK
    <3>2. Truth(q) = Pg!Truth(q, peer = writer, cluster)
      BY <2>1 DEF Truth
    <3>5. \A r \in {"pgss_view", "relation_sizes"} :
            Answered(saw'[r]) => Pg!Errors(r, TRUE, cluster) = {}
      <4>1. Pg!Errors(q, peer = writer, cluster) = {}
        BY <1>1, <2>1 DEF Errors
      <4>2. q \in {"pgss_view", "relation_sizes"} => Pg!Errors(q, TRUE, cluster) = {}
        BY <4>1 DEF Pg!Errors
      <4>3. \A r \in {"pgss_view", "relation_sizes"} : r # q => saw'[r] = saw[r]
        BY <1>4, Words
      <4> QED
        BY <2>1, <4>2, <4>3 DEF IInv, AnswerInv
    <3>3. CASE q = "in_recovery"
      <4>1. Truth(q) <=> peer # writer
        BY <3>2, <3>3 DEF Pg!Truth
      <4>2. peer # writer => by'[q] = "standby" /\ ~Primary
        <5>1. by \in [Questions -> Roles \cup {"nobody"}]
          BY DEF IInv, TypeOK
        <5> QED
          BY <1>1, <3>1, <5>1 DEF Here, Role, IInv, PlaceInv
      <4>3. saw'["in_recovery"] = "yes" => by'["in_recovery"] = "standby" /\ ~Primary'
        BY <1>1, <3>3, <4>1, <4>2, HereIs DEF Here, Primary
      <4>4. saw'["version"] = saw["version"] /\ saw'["pgss_installed"] = saw["pgss_installed"]
        BY <1>4, <3>3, Words
      <4> QED
        BY <1>1, <1>2, <2>1, <3>5, <4>3, <4>4 DEF IInv, AnswerInv
    <3>4. CASE q # "in_recovery"
      <4>1. saw'["in_recovery"] = saw["in_recovery"] /\ by'["in_recovery"] = by["in_recovery"]
        <5>1. by \in [Questions -> Roles \cup {"nobody"}]
          BY DEF IInv, TypeOK
        <5> QED
          BY <1>1, <1>4, <3>4, <5>1, Words
      <4>2. q = "version" => (Truth(q) <=> cluster.pg17)
        BY <3>2 DEF Pg!Truth
      <4>3. q = "pgss_installed" => (Truth(q) <=> cluster.pgss # "absent")
        BY <3>2 DEF Pg!Truth
      <4>4. /\ saw'["version"] = "yes" => cluster.pg17
            /\ saw'["version"] = "no" => ~cluster.pg17
        <5>1. CASE q = "version"
          BY <1>1, <4>2, <5>1, HereIs DEF Here
        <5>2. CASE q # "version"
          BY <1>4, <2>1, <5>2, Words DEF IInv, AnswerInv
        <5> QED
          BY <5>1, <5>2
      <4>5. /\ saw'["pgss_installed"] = "yes" => cluster.pgss # "absent"
            /\ saw'["pgss_installed"] = "no" => cluster.pgss = "absent"
        <5>1. CASE q = "pgss_installed"
          BY <1>1, <4>3, <5>1, HereIs DEF Here
        <5>2. CASE q # "pgss_installed"
          BY <1>4, <2>1, <5>2, Words DEF IInv, AnswerInv
        <5> QED
          BY <5>1, <5>2
      <4> QED
        BY <1>1, <1>2, <2>1, <3>5, <4>1, <4>4, <4>5 DEF IInv, AnswerInv, Primary
    <3> QED
      BY <3>3, <3>4
  <2>2. CASE ~Postgres
    <3>1. My!Errors(q, TRUE, cluster) = {}
      <4>1. My!Errors(q, peer = writer, cluster) = {}
        BY <1>1, <2>2 DEF Errors
      <4> QED
        BY <4>1, MyErrorsType
    <3>2. \A r \in Questions : Answered(saw'[r]) => My!Errors(r, TRUE, cluster) = {}
      BY <1>4, <2>2, <3>1 DEF IInv, AnswerInv
    <3> QED
      BY <1>1, <1>2, <2>2, <3>2 DEF AnswerInv
  <2> QED
    BY <2>1, <2>2
<1>9. AskedInv'
  <2> DEFINE script == Script(tool)
  <2>1. Considered(Postgres, script, step + 1, [saw EXCEPT ![script[step].q] = saw'[q]])
    <3>1. Ordered(script)
      BY Position DEF Here
    <3>2. saw \in [Questions -> {"unasked", "yes", "no", "error"}]
      BY HereIs
    <3> HIDE DEF script
    <3>3. Postgres \in BOOLEAN
      BY DEF Postgres
    <3>4. script[step].q \in Questions /\ saw'[q] # "unasked" /\ saw'[q] # "error"
      BY <1>3 DEF Here, script
    <3> QED
      BY <3>1, <3>2, <3>3, <3>4, HereIs, ConsideredNext DEF script
  <2> QED
    BY <1>1, <1>2, <1>3, <2>1 DEF Here, AskedInv
<1>10. CauseInv'
  <2>1. \A r \in Questions : saw'[r] = "error" => saw[r] = "error"
    BY <1>3, <1>4
  <2>2. saw'["aurora_status"] = "error" => saw["aurora_status"] = "error"
    BY <2>1, Words
  <2> QED
    BY <1>1, <1>2, <2>1, <2>2 DEF IInv, CauseInv, Primary
<1>11. FaultInv'
  <2>1. \A r \in Questions : saw'[r] = "error" => saw[r] = "error"
    BY <1>3, <1>4
  <2> QED
    BY <1>1, <1>2, <2>1 DEF IInv, FaultInv
<1> QED
  BY <1>5, <1>6, <1>7, <1>8, <1>9, <1>10, <1>11 DEF IInv

\* Why the statement raises x: the server refuses it, a fault, or what became
\* of the transaction before.
Cause(q, x) ==
  \/ tx = "open" /\ x \in Errors(q) /\ faults' = faults
  \/ tx = "open" /\ x \in {"Timeout", "Lost"} /\ faults < MaxFaults /\ faults' = faults + 1
  \/ tx = "aborted" /\ x = "InFailedTransaction" /\ faults' = faults
  \/ tx = "lost" /\ x = "Lost" /\ faults' = faults

LEMMA CauseType ==
  ASSUME IInv, NEW q, NEW x, Cause(q, x)
  PROVE  /\ x \in Everything
         /\ faults' \in 0..MaxFaults /\ faults' \in Nat /\ faults' >= faults
         /\ faults' # faults => faults' > 0 /\ faults' = faults + 1
         /\ tx # "none" /\ peer # NoServer
<1>1. Errors(q) \subseteq Everything
  BY PgErrorsType, MyErrorsType DEF Errors
<1>2. x \in Everything
  BY <1>1 DEF Cause, Everything
<1>3. tx # "none" /\ peer # NoServer
  BY DEF Cause, IInv, TypeOK
<1>4. faults' = faults \/ (faults' = faults + 1 /\ faults < MaxFaults)
  BY DEF Cause
<1> QED
  BY <1>2, <1>3, <1>4, Counters, BoundsAssumption

\* What every failure does to the answers, whether or not it was caught.
LEMMA FailureAnswers ==
  ASSUME IInv, NEW q, Here(q), NEW x, Cause(q, x),
         UNCHANGED <<cluster, writer, failovers, tool, endpoint, by>>,
         saw' = [saw EXCEPT ![q] = "error"]
  PROVE  /\ saw'[q] = "error" /\ (\A r \in Questions \ {q} : saw'[r] = saw[r])
         /\ saw' \in [Questions -> {"unasked", "yes", "no", "error"}]
         /\ AnswerInv'
<1>1. saw'[q] = "error" /\ (\A r \in Questions \ {q} : saw'[r] = saw[r])
  BY HereIs DEF Here
<1>2. saw' \in [Questions -> {"unasked", "yes", "no", "error"}]
  BY HereIs
<1>3. \A r \in Questions : r # q => saw'[r] = saw[r]
  BY <1>1
<1>4. Postgres' = Postgres /\ cluster' = cluster /\ by' = by /\ Primary' = Primary
  BY Frame DEF Primary
<1>5. ASSUME Postgres PROVE AnswerInv'
  <2>1. /\ saw'["in_recovery"] \in {"error", saw["in_recovery"]}
        /\ saw'["version"] \in {"error", saw["version"]}
        /\ saw'["pgss_installed"] \in {"error", saw["pgss_installed"]}
    BY <1>1, <1>3, Words
  <2>2. /\ saw'["in_recovery"] = "yes" => saw["in_recovery"] = "yes"
        /\ saw'["version"] = "yes" => saw["version"] = "yes"
        /\ saw'["version"] = "no" => saw["version"] = "no"
        /\ saw'["pgss_installed"] = "yes" => saw["pgss_installed"] = "yes"
        /\ saw'["pgss_installed"] = "no" => saw["pgss_installed"] = "no"
    BY <2>1
  <2>3. \A r \in {"pgss_view", "relation_sizes"} : Answered(saw'[r]) => Answered(saw[r])
    BY <1>1, <1>3, Words DEF Answered
  <2> QED
    BY <1>4, <1>5, <2>2, <2>3 DEF IInv, AnswerInv
<1>6. ASSUME ~Postgres PROVE AnswerInv'
  <2>1. \A r \in Questions : Answered(saw'[r]) => Answered(saw[r])
    BY <1>1, <1>3 DEF Answered
  <2>2. \A r \in Questions : Answered(saw[r]) => My!Errors(r, TRUE, cluster) = {}
    BY <1>6 DEF IInv, AnswerInv
  <2> QED
    BY <1>4, <1>6, <2>1, <2>2 DEF AnswerInv
<1> QED
  BY <1>1, <1>2, <1>5, <1>6

LEMMA RaisedKeeps ==
  ASSUME IInv, NEW q, Here(q), NEW x, Cause(q, x),
         UNCHANGED <<cluster, writer, failovers, tool, endpoint, by, step, swallowed>>,
         saw' = [saw EXCEPT ![q] = "error"],
         x \notin Script(tool)[step].catch,
         pc' = "done", result' = "exception", raised' = x, tx' = "none", peer' = NoServer
  PROVE  IInv'
<1>1. /\ Postgres' = Postgres /\ Tools' = Tools /\ Script(tool)' = Script(tool)
  BY Frame
<1>2. AnswerInv' /\ saw' \in [Questions -> {"unasked", "yes", "no", "error"}]
  BY FailureAnswers
<1>3. TypeOK'
  BY <1>1, <1>2, CauseType DEF IInv, TypeOK
<1>4. RestInv' /\ PlaceInv' /\ TxInv'
  BY <1>1, HereIs DEF RestInv, PlaceInv, TxInv
<1>5. AskedInv' /\ CauseInv' /\ FaultInv'
  BY DEF AskedInv, CauseInv, FaultInv
<1>6. ServedInv'
  <2> SUFFICES ASSUME Quiet', endpoint' = "writer", ~Unasked PROVE FALSE
    BY DEF ServedInv, Unasked
  <2>1. Quiet /\ Primary /\ faults' = faults
    BY CauseType DEF Quiet, Primary
  <2>2. CASE tx = "open"
    <3>1. x \in Errors(q)
      BY <2>1, <2>2, Counters DEF Cause
    <3> QED
      BY <2>1, <3>1, CauseType, RefusedOnWriter
  <2>3. CASE tx = "aborted"
    <3>1. PICK i \in 1..Len(Script(tool)) : i < step /\ Script(tool)[i].q = "aurora_status"
      BY <2>1, <2>3 DEF IInv, TxInv
    <3>2. q = "own_lag" /\ Postgres
      BY <2>3, <3>1, HereIs, Position DEF Here, Ordered, Before, IInv, TxInv
    <3>3. Script(tool)[step].when = "in_recovery"
      BY <3>2, HereIs DEF Here, PgStatement
    <3>4. saw["in_recovery"] = "yes"
      BY <3>2, <3>3 DEF Here, Holds, Pg!Holds
    <3> QED
      BY <2>1, <3>2, <3>4 DEF IInv, AnswerInv
  <2>4. CASE tx = "lost"
    BY <2>1, <2>4 DEF IInv, TxInv
  <2> QED
    BY <2>2, <2>3, <2>4 DEF Cause
<1> QED
  BY <1>2, <1>3, <1>4, <1>5, <1>6 DEF IInv

LEMMA AfterFailureIs ==
  ASSUME NEW x
  PROVE  AfterFailure(x) = IF peer = NoServer THEN "none"
                           ELSE IF x = "Lost" THEN "lost"
                           ELSE IF Postgres THEN "aborted" ELSE "open"
  BY DEF AfterFailure

LEMMA CaughtKeeps ==
  ASSUME IInv, NEW q, Here(q), NEW x, Cause(q, x),
         UNCHANGED <<cluster, writer, failovers, tool, endpoint, by, pc, peer, result, raised>>,
         saw' = [saw EXCEPT ![q] = "error"],
         x \in Script(tool)[step].catch,
         swallowed' = swallowed \cup {x}, step' = step + 1, tx' = AfterFailure(x)
  PROVE  IInv'
<1>1. /\ Postgres' = Postgres /\ Tools' = Tools /\ Script(tool)' = Script(tool)
      /\ cluster' = cluster /\ Primary' = Primary /\ endpoint' = endpoint
  BY Frame DEF Primary
<1>2. /\ AnswerInv' /\ saw' \in [Questions -> {"unasked", "yes", "no", "error"}]
      /\ saw'[q] = "error" /\ (\A r \in Questions \ {q} : saw'[r] = saw[r])
  BY FailureAnswers
<1>3. tx' = IF x = "Lost" THEN "lost" ELSE IF Postgres THEN "aborted" ELSE "open"
  BY CauseType, AfterFailureIs
<1>4. TypeOK'
  <2>1. swallowed' \subseteq Everything
    BY CauseType DEF IInv, TypeOK
  <2>2. tx' \in {"none", "open", "aborted", "lost"} /\ ((tx' = "none") <=> (peer' = NoServer))
    BY <1>3, CauseType
  <2>3. step' \in 1..(Len(Script(tool)) + 1)
    BY HereIs
  <2> QED
    BY <1>1, <1>2, <2>1, <2>2, <2>3, CauseType DEF IInv, TypeOK
<1>5. RestInv'
  BY <1>1, HereIs DEF IInv, RestInv, Here
<1>6. PlaceInv'
  BY <1>1 DEF IInv, PlaceInv
<1>7. AskedInv'
  <2> DEFINE script == Script(tool)
  <2>1. Considered(Postgres, script, step + 1, [saw EXCEPT ![script[step].q] = "error"])
    <3>1. Ordered(script)
      BY Position DEF Here
    <3>2. script[step].q \in Questions /\ script[step].catch # {}
      BY DEF Here
    <3> HIDE DEF script
    <3>3. Postgres \in BOOLEAN
      BY DEF Postgres
    <3> QED
      BY <3>1, <3>2, <3>3, HereIs, ConsideredNext DEF script
  <2> QED
    BY <1>1, <2>1 DEF Here, AskedInv
<1>8. TxInv'
  <2>1. ~Postgres' => tx' # "aborted"
    BY <1>1, <1>3
  <2>2. Quiet' => Quiet /\ faults' = faults
    BY CauseType DEF Quiet
  <2>3. Quiet' => tx' # "lost"
    <3>1. x = "Lost" => faults' = faults + 1 \/ tx = "lost"
      BY ZenonT(30), PgErrorsType, MyErrorsType DEF Cause, Errors
    <3>2. faults # faults + 1
      BY Counters
    <3>3. Quiet => tx # "lost"
      BY DEF IInv, TxInv
    <3> QED
      BY <1>3, <2>2, <3>1, <3>2, <3>3
  <2>4. ASSUME Quiet', endpoint' = "writer", tx' = "aborted"
        PROVE  \E i \in 1..Len(Script(tool)) : i < step + 1 /\ Script(tool)[i].q = "aurora_status"
    <3>1. Quiet /\ Primary /\ faults' = faults /\ Postgres
      BY <1>1, <1>3, <2>2, <2>4 DEF Quiet, Primary
    <3>2. CASE tx = "aborted"
      <4>1. PICK i \in 1..Len(Script(tool)) : i < step /\ Script(tool)[i].q = "aurora_status"
        BY <3>1, <3>2 DEF IInv, TxInv, Primary
      <4> QED
        BY <4>1, HereIs
    <3>3. CASE tx = "open"
      <4>1. x \in Errors(q)
        BY <3>1, <3>3, Counters DEF Cause
      <4>2. q = "aurora_status"
        BY <3>1, <4>1, CauseType, RefusedOnWriter
      <4> QED
        BY <4>2, HereIs DEF Here
    <3>4. CASE tx = "lost"
      BY <3>1, <3>4 DEF IInv, TxInv
    <3> QED
      BY <3>2, <3>3, <3>4 DEF Cause
  <2> QED
    BY <1>1, <2>1, <2>3, <2>4 DEF TxInv
<1>9. CauseInv'
  <2>1. CASE Postgres
    <3> SUFFICES ASSUME saw'["aurora_status"] = "error"
                 PROVE  ~cluster.aurora \/ ~cluster.privileged \/ ~Primary
      BY <1>1, <2>1 DEF CauseInv
    <3>1. CASE q # "aurora_status"
      <4>1. saw["aurora_status"] = "error"
        BY <1>2, <3>1, Words
      <4> QED
        BY <2>1, <4>1, HereIs DEF IInv, CauseInv
    <3>2. CASE q = "aurora_status"
      <4>1. x \in LagErrors
        BY <2>1, <3>2, HereIs DEF Here, PgStatement
      <4>2. tx = "open" /\ x \in Errors(q)
        BY <4>1 DEF Cause, LagErrors
      <4>3. x \in Pg!Errors("aurora_status", peer = writer, cluster)
        BY <2>1, <3>2, <4>2 DEF Errors
      <4>4. ~cluster.aurora \/ ~cluster.privileged \/ peer # writer
        BY <4>3 DEF Pg!Errors
      <4> QED
        BY <4>4, CauseType DEF IInv, PlaceInv
    <3> QED
      BY <3>1, <3>2
  <2>2. CASE ~Postgres
    <3> SUFFICES ASSUME NEW r \in Questions, saw'[r] = "error"
                 PROVE  \/ "Lost" \in swallowed'
                        \/ "Timeout" \in swallowed'
                        \/ \E y \in My!Errors(r, TRUE, cluster) : y \in swallowed'
      BY <1>1, <2>2 DEF CauseInv
    <3>1. CASE r # q
      <4>1. saw[r] = "error"
        BY <1>2, <3>1
      <4> QED
        BY <2>2, <4>1, HereIs DEF IInv, CauseInv
    <3>2. CASE r = q
      <4>1. x \in {"Timeout", "Lost"} \/ x \in Errors(q)
        BY <2>2 DEF Cause, IInv, TxInv
      <4>2. Errors(q) = My!Errors(q, TRUE, cluster)
        BY <2>2, MyErrorsType DEF Errors
      <4> QED
        BY <3>2, <4>1, <4>2
    <3> QED
      BY <3>1, <3>2
  <2> QED
    BY <2>1, <2>2
<1>10. FaultInv'
  <2> DEFINE Refused(r) == My!Errors(r, TRUE, cluster) # {}
  <2> SUFFICES ASSUME ~Postgres, "Lost" \notin swallowed',
                      NEW r \in Questions, saw'[r] = "error", ~Refused(r)
               PROVE  /\ "Timeout" \in swallowed' /\ faults' > 0
                      /\ \A r2 \in Questions \ {r} : saw'[r2] = "error" /\ ~Refused(r2) => faults' > 1
    BY <1>1 DEF FaultInv
  <2>1. "Lost" \notin swallowed /\ x # "Lost"
    OBVIOUS
  <2>2. ~Refused(q) => x = "Timeout" /\ faults' = faults + 1
    <3>1. Errors(q) = My!Errors(q, TRUE, cluster)
      BY MyErrorsType DEF Errors
    <3> QED
      BY <2>1, <3>1 DEF Cause, IInv, TxInv
  <2>3. \A r1 \in Questions : saw[r1] = "error" /\ ~Refused(r1) =>
          /\ "Timeout" \in swallowed /\ faults > 0
          /\ \A r2 \in Questions \ {r1} : saw[r2] = "error" /\ ~Refused(r2) => faults > 1
    BY <2>1, HereIs DEF IInv, FaultInv
  <2>4. faults \in Nat /\ faults' \in Nat /\ faults' >= faults
    BY CauseType, Counters
  <2> HIDE DEF Refused
  <2>5. CASE r = q
    <3>1. x = "Timeout" /\ faults' = faults + 1
      BY <2>2, <2>5
    <3>2. \A r2 \in Questions \ {r} : saw'[r2] = "error" /\ ~Refused(r2) => faults > 0
      BY <1>2, <2>3, <2>5
    <3> QED
      BY <2>4, <3>1, <3>2
  <2>6. CASE r # q
    <3>1. saw[r] = "error"
      BY <1>2, <2>6
    <3>2. "Timeout" \in swallowed /\ faults > 0
      BY <2>3, <3>1
    <3>3. ASSUME NEW r2 \in Questions \ {r}, saw'[r2] = "error", ~Refused(r2)
          PROVE  faults' > 1
      <4>1. CASE r2 = q
        BY <2>2, <2>4, <3>2, <3>3, <4>1
      <4>2. CASE r2 # q
        <5>1. saw[r2] = "error"
          BY <1>2, <3>3, <4>2
        <5>2. faults > 1
          BY <2>3, <3>1, <3>3, <5>1
        <5> QED
          BY <2>4, <5>2
      <4> QED
        BY <4>1, <4>2
    <3> QED
      BY <2>4, <3>2, <3>3
  <2> QED
    BY <2>5, <2>6
<1>11. ServedInv'
  BY HereIs DEF ServedInv
<1> QED
  BY <1>2, <1>4, <1>5, <1>6, <1>7, <1>8, <1>9, <1>10, <1>11 DEF IInv
--------------------------------------------------------------------------
LEMMA StatementKeeps ==
  ASSUME IInv, NEW q \in Questions, Statement(q)
  PROVE  IInv'
<1>1. Here(q) /\ UNCHANGED <<cluster, writer, failovers, tool, endpoint>>
  BY DEF Statement, At, Running, Current, Here, call
<1>2. CASE Answer(q)
  BY <1>1, <1>2, AnswerKeeps
<1>3. ASSUME NEW x, Cause(q, x), Fail(x), saw' = [saw EXCEPT ![q] = "error"], UNCHANGED by
      PROVE  IInv'
  <2>1. CASE x \in Script(tool)[step].catch
    <3>1. /\ swallowed' = swallowed \cup {x} /\ step' = step + 1 /\ tx' = AfterFailure(x)
          /\ UNCHANGED <<pc, peer, result, raised>>
      BY <1>3, <2>1 DEF Fail, Current
    <3> QED
      BY <1>1, <1>3, <2>1, <3>1, CaughtKeeps
  <2>2. CASE x \notin Script(tool)[step].catch
    <3>1. /\ pc' = "done" /\ result' = "exception" /\ raised' = x /\ tx' = "none" /\ peer' = NoServer
          /\ UNCHANGED <<step, swallowed>>
      BY <1>3, <2>2 DEF Fail, Current
    <3> QED
      BY <1>1, <1>3, <2>2, <3>1, RaisedKeeps
  <2> QED
    BY <2>1, <2>2
<1>4. Answer(q) \/ \E x : Cause(q, x) /\ Fail(x) /\ saw' = [saw EXCEPT ![q] = "error"] /\ UNCHANGED by
  BY DEF Statement, Cause, Fault
<1> QED
  BY <1>2, <1>3, <1>4

LEMMA StepIInv ==
  ASSUME IInv, [Next]_vars
  PROVE  IInv'
<1>1. CASE Failover
  BY <1>1, FailoverKeeps
<1>2. CASE \E t \in Tools, e \in {"writer", "reader"} : Call(t, e)
  BY <1>2, CallKeeps
<1>3. CASE PassOver
  BY <1>3, PassOverKeeps
<1>4. CASE OpenConnection
  BY <1>4, OpenConnectionKeeps
<1>5. CASE \E q \in Questions : Statement(q)
  BY <1>5, StatementKeeps
<1>6. CASE Conclude
  BY <1>6, ConcludeKeeps
<1>7. CASE Finish
  BY <1>7, FinishKeeps
<1>8. CASE UNCHANGED vars
  BY <1>8, StutterKeeps
<1> QED
  BY <1>1, <1>2, <1>3, <1>4, <1>5, <1>6, <1>7, <1>8 DEF Next, Progress

LEMMA InductiveInvariant == Spec => []IInv
<1>1. Init => IInv
  BY InitIInv
<1>2. IInv /\ [Next]_vars => IInv'
  BY StepIInv
<1> QED
  BY <1>1, <1>2, PTL DEF Spec
--------------------------------------------------------------------------
\* What the statements of a call that ended without an exception have left.
LEMMA Ended ==
  ASSUME IInv, result # "none", result # "exception"
  PROVE  /\ pc = "done" /\ tool \in Tools /\ result = Verdict(tool)
         /\ \A i \in 1..Len(Script(tool)) :
              Script(tool)[i].q \notin {"connect", "tables"} /\ Holds(Script(tool)[i].when) =>
                /\ saw[Script(tool)[i].q] \in {"yes", "no", "error"}
                /\ saw[Script(tool)[i].q] = "error" => Script(tool)[i].catch # {}
<1>1. pc = "done" /\ tool \in Tools /\ result = Verdict(tool) /\ step = Len(Script(tool)) + 1
  BY DEF IInv, RestInv
<1>2. Considered(Postgres, Script(tool), Len(Script(tool)) + 1, saw)
  BY <1>1 DEF IInv, AskedInv
<1>3. saw \in [Questions -> {"unasked", "yes", "no", "error"}]
  BY DEF IInv, TypeOK
<1> SUFFICES ASSUME NEW i \in 1..Len(Script(tool)), Script(tool)[i].q \notin {"connect", "tables"},
                    Holds(Script(tool)[i].when)
             PROVE  /\ saw[Script(tool)[i].q] \in {"yes", "no", "error"}
                    /\ saw[Script(tool)[i].q] = "error" => Script(tool)[i].catch # {}
  BY <1>1
<1>4. Script(tool)[i].q \in Questions
  <2>1. PgStatement(tool, Script(tool)[i]) \/ MyStatement(tool, Script(tool)[i])
    BY <1>1, ScriptShape
  <2> QED
    BY <2>1 DEF PgStatement, MyStatement
<1>5. HoldsIn(Postgres, Script(tool)[i].when, saw)
  BY DEF Holds, HoldsIn
<1>6. i < Len(Script(tool)) + 1
  <2>1. Len(Script(tool)) \in Nat
    BY <1>1, ScriptShape
  <2> QED
    BY <2>1
<1> QED
  BY <1>2, <1>3, <1>4, <1>5, <1>6 DEF Considered

Executes(script, s) == \E i \in 1..Len(script) : script[i] = s

\* The statements that the verdicts of the MySQL tools need.
LEMMA MyNeeds ==
  /\ \A t \in {"counters", "global_status"} :
       /\ Executes(My!Script(t), S("ps_status", "always", Everything))
       /\ Executes(My!Script(t), S("show_status", "no ps_status", Everything))
  /\ \A t \in {"counters", "variables"} :
       /\ Executes(My!Script(t), S("ps_variables", "always", Everything))
       /\ Executes(My!Script(t), S("show_variables", "no ps_variables", Everything))
  /\ /\ Executes(My!Script("replica_status"), S("aurora_hosts", "always", Everything))
     /\ Executes(My!Script("replica_status"), S("replica", "no hosts", Everything))
     /\ Executes(My!Script("replica_status"), S("slave", "no hosts, replica failed", Everything))
  /\ Executes(My!Script("performance_view"), S("ps_view", "always", Everything))
  /\ Executes(My!Script("long_transactions"), S("innodb_trx", "always", {}))
  /\ /\ Executes(My!Script("simple"), S("first", "always", {}))
     /\ Executes(My!Script("simple"), S("second", "always", {}))
<1>1. \A a, b, c : Executes(<< a, b, c >>, c)
  BY DEF Executes
<1>2. \A a, b, c, d : Executes(<< a, b, c, d >>, c) /\ Executes(<< a, b, c, d >>, d)
  BY DEF Executes
<1>3. \A a, b, c, d, e : /\ Executes(<< a, b, c, d, e >>, c)
                         /\ Executes(<< a, b, c, d, e >>, d)
                         /\ Executes(<< a, b, c, d, e >>, e)
  BY DEF Executes
<1>4. \A a, b, c, d, e, f : /\ Executes(<< a, b, c, d, e, f >>, c)
                            /\ Executes(<< a, b, c, d, e, f >>, d)
                            /\ Executes(<< a, b, c, d, e, f >>, e)
                            /\ Executes(<< a, b, c, d, e, f >>, f)
  BY DEF Executes
<1>5. /\ Executes(My!Script("counters"), S("ps_status", "always", Everything))
      /\ Executes(My!Script("counters"), S("show_status", "no ps_status", Everything))
      /\ Executes(My!Script("counters"), S("ps_variables", "always", Everything))
      /\ Executes(My!Script("counters"), S("show_variables", "no ps_variables", Everything))
  BY <1>4, MyScripts
<1>6. /\ Executes(My!Script("global_status"), S("ps_status", "always", Everything))
      /\ Executes(My!Script("global_status"), S("show_status", "no ps_status", Everything))
  BY <1>2, MyScripts
<1>7. /\ Executes(My!Script("variables"), S("ps_variables", "always", Everything))
      /\ Executes(My!Script("variables"), S("show_variables", "no ps_variables", Everything))
  BY <1>2, MyScripts
<1>8. /\ Executes(My!Script("replica_status"), S("aurora_hosts", "always", Everything))
      /\ Executes(My!Script("replica_status"), S("replica", "no hosts", Everything))
      /\ Executes(My!Script("replica_status"), S("slave", "no hosts, replica failed", Everything))
  BY <1>3, MyScripts
<1>9. /\ Executes(My!Script("performance_view"), S("ps_view", "always", Everything))
      /\ Executes(My!Script("long_transactions"), S("innodb_trx", "always", {}))
  BY <1>1, MyScripts
<1>10. /\ Executes(My!Script("simple"), S("first", "always", {}))
       /\ Executes(My!Script("simple"), S("second", "always", {}))
  <2>1. My!Script("simple") = << S("connect", "always", {}), S("max_execution_time", "always", Everything),
                                 S("first", "always", {}), S("second", "always", {}) >>
    BY MyScripts
  <2> QED
    BY <1>2, <2>1
<1>11. \A t \in {"counters", "global_status"} :
         /\ Executes(My!Script(t), S("ps_status", "always", Everything))
         /\ Executes(My!Script(t), S("show_status", "no ps_status", Everything))
  BY <1>5, <1>6
<1>12. \A t \in {"counters", "variables"} :
         /\ Executes(My!Script(t), S("ps_variables", "always", Everything))
         /\ Executes(My!Script(t), S("show_variables", "no ps_variables", Everything))
  BY <1>5, <1>7
<1> QED
  BY <1>8, <1>9, <1>10, <1>11, <1>12

\* An executed statement of a MySQL tool was answered, or it failed and that
\* was caught.
LEMMA MyEnded ==
  ASSUME IInv, ~Postgres, result # "none", result # "exception",
         NEW q, NEW when, NEW catch, Executes(My!Script(tool), S(q, when, catch)),
         q \notin {"connect", "tables"}, My!Holds(when, saw)
  PROVE  Answered(saw[q]) \/ (saw[q] = "error" /\ catch # {})
<1>1. PICK i \in 1..Len(My!Script(tool)) : My!Script(tool)[i] = S(q, when, catch)
  BY DEF Executes
<1>2. Script(tool) = My!Script(tool) /\ (Holds(when) <=> My!Holds(when, saw))
  BY DEF Script, Holds
<1>3. /\ Script(tool)[i].q = q /\ Script(tool)[i].when = when /\ Script(tool)[i].catch = catch
  BY <1>1, <1>2 DEF S
<1> QED
  BY <1>1, <1>2, <1>3, Ended DEF Answered

\* With nothing caught it was answered.
LEMMA MyAnswered ==
  ASSUME IInv, ~Postgres, result # "none", result # "exception",
         NEW q, Executes(My!Script(tool), S(q, "always", {})), q \notin {"connect", "tables"}
  PROVE  Answered(saw[q])
<1>1. My!Holds("always", saw)
  BY DEF My!Holds
<1>2. Answered(saw[q]) \/ (saw[q] = "error" /\ {} # {})
  BY <1>1, MyEnded
<1> QED
  BY <1>2

\* The same for the PostgreSQL tools.
LEMMA PgEnded ==
  ASSUME IInv, Postgres, result # "none", result # "exception",
         NEW q, NEW when, NEW catch, Executes(Pg!Script(tool), S(q, when, catch)),
         q \notin {"connect", "tables"}, Pg!Holds(when, saw)
  PROVE  Answered(saw[q]) \/ (saw[q] = "error" /\ catch # {})
<1>1. PICK i \in 1..Len(Pg!Script(tool)) : Pg!Script(tool)[i] = S(q, when, catch)
  BY DEF Executes
<1>2. Script(tool) = Pg!Script(tool) /\ (Holds(when) <=> Pg!Holds(when, saw))
  BY DEF Script, Holds
<1>3. /\ Script(tool)[i].q = q /\ Script(tool)[i].when = when /\ Script(tool)[i].catch = catch
  BY <1>1, <1>2 DEF S
<1> QED
  BY <1>1, <1>2, <1>3, Ended DEF Answered

\* A call to a healthy writer that needed what it did not ask about has raised.
LEMMA RaisesFor == IInv => RaisesForUnasked
<1> SUFFICES ASSUME IInv, Quiet, endpoint = "writer", pc = "done"
             PROVE  result = "exception" <=> Unasked
  BY DEF RaisesForUnasked
<1>1. result = "exception" => Unasked
  BY DEF IInv, ServedInv
<1>2. ASSUME Unasked, result # "exception" PROVE FALSE
  <2>1. result # "none"
    BY <1>2, VerdictType DEF IInv, RestInv
  <2>2. tool \in Tools
    BY <1>2, <2>1, Ended
  <2>3. \A a, b, c : Executes(<< a, b, c >>, b) /\ Executes(<< a, b, c >>, c)
    BY DEF Executes
  <2>4. CASE tool = "top_queries" /\ cluster.pgss \in {"unloaded", "old"}
    <3>1. Postgres
      BY <2>2, <2>4 DEF Tools, My!Tools
    <3>2. /\ Executes(Pg!Script(tool), S("pgss_installed", "always", {}))
          /\ Executes(Pg!Script(tool), S("pgss_view", "pgss", {}))
      BY <2>3, <2>4, PgScripts
    <3>3. Pg!Holds("always", saw)
      BY DEF Pg!Holds
    <3>4. Answered(saw["pgss_installed"])
      BY <1>2, <2>1, <3>1, <3>2, <3>3, PgEnded
    <3>5. saw["pgss_installed"] = "yes"
      BY <2>4, <3>1, <3>4 DEF IInv, AnswerInv, Answered
    <3>6. Pg!Holds("pgss", saw)
      BY <3>5 DEF Pg!Holds
    <3>7. Answered(saw["pgss_view"])
      BY <1>2, <2>1, <3>1, <3>2, <3>6, PgEnded
    <3>8. Pg!Errors("pgss_view", TRUE, cluster) # {}
      BY <2>4 DEF Pg!Errors
    <3> QED
      BY <3>1, <3>7, <3>8 DEF IInv, AnswerInv
  <2>5. CASE tool = "table_sizes" /\ ~cluster.nameable
    <3>1. Postgres
      BY <2>2, <2>5 DEF Tools, My!Tools
    <3>2. Executes(Pg!Script(tool), S("relation_sizes", "always", {}))
      BY <2>3, <2>5, PgScripts
    <3>3. Pg!Holds("always", saw)
      BY DEF Pg!Holds
    <3>4. Answered(saw["relation_sizes"])
      BY <1>2, <2>1, <3>1, <3>2, <3>3, PgEnded
    <3>5. Pg!Errors("relation_sizes", TRUE, cluster) # {}
      BY <2>5 DEF Pg!Errors
    <3> QED
      BY <3>1, <3>4, <3>5 DEF IInv, AnswerInv
  <2>6. CASE tool = "long_transactions" /\ ~cluster.privileged
    <3>1. ~Postgres
      BY <2>2, <2>6 DEF Tools, Pg!Tools
    <3>2. Executes(My!Script(tool), S("innodb_trx", "always", {}))
      BY <2>6, MyNeeds
    <3>3. Answered(saw["innodb_trx"])
      BY <1>2, <2>1, <3>1, <3>2, MyAnswered
    <3>4. My!Errors("innodb_trx", TRUE, cluster) # {}
      BY <2>6 DEF My!Errors
    <3> QED
      BY <3>1, <3>3, <3>4, Words DEF IInv, AnswerInv
  <2> QED
    BY <1>2, <2>4, <2>5, <2>6 DEF Unasked
<1> QED
  BY <1>1, <1>2

LEMMA VerdictsRest == IInv => VerdictComplete
<1> SUFFICES ASSUME IInv, result \in {"verdict", "no replicas"}
             PROVE  IF Postgres THEN \A q \in Asked(tool) \ Optional : Answered(saw[q])
                    ELSE \A alternatives \in My!Needs(tool, cluster) :
                           (\E q \in alternatives : Answered(saw[q])) \/ Hidden
  BY DEF VerdictComplete
<1>1. tool \in Tools /\ result = Verdict(tool)
  BY Ended
<1>2. ASSUME Postgres, NEW q \in Asked(tool) \ Optional
      PROVE  Answered(saw[q])
  <2>1. PICK i \in 1..Len(Script(tool)) :
          Script(tool)[i].q = q /\ Holds(Script(tool)[i].when) /\ q \notin {"connect", "tables", "own_lag"}
    BY <1>2 DEF Asked, Optional
  <2>2. /\ saw[q] \in {"yes", "no", "error"}
        /\ saw[q] = "error" => Script(tool)[i].catch # {}
    BY <2>1, Ended
  <2>3. PgStatement(tool, Script(tool)[i])
    BY <1>1, <1>2, ScriptShape
  <2>4. saw[q] # "error"
    <3> SUFFICES ASSUME saw[q] = "error" PROVE FALSE
      OBVIOUS
    <3>1. q = "aurora_status" /\ tool = "replica_lag"
      BY <2>1, <2>2, <2>3 DEF PgStatement
    <3>2. Verdict(tool) = "degraded"
      BY <1>2, <3>1 DEF Verdict, Pg!Verdict
    <3> QED
      BY <1>1, <3>2
  <2> QED
    BY <2>2, <2>4 DEF Answered
<1>3. ASSUME ~Postgres, NEW alternatives \in My!Needs(tool, cluster), ~Hidden,
             \A q \in alternatives : ~Answered(saw[q])
      PROVE  FALSE
  <2>1. "Lost" \notin swallowed
    BY <1>3 DEF Hidden
  <2>2. \A q \in Questions : saw[q] = "error" /\ My!Errors(q, TRUE, cluster) = {} =>
          /\ "Timeout" \in swallowed /\ faults > 0
          /\ \A r \in Questions \ {q} : saw[r] = "error" /\ My!Errors(r, TRUE, cluster) = {} => faults > 1
    BY <1>3, <2>1 DEF IInv, FaultInv
  \* Two ways to the same counters: one failure, and then one more.
  <2>3. ASSUME NEW first, NEW second, NEW condition, alternatives = {first, second},
               first \in {"ps_status", "ps_variables"}, second \in {"show_status", "show_variables"},
               Executes(My!Script(tool), S(first, "always", Everything)),
               Executes(My!Script(tool), S(second, condition, Everything)),
               saw[first] = "error" => My!Holds(condition, saw)
        PROVE  FALSE
    <3>1. My!Holds("always", saw)
      BY DEF My!Holds
    <3>2. saw[first] = "error"
      BY <1>3, <2>3, <3>1, MyEnded
    <3>3. saw[second] = "error"
      BY <1>3, <2>3, <3>2, MyEnded
    <3>4. first \in Questions /\ second \in Questions /\ first # second
      BY <2>3, Words
    <3>5. My!Errors(second, TRUE, cluster) = {}
      BY <2>3 DEF My!Errors
    <3>6. cluster.v8 /\ cluster.privileged => My!Errors(first, TRUE, cluster) = {}
      BY <2>3 DEF My!Errors
    <3>7. "Timeout" \in swallowed
      BY <2>2, <3>3, <3>4, <3>5
    <3>8. cluster.v8 /\ cluster.privileged => faults > 1
      BY <2>2, <3>2, <3>3, <3>4, <3>5, <3>6
    <3> QED
      BY <1>3, <3>7, <3>8 DEF Hidden
  <2>4. ASSUME alternatives = {"ps_status", "show_status"}, tool \in {"counters", "global_status"}
        PROVE  FALSE
    <3>1. saw["ps_status"] = "error" => My!Holds("no ps_status", saw)
      BY DEF My!Holds
    <3> QED
      BY <2>3, <2>4, <3>1, MyNeeds
  <2>5. ASSUME alternatives = {"ps_variables", "show_variables"}, tool \in {"counters", "variables"}
        PROVE  FALSE
    <3>1. saw["ps_variables"] = "error" => My!Holds("no ps_variables", saw)
      BY DEF My!Holds
    <3> QED
      BY <2>3, <2>5, <3>1, MyNeeds
  <2>6. CASE tool \in {"counters", "global_status", "variables"}
    <3>1. \/ alternatives = {"ps_status", "show_status"} /\ tool \in {"counters", "global_status"}
          \/ alternatives = {"ps_variables", "show_variables"} /\ tool \in {"counters", "variables"}
      BY <1>3, <2>6 DEF My!Needs
    <3> QED
      BY <2>4, <2>5, <3>1
  <2>7. CASE tool = "replica_status"
    <3>1. My!Holds("always", saw) /\ "aurora_hosts" \in Questions /\ "slave" \in Questions
      BY Words DEF My!Holds
    <3>2. Answered(saw["aurora_hosts"]) \/ saw["aurora_hosts"] = "error"
      BY <1>3, <2>7, <3>1, MyEnded, MyNeeds
    <3>3. ~("Timeout" \in swallowed) /\ ~("InsufficientPrivilege" \in swallowed)
      BY <1>3, <2>7 DEF Hidden
    <3>4. CASE cluster.aurora
      <4>1. saw["aurora_hosts"] = "error"
        BY <1>3, <2>7, <3>2, <3>4 DEF My!Needs
      <4>2. My!Errors("aurora_hosts", TRUE, cluster) = {}
        BY <3>4 DEF My!Errors
      <4> QED
        BY <2>2, <3>1, <3>3, <4>1, <4>2
    <3>5. CASE ~cluster.aurora
      <4>1. ~Answered(saw["replica"]) /\ ~Answered(saw["slave"])
        BY <1>3, <2>7, <3>5 DEF My!Needs
      <4>2. My!Errors("aurora_hosts", TRUE, cluster) # {}
        BY <3>5 DEF My!Errors
      <4>3. saw["aurora_hosts"] = "error"
        BY <1>3, <3>1, <3>2, <4>2 DEF IInv, AnswerInv
      <4>4. My!Holds("no hosts", saw)
        BY <4>3 DEF My!Holds
      <4>5. saw["replica"] = "error"
        BY <1>3, <2>7, <4>1, <4>4, MyEnded, MyNeeds
      <4>6. My!Holds("no hosts, replica failed", saw)
        BY <4>3, <4>5 DEF My!Holds
      <4>7. saw["slave"] = "error"
        BY <1>3, <2>7, <4>1, <4>6, MyEnded, MyNeeds
      <4>8. My!Errors("slave", TRUE, cluster) \subseteq {"InsufficientPrivilege"}
        BY DEF My!Errors
      <4> QED
        BY <1>3, <2>1, <3>1, <3>3, <4>7, <4>8, Ended DEF IInv, CauseInv
    <3> QED
      BY <3>4, <3>5
  <2>8. CASE tool = "performance_view"
    <3>1. alternatives = {"ps_view"} /\ My!Holds("always", saw)
      BY <1>3, <2>8 DEF My!Needs, My!Holds
    <3>2. saw["ps_view"] = "error"
      BY <1>3, <2>8, <3>1, MyEnded, MyNeeds
    <3>3. Verdict(tool) = "degraded"
      BY <1>3, <2>8, <3>2 DEF Verdict, My!Verdict
    <3> QED
      BY <1>1, <3>3
  <2>9. CASE tool = "simple"
    <3>1. alternatives \in {{"first"}, {"second"}} /\ My!Holds("always", saw)
      BY <1>3, <2>9 DEF My!Needs, My!Holds
    <3>2. Answered(saw["first"]) /\ Answered(saw["second"])
      BY <1>3, <2>9, <3>1, MyEnded, MyNeeds
    <3> QED
      BY <1>3, <3>1, <3>2
  <2>10. CASE tool = "long_transactions"
    <3>1. alternatives = {"innodb_trx"}
      BY <1>3, <2>10 DEF My!Needs
    <3>2. Executes(My!Script(tool), S("innodb_trx", "always", {}))
      BY <2>10, MyNeeds
    <3>3. Answered(saw["innodb_trx"])
      BY <1>3, <3>2, MyAnswered
    <3> QED
      BY <1>3, <3>1, <3>3
  <2> QED
    BY <1>1, <1>3, <2>6, <2>7, <2>8, <2>9, <2>10 DEF Tools, My!Tools
<1> QED
  BY <1>2, <1>3

LEMMA DegradedFor == IInv => DegradedHasReason
<1> SUFFICES ASSUME IInv, result = "degraded"
             PROVE  \/ /\ tool = "replica_lag"
                       /\ ~cluster.aurora \/ ~cluster.privileged \/ endpoint = "reader" \/ failovers > 0
                    \/ tool = "pg_stat_replication" /\ by["in_recovery"] = "standby"
                    \/ tool = "top_queries" /\ cluster.pgss = "absent"
                    \/ /\ tool = "performance_view"
                       /\ ~cluster.v8 \/ ~cluster.privileged \/ swallowed \cap {"Timeout", "Lost"} # {}
  BY DEF DegradedHasReason
<1>1. tool \in Tools /\ result = Verdict(tool)
  BY Ended
<1>2. ~Primary => endpoint = "reader" \/ failovers > 0
  <2>1. endpoint \in {"writer", "reader"}
    BY DEF IInv, TypeOK
  <2> QED
    BY <2>1, Counters DEF Primary
<1>3. CASE Postgres
  <2>1. \/ tool = "replica_lag" /\ saw["aurora_status"] = "error"
        \/ tool = "pg_stat_replication" /\ saw["in_recovery"] = "yes"
        \/ tool = "top_queries" /\ saw["pgss_installed"] = "no"
    BY <1>1, <1>3 DEF Verdict, Pg!Verdict
  <2>2. saw["aurora_status"] = "error" => ~cluster.aurora \/ ~cluster.privileged \/ ~Primary
    BY <1>3 DEF IInv, CauseInv
  <2>3. /\ saw["in_recovery"] = "yes" => by["in_recovery"] = "standby"
        /\ saw["pgss_installed"] = "no" => cluster.pgss = "absent"
    BY <1>3 DEF IInv, AnswerInv
  <2> QED
    BY <1>2, <2>1, <2>2, <2>3
<1>4. CASE ~Postgres
  <2>1. tool = "performance_view" /\ saw["ps_view"] = "error"
    BY <1>1, <1>4 DEF Verdict, My!Verdict
  <2>2. "ps_view" \in Questions
    BY Words
  <2>3. \/ "Lost" \in swallowed \/ "Timeout" \in swallowed
        \/ \E x \in My!Errors("ps_view", TRUE, cluster) : x \in swallowed
    BY <1>4, <2>1, <2>2 DEF IInv, CauseInv
  <2>4. cluster.v8 /\ cluster.privileged => My!Errors("ps_view", TRUE, cluster) = {}
    BY DEF My!Errors
  <2> QED
    BY <2>1, <2>3, <2>4
<1> QED
  BY <1>3, <1>4
--------------------------------------------------------------------------
\* Every variable has its type, and a call has a transaction exactly while it
\* is connected, for any number of failovers and faults.
THEOREM TypeCorrect == Spec => []TypeOK
<1>1. IInv => TypeOK
  BY DEF IInv
<1> QED
  BY <1>1, InductiveInvariant, PTL

\* On the writer endpoint of a healthy cluster a tool of the PostgreSQL or the
\* MySQL server raises exactly where it needs what it does not ask about.  All
\* else a server refuses there is caught, and the transaction that aborts has
\* no statement after it.
THEOREM WritersAreServed == Spec => []RaisesForUnasked
<1> QED
  BY RaisesFor, InductiveInvariant, PTL

\* A verdict rests on an answer to every statement it needs, but for what the
\* clauses of the MySQL server hide.
THEOREM VerdictsAreComplete == Spec => []VerdictComplete
<1> QED
  BY VerdictsRest, InductiveInvariant, PTL

\* A degraded result has a reason in the cluster, not in a fault, but where a
\* clause of the MySQL server takes everything.
THEOREM DegradedIsJustified == Spec => []DegradedHasReason
<1> QED
  BY DegradedFor, InductiveInvariant, PTL
===============================================================================
