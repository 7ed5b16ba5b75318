----------------------------- MODULE RedisVerdict -----------------------------
(***************************************************************************)
(* What the ElastiCache inspection tools make of INFO, CLIENT LIST,        *)
(* SLOWLOG, CLUSTER and SCAN, one operator for each tool, and what those   *)
(* commands can return.                                                    *)
(***************************************************************************)
EXTENDS Grading
--------------------------------------------------------------------------
inspect_overview(blocked) == Verdict(0, IF blocked THEN <<1>> ELSE <<>>)

\* Fragmentation of 2.0 and more is a critical finding, but raises the
\* status to "warning" only.
inspect_memory(used, frag, evicted) ==
  Verdict(Worst(<<used, If(frag >= 1, 1), If(evicted, 1)>>), Raised(<<used, frag, If(evicted, 1)>>))

\* rows: the slow log, newest entry first.
inspect_slow_queries(rows) == Verdict(Worst(rows), rows)

inspect_clients(total, long_idle) == Verdict(total, Raised(<<If(long_idle, 1)>>))

inspect_keyspace(rows) == Verdict(0, FirstFew(All(0, rows)))

inspect_stats(low_hits, rejected) == Checks(<<If(low_hits, 1), If(rejected, 1)>>)

\* rows: lag of the replicas of a master.
inspect_replication(rows, master, link_up, late) ==
  CASE master /\ rows = <<>> -> Verdict(1, <<1>>)
    [] master /\ rows # <<>> -> Checks(rows)
    [] ~master /\ ~link_up -> Verdict(2, <<2>>)
    [] ~master /\ link_up -> Verdict(If(late, 1), <<>>)

inspect_persistence(rdb, aof_failed, rewrite_failed) ==
  Checks(<<rdb, If(aof_failed, 2), If(rewrite_failed, 1)>>)

inspect_big_keys(rows) == Verdict(Worst(rows), rows)

\* Without LFU the keys are listed by idle time and none of them is graded.
inspect_hot_keys(rows, lfu) == IF lfu THEN Verdict(Worst(rows), rows) ELSE Verdict(0, All(0, rows))

\* pct: 1 from 75 %, 2 from 80 %, 3 from 90 % of maxmemory; 0 without one.
inspect_eviction(limited, pct, noeviction, evicted) ==
  LET grade == IF pct = 3 THEN 2 ELSE If(pct >= 1, 1)
  IN  Verdict(IF limited THEN grade ELSE 1,
              Raised(<<grade, If(noeviction /\ pct >= 2, 1), If(evicted, 1)>>))

\* broken: what CLUSTER INFO and CLUSTER NODES would show.  A command that
\* was refused shows nothing: its checks are passed over.
Shows(broken, info, nodes) ==
  broken \cap ((IF info THEN {"state", "slots"} ELSE {}) \cup (IF nodes THEN {"links"} ELSE {}))

inspect_cluster_mode(rows, enabled, broken, info, nodes, replicas) ==
  LET shown == Shows(broken, info, nodes)
      listed == IF nodes THEN First(20, rows) ELSE <<>>
      alone == listed # <<>> /\ ~replicas
  IN  IF enabled
      THEN Verdict(IF shown # {} THEN 2 ELSE If(alone, 1), [i \in 1..Cardinality(shown) |-> 2] \o All(0, listed))
      ELSE Verdict(0, <<>>)

\* rows: subscribers with a large output buffer, the largest first.
inspect_pubsub(rows) == Verdict(Worst(AtLeastWarning(rows)), FirstFew(All(1, rows)))
--------------------------------------------------------------------------
Tools == {"overview", "memory", "slow_queries", "clients", "keyspace", "stats", "replication",
          "persistence", "big_keys", "hot_keys", "eviction", "cluster_mode", "pubsub"}

\* The others take a top_n.
Unlimited == Tools \ {"slow_queries", "big_keys", "hot_keys"}

Rows(t) ==
  CASE t \in {"slow_queries", "replication"} -> Lists(Grades)
    [] t \in {"keyspace", "cluster_mode"} -> Lists({0})
    [] t = "big_keys" -> {s \in Lists(Grades) : Descending(s)}
    [] t = "hot_keys" -> {s \in Lists({0, 1}) : Descending(s)}
    [] t = "pubsub" -> {s \in Lists({1, 2}) : Descending(s)}
    [] OTHER -> {<<>>}

Totals(t, rows) ==
  CASE t = "overview" -> [blocked : BOOLEAN]
    [] t = "memory" -> [used : Grades, frag : Grades, evicted : BOOLEAN]
    [] t = "clients" -> [total : Grades, long_idle : BOOLEAN]
    [] t = "stats" -> [low_hits : BOOLEAN, rejected : BOOLEAN]
    [] t = "replication" ->
         [master : IF rows = <<>> THEN BOOLEAN ELSE {TRUE}, link_up : BOOLEAN, late : BOOLEAN]
    [] t = "persistence" -> [rdb : Grades, aof_failed : BOOLEAN, rewrite_failed : BOOLEAN]
    [] t = "hot_keys" -> [lfu : BOOLEAN]
    [] t = "eviction" ->
         {f \in [limited : BOOLEAN, pct : 0..3, noeviction : BOOLEAN, evicted : BOOLEAN] :
            f.limited \/ f.pct = 0}
    [] t = "cluster_mode" ->
         [enabled : IF rows = <<>> THEN {FALSE} ELSE BOOLEAN,
          broken : SUBSET {"state", "slots", "links"}, info : BOOLEAN, nodes : BOOLEAN, replicas : BOOLEAN]
    [] OTHER -> {0}

Judge(t, rows, f) ==
  CASE t = "overview" -> inspect_overview(f.blocked)
    [] t = "memory" -> inspect_memory(f.used, f.frag, f.evicted)
    [] t = "slow_queries" -> inspect_slow_queries(rows)
    [] t = "clients" -> inspect_clients(f.total, f.long_idle)
    [] t = "keyspace" -> inspect_keyspace(rows)
    [] t = "stats" -> inspect_stats(f.low_hits, f.rejected)
    [] t = "replication" -> inspect_replication(rows, f.master, f.link_up, f.late)
    [] t = "persistence" -> inspect_persistence(f.rdb, f.aof_failed, f.rewrite_failed)
    [] t = "big_keys" -> inspect_big_keys(rows)
    [] t = "hot_keys" -> inspect_hot_keys(rows, f.lfu)
    [] t = "eviction" -> inspect_eviction(f.limited, f.pct, f.noeviction, f.evicted)
    [] t = "cluster_mode" ->
         inspect_cluster_mode(rows, f.enabled, f.broken, f.info, f.nodes, f.replicas)
    [] t = "pubsub" -> inspect_pubsub(rows)
=============================================================================
