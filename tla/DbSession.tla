----------------------------- MODULE DbSession -----------------------------
(***************************************************************************)
(* One call of an inspection tool of the PostgreSQL or the MySQL server    *)
(* that talks to one database.  psycopg opens a transaction with the first *)
(* statement of a connection; a statement that fails aborts it, whether or *)
(* not Python catches the exception, and every later statement on that     *)
(* connection then fails.  MySQL undoes the statement and goes on.         *)
(*                                                                         *)
(* The cluster has two servers; a failover may happen between any two      *)
(* steps of a call.  PgStatements and MyStatements say which statements a  *)
(* tool executes and what it makes of the answers.                         *)
(***************************************************************************)
EXTENDS Naturals, Sequences, Statements

CONSTANTS
  MaxFailovers,    \* bound on failovers
  MaxFaults        \* bound on connections refused or lost and statements timed out

ASSUME BoundsAssumption == MaxFailovers \in Nat /\ MaxFaults \in Nat

VARIABLES
  cluster,         \* what the cluster offers, see Pg!Clusters and My!Clusters
  writer,          \* the server that is writable now
  failovers, faults,
  pc, tool,
  endpoint,        \* "writer" (.cluster-) or "reader" (.cluster-ro-)
  step,            \* next statement of Script(tool)
  peer,            \* server of the open connection, or NoServer
  tx,              \* "open" or "aborted", while connected
  saw,             \* saw[q]: answer to q the call has in hand
  by,              \* history: role of the server when it answered q
  swallowed,       \* history: classes of the exceptions that were caught
  result, raised   \* how the call ended, and with which exception

environment == <<cluster, writer, failovers, faults>>
call == <<tool, endpoint>>
memory == <<saw, by, swallowed>>
vars == <<environment, pc, call, step, peer, tx, memory, result, raised>>

Servers == {1, 2}
NoServer == 0
NoTool == "none"
Roles == {"writer", "standby"}
Role(s) == IF s = writer THEN "writer" ELSE "standby"
Target == IF endpoint = "writer" THEN writer ELSE CHOOSE s \in Servers : s # writer

Pg == INSTANCE PgStatements
My == INSTANCE MyStatements

Postgres == cluster.engine = "postgres"
Script(t) == IF Postgres THEN Pg!Script(t) ELSE My!Script(t)
Tools == IF Postgres THEN Pg!Tools ELSE My!Tools
Questions == Pg!Questions \cup My!Questions

Errors(q) ==
  IF Postgres THEN Pg!Errors(q, peer = writer, cluster) ELSE My!Errors(q, peer = writer, cluster)

Truth(q) ==
  IF Postgres THEN Pg!Truth(q, peer = writer, cluster) ELSE My!Truth(q, peer = writer, cluster)

Holds(condition) == IF Postgres THEN Pg!Holds(condition, saw) ELSE My!Holds(condition, saw)
Verdict(t) == IF Postgres THEN Pg!Verdict(t, saw) ELSE My!Verdict(t, saw)

Current == Script(tool)[step]
Running == pc = "running" /\ step <= Len(Script(tool))
At(q) == Running /\ Holds(Current.when) /\ Current.q = q
--------------------------------------------------------------------------
Init ==
  /\ cluster \in Pg!Clusters \cup My!Clusters
  /\ writer = 1
  /\ failovers = 0 /\ faults = 0
  /\ pc = "idle" /\ tool = NoTool /\ endpoint = "writer"
  /\ step = 1
  /\ peer = NoServer
  /\ tx = "none"
  /\ saw = [q \in Questions |-> "unasked"]
  /\ by = [q \in Questions |-> "nobody"]
  /\ swallowed = {}
  /\ result = "none" /\ raised = "none"

\* The old writer drops its connections; the promoted server may keep them.
Failover ==
  /\ failovers < MaxFailovers
  /\ failovers' = failovers + 1
  /\ writer' = 3 - writer
  /\ tx' \in (IF peer = writer THEN {"lost"} ELSE IF peer = NoServer THEN {tx} ELSE {tx, "lost"})
  /\ UNCHANGED <<cluster, faults, pc, call, step, peer, memory, result, raised>>

Call(t, e) ==
  /\ pc = "idle"
  /\ pc' = "running"
  /\ tool' = t
  /\ endpoint' = e
  /\ UNCHANGED <<environment, step, peer, tx, memory, result, raised>>

\* A statement whose condition does not hold is passed over.
PassOver ==
  /\ Running
  /\ ~Holds(Current.when)
  /\ step' = step + 1
  /\ UNCHANGED <<environment, pc, call, peer, tx, memory, result, raised>>

Fault == faults < MaxFaults /\ faults' = faults + 1

AfterFailure(x) ==
  CASE peer = NoServer -> "none"
    [] peer # NoServer /\ x = "Lost" -> "lost"
    [] OTHER -> IF Postgres THEN "aborted" ELSE "open"

\* An exception is caught by the clauses around the statement, or it leaves
\* the with or try block, which closes the connection, and the tool.
Fail(x) ==
  \/ /\ x \in Current.catch
     /\ swallowed' = swallowed \cup {x}
     /\ step' = step + 1
     /\ tx' = AfterFailure(x)
     /\ UNCHANGED <<pc, peer, result, raised>>
  \/ /\ x \notin Current.catch
     /\ pc' = "done" /\ result' = "exception" /\ raised' = x
     /\ tx' = "none" /\ peer' = NoServer
     /\ UNCHANGED <<step, swallowed>>

\* The with block of an earlier connection has ended by now.
OpenConnection ==
  /\ At("connect")
  /\ \/ /\ peer' = Target
        /\ tx' = "open"
        /\ step' = step + 1
        /\ UNCHANGED <<faults, pc, swallowed, result, raised>>
     \/ /\ Fault
        /\ \/ /\ "Refused" \in Current.catch
              /\ step' = Len(Script(tool)) + 1
              /\ swallowed' = swallowed \cup {"Refused"}
              /\ peer' = NoServer /\ tx' = "none"
              /\ UNCHANGED <<pc, result, raised>>
           \/ "Refused" \notin Current.catch /\ Fail("Refused")
  /\ UNCHANGED <<cluster, writer, failovers, call, saw, by>>

Answer(q) ==
  /\ tx = "open"
  /\ Errors(q) = {}
  /\ saw' = [saw EXCEPT ![q] = IF Truth(q) THEN "yes" ELSE "no"]
  /\ by' = [by EXCEPT ![q] = Role(peer)]
  /\ step' = step + 1
  /\ UNCHANGED <<faults, pc, peer, tx, swallowed, result, raised>>

Statement(q) ==
  /\ At(q)
  /\ \/ Answer(q)
     \/ /\ \/ tx = "open" /\ (\E x \in Errors(q) : Fail(x)) /\ UNCHANGED faults
           \/ tx = "open" /\ Fault /\ (\E x \in {"Timeout", "Lost"} : Fail(x))
           \/ tx = "aborted" /\ Fail("InFailedTransaction") /\ UNCHANGED faults
           \/ tx = "lost" /\ Fail("Lost") /\ UNCHANGED faults
        /\ saw' = [saw EXCEPT ![q] = "error"]
        /\ UNCHANGED by
  /\ UNCHANGED <<cluster, writer, failovers, call>>

\* Mutant: the with block does not close its connection.
MutConclude ==
  /\ pc = "running"
  /\ step = Len(Script(tool)) + 1
  /\ result' = Verdict(tool)
  /\ pc' = "done"
  /\ tx' = "none"
  /\ UNCHANGED <<environment, call, step, peer, memory, raised>>

Conclude ==
  /\ pc = "running"
  /\ step = Len(Script(tool)) + 1
  /\ result' = Verdict(tool)
  /\ pc' = "done"
  /\ peer' = NoServer /\ tx' = "none"
  /\ UNCHANGED <<environment, call, step, memory, raised>>

Finish ==
  /\ pc = "done"
  /\ pc' = "idle" /\ tool' = NoTool /\ endpoint' = "writer"
  /\ step' = 1
  /\ saw' = [q \in Questions |-> "unasked"]
  /\ by' = [q \in Questions |-> "nobody"]
  /\ swallowed' = {} /\ result' = "none" /\ raised' = "none"
  /\ UNCHANGED <<environment, peer, tx>>
--------------------------------------------------------------------------
Progress ==
  \/ PassOver \/ OpenConnection \/ (\E q \in Questions : Statement(q)) \/ Conclude \/ Finish

Next ==
  \/ Failover
  \/ \E t \in Tools, e \in {"writer", "reader"} : Call(t, e)
  \/ Progress

Spec == Init /\ [][Next]_vars
--------------------------------------------------------------------------
\* Every variable has its type, and a call is connected exactly while it has
\* a transaction.
TypeOK ==
  /\ cluster \in Pg!Clusters \cup My!Clusters
  /\ writer \in Servers
  /\ failovers \in 0..MaxFailovers /\ faults \in 0..MaxFaults
  /\ pc \in {"idle", "running", "done"}
  /\ tool \in Tools \cup {NoTool} /\ endpoint \in {"writer", "reader"}
  /\ step \in 1..(Len(Script(tool)) + 1)
  /\ peer \in Servers \cup {NoServer}
  /\ tx \in {"none", "open", "aborted", "lost"}
  /\ (tx = "none") <=> (peer = NoServer)
  /\ saw \in [Questions -> {"unasked", "yes", "no", "error"}]
  /\ by \in [Questions -> Roles \cup {"nobody"}]
  /\ swallowed \subseteq Everything
  /\ result \in {"none", "verdict", "degraded", "no replicas", "exception"}
  /\ raised \in Everything \cup {"none"}

Quiet == failovers = 0 /\ faults = 0

\* What a tool needs of the cluster and neither asks about first nor catches:
\* that the extension it found is loaded and has the columns of 1.8, that its
\* tables are found by their bare names, that the role has PROCESS.
Unasked ==
  \/ tool = "top_queries" /\ cluster.pgss \in {"unloaded", "old"}
  \/ tool = "table_sizes" /\ ~cluster.nameable
  \/ tool = "long_transactions" /\ ~cluster.privileged

\* On the writer endpoint of a healthy cluster a tool raises exactly for these
\* reasons; whatever else the cluster lacks, by its engine, its version, its
\* extensions or the privileges of the role, does not end the call.
RaisesForUnasked ==
  Quiet /\ endpoint = "writer" /\ pc = "done" => (result = "exception" <=> Unasked)

Asked(t) == {Script(t)[i].q : i \in {j \in 1..Len(Script(t)) : Holds(Script(t)[j].when)}} \ {"connect"}

\* The lists that only enrich a result; when one fails, the result names the
\* error next to the verdict.
Optional == {"own_lag", "tables"}

\* What the clauses of the MySQL server hide: a lost connection; a time-out
\* where there is no second form of the statement, or none that the role may
\* use; and a role that may not see the state of the replication.
Hidden ==
  \/ "Lost" \in swallowed
  \/ "Timeout" \in swallowed
     /\ (faults > 1 \/ tool = "replica_status" \/ ~cluster.v8 \/ ~cluster.privileged)
  \/ "InsufficientPrivilege" \in swallowed /\ tool = "replica_status"

\* A verdict, also the verdict that there are no replicas, rests on an answer
\* to every statement it needs: a caught exception never turns into "ok", but
\* for what the MySQL server hides; one time-out does not empty its counters.
VerdictComplete ==
  result \in {"verdict", "no replicas"} =>
    IF Postgres THEN \A q \in Asked(tool) \ Optional : Answered(saw[q])
    ELSE \A alternatives \in My!Needs(tool, cluster) :
           (\E q \in alternatives : Answered(saw[q])) \/ Hidden

\* A statement that timed out or lost its connection is not taken for a
\* feature the cluster lacks: a degraded result has a reason in the cluster,
\* but where a clause of the MySQL server takes everything.
DegradedHasReason ==
  result = "degraded" =>
    \/ tool = "replica_lag" /\ (~cluster.aurora \/ ~cluster.privileged \/ endpoint = "reader" \/ failovers > 0)
    \/ tool = "pg_stat_replication" /\ by["in_recovery"] = "standby"
    \/ tool = "top_queries" /\ cluster.pgss = "absent"
    \/ tool = "performance_view" /\ (~cluster.v8 \/ ~cluster.privileged \/ swallowed \cap {"Timeout", "Lost"} # {})
--------------------------------------------------------------------------
\* The header of the server: a missing extension or Aurora-only function
\* degrades the result, it does not end the call with an exception.
MissingFunctionDegrades == Quiet /\ "UndefinedFunction" \in swallowed => result # "exception"
============================================================================
