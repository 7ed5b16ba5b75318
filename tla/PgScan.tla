------------------------------- MODULE PgScan -------------------------------
(***************************************************************************)
(* The PostgreSQL inspection tools that scan every database of a cluster   *)
(* (inspect_sequence_capacity, inspect_vacuum_progress,                    *)
(* inspect_logical_replication): _resolve_scan_db_list chooses the         *)
(* databases, the tool visits them one after the other on a connection     *)
(* each, and a database that fails is noted and passed over.  Databases    *)
(* come and go, and vacuums start and end, while the scan runs.            *)
(* Databases are numbered in the order of their names.                     *)
(***************************************************************************)
EXTENDS Integers, FiniteSets

CONSTANTS
  Databases,     \* names, as numbers
  Caps,          \* values of max_databases a caller passes
  MaxChanges,    \* bound on databases created or dropped, vacuums started or ended
  MaxFaults      \* bound on connections refused and statements that fail

ASSUME DatabasesAssumption ==
  Databases \subseteq Nat /\ IsFiniteSet(Databases) /\ 0 \notin Databases /\ Caps \subseteq Int
ASSUME BoundsAssumption == MaxChanges \in Nat /\ MaxFaults \in Nat

VARIABLES
  version,       \* "12", "16" or "17"
  present,       \* the databases there are (and the user may connect to)
  content,       \* content[d]: the worst thing to be found in d
  vacuums,       \* the databases in which a VACUUM runs
  changes, faults,
  pc, tool, cap,
  listed,        \* history: what the list of databases held
  dbList, capped,
  todo,          \* databases of dbList not visited yet
  visiting,      \* the database the open connection is to, or Nowhere
  rows,          \* rows[d]: what the visit of d has found so far
  complete,      \* history: databases whose visit got every answer
  errors,        \* keys of db_errors
  status         \* status of the result, or "none", or "exception"

cluster == <<version, present, content, vacuums, changes>>
vars == <<cluster, faults, pc, tool, cap, listed, dbList, capped, todo, visiting, rows, complete, errors, status>>

Tools == {"sequence_capacity", "vacuum_progress", "logical_replication"}
Grades == {"fine", "warning", "critical"}
Nowhere == 0
Nothing == [grade |-> "fine", vacuums |-> {}]

Init ==
  /\ version \in {"12", "16", "17"}
  /\ present \in SUBSET Databases
  /\ content \in [Databases -> Grades]
  /\ vacuums = {}
  /\ changes = 0 /\ faults = 0
  /\ pc = "idle" /\ tool = "sequence_capacity" /\ cap = 0
  /\ listed = {} /\ dbList = {} /\ capped = FALSE
  /\ todo = {} /\ visiting = Nowhere
  /\ rows = [d \in Databases |-> Nothing]
  /\ complete = {} /\ errors = {}
  /\ status = "none"
--------------------------------------------------------------------------
Change == changes < MaxChanges /\ changes' = changes + 1

\* Somebody creates or drops a database, or a vacuum starts or ends.
ClusterChanges ==
  /\ Change
  /\ \/ \E d \in Databases \ present : present' = present \cup {d} /\ UNCHANGED vacuums
     \/ \E d \in present \ vacuums : present' = present \ {d} /\ UNCHANGED vacuums
     \/ \E d \in present \ vacuums : vacuums' = vacuums \cup {d} /\ UNCHANGED present
     \/ \E d \in vacuums : vacuums' = vacuums \ {d} /\ UNCHANGED present
  /\ UNCHANGED <<version, content, faults, pc, tool, cap, listed, dbList, capped, todo,
                 visiting, rows, complete, errors, status>>

Fault == faults < MaxFaults /\ faults' = faults + 1

\* A call that names a database, or does not ask for all of them.
CallOne(t, d) ==
  /\ pc = "idle"
  /\ tool' = t
  /\ dbList' = {d} /\ todo' = {d} /\ capped' = FALSE
  /\ pc' = "scanning"
  /\ UNCHANGED <<cluster, faults, cap, listed, visiting, rows, complete, errors, status>>

CallAll(t, n) ==
  /\ pc = "idle"
  /\ tool' = t
  /\ cap' = n
  /\ pc' = "listing"
  /\ UNCHANGED <<cluster, faults, listed, dbList, capped, todo, visiting, rows, complete, errors, status>>

\* all_dbs[:n] of a list sorted by name; a negative n counts from the end.
Slice(S, n) ==
  LET kept == IF n >= 0 THEN n ELSE Cardinality(S) + n
  IN  {d \in S : Cardinality({e \in S : e < d}) < kept}

TooMany(S) == Cardinality(S) > cap

\* _resolve_scan_db_list on a connection to "postgres"; nothing catches an
\* exception here.
List ==
  /\ pc = "listing"
  /\ \/ /\ listed' = present
        /\ dbList' = IF Cardinality(present) > cap THEN Slice(present, cap) ELSE present
        /\ todo' = dbList'
        /\ capped' = TooMany(present)
        /\ pc' = "scanning"
        /\ UNCHANGED <<faults, status>>
     \/ /\ Fault
        /\ status' = "exception"
        /\ pc' = "done"
        /\ UNCHANGED <<listed, dbList, todo, capped>>
  /\ UNCHANGED <<cluster, tool, cap, visiting, rows, complete, errors>>
--------------------------------------------------------------------------
FirstToVisit == CHOOSE d \in todo : \A e \in todo : d <= e

\* Mutant: the loop does not catch what a database raises.
MutPassOver(d) ==
  /\ errors' = errors \cup {d}
  /\ visiting' = Nowhere
  /\ todo' = todo \ {d}
  /\ status' = "exception"
  /\ pc' = "done"

\* except Exception: the error is noted, the scan goes on.
PassOver(d) ==
  /\ errors' = errors \cup {d}
  /\ visiting' = Nowhere
  /\ todo' = todo \ {d}
  /\ UNCHANGED <<status, pc>>

Connect ==
  /\ pc = "scanning" /\ visiting = Nowhere /\ todo # {}
  /\ \/ /\ FirstToVisit \in present
        /\ visiting' = FirstToVisit
        /\ pc' = "first query"
        /\ UNCHANGED <<faults, todo, errors, status>>
     \/ FirstToVisit \notin present /\ PassOver(FirstToVisit) /\ UNCHANGED faults
     \/ FirstToVisit \in present /\ Fault /\ PassOver(FirstToVisit)
  /\ UNCHANGED <<cluster, tool, cap, listed, dbList, capped, rows, complete>>

Leave ==
  /\ complete' = complete \cup {visiting}
  /\ visiting' = Nowhere
  /\ todo' = todo \ {visiting}
  /\ pc' = "scanning"

\* Mutant: the error is swallowed by the inner except clause as well.
MutFails ==
  /\ visiting' = Nowhere
  /\ todo' = todo \ {visiting}
  /\ pc' = "scanning"
  /\ UNCHANGED <<rows, complete, errors>>

Fails ==
  /\ errors' = errors \cup {visiting}
  /\ visiting' = Nowhere
  /\ todo' = todo \ {visiting}
  /\ pc' = "scanning"
  /\ UNCHANGED <<rows, complete>>

\* The columns of pg_stat_progress_vacuum that PostgreSQL 17 renamed.
FirstUnsupported == tool = "vacuum_progress" /\ version = "17"

\* pg_stat_progress_vacuum shows the vacuums of the whole cluster.
FirstQuery ==
  /\ pc = "first query"
  /\ \/ /\ ~FirstUnsupported
        /\ \/ /\ tool = "sequence_capacity"
              /\ rows' = [rows EXCEPT ![visiting].grade = content[visiting]]
              /\ Leave
           \/ /\ tool = "vacuum_progress"
              /\ rows' = [rows EXCEPT ![visiting].vacuums = vacuums]
              /\ pc' = "second query"
              /\ UNCHANGED <<visiting, todo, complete>>
           \/ /\ tool = "logical_replication"
              /\ pc' = "second query"
              /\ UNCHANGED <<rows, visiting, todo, complete>>
        /\ UNCHANGED <<errors, faults>>
     \/ FirstUnsupported /\ Fails /\ UNCHANGED faults
     \/ Fault /\ Fails
  /\ UNCHANGED <<cluster, tool, cap, listed, dbList, capped, status>>

\* The progress of ANALYZE (a view PostgreSQL 12 does not have: caught and
\* forgotten), or the subscriptions (a denied column: caught and noted).
SecondQuery ==
  /\ pc = "second query"
  /\ \/ /\ tool = "vacuum_progress"
        /\ Leave
        /\ UNCHANGED <<rows, errors, faults>>
     \/ /\ tool = "logical_replication"
        /\ rows' = [rows EXCEPT ![visiting].grade = IF content[visiting] = "fine" THEN "fine" ELSE "warning"]
        /\ Leave
        /\ UNCHANGED <<errors, faults>>
     \/ Fault /\ Fails
  /\ UNCHANGED <<cluster, tool, cap, listed, dbList, capped, status>>
--------------------------------------------------------------------------
Found(g) == \E d \in dbList : rows[d].grade = g

Verdict == IF Found("critical") THEN "critical" ELSE IF Found("warning") THEN "warning" ELSE "ok"

\* Errors and a cut list are mentioned in the text; the status ignores them.
Conclude ==
  /\ pc = "scanning" /\ visiting = Nowhere /\ todo = {}
  /\ status' = Verdict
  /\ pc' = "done"
  /\ UNCHANGED <<cluster, faults, tool, cap, listed, dbList, capped, todo, visiting, rows, complete, errors>>

\* Mutant: the rows of the last call are kept.
MutFinish ==
  /\ pc = "done"
  /\ pc' = "idle" /\ tool' = "sequence_capacity" /\ cap' = 0
  /\ listed' = {} /\ dbList' = {} /\ capped' = FALSE
  /\ todo' = {} /\ visiting' = Nowhere
  /\ complete' = {} /\ errors' = {}
  /\ status' = "none"
  /\ UNCHANGED <<cluster, faults, rows>>

Finish ==
  /\ pc = "done"
  /\ pc' = "idle" /\ tool' = "sequence_capacity" /\ cap' = 0
  /\ listed' = {} /\ dbList' = {} /\ capped' = FALSE
  /\ todo' = {} /\ visiting' = Nowhere
  /\ rows' = [d \in Databases |-> Nothing]
  /\ complete' = {} /\ errors' = {}
  /\ status' = "none"
  /\ UNCHANGED <<cluster, faults>>
--------------------------------------------------------------------------
Next ==
  \/ ClusterChanges
  \/ \E t \in Tools, d \in Databases : CallOne(t, d)
  \/ \E t \in Tools, n \in Caps : CallAll(t, n)
  \/ List \/ Connect \/ FirstQuery \/ SecondQuery \/ Conclude \/ Finish

Spec == Init /\ [][Next]_vars
--------------------------------------------------------------------------
\* Every variable has its type, and rows come from databases being scanned.
TypeOK ==
  /\ version \in {"12", "16", "17"}
  /\ present \subseteq Databases
  /\ vacuums \subseteq present
  /\ content \in [Databases -> Grades]
  /\ changes \in 0..MaxChanges /\ faults \in 0..MaxFaults
  /\ pc \in {"idle", "listing", "scanning", "first query", "second query", "done"}
  /\ tool \in Tools /\ cap \in Caps \cup {0}
  /\ listed \subseteq Databases /\ dbList \subseteq Databases /\ todo \subseteq dbList
  /\ capped \in BOOLEAN
  /\ visiting \in todo \cup {Nowhere}
  /\ rows \in [Databases -> [grade : Grades, vacuums : SUBSET Databases]]
  /\ \A d \in Databases : rows[d] # Nothing => d \in dbList
  /\ complete \subseteq dbList /\ errors \subseteq dbList
  /\ status \in {"none", "ok", "warning", "critical", "exception"}

\* When the scan ends, every database of the list was read to the end or is
\* named in db_errors, and none is both; whatever was dropped, refused or
\* failed in between.  If the cap left out a database, the result says so.
EveryDatabaseAccounted ==
  pc = "done" /\ status # "exception" =>
    /\ complete \cup errors = dbList /\ complete \cap errors = {}
    /\ listed # {} => (capped <=> dbList # listed)

\* A database that fails does not take the others with it: only a failure to
\* list the databases ends the call with an exception.
FailureIsolated == status = "exception" => dbList = {} /\ errors = {}

--------------------------------------------------------------------------
\* The text "N vacuums are running": no vacuum is counted more than once.
VacuumsCountedOnce ==
  pc = "done" /\ tool = "vacuum_progress" =>
    \A d, e \in dbList : d # e => rows[d].vacuums \cap rows[e].vacuums = {}
=============================================================================
