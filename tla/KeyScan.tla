------------------------------ MODULE KeyScan ------------------------------
(***************************************************************************)
(* inspect_big_keys and inspect_hot_keys of the ElastiCache server: a SCAN *)
(* loop with a cap on the keys and a cap on the iterations, pipelines that *)
(* measure the keys batch by batch, and the sorted head of what was        *)
(* measured, while clients of the cache create, change and delete keys and *)
(* an operator may change maxmemory-policy.                                *)
(*                                                                         *)
(* The score of a key stands for its size (big keys), its LFU counter or   *)
(* how recently it was used (hot keys); 0 means there is no such key.      *)
(* SCAN returns every key that exists from its start to its end at least   *)
(* once, may return a key twice, and may return any other key or not.      *)
(***************************************************************************)
EXTENDS Orders, SequencesExt

CONSTANTS
  Keys,
  ScanCaps,        \* values of max_scan_count
  ScanFloor,       \* 100 in the code
  ScanHardLimit,   \* _SCAN_HARD_LIMIT
  MaxIterations,   \* 1000 in the code
  PipelineBatch,   \* _PIPELINE_BATCH
  TopN,            \* rows of the report
  MaxBatch,        \* bound on the keys one SCAN returns
  MaxChanges,      \* bound on changes to keys and to the policy
  Scores           \* scores that occur, of 0 (no key) to 3 (above both thresholds)

ASSUME CapsAssumption ==
  /\ ScanCaps \subseteq Int /\ ScanFloor \in Nat \ {0} /\ ScanHardLimit \in Nat
  /\ ScanFloor <= ScanHardLimit
  /\ {MaxIterations, PipelineBatch, TopN} \subseteq Nat \ {0}
ASSUME ChurnAssumption == {MaxBatch, MaxChanges} \subseteq Nat /\ Scores \subseteq 0..3 /\ 0 \in Scores

VARIABLES
  score,           \* score[k]: what the server holds
  lfu,             \* is maxmemory-policy one of the *-lfu policies
  changes,
  pc, tool,
  scanMax,         \* scan_max
  lfuMode,         \* is_lfu_mode
  collected,       \* keys_collected
  cursor,          \* 0 before the first SCAN and after the last one; otherwise it moves between 1 and 2
  iterations,      \* scan_iterations
  measured,        \* keys of collected that were measured
  sized,           \* rows measured
  report,
  due,             \* in the server: keys this SCAN has yet to return
  changed,         \* history: keys that changed during the call
  dropped          \* history: the last batch was cut

server == <<score, lfu, changes>>
loop == <<scanMax, lfuMode, collected, cursor, iterations>>
history == <<changed, dropped>>
vars == <<server, pc, tool, loop, measured, sized, report, due, history>>

Live == {k \in Keys : score[k] > 0}
NoReport == [status |-> "none", top |-> <<>>, truncated |-> FALSE]
--------------------------------------------------------------------------
Init ==
  /\ score \in [Keys -> Scores]
  /\ lfu \in BOOLEAN
  /\ changes = 0
  /\ pc = "idle" /\ tool = "big_keys"
  /\ scanMax = ScanFloor /\ lfuMode = FALSE
  /\ collected = <<>> /\ cursor = 0 /\ iterations = 0
  /\ measured = 0 /\ sized = <<>> /\ report = NoReport
  /\ due = {} /\ changed = {} /\ dropped = FALSE

Change(k, s) ==
  /\ changes < MaxChanges
  /\ changes' = changes + 1
  /\ s # score[k]
  /\ score' = [score EXCEPT ![k] = s]
  /\ changed' = changed \cup {k}
  /\ due' = IF s = 0 THEN due \ {k} ELSE due
  /\ UNCHANGED <<lfu, pc, tool, loop, measured, sized, report, dropped>>

ChangePolicy ==
  /\ changes < MaxChanges
  /\ changes' = changes + 1
  /\ lfu' = ~lfu
  /\ UNCHANGED <<score, pc, tool, loop, measured, sized, report, due, history>>

\* Mutant: no floor.
MutBounded(cap) == IF cap < ScanHardLimit THEN cap ELSE ScanHardLimit

Bounded(cap) == LET c == IF cap < ScanHardLimit THEN cap ELSE ScanHardLimit
                IN  IF c > ScanFloor THEN c ELSE ScanFloor

Call(t, cap) ==
  /\ pc = "idle"
  /\ tool' = t
  /\ scanMax' = Bounded(cap)
  /\ pc' = IF t = "hot_keys" THEN "policy" ELSE "scan"
  /\ due' = Live
  /\ changed' = {}
  /\ UNCHANGED <<server, lfuMode, collected, cursor, iterations, measured, sized, report, dropped>>

\* SCAN has not begun: a key that is deleted and made again may still be due.
ReadPolicy ==
  /\ pc = "policy"
  /\ lfuMode' = lfu
  /\ pc' = "scan"
  /\ due' = Live
  /\ UNCHANGED <<server, tool, scanMax, collected, cursor, iterations, measured, sized, report, history>>

\* Mutant: an empty batch does not count.
MutIteration(batch) == IF batch = <<>> THEN iterations ELSE iterations + 1

Iteration(batch) == iterations + 1

Stop(all, last, n) == Len(all) >= scanMax \/ last \/ n > MaxIterations

\* One iteration of the loop.  The server may end the SCAN once nothing is due.
Scan(batch, last) ==
  LET all == collected \o batch
  IN  /\ pc = "scan"
      /\ last => due \subseteq Range(batch)
      /\ due' = due \ Range(batch)
      /\ iterations' = Iteration(batch)
      /\ cursor' = IF last THEN 0 ELSE IF cursor = 1 THEN 2 ELSE 1
      /\ collected' = SubSeq(all, 1, IF Len(all) < scanMax THEN Len(all) ELSE scanMax)
      /\ dropped' = (Len(all) > scanMax)
      /\ pc' = IF Stop(all, last, Iteration(batch)) THEN "measure" ELSE "scan"
      /\ UNCHANGED <<server, tool, scanMax, lfuMode, measured, sized, report, changed>>

Chunk ==
  SubSeq(collected, measured + 1,
         IF measured + PipelineBatch < Len(collected) THEN measured + PipelineBatch ELSE Len(collected))

\* OBJECT FREQ needs an LFU policy and OBJECT IDLETIME any other one.
Understood == tool = "hot_keys" => lfuMode = lfu

\* Mutant: an error of the pipeline is skipped like a key that is gone.
MutMeasure ==
  /\ pc = "measure"
  /\ measured < Len(collected)
  /\ measured' = measured + Len(Chunk)
  /\ LET there == Picked(Chunk, {i \in DOMAIN Chunk : Understood /\ score[Chunk[i]] > 0})
     IN  sized' = sized \o [i \in DOMAIN there |-> [key |-> there[i], score |-> score[there[i]]]]
  /\ UNCHANGED <<server, pc, tool, loop, report, due, history>>

\* Keys that are gone have no size and are left out.
Measure ==
  /\ pc = "measure"
  /\ measured < Len(collected)
  /\ \/ /\ Understood
        /\ measured' = measured + Len(Chunk)
        /\ LET there == Picked(Chunk, {i \in DOMAIN Chunk : score[Chunk[i]] > 0})
           IN  sized' = sized \o [i \in DOMAIN there |-> [key |-> there[i], score |-> score[there[i]]]]
        /\ UNCHANGED <<pc, report>>
     \/ /\ ~Understood /\ Chunk # <<>>
        /\ pc' = "done" /\ report' = [NoReport EXCEPT !.status = "exception"]
        /\ UNCHANGED <<measured, sized>>
  /\ UNCHANGED <<server, tool, loop, due, history>>

Highest(rows) == SubSeq(ByScore(rows), 1, IF Len(rows) < TopN THEN Len(rows) ELSE TopN)

\* The score of the first row decides; idle times are not graded.
Status(top) ==
  IF top = <<>> \/ (tool = "hot_keys" /\ ~lfuMode) \/ top[1].score = 1 THEN "ok"
  ELSE IF top[1].score = 3 /\ tool = "big_keys" THEN "critical"
  ELSE IF top[1].score = 3 \/ tool = "big_keys" THEN "warning"
  ELSE "ok"

Truncated == Len(collected) >= scanMax /\ cursor # 0

Report ==
  /\ pc = "measure"
  /\ measured = Len(collected)
  /\ pc' = "done"
  /\ report' = [status |-> Status(Highest(sized)), top |-> Highest(sized), truncated |-> Truncated]
  /\ UNCHANGED <<server, tool, loop, measured, sized, due, history>>

\* Any request may find the connection gone; nothing is caught.
Lost ==
  /\ pc \in {"policy", "scan", "measure"}
  /\ pc' = "done" /\ report' = [NoReport EXCEPT !.status = "exception"]
  /\ UNCHANGED <<server, tool, loop, measured, sized, due, history>>

Finish ==
  /\ pc = "done"
  /\ pc' = "idle" /\ tool' = "big_keys"
  /\ scanMax' = ScanFloor /\ lfuMode' = FALSE
  /\ collected' = <<>> /\ cursor' = 0 /\ iterations' = 0
  /\ measured' = 0 /\ sized' = <<>> /\ report' = NoReport
  /\ due' = {} /\ changed' = {} /\ dropped' = FALSE
  /\ UNCHANGED server
--------------------------------------------------------------------------
Iterate == \E batch \in BoundedSeq(Live, MaxBatch), last \in BOOLEAN : Scan(batch, last)

Progress == ReadPolicy \/ Iterate \/ Measure \/ Report

Next ==
  \/ \E k \in Keys, s \in Scores : Change(k, s)
  \/ ChangePolicy
  \/ \E t \in {"big_keys", "hot_keys"}, cap \in ScanCaps : Call(t, cap)
  \/ Progress
  \/ Lost
  \/ Finish

\* Socket time-outs end every request.
Spec == Init /\ [][Next]_vars /\ WF_vars(Progress)
--------------------------------------------------------------------------
Rows == [key : Keys, score : Scores \ {0}]
Texts == {"none", "ok", "warning", "critical", "exception"}

\* Every variable has its type; the caps hold for what is collected and listed.
TypeOK ==
  /\ score \in [Keys -> Scores] /\ lfu \in BOOLEAN
  /\ changes \in 0..MaxChanges
  /\ pc \in {"idle", "policy", "scan", "measure", "done"}
  /\ tool \in {"big_keys", "hot_keys"}
  /\ scanMax \in ScanFloor..ScanHardLimit /\ lfuMode \in BOOLEAN
  /\ collected \in Seq(Keys) /\ Len(collected) <= scanMax
  /\ cursor \in 0..2 /\ iterations \in 0..(MaxIterations + 1)
  /\ measured \in 0..Len(collected)
  /\ sized \in Seq(Rows) /\ Len(sized) <= measured
  /\ report.status \in Texts /\ report.truncated \in BOOLEAN
  /\ report.top \in Seq(Rows) /\ Len(report.top) <= TopN
  /\ due \subseteq Keys /\ changed \subseteq Keys /\ dropped \in BOOLEAN

Reported == pc = "done" /\ report.status # "exception"
Steady == Live \ changed

\* Nothing that did not change during the call outranks the report unseen: a
\* key is listed, or the report is full of keys at least as big.
Covers(k) ==
  \/ \E i \in DOMAIN report.top : report.top[i].key = k
  \/ Len(report.top) = TopN /\ \A i \in DOMAIN report.top : report.top[i].score >= score[k]

\* The two ways to stop before the end that the report does not tell: the
\* iterations ran out below the cap, or the last batch of the SCAN was cut.
Untold == iterations > MaxIterations \/ (dropped /\ cursor = 0)

\* A report that is not marked truncated covers every key that existed
\* throughout the call, unless the loop stopped in one of the untold ways.
NothingBiggerMissed == Reported /\ ~report.truncated /\ ~Untold => \A k \in Steady : Covers(k)

\* A call ends however the server answers the SCAN.
ScanEnds == pc = "scan" ~> pc = "done"
============================================================================
