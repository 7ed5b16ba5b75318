----------------------- MODULE OpenSearchCall_proofs -----------------------
(***************************************************************************)
(* Theorems about OpenSearchCall for every set of limits, chunk size,      *)
(* response size and number of retries.  That a request is repeated only   *)
(* because an answer was lost, and that no result is over the limit, rest  *)
(* on where in the protocol a call stands: BudgetInv ties the requests     *)
(* sent to the attempts used, CarriedOutInv the executions to the answers  *)
(* lost, FrameInv says what a call has in hand at each place.              *)
(***************************************************************************)
EXTENDS OpenSearchCall, TLAPS

Open0 == {"idle", "opening"}
Ended == {"closing", "done"}

\* The three parts of TypeOK: what is configured, where the call is, counts.
ConfigType ==
  /\ limit \in {NoLimit} \cup Limits
  /\ allowWrite \in BOOLEAN
  /\ method \in {"read", "write"}
  /\ clientOpen \in BOOLEAN

PlaceType ==
  /\ pc \in {"idle", "opening", "ready", "streaming", "failed", "raised", "closing", "done"}
  /\ status \in Statuses \cup {"none"}
  /\ cause \in Causes \cup {"none"}
  /\ cleanup \in {"none", "closed", "raised", "cancelled"}
  /\ result \in {"none", "ok", "refused", "configuration", "size", "cancelled"} \cup Causes

CountType ==
  /\ attempt \in 0..MaxRetries
  /\ sends \in Nat
  /\ executed \in 0..sends
  /\ lost \in 0..executed
  /\ body \in Sizes
  /\ received \in 0..body

\* What a call has in hand before its first request, on the way, at its end.
FrameInv ==
  /\ pc \in Open0 => attempt = 0 /\ sends = 0 /\ executed = 0 /\ lost = 0
  /\ pc \in Open0 => body = 0 /\ received = 0
  /\ pc \notin Ended => result = "none"
  /\ pc = "streaming" => status \in Statuses
  /\ pc = "raised" => cause \in Causes
  /\ pc \in Open0 \cup {"ready", "raised"} => status # "2xx"
  /\ pc \in Open0 => ~clientOpen

\* A good answer is the result from the moment the block is left with it.
KeptInv ==
  pc \in Ended /\ status = "2xx" /\ received = body /\ ~TooLarge(received) =>
    result \in {"ok", "cancelled"}

\* Every attempt the transport has used up took two requests.
BudgetInv ==
  /\ pc = "ready" => sends = 2 * attempt
  /\ pc \in {"streaming", "failed"} => sends = 2 * attempt + 1
  /\ pc = "raised" => sends = 2 * attempt + 2
  /\ sends <= 2 * attempt + 2

\* Where another request may be sent, no execution has been answered.
CarriedOutInv ==
  /\ pc \notin Ended \cup {"streaming"} => executed = lost
  /\ pc = "streaming" => executed = lost + (IF status = "2xx" THEN 1 ELSE 0)

IInv ==
  /\ ConfigType /\ PlaceType /\ CountType
  /\ FrameInv /\ BudgetInv /\ CarriedOutInv /\ RepeatedOnlyWhenLost
  /\ StreamWithinLimit /\ ResultWithinLimit /\ ClientReleased /\ KeptInv
--------------------------------------------------------------------------
\* The initial states satisfy the inductive invariant.
LEMMA InitIInv == Init => IInv
<1> SUFFICES ASSUME Init PROVE IInv
  OBVIOUS
<1> USE LimitsAssumption, SizesAssumption DEF Init
<1>1. ConfigType
  BY DEF ConfigType
<1>2. PlaceType
  BY DEF PlaceType
<1>3. CountType
  BY DEF CountType, Sizes
<1>4. FrameInv
  BY DEF FrameInv, Open0
<1>5. BudgetInv /\ CarriedOutInv
  BY DEF BudgetInv, CarriedOutInv
<1>6. RepeatedOnlyWhenLost /\ StreamWithinLimit /\ ResultWithinLimit /\ ClientReleased /\ KeptInv
  BY DEF RepeatedOnlyWhenLost, StreamWithinLimit, ResultWithinLimit, ClientReleased, KeptInv, Ended
<1> QED
  BY <1>1, <1>2, <1>3, <1>4, <1>5, <1>6 DEF IInv

\* Every step keeps it.
LEMMA StepIInv == IInv /\ [Next]_vars => IInv'
<1> SUFFICES ASSUME IInv, [Next]_vars PROVE IInv'
  OBVIOUS
<1> USE LimitsAssumption, SizesAssumption DEF IInv, config, wire
<1>1. ASSUME NEW m \in {"read", "write"}, NEW wellFormed \in BOOLEAN, Call(m, wellFormed) PROVE IInv'
  <2>1. ConfigType'
    BY <1>1 DEF Call, ConfigType
  <2>2. PlaceType'
    BY <1>1 DEF Call, PlaceType
  <2>3. CountType'
    BY <1>1 DEF Call, CountType
  <2>4. FrameInv'
    BY <1>1 DEF Call, FrameInv, Open0, Ended
  <2>5. BudgetInv'
    BY <1>1 DEF Call, BudgetInv
  <2>6. CarriedOutInv' /\ RepeatedOnlyWhenLost'
    BY <1>1 DEF Call, CarriedOutInv, RepeatedOnlyWhenLost, Ended
  <2>7. StreamWithinLimit' /\ ResultWithinLimit'
    BY <1>1 DEF Call, StreamWithinLimit, ResultWithinLimit, Limited
  <2>8. ClientReleased' /\ KeptInv'
    BY <1>1 DEF Call, ClientReleased, KeptInv, Ended, FrameInv, Open0
  <2> QED
    BY <2>1, <2>2, <2>3, <2>4, <2>5, <2>6, <2>7, <2>8 DEF IInv
<1>2. CASE Open
  <2>1. ConfigType'
    BY <1>2 DEF Open, ConfigType
  <2>2. PlaceType'
    BY <1>2 DEF Open, PlaceType
  <2>3. CountType'
    BY <1>2 DEF Open, CountType
  <2>4. FrameInv'
    BY <1>2 DEF Open, FrameInv, Open0, Ended
  <2>5. BudgetInv'
    BY <1>2 DEF Open, BudgetInv, FrameInv, Open0
  <2>6. CarriedOutInv' /\ RepeatedOnlyWhenLost'
    BY <1>2 DEF Open, CarriedOutInv, RepeatedOnlyWhenLost, Ended
  <2>7. StreamWithinLimit' /\ ResultWithinLimit'
    BY <1>2 DEF Open, StreamWithinLimit, ResultWithinLimit, Limited
  <2>8. ClientReleased' /\ KeptInv'
    BY <1>2 DEF Open, ClientReleased, KeptInv, Ended, FrameInv, Open0
  <2> QED
    BY <2>1, <2>2, <2>3, <2>4, <2>5, <2>6, <2>7, <2>8 DEF IInv
<1>3. CASE Send
  <2>1. ConfigType'
    BY <1>3 DEF Send, ConfigType
  <2>2. PlaceType'
    BY <1>3 DEF Send, Answered, Unanswered, PlaceType, Causes
  <2>3. CountType'
    BY <1>3 DEF Send, Answered, Unanswered, NobodyKnows, CountType, Sizes
  <2>4. FrameInv'
    BY <1>3 DEF Send, Answered, FrameInv, Open0, Ended
  <2>5. BudgetInv'
    BY <1>3 DEF Send, Answered, Unanswered, BudgetInv, CountType
  <2>6. CarriedOutInv' /\ RepeatedOnlyWhenLost'
    BY <1>3 DEF Send, Answered, Unanswered, NobodyKnows, CarriedOutInv,
       RepeatedOnlyWhenLost, CountType, Ended
  <2>7. StreamWithinLimit' /\ ResultWithinLimit'
    BY <1>3 DEF Send, Unanswered, StreamWithinLimit, ResultWithinLimit
  <2>8. ClientReleased' /\ KeptInv'
    BY <1>3 DEF Send, ClientReleased, KeptInv, Ended
  <2> QED
    BY <2>1, <2>2, <2>3, <2>4, <2>5, <2>6, <2>7, <2>8 DEF IInv
<1>4. CASE ReadChunk
  <2>1. ConfigType'
    BY <1>4 DEF ReadChunk, ConfigType
  <2>2. PlaceType'
    BY <1>4 DEF ReadChunk, PlaceType
  <2>3. CountType'
    BY <1>4 DEF ReadChunk, Chunk, CountType, Sizes
  <2>4. FrameInv'
    BY <1>4 DEF ReadChunk, FrameInv
  <2>5. BudgetInv'
    BY <1>4 DEF ReadChunk, BudgetInv
  <2>6. CarriedOutInv' /\ RepeatedOnlyWhenLost'
    BY <1>4 DEF ReadChunk, CarriedOutInv, RepeatedOnlyWhenLost
  <2>7. StreamWithinLimit' /\ ResultWithinLimit'
    BY <1>4 DEF ReadChunk, OverLimit, StreamWithinLimit, ResultWithinLimit, Limited,
       FrameInv, Ended
  <2>8. ClientReleased' /\ KeptInv'
    BY <1>4 DEF ReadChunk, ClientReleased, KeptInv, Ended
  <2> QED
    BY <2>1, <2>2, <2>3, <2>4, <2>5, <2>6, <2>7, <2>8 DEF IInv
<1>5. CASE ExceedLimit
  <2>1. ConfigType'
    BY <1>5 DEF ExceedLimit, ConfigType
  <2>2. PlaceType'
    BY <1>5 DEF ExceedLimit, Leave, PlaceType
  <2>3. CountType'
    BY <1>5 DEF ExceedLimit, Chunk, CountType, Sizes
  <2>4. FrameInv'
    BY <1>5 DEF ExceedLimit, Leave, FrameInv, Open0, Ended
  <2>5. BudgetInv'
    BY <1>5 DEF ExceedLimit, Leave, BudgetInv
  <2>6. CarriedOutInv' /\ RepeatedOnlyWhenLost'
    BY <1>5 DEF ExceedLimit, Leave, CarriedOutInv, RepeatedOnlyWhenLost, Ended
  <2>7. StreamWithinLimit' /\ ResultWithinLimit'
    BY <1>5 DEF ExceedLimit, Leave, StreamWithinLimit, ResultWithinLimit
  <2>8. ClientReleased' /\ KeptInv'
    <3>1. TooLarge(received)'
      BY <1>5 DEF ExceedLimit, OverLimit, TooLarge, Limited
    <3> QED
      BY <1>5, <3>1 DEF ExceedLimit, Leave, ClientReleased, KeptInv
  <2> QED
    BY <2>1, <2>2, <2>3, <2>4, <2>5, <2>6, <2>7, <2>8 DEF IInv
<1>6. CASE StreamBreaks
  <2>1. ConfigType'
    BY <1>6 DEF StreamBreaks, ConfigType
  <2>2. PlaceType'
    BY <1>6 DEF StreamBreaks, PlaceType, Causes
  <2>3. CountType'
    BY <1>6 DEF StreamBreaks, CountType, CarriedOutInv
  <2>4. FrameInv'
    BY <1>6 DEF StreamBreaks, FrameInv, Open0, Ended
  <2>5. BudgetInv'
    BY <1>6 DEF StreamBreaks, BudgetInv
  <2>6. CarriedOutInv' /\ RepeatedOnlyWhenLost'
    BY <1>6 DEF StreamBreaks, CarriedOutInv, RepeatedOnlyWhenLost
  <2>7. StreamWithinLimit' /\ ResultWithinLimit'
    BY <1>6 DEF StreamBreaks, StreamWithinLimit, ResultWithinLimit, Limited
  <2>8. ClientReleased' /\ KeptInv'
    BY <1>6 DEF StreamBreaks, ClientReleased, KeptInv, Ended
  <2> QED
    BY <2>1, <2>2, <2>3, <2>4, <2>5, <2>6, <2>7, <2>8 DEF IInv
<1>7. CASE StreamEnds
  <2>1. ConfigType'
    BY <1>7 DEF StreamEnds, ConfigType
  <2>2. PlaceType'
    BY <1>7 DEF StreamEnds, Leave, PlaceType, Causes
  <2>3. CountType'
    BY <1>7 DEF StreamEnds, CountType
  <2>4. FrameInv'
    BY <1>7 DEF StreamEnds, Leave, FrameInv, Open0, Ended
  <2>5. BudgetInv'
    BY <1>7 DEF StreamEnds, Leave, BudgetInv
  <2>6. CarriedOutInv' /\ RepeatedOnlyWhenLost'
    BY <1>7 DEF StreamEnds, Leave, CarriedOutInv, RepeatedOnlyWhenLost, CountType, Ended
  <2>7. StreamWithinLimit' /\ ResultWithinLimit'
    <3>1. limit # NoLimit => limit \in Int
      BY DEF ConfigType
    <3>2. received \in Int
      BY DEF CountType, Sizes
    <3>3. UNCHANGED <<limit, received>> /\ pc = "streaming"
      BY <1>7 DEF StreamEnds
    <3>4. limit # NoLimit /\ received > limit /\ received > 0 => FALSE
      BY <3>3 DEF StreamWithinLimit, Limited
    <3>5. limit # NoLimit => received <= limit \/ received = 0
      BY <3>1, <3>2, <3>4, SizesAssumption DEF CountType
    <3> QED
      BY <3>3, <3>5, <3>4 DEF StreamWithinLimit, ResultWithinLimit, Limited
  <2>8. ClientReleased' /\ KeptInv'
    BY <1>7 DEF StreamEnds, Leave, ClientReleased, KeptInv, Ended
  <2> QED
    BY <2>1, <2>2, <2>3, <2>4, <2>5, <2>6, <2>7, <2>8 DEF IInv
<1>8. CASE Fallback
  <2>1. ConfigType'
    BY <1>8 DEF Fallback, ConfigType
  <2>2. PlaceType'
    BY <1>8 DEF Fallback, Answered, Unanswered, Leave, PlaceType, Statuses, Causes
  <2>3. CountType'
    BY <1>8 DEF Fallback, Answered, Unanswered, NobodyKnows, CountType, Sizes
  <2>4. FrameInv'
    BY <1>8 DEF Fallback, Answered, Unanswered, Leave, FrameInv, Open0, Ended, Causes, Statuses
  <2>5. BudgetInv'
    BY <1>8 DEF Fallback, Answered, Unanswered, Leave, BudgetInv, CountType
  <2>6. CarriedOutInv' /\ RepeatedOnlyWhenLost'
    BY <1>8 DEF Fallback, Answered, Unanswered, NobodyKnows, Leave, CarriedOutInv,
       RepeatedOnlyWhenLost, CountType, Ended
  <2>7. StreamWithinLimit' /\ ResultWithinLimit'
    <3>1. CASE \E b \in Sizes : received' = b /\ TooLarge(b) /\ Leave("size") /\ limit' = limit
      BY <3>1 DEF Leave, StreamWithinLimit, ResultWithinLimit
    <3>2. CASE \E b \in Sizes : received' = b /\ ~TooLarge(b) /\ Leave("ok") /\ limit' = limit
      <4>1. PICK b \in Sizes : received' = b /\ ~TooLarge(b) /\ Leave("ok") /\ limit' = limit
        BY <3>2
      <4>2. limit # NoLimit => limit \in Int
        BY DEF ConfigType
      <4>3. b \in Int
        BY DEF Sizes
      <4>4. limit # NoLimit => b <= limit
        BY <4>1, <4>2, <4>3 DEF TooLarge, Limited
      <4> QED
        BY <4>1, <4>4 DEF Leave, StreamWithinLimit, ResultWithinLimit, Limited
    <3>3. CASE pc' = "raised" /\ result' = "none"
      BY <3>3 DEF StreamWithinLimit, ResultWithinLimit
    <3> QED
      BY <1>8, <3>1, <3>2, <3>3 DEF Fallback, FrameInv, Ended
  <2>8. ClientReleased' /\ KeptInv'
    BY <1>8 DEF Fallback, Leave, ClientReleased, KeptInv, Ended, TooLarge, Limited
  <2> QED
    BY <2>1, <2>2, <2>3, <2>4, <2>5, <2>6, <2>7, <2>8 DEF IInv
<1>9. CASE Retry
  <2>1. ConfigType'
    BY <1>9 DEF Retry, ConfigType
  <2>2. PlaceType'
    BY <1>9 DEF Retry, PlaceType
  <2>3. CountType'
    BY <1>9 DEF Retry, CountType
  <2>4. FrameInv'
    BY <1>9 DEF Retry, FrameInv, Open0, Ended
  <2>5. BudgetInv'
    BY <1>9 DEF Retry, BudgetInv, CountType
  <2>6. CarriedOutInv' /\ RepeatedOnlyWhenLost'
    BY <1>9 DEF Retry, CarriedOutInv, RepeatedOnlyWhenLost, Ended
  <2>7. StreamWithinLimit' /\ ResultWithinLimit'
    BY <1>9 DEF Retry, StreamWithinLimit, ResultWithinLimit, Limited
  <2>8. ClientReleased' /\ KeptInv'
    BY <1>9 DEF Retry, ClientReleased, KeptInv, Ended
  <2> QED
    BY <2>1, <2>2, <2>3, <2>4, <2>5, <2>6, <2>7, <2>8 DEF IInv
<1>10. CASE GiveUp
  <2>1. ConfigType'
    BY <1>10 DEF GiveUp, ConfigType
  <2>2. PlaceType'
    BY <1>10 DEF GiveUp, Leave, PlaceType
  <2>3. CountType'
    BY <1>10 DEF GiveUp, CountType
  <2>4. FrameInv'
    BY <1>10 DEF GiveUp, Leave, FrameInv, Open0, Ended
  <2>5. BudgetInv'
    BY <1>10 DEF GiveUp, Leave, BudgetInv
  <2>6. CarriedOutInv' /\ RepeatedOnlyWhenLost'
    BY <1>10 DEF GiveUp, Leave, CarriedOutInv, RepeatedOnlyWhenLost, Ended
  <2>7. StreamWithinLimit' /\ ResultWithinLimit'
    BY <1>10 DEF GiveUp, Leave, StreamWithinLimit, ResultWithinLimit, FrameInv, Causes,
       Transport, Statuses
  <2>8. ClientReleased' /\ KeptInv'
    BY <1>10 DEF GiveUp, Leave, ClientReleased, KeptInv, FrameInv
  <2> QED
    BY <2>1, <2>2, <2>3, <2>4, <2>5, <2>6, <2>7, <2>8 DEF IInv
<1>11. CASE Cancel
  <2>1. ConfigType'
    BY <1>11 DEF Cancel, ConfigType
  <2>2. PlaceType'
    BY <1>11 DEF Cancel, Leave, PlaceType
  <2>3. CountType'
    BY <1>11 DEF Cancel, CountType
  <2>4. FrameInv'
    BY <1>11 DEF Cancel, Leave, FrameInv, Open0, Ended
  <2>5. BudgetInv'
    BY <1>11 DEF Cancel, Leave, BudgetInv
  <2>6. CarriedOutInv' /\ RepeatedOnlyWhenLost'
    BY <1>11 DEF Cancel, Leave, CarriedOutInv, RepeatedOnlyWhenLost, Ended
  <2>7. StreamWithinLimit' /\ ResultWithinLimit'
    BY <1>11 DEF Cancel, Leave, StreamWithinLimit, ResultWithinLimit
  <2>8. ClientReleased' /\ KeptInv'
    BY <1>11 DEF Cancel, Leave, ClientReleased, KeptInv, Ended
  <2> QED
    BY <2>1, <2>2, <2>3, <2>4, <2>5, <2>6, <2>7, <2>8 DEF IInv
<1>12. CASE Close
  <2>1. ConfigType'
    BY <1>12 DEF Close, ConfigType
  <2>2. PlaceType'
    BY <1>12 DEF Close, PlaceType
  <2>3. CountType'
    BY <1>12 DEF Close, CountType
  <2>4. FrameInv'
    BY <1>12 DEF Close, FrameInv, Open0, Ended
  <2>5. BudgetInv'
    BY <1>12 DEF Close, BudgetInv
  <2>6. CarriedOutInv' /\ RepeatedOnlyWhenLost'
    BY <1>12 DEF Close, CarriedOutInv, RepeatedOnlyWhenLost, Ended
  <2>7. StreamWithinLimit' /\ ResultWithinLimit'
    BY <1>12 DEF Close, StreamWithinLimit, ResultWithinLimit, Limited
  <2>8. ClientReleased' /\ KeptInv'
    BY <1>12 DEF Close, ClientReleased, KeptInv, Ended, TooLarge, Limited
  <2> QED
    BY <2>1, <2>2, <2>3, <2>4, <2>5, <2>6, <2>7, <2>8 DEF IInv
<1>13. CASE CancelClose
  <2>1. ConfigType'
    BY <1>13 DEF CancelClose, ConfigType
  <2>2. PlaceType'
    BY <1>13 DEF CancelClose, PlaceType
  <2>3. CountType'
    BY <1>13 DEF CancelClose, CountType
  <2>4. FrameInv'
    BY <1>13 DEF CancelClose, FrameInv, Open0, Ended
  <2>5. BudgetInv'
    BY <1>13 DEF CancelClose, BudgetInv
  <2>6. CarriedOutInv' /\ RepeatedOnlyWhenLost'
    BY <1>13 DEF CancelClose, CarriedOutInv, RepeatedOnlyWhenLost, Ended
  <2>7. StreamWithinLimit' /\ ResultWithinLimit'
    BY <1>13 DEF CancelClose, StreamWithinLimit, ResultWithinLimit, Limited
  <2>8. ClientReleased' /\ KeptInv'
    BY <1>13 DEF CancelClose, ClientReleased, KeptInv, Ended
  <2> QED
    BY <2>1, <2>2, <2>3, <2>4, <2>5, <2>6, <2>7, <2>8 DEF IInv
<1>14. CASE Finish
  <2>1. ConfigType'
    BY <1>14 DEF Finish, ConfigType
  <2>2. PlaceType'
    BY <1>14 DEF Finish, PlaceType
  <2>3. CountType'
    BY <1>14 DEF Finish, CountType, Sizes
  <2>4. FrameInv'
    BY <1>14 DEF Finish, FrameInv
  <2>5. BudgetInv'
    BY <1>14 DEF Finish, BudgetInv
  <2>6. CarriedOutInv' /\ RepeatedOnlyWhenLost'
    BY <1>14 DEF Finish, CarriedOutInv, RepeatedOnlyWhenLost
  <2>7. StreamWithinLimit' /\ ResultWithinLimit'
    BY <1>14 DEF Finish, StreamWithinLimit, ResultWithinLimit
  <2>8. ClientReleased' /\ KeptInv'
    BY <1>14 DEF Finish, ClientReleased, KeptInv, Ended
  <2> QED
    BY <2>1, <2>2, <2>3, <2>4, <2>5, <2>6, <2>7, <2>8 DEF IInv
<1>15. CASE UNCHANGED vars
  BY <1>15 DEF vars, ConfigType, PlaceType, CountType, FrameInv, BudgetInv, CarriedOutInv,
     RepeatedOnlyWhenLost, StreamWithinLimit, ResultWithinLimit, ClientReleased, KeptInv,
     TooLarge, Limited
<1> QED
  BY <1>1, <1>2, <1>3, <1>4, <1>5, <1>6, <1>7, <1>8, <1>9, <1>10, <1>11, <1>12, <1>13,
     <1>14, <1>15 DEF Next, Progress
--------------------------------------------------------------------------
LEMMA InductiveInvariant == Spec => []IInv
  BY InitIInv, StepIInv, PTL DEF Spec

\* Every variable keeps its type; in particular a call puts at most two
\* requests per attempt of the transport on the wire.
THEOREM TypeCorrect == Spec => []TypeOK
<1>1. IInv => TypeOK
  <2> SUFFICES ASSUME IInv PROVE TypeOK
    OBVIOUS
  <2>1. sends \in 0..(2 * (MaxRetries + 1))
    BY SizesAssumption DEF IInv, CountType, BudgetInv
  <2> QED
    BY <2>1 DEF IInv, TypeOK, ConfigType, PlaceType, CountType
<1> QED
  BY <1>1, InductiveInvariant, PTL

\* Streaming keeps no more than the limit, and a response over the limit does
\* not make the connection send the request again.
THEOREM StreamingStopsAtLimit == Spec => []StreamWithinLimit
<1>1. IInv => StreamWithinLimit
  BY DEF IInv
<1> QED
  BY <1>1, InductiveInvariant, PTL

\* No tool is handed a response over the limit.
THEOREM NoOversizeResult == Spec => []ResultWithinLimit
<1>1. IInv => ResultWithinLimit
  BY DEF IInv
<1> QED
  BY <1>1, InductiveInvariant, PTL

\* All executions of a request but one are executions whose answer was lost.
THEOREM RepeatsAreLostAnswers == Spec => []RepeatedOnlyWhenLost
<1>1. IInv => RepeatedOnlyWhenLost
  BY DEF IInv
<1> QED
  BY <1>1, InductiveInvariant, PTL

\* A client outlives its call only because its close() raised or was cancelled.
THEOREM ClientIsReleased == Spec => []ClientReleased
<1>1. IInv => ClientReleased
  BY DEF IInv
<1> QED
  BY <1>1, InductiveInvariant, PTL

\* A good answer to the last request is the result of the call, whatever
\* happened before it and however close() goes, unless the call is cancelled.
THEOREM GoodAnswersAreKept == Spec => []GoodAnswerKept
<1>1. IInv => GoodAnswerKept
  BY DEF IInv, KeptInv, GoodAnswerKept, Ended
<1> QED
  BY <1>1, InductiveInvariant, PTL
===========================================================================
