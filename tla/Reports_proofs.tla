--------------------------- MODULE Reports_proofs ---------------------------
(***************************************************************************)
(* Proofs about what tools report of what they read: that a key scan which *)
(* does not say it was truncated misses nothing (KeyScan), and that the    *)
(* status, the findings and the LIMIT of the inspection tools keep what    *)
(* they promise (ToolReport).  Both rest on lemmas about lists: what       *)
(* picking elements of one, sorting and cutting it come to.                *)
(*                                                                         *)
(* 1. KeyScan: its invariant, lists, one lemma per action, theorems.       *)
(* 2. Lists of grades; the forms in which tools turn rows into verdicts.   *)
(* 3. Each tool of the three servers reports soundly (Sound).              *)
(* 4. ToolReport: its invariant, one lemma per action, theorems.           *)
(***************************************************************************)
EXTENDS KeyScan, ToolReport, FiniteSetTheorems, SequenceTheorems, TLAPS

\* Until the loop stops no batch was cut and nothing is measured.
ScanInv ==
  /\ pc \in {"idle", "policy"} => collected = <<>> /\ cursor = 0 /\ iterations = 0
  /\ pc \in {"idle", "policy", "scan"} =>
        ~dropped /\ measured = 0 /\ sized = <<>> /\ Len(collected) < scanMax /\ iterations <= MaxIterations

\* While SCAN runs, a key that has not changed is yet to be returned or was.
DueInv == pc \in {"policy", "scan"} => Steady \subseteq due \cup Range(collected)

Stopped == pc = "measure" \/ Reported

\* A SCAN that came to its end with no batch cut has returned every key that
\* has not changed; otherwise a cap stopped it.
StoppedInv ==
  Stopped =>
    /\ cursor = 0 /\ ~dropped => Steady \subseteq Range(collected)
    /\ cursor = 0 \/ iterations > MaxIterations \/ Len(collected) = scanMax

Row(k) == [key |-> k, score |-> score[k]]

\* A key that has not changed was measured as it is.
MeasuredInv ==
  Stopped => \A k \in Steady, i \in 1..measured : collected[i] = k => Row(k) \in Range(sized)

\* A row is in the list, or the list is full of rows at least as high.
Ranked(top, r) ==
  \/ r \in Range(top)
  \/ Len(top) = TopN /\ \A i \in DOMAIN top : top[i].score >= r.score

ReportInv ==
  Reported =>
    /\ measured = Len(collected) /\ report.truncated = Truncated
    /\ \A r \in Range(sized) : Ranked(report.top, r)

IInv == TypeOK /\ ScanInv /\ DueInv /\ StoppedInv /\ MeasuredInv /\ ReportInv
--------------------------------------------------------------------------
\* How many positions a list has.
LEMMA Positions ==
  ASSUME NEW n \in Nat
  PROVE  IsFiniteSet(1..n) /\ Cardinality(1..n) = n
<1>1. 1 \in Int /\ n \in Int /\ (1 > n <=> n = 0) /\ n - 1 + 1 = n
  OBVIOUS
<1> QED
  BY <1>1, FS_Interval

\* R arranges P without gaps or ties: the places 1 to Cardinality(P) are taken
\* one each, in the order of R.
LEMMA Arrangement ==
  ASSUME NEW P, NEW R, IsFiniteSet(P),
         \A i \in P : <<i, i>> \notin R,
         \A i, j, k \in P : <<i, j>> \in R /\ <<j, k>> \in R => <<i, k>> \in R,
         \A i, j \in P : i # j => <<i, j>> \in R \/ <<j, i>> \in R
  PROVE  /\ Cardinality(P) \in Nat
         /\ Arranged(P, R) \in [1..Cardinality(P) -> P]
         /\ \A i \in P : \E n \in 1..Cardinality(P) : Arranged(P, R)[n] = i
         /\ \A m, n \in 1..Cardinality(P) : m < n => <<Arranged(P, R)[m], Arranged(P, R)[n]>> \in R
<1> DEFINE size == Cardinality(P)
           before(i) == {j \in P : <<j, i>> \in R}
           place == [i \in P |-> Cardinality(before(i))]
<1>1. size \in Nat
  BY FS_CardinalityType
<1>2. \A i \in P : IsFiniteSet(before(i)) /\ Cardinality(before(i)) \in Nat /\ Cardinality(before(i)) < size
  <2> SUFFICES ASSUME NEW i \in P
               PROVE  IsFiniteSet(before(i)) /\ Cardinality(before(i)) \in Nat /\ Cardinality(before(i)) < size
    OBVIOUS
  <2>1. before(i) \subseteq P /\ i \notin before(i)
    OBVIOUS
  <2> HIDE DEF before
  <2>2. IsFiniteSet(before(i)) /\ Cardinality(before(i)) <= size /\ (size = Cardinality(before(i)) => P = before(i))
    BY <2>1, FS_Subset
  <2>3. Cardinality(before(i)) \in Nat /\ Cardinality(before(i)) # size
    BY <2>1, <2>2, FS_CardinalityType
  <2> HIDE DEF size
  <2> QED
    BY <1>1, <2>2, <2>3
<1>3. \A i, j \in P : <<i, j>> \in R => place[i] < place[j]
  <2> SUFFICES ASSUME NEW i \in P, NEW j \in P, <<i, j>> \in R
               PROVE  Cardinality(before(i)) < Cardinality(before(j))
    OBVIOUS
  <2>1. before(i) \subseteq before(j) /\ i \in before(j) /\ i \notin before(i)
    OBVIOUS
  <2>2. Cardinality(before(i)) <= Cardinality(before(j)) /\ Cardinality(before(i)) # Cardinality(before(j))
    <3> HIDE DEF before
    <3> QED
      BY <1>2, <2>1, FS_Subset
  <2> HIDE DEF before
  <2> QED
    BY <1>2, <2>2
<1> HIDE DEF before, size
<1>4. place \in [P -> 0..(size - 1)]
  BY <1>1, <1>2
<1> HIDE DEF place
<1>5. \A i, j \in P : place[i] = place[j] => i = j
  <2> SUFFICES ASSUME NEW i \in P, NEW j \in P, place[i] = place[j], i # j
               PROVE  FALSE
    OBVIOUS
  <2>1. place[i] < place[j] \/ place[j] < place[i]
    BY <1>3
  <2>2. place[i] \in Int /\ place[j] \in Int
    BY <1>4
  <2> QED
    BY <2>1, <2>2
<1>6. place \in Injection(P, 0..(size - 1))
  BY <1>4, <1>5 DEF Injection, IsInjective
<1>7. IsFiniteSet(0..(size - 1)) /\ Cardinality(0..(size - 1)) = size
  <2>1. 0 \in Int /\ size - 1 \in Int /\ (size - 1) - 0 + 1 = size /\ (0 > size - 1 <=> size = 0)
    BY <1>1
  <2> QED
    BY <2>1, FS_Interval
<1>8. place \in Surjection(P, 0..(size - 1))
  BY <1>6, <1>7, FS_Injection DEF size
<1>9. \A n \in 1..size : \E i \in P : place[i] = n - 1
  BY <1>1, <1>8 DEF Surjection
<1>10. \A n \in 1..size : Arranged(P, R)[n] \in P /\ place[Arranged(P, R)[n]] = n - 1
  <2> SUFFICES ASSUME NEW n \in 1..size
               PROVE  Arranged(P, R)[n] \in P /\ place[Arranged(P, R)[n]] = n - 1
    OBVIOUS
  <2>1. Arranged(P, R)[n] = CHOOSE i \in P : Cardinality(before(i)) = n - 1
    BY DEF Arranged, before, size
  <2>2. \E i \in P : Cardinality(before(i)) = n - 1
    BY <1>9 DEF place
  <2> QED
    BY <2>1, <2>2 DEF place
<1>11. Arranged(P, R) \in [1..size -> P]
  BY <1>10 DEF Arranged, size
<1>12. \A i \in P : \E n \in 1..size : Arranged(P, R)[n] = i
  <2> SUFFICES ASSUME NEW i \in P
               PROVE  \E n \in 1..size : Arranged(P, R)[n] = i
    OBVIOUS
  <2>1. place[i] + 1 \in 1..size /\ (place[i] + 1) - 1 = place[i]
    BY <1>1, <1>4
  <2> QED
    BY <2>1, <1>5, <1>10
<1>13. ASSUME NEW m \in 1..size, NEW n \in 1..size, m < n
       PROVE  <<Arranged(P, R)[m], Arranged(P, R)[n]>> \in R
  <2>1. /\ Arranged(P, R)[m] \in P /\ place[Arranged(P, R)[m]] = m - 1
        /\ Arranged(P, R)[n] \in P /\ place[Arranged(P, R)[n]] = n - 1
    BY <1>10
  <2>2. m - 1 # n - 1 /\ ~(n - 1 < m - 1)
    BY <1>1, <1>13
  <2> DEFINE i == Arranged(P, R)[m]
             j == Arranged(P, R)[n]
  <2>3. i # j /\ ~(place[j] < place[i])
    BY <2>1, <2>2
  <2> HIDE DEF i, j
  <2>4. <<i, j>> \in R
    BY <2>1, <2>3, <1>3 DEF i, j
  <2> QED
    BY <2>4 DEF i, j
<1> QED
  BY <1>1, <1>11, <1>12, <1>13 DEF size

\* What picking leaves of a list: exactly the elements at the positions given.
LEMMA PickedIs ==
  ASSUME NEW S, NEW s \in Seq(S), NEW P \in SUBSET (1..Len(s))
  PROVE  /\ Picked(s, P) \in Seq(S) /\ Len(Picked(s, P)) <= Len(s)
         /\ \A n \in 1..Len(Picked(s, P)) : \E i \in P : Picked(s, P)[n] = s[i]
         /\ \A i \in P : \E n \in 1..Len(Picked(s, P)) : Picked(s, P)[n] = s[i]
<1> DEFINE R == {p \in P \X P : p[1] < p[2]}
           order == Arranged(P, R)
           size == Cardinality(P)
<1>0. Len(s) \in Nat /\ DOMAIN s = 1..Len(s) /\ \A i \in 1..Len(s) : s[i] \in S
  BY LenProperties
<1>1. IsFiniteSet(P) /\ size <= Len(s)
  <2>1. IsFiniteSet(1..Len(s)) /\ Cardinality(1..Len(s)) = Len(s)
    BY <1>0, Positions
  <2>2. P \in SUBSET (1..Len(s))
    OBVIOUS
  <2> QED
    BY <2>1, <2>2, FS_Subset
<1>2. \A i \in P : <<i, i>> \notin R
  OBVIOUS
<1>3. \A i, j, k \in P : <<i, j>> \in R /\ <<j, k>> \in R => <<i, k>> \in R
  OBVIOUS
<1>4. \A i, j \in P : i # j => <<i, j>> \in R \/ <<j, i>> \in R
  OBVIOUS
<1> HIDE DEF R
<1>5. size \in Nat /\ order \in [1..size -> P] /\ \A i \in P : \E n \in 1..size : order[n] = i
  <2>1. /\ Cardinality(P) \in Nat
        /\ Arranged(P, R) \in [1..Cardinality(P) -> P]
        /\ \A i \in P : \E n \in 1..Cardinality(P) : Arranged(P, R)[n] = i
        /\ \A m, n \in 1..Cardinality(P) : m < n => <<Arranged(P, R)[m], Arranged(P, R)[n]>> \in R
    <3>1. IsFiniteSet(P)
      BY <1>1
    <3> QED
      BY <3>1, <1>2, <1>3, <1>4, Arrangement
  <2> QED
    BY <2>1
<1>6. Picked(s, P) = [n \in 1..size |-> s[order[n]]]
  BY DEF Picked, R
<1> HIDE DEF order, size
<1>7. \A n \in 1..size : order[n] \in P /\ s[order[n]] \in S
  BY <1>0, <1>5
<1>8. Picked(s, P) \in Seq(S) /\ Len(Picked(s, P)) = size
  BY <1>5, <1>6, <1>7
<1> QED
  <2>1. \A n \in 1..size : \E i \in P : Picked(s, P)[n] = s[i]
    BY <1>6, <1>7
  <2>2. ASSUME NEW i \in P
        PROVE  \E n \in 1..size : Picked(s, P)[n] = s[i]
    BY <1>5, <1>6
  <2> QED
    BY <1>1, <1>8, <2>1, <2>2

\* Sorting keeps the rows, and puts none before a higher one.
LEMMA SortedIs ==
  ASSUME NEW S, NEW rows \in Seq(S), \A r \in S : r.score \in Int
  PROVE  /\ ByScore(rows) \in Seq(S) /\ Len(ByScore(rows)) = Len(rows)
         /\ \A i \in 1..Len(rows) : \E n \in 1..Len(rows) : ByScore(rows)[n] = rows[i]
         /\ \A m, n \in 1..Len(rows) : m < n => ByScore(rows)[m].score >= ByScore(rows)[n].score
<1> DEFINE P == 1..Len(rows)
           R == Before(rows)
           order == Arranged(P, R)
<1>1. DOMAIN rows = P /\ Len(rows) \in Nat /\ \A i \in P : rows[i] \in S /\ rows[i].score \in Int
  BY LenProperties
<1>2. IsFiniteSet(P) /\ Cardinality(P) = Len(rows)
  BY <1>1, Positions
<1>3. \A i, j \in P : <<i, j>> \in R <=>
         rows[i].score > rows[j].score \/ (rows[i].score = rows[j].score /\ i < j)
  BY <1>1 DEF Before
<1> HIDE DEF R
<1>4. \A i \in P : <<i, i>> \notin R
  BY <1>1, <1>3
<1>5. \A i, j, k \in P : <<i, j>> \in R /\ <<j, k>> \in R => <<i, k>> \in R
  <2> SUFFICES ASSUME NEW i \in P, NEW j \in P, NEW k \in P, <<i, j>> \in R, <<j, k>> \in R
               PROVE  <<i, k>> \in R
    OBVIOUS
  <2>1. rows[i].score \in Int /\ rows[j].score \in Int /\ rows[k].score \in Int
    BY <1>1
  <2>2. /\ rows[i].score > rows[j].score \/ (rows[i].score = rows[j].score /\ i < j)
        /\ rows[j].score > rows[k].score \/ (rows[j].score = rows[k].score /\ j < k)
    BY <1>3
  <2>3. rows[i].score > rows[k].score \/ (rows[i].score = rows[k].score /\ i < k)
    BY <1>1, <2>1, <2>2
  <2> QED
    BY <1>3, <2>3
<1>6. \A i, j \in P : i # j => <<i, j>> \in R \/ <<j, i>> \in R
  BY <1>1, <1>3
<1>7. /\ order \in [P -> P] /\ \A i \in P : \E n \in P : order[n] = i
      /\ \A m, n \in P : m < n => <<order[m], order[n]>> \in R
  BY <1>2, <1>4, <1>5, <1>6, Arrangement
<1>8. ByScore(rows) = [n \in P |-> rows[order[n]]]
  BY <1>1 DEF ByScore, R
<1> HIDE DEF order
<1>9. ByScore(rows) \in Seq(S) /\ Len(ByScore(rows)) = Len(rows)
  BY <1>1, <1>7, <1>8
<1>10. ASSUME NEW m \in P, NEW n \in P, m < n
       PROVE  ByScore(rows)[m].score >= ByScore(rows)[n].score
  <2> DEFINE i == order[m]
             j == order[n]
  <2>1. i \in P /\ j \in P /\ <<i, j>> \in R
    BY <1>7, <1>10
  <2>2. ByScore(rows)[m] = rows[i] /\ ByScore(rows)[n] = rows[j]
    BY <1>8
  <2> HIDE DEF i, j
  <2>3. rows[i].score \in Int /\ rows[j].score \in Int
    BY <1>1, <2>1
  <2>4. rows[i].score > rows[j].score \/ rows[i].score = rows[j].score
    BY <1>3, <2>1
  <2> QED
    BY <2>2, <2>3, <2>4
<1>11. ASSUME NEW i \in P
       PROVE  \E n \in P : ByScore(rows)[n] = rows[i]
  BY <1>7, <1>8
<1> QED
  BY <1>9, <1>10, <1>11

\* What two lists joined hold.
LEMMA RangeOf ==
  ASSUME NEW S, NEW s \in Seq(S), NEW t \in Seq(S)
  PROVE  /\ s \o t \in Seq(S) /\ Len(s \o t) = Len(s) + Len(t)
         /\ Range(s) \subseteq S /\ Range(s \o t) = Range(s) \cup Range(t)
         /\ \A i \in 1..Len(s) : (s \o t)[i] = s[i]
<1>1. /\ s \o t \in Seq(S) /\ Len(s \o t) = Len(s) + Len(t) /\ DOMAIN (s \o t) = 1..(Len(s) + Len(t))
      /\ \A i \in 1..Len(s) : (s \o t)[i] = s[i]
      /\ \A i \in 1..Len(t) : (s \o t)[Len(s) + i] = t[i]
  BY ConcatProperties, LenProperties
<1>2. /\ Len(s) \in Nat /\ DOMAIN s = 1..Len(s) /\ \A i \in 1..Len(s) : s[i] \in S
      /\ Len(t) \in Nat /\ DOMAIN t = 1..Len(t)
  BY LenProperties
<1>3. Range(s) \subseteq Range(s \o t)
  BY <1>1, <1>2 DEF Range
<1>4. Range(t) \subseteq Range(s \o t)
  <2> SUFFICES ASSUME NEW i \in 1..Len(t) PROVE t[i] \in Range(s \o t)
    BY <1>2 DEF Range
  <2>1. Len(s) + i \in 1..(Len(s) + Len(t))
    BY <1>2
  <2> QED
    BY <1>1, <2>1 DEF Range
<1>5. Range(s \o t) \subseteq Range(s) \cup Range(t)
  <2> SUFFICES ASSUME NEW i \in 1..(Len(s) + Len(t)) PROVE (s \o t)[i] \in Range(s) \cup Range(t)
    BY <1>1 DEF Range
  <2>1. CASE i <= Len(s)
    BY <1>1, <1>2, <2>1 DEF Range
  <2>2. CASE i > Len(s)
    <3>1. i - Len(s) \in 1..Len(t) /\ Len(s) + (i - Len(s)) = i
      BY <1>2, <2>2
    <3>2. (s \o t)[i] = t[i - Len(s)]
      BY <1>1, <3>1
    <3> QED
      BY <1>2, <3>1, <3>2 DEF Range
  <2> QED
    BY <1>2, <2>1, <2>2
<1> QED
  BY <1>1, <1>2, <1>3, <1>4, <1>5 DEF Range

\* The head of a sorted list: every row is in it, or it is full of rows at
\* least as high.
LEMMA HighestIs ==
  ASSUME NEW rows \in Seq(Rows)
  PROVE  /\ Highest(rows) \in Seq(Rows) /\ Len(Highest(rows)) <= TopN
         /\ \A r \in Range(rows) : Ranked(Highest(rows), r)
<1> DEFINE sorted == ByScore(rows)
           cut == IF Len(rows) < TopN THEN Len(rows) ELSE TopN
           top == SubSeq(sorted, 1, cut)
<1>1. \A r \in Rows : r.score \in Int
  <2>1. Scores \subseteq Int
    BY ChurnAssumption
  <2> QED
    BY <2>1 DEF Rows
<1>2. TopN \in Nat \ {0}
  BY CapsAssumption
<1>3. /\ sorted \in Seq(Rows) /\ Len(sorted) = Len(rows)
      /\ \A i \in 1..Len(rows) : \E n \in 1..Len(rows) : sorted[n] = rows[i]
      /\ \A m, n \in 1..Len(rows) : m < n => sorted[m].score >= sorted[n].score
  BY <1>1, SortedIs
<1> HIDE DEF sorted
<1>4. Len(rows) \in Nat /\ DOMAIN rows = 1..Len(rows) /\ \A i \in 1..Len(rows) : sorted[i] \in Rows
  BY <1>3, LenProperties
<1>5. cut \in 0..Len(rows) /\ cut <= TopN /\ (cut = Len(rows) \/ cut = TopN)
  BY <1>2, <1>4
<1> HIDE DEF cut
<1>6. top \in Seq(Rows) /\ Len(top) = cut /\ DOMAIN top = 1..cut /\ \A i \in 1..cut : top[i] = sorted[i]
  BY <1>3, <1>4, <1>5
<1> HIDE DEF top
<1>7. ASSUME NEW r \in Range(rows)
      PROVE  Ranked(top, r)
  <2>1. PICK i \in 1..Len(rows) : r = rows[i]
    BY <1>4 DEF Range
  <2>2. PICK n \in 1..Len(rows) : sorted[n] = r
    BY <1>3, <2>1
  <2>0. /\ n \in Int /\ 1 <= n /\ n <= Len(rows)
        /\ cut \in Int /\ 0 <= cut /\ cut <= Len(rows) /\ (cut = Len(rows) \/ cut = TopN)
        /\ Len(rows) \in Int
    <3>1. Len(rows) \in Nat
      BY <1>4
    <3>2. n \in 1..Len(rows)
      BY <2>2
    <3>3. n \in Int /\ 1 <= n /\ n <= Len(rows)
      BY <3>1, <3>2
    <3>4. cut \in Int /\ 0 <= cut /\ cut <= Len(rows)
      BY <3>1, <1>5
    <3> QED
      BY <1>5, <3>1, <3>3, <3>4
  <2>3. CASE n <= cut
    <3>1. n \in 1..cut
      BY <2>0, <2>3
    <3> QED
      BY <1>6, <2>2, <3>1 DEF Ranked, Range
  <2>4. CASE n > cut
    <3>1. cut = TopN
      BY <2>0, <2>4
    <3>2. \A m \in 1..cut : m \in 1..Len(rows) /\ m < n
      BY <2>0, <2>4
    <3>3. \A m \in 1..cut : top[m].score >= r.score
      BY <1>3, <1>6, <2>2, <3>2
    <3> QED
      BY <1>6, <3>1, <3>3 DEF Ranked
  <2> QED
    BY <2>0, <2>3, <2>4
<1>8. Highest(rows) = top
  BY DEF Highest, top, cut, sorted
<1> QED
  BY <1>5, <1>6, <1>7, <1>8
--------------------------------------------------------------------------
\* The initial states satisfy the inductive invariant.
LEMMA InitIInv == Init => IInv
<1> SUFFICES ASSUME Init PROVE IInv
  OBVIOUS
<1>1. /\ ScanFloor \in Nat \ {0} /\ ScanHardLimit \in Nat /\ ScanFloor <= ScanHardLimit
      /\ MaxIterations \in Nat /\ TopN \in Nat /\ MaxChanges \in Nat
  BY CapsAssumption, ChurnAssumption
<1>2. TypeOK
  <2>1. << >> \in Seq(Keys) /\ << >> \in Seq(Rows) /\ Len(<< >>) = 0
    OBVIOUS
  <2>2. report.status \in Texts /\ report.truncated \in BOOLEAN /\ report.top = << >>
    BY DEF Init, NoReport, Texts
  <2>3. /\ changes \in 0..MaxChanges /\ scanMax \in ScanFloor..ScanHardLimit
        /\ iterations \in 0..(MaxIterations + 1) /\ measured = 0
    BY <1>1 DEF Init
  <2>4. Len(collected) <= scanMax /\ measured \in 0..Len(collected) /\ Len(report.top) <= TopN
    BY <1>1, <2>1, <2>2 DEF Init
  <2> QED
    <3>1. /\ score \in [Keys -> Scores] /\ lfu \in BOOLEAN /\ lfuMode \in BOOLEAN
          /\ pc \in {"idle", "policy", "scan", "measure", "done"} /\ tool \in {"big_keys", "hot_keys"}
          /\ dropped \in BOOLEAN
      BY DEF Init
    <3>4. cursor \in 0..2 /\ due \subseteq Keys /\ changed \subseteq Keys
      BY DEF Init
    <3>2. collected = << >> /\ sized = << >> /\ measured = 0
      BY DEF Init
    <3>3. collected \in Seq(Keys) /\ sized \in Seq(Rows) /\ report.top \in Seq(Rows) /\ Len(sized) <= measured
      BY <2>1, <2>2, <3>2
    <3> QED
      BY <2>2, <2>3, <2>4, <3>1, <3>3, <3>4 DEF TypeOK
<1>3. ScanInv
  BY <1>1 DEF Init, ScanInv
<1>4. DueInv /\ StoppedInv /\ MeasuredInv /\ ReportInv
  BY DEF Init, DueInv, StoppedInv, MeasuredInv, ReportInv, Stopped, Reported
<1> QED
  BY <1>2, <1>3, <1>4 DEF IInv

\* A key that changes is out of the account; nothing changes for the others.
LEMMA ChangeIInv ==
  ASSUME IInv, NEW k \in Keys, NEW s \in Scores, Change(k, s)
  PROVE  IInv'
<1>1. /\ changes < MaxChanges /\ changes' = changes + 1
      /\ score' = [score EXCEPT ![k] = s] /\ changed' = changed \cup {k}
      /\ due' = IF s = 0 THEN due \ {k} ELSE due
      /\ lfu' = lfu /\ pc' = pc /\ tool' = tool /\ scanMax' = scanMax /\ lfuMode' = lfuMode
      /\ collected' = collected /\ cursor' = cursor /\ iterations' = iterations
      /\ measured' = measured /\ sized' = sized /\ report' = report /\ dropped' = dropped
  BY DEF Change, loop
<1>2. Steady' \subseteq Steady /\ k \notin Steady'
  BY <1>1 DEF Steady, Live, IInv, TypeOK
<1>3. \A j \in Steady' : Row(j)' = Row(j)
  BY <1>1, <1>2 DEF Row, Steady, Live, IInv, TypeOK
<1>4. TypeOK'
  <2>1. changes' \in 0..MaxChanges
    BY <1>1, ChurnAssumption DEF IInv, TypeOK
  <2> QED
    BY <1>1, <2>1 DEF IInv, TypeOK
<1>5. ScanInv'
  BY <1>1 DEF IInv, ScanInv
<1>6. DueInv'
  BY <1>1, <1>2 DEF IInv, DueInv
<1>7. Stopped' = Stopped /\ Reported' = Reported
  BY <1>1 DEF Stopped, Reported
<1>8. StoppedInv'
  BY <1>1, <1>2, <1>7 DEF IInv, StoppedInv
<1>9. MeasuredInv'
  BY <1>1, <1>2, <1>3, <1>7 DEF IInv, MeasuredInv
<1>10. ReportInv'
  BY <1>1, <1>7 DEF IInv, ReportInv, Truncated, Ranked
<1> QED
  BY <1>4, <1>5, <1>6, <1>8, <1>9, <1>10 DEF IInv

\* A new policy changes no key.
LEMMA ChangePolicyIInv ==
  ASSUME IInv, ChangePolicy
  PROVE  IInv'
<1>1. /\ changes < MaxChanges /\ changes' = changes + 1 /\ lfu' = ~lfu
      /\ score' = score /\ changed' = changed /\ due' = due
      /\ pc' = pc /\ tool' = tool /\ scanMax' = scanMax /\ lfuMode' = lfuMode
      /\ collected' = collected /\ cursor' = cursor /\ iterations' = iterations
      /\ measured' = measured /\ sized' = sized /\ report' = report /\ dropped' = dropped
  BY DEF ChangePolicy, loop, history
<1>2. Steady' = Steady /\ Stopped' = Stopped /\ Reported' = Reported
  BY <1>1 DEF Steady, Live, Stopped, Reported
<1>3. changes' \in 0..MaxChanges
  BY <1>1, ChurnAssumption DEF IInv, TypeOK
<1>4. TypeOK'
  BY <1>1, <1>3 DEF IInv, TypeOK
<1>5. ScanInv' /\ DueInv'
  BY <1>1, <1>2 DEF IInv, ScanInv, DueInv
<1>6. StoppedInv' /\ MeasuredInv'
  BY <1>1, <1>2 DEF IInv, StoppedInv, MeasuredInv, Row
<1>7. ReportInv'
  BY <1>1, <1>2 DEF IInv, ReportInv, Truncated, Ranked
<1> QED
  BY <1>4, <1>5, <1>6, <1>7 DEF IInv

\* A call starts with nothing collected, and every key still to be returned.
LEMMA CallIInv ==
  ASSUME IInv, NEW t \in {"big_keys", "hot_keys"}, NEW cap \in ScanCaps, Call(t, cap)
  PROVE  IInv'
<1>1. /\ pc = "idle" /\ pc' \in {"policy", "scan"} /\ tool' = t /\ scanMax' = Bounded(cap)
      /\ due' = Live /\ changed' = {}
      /\ score' = score /\ lfu' = lfu /\ changes' = changes /\ lfuMode' = lfuMode
      /\ collected' = collected /\ cursor' = cursor /\ iterations' = iterations
      /\ measured' = measured /\ sized' = sized /\ report' = report /\ dropped' = dropped
  BY DEF Call, server
<1>2. ScanFloor \in Nat \ {0} /\ ScanHardLimit \in Nat /\ ScanFloor <= ScanHardLimit /\ cap \in Int
  BY CapsAssumption
<1>3. Bounded(cap) \in ScanFloor..ScanHardLimit /\ 0 < Bounded(cap)
  BY <1>2 DEF Bounded
<1>4. collected = << >> /\ Len(collected) = 0 /\ ~dropped /\ measured = 0 /\ sized = << >>
      /\ iterations = 0 /\ cursor = 0 /\ iterations <= MaxIterations
  BY <1>1 DEF IInv, ScanInv
<1>5. Live \subseteq Keys
  BY DEF Live
<1> HIDE DEF Bounded
<1>6. TypeOK'
  <2>1. Len(collected') <= scanMax' /\ scanMax' \in ScanFloor..ScanHardLimit
    BY <1>1, <1>2, <1>3, <1>4
  <2>2. pc' \in {"idle", "policy", "scan", "measure", "done"} /\ tool' \in {"big_keys", "hot_keys"}
    BY <1>1
  <2> QED
    BY <1>1, <1>5, <2>1, <2>2 DEF IInv, TypeOK
<1>7. ScanInv'
  BY <1>1, <1>3, <1>4 DEF ScanInv
<1>8. DueInv'
  BY <1>1 DEF DueInv, Steady, Live
<1>9. StoppedInv' /\ MeasuredInv' /\ ReportInv'
  BY <1>1 DEF StoppedInv, MeasuredInv, ReportInv, Stopped, Reported
<1> QED
  BY <1>6, <1>7, <1>8, <1>9 DEF IInv

\* When SCAN starts every key of the server is due.
LEMMA ReadPolicyIInv ==
  ASSUME IInv, ReadPolicy
  PROVE  IInv'
<1>1. /\ pc = "policy" /\ pc' = "scan" /\ lfuMode' = lfu /\ due' = Live
      /\ score' = score /\ lfu' = lfu /\ changes' = changes /\ tool' = tool /\ scanMax' = scanMax
      /\ collected' = collected /\ cursor' = cursor /\ iterations' = iterations
      /\ measured' = measured /\ sized' = sized /\ report' = report /\ dropped' = dropped
      /\ changed' = changed
  BY DEF ReadPolicy, server, history
<1>2. Live \subseteq Keys
  BY DEF Live
<1>3. TypeOK'
  BY <1>1, <1>2 DEF IInv, TypeOK
<1>4. ScanInv'
  BY <1>1 DEF IInv, ScanInv
<1>5. DueInv'
  BY <1>1 DEF DueInv, Steady, Live
<1>6. StoppedInv' /\ MeasuredInv' /\ ReportInv'
  BY <1>1 DEF StoppedInv, MeasuredInv, ReportInv, Stopped, Reported
<1> QED
  BY <1>3, <1>4, <1>5, <1>6 DEF IInv

\* A call that ends with an exception reports nothing.
LEMMA FailedIInv ==
  ASSUME IInv, pc \in {"policy", "scan", "measure"},
         pc' = "done", report' = [NoReport EXCEPT !.status = "exception"],
         UNCHANGED <<server, tool, loop, measured, sized, due, history>>
  PROVE  IInv'
<1>1. /\ score' = score /\ lfu' = lfu /\ changes' = changes /\ tool' = tool /\ scanMax' = scanMax
      /\ lfuMode' = lfuMode /\ due' = due
      /\ collected' = collected /\ cursor' = cursor /\ iterations' = iterations
      /\ measured' = measured /\ sized' = sized /\ dropped' = dropped /\ changed' = changed
  BY DEF server, loop, history
<1>2. report'.status = "exception" /\ report'.truncated = FALSE /\ report'.top = << >>
  BY DEF NoReport
<1>3. << >> \in Seq(Rows) /\ Len(<< >>) = 0 /\ TopN \in Nat
  BY CapsAssumption
<1>4. TypeOK'
  <2>1. report'.top \in Seq(Rows) /\ Len(report'.top) <= TopN
    <3>1. report'.top \in Seq(Rows) /\ Len(report'.top) = 0
      BY <1>2, <1>3
    <3> QED
      BY <1>3, <3>1
  <2>2. report'.status \in Texts /\ report'.truncated \in BOOLEAN
    BY <1>2 DEF Texts
  <2> QED
    BY <1>1, <2>1, <2>2 DEF IInv, TypeOK
<1>5. ScanInv' /\ DueInv'
  BY <1>1 DEF ScanInv, DueInv
<1>6. ~Reported' /\ ~Stopped'
  BY <1>2 DEF Reported, Stopped
<1>7. StoppedInv' /\ MeasuredInv' /\ ReportInv'
  BY <1>6 DEF StoppedInv, MeasuredInv, ReportInv
<1> QED
  BY <1>4, <1>5, <1>7 DEF IInv

\* The next call starts afresh.
LEMMA FinishIInv ==
  ASSUME IInv, Finish
  PROVE  IInv'
<1>1. /\ pc' = "idle" /\ tool' = "big_keys" /\ scanMax' = ScanFloor /\ lfuMode' = FALSE
      /\ collected' = << >> /\ cursor' = 0 /\ iterations' = 0
      /\ measured' = 0 /\ sized' = << >> /\ report' = NoReport
      /\ due' = {} /\ changed' = {} /\ dropped' = FALSE
      /\ score' = score /\ lfu' = lfu /\ changes' = changes
  BY DEF Finish, server
<1>2. /\ ScanFloor \in Nat \ {0} /\ ScanHardLimit \in Nat /\ ScanFloor <= ScanHardLimit
      /\ MaxIterations \in Nat /\ TopN \in Nat
  BY CapsAssumption
<1>3. << >> \in Seq(Rows) /\ << >> \in Seq(Keys) /\ Len(<< >>) = 0
  OBVIOUS
<1>4. TypeOK'
  <2>1. report'.status \in Texts /\ report'.truncated \in BOOLEAN /\ report'.top = << >>
    BY <1>1 DEF NoReport, Texts
  <2>2. /\ scanMax' \in ScanFloor..ScanHardLimit /\ iterations' \in 0..(MaxIterations + 1)
        /\ cursor' \in 0..2
    BY <1>1, <1>2
  <2>3. /\ Len(collected') = 0 /\ Len(sized') = 0 /\ Len(report'.top) = 0
        /\ collected' \in Seq(Keys) /\ sized' \in Seq(Rows) /\ report'.top \in Seq(Rows)
    BY <1>1, <1>3, <2>1
  <2>4. Len(collected') <= scanMax' /\ measured' \in 0..Len(collected') /\ Len(sized') <= measured'
        /\ Len(report'.top) <= TopN
    BY <1>1, <1>2, <2>3
  <2> QED
    BY <1>1, <2>1, <2>2, <2>3, <2>4 DEF IInv, TypeOK
<1>5. ScanInv' /\ DueInv'
  <2>1. Len(collected') < scanMax'
    BY <1>1, <1>2, <1>3
  <2> QED
    BY <1>1, <1>2, <2>1 DEF ScanInv, DueInv
<1>6. StoppedInv' /\ MeasuredInv' /\ ReportInv'
  BY <1>1 DEF StoppedInv, MeasuredInv, ReportInv, Stopped, Reported
<1> QED
  BY <1>4, <1>5, <1>6 DEF IInv

\* An iteration takes what it returns from what is due, and ends the loop as
\* soon as it cuts something off.
LEMMA ScanIInv ==
  ASSUME IInv, NEW batch \in BoundedSeq(Live, MaxBatch), NEW last \in BOOLEAN, Scan(batch, last)
  PROVE  IInv'
<1> DEFINE all == collected \o batch
           cut == IF Len(all) < scanMax THEN Len(all) ELSE scanMax
<1>1. /\ pc = "scan" /\ (last => due \subseteq Range(batch)) /\ due' = due \ Range(batch)
      /\ iterations' = iterations + 1
      /\ cursor' = IF last THEN 0 ELSE IF cursor = 1 THEN 2 ELSE 1
      /\ collected' = SubSeq(all, 1, cut) /\ dropped' = (Len(all) > scanMax)
      /\ pc' = IF Len(all) >= scanMax \/ last \/ iterations + 1 > MaxIterations THEN "measure" ELSE "scan"
      /\ score' = score /\ lfu' = lfu /\ changes' = changes /\ tool' = tool /\ scanMax' = scanMax
      /\ lfuMode' = lfuMode /\ measured' = measured /\ sized' = sized /\ report' = report
      /\ changed' = changed
  BY DEF Scan, Stop, Iteration, server
<1>2. /\ ~dropped /\ measured = 0 /\ sized = << >> /\ iterations \in Nat /\ iterations <= MaxIterations
      /\ scanMax \in Nat /\ scanMax > 0 /\ MaxIterations \in Nat
  BY <1>1, CapsAssumption DEF IInv, ScanInv, TypeOK
<1>3. batch \in Seq(Keys) /\ collected \in Seq(Keys)
  BY DEF BoundedSeq, SeqOf, Live, IInv, TypeOK
<1>4. /\ all \in Seq(Keys) /\ Range(all) = Range(collected) \cup Range(batch)
      /\ Len(all) \in Nat /\ DOMAIN all = 1..Len(all) /\ \A i \in 1..Len(all) : all[i] \in Keys
  BY <1>3, RangeOf, LenProperties
<1>a. Len(all) \in Nat /\ scanMax \in Nat
  BY <1>2, <1>4
<1> HIDE DEF all
<1>5. /\ cut \in Nat /\ cut <= Len(all) /\ cut <= scanMax
      /\ Len(all) < scanMax => cut = Len(all)
      /\ Len(all) >= scanMax => cut = scanMax
      /\ Len(all) <= scanMax => cut = Len(all)
  BY <1>a
<1>6. /\ collected' \in Seq(Keys) /\ Len(collected') = cut
      /\ Len(all) <= scanMax => collected' = all
  <2>1. cut \in 0..Len(all)
    BY <1>4, <1>5
  <2> HIDE DEF cut
  <2>3. SubSeq(all, 1, cut) \in Seq(Keys) /\ Len(SubSeq(all, 1, cut)) = cut
    BY <1>4, <2>1
  <2>4. SubSeq(all, 1, Len(all)) = all
    BY <1>4, SubSeqFull
  <2> QED
    BY <1>1, <1>5, <2>3, <2>4
<1> HIDE DEF cut
<1>b. /\ ~dropped' => collected' = all
      /\ dropped' => pc' = "measure" /\ Len(collected') = scanMax
      /\ pc' = "scan" => ~dropped' /\ Len(collected') < scanMax
      /\ pc' = "scan" => ~last /\ iterations + 1 <= MaxIterations
      /\ pc' = "measure" => Len(collected') = scanMax \/ last \/ iterations + 1 > MaxIterations
  <2>1. CASE Len(all) < scanMax
    <3>1. ~(Len(all) > scanMax) /\ ~(Len(all) >= scanMax) /\ Len(all) <= scanMax
      BY <1>a, <2>1
    <3>2. pc' = IF last \/ iterations + 1 > MaxIterations THEN "measure" ELSE "scan"
      BY <1>1, <3>1
    <3>3. iterations + 1 > MaxIterations \/ iterations + 1 <= MaxIterations
      BY <1>2
    <3>4. ~dropped' /\ collected' = all /\ Len(collected') < scanMax
      BY <1>1, <1>6, <2>1, <3>1
    <3> QED
      BY <3>2, <3>3, <3>4
  <2>2. CASE Len(all) = scanMax
    <3>1. ~(Len(all) > scanMax) /\ Len(all) >= scanMax /\ Len(all) <= scanMax
      BY <1>a, <2>2
    <3> QED
      BY <1>1, <1>5, <1>6, <3>1
  <2>3. CASE Len(all) > scanMax
    <3>1. Len(all) >= scanMax
      BY <1>a, <2>3
    <3> QED
      BY <1>1, <1>5, <1>6, <2>3, <3>1
  <2> QED
    BY <1>a, <2>1, <2>2, <2>3
<1>7. pc' \in {"scan", "measure"} /\ Steady' = Steady /\ Stopped' = (pc' = "measure") /\ ~Reported'
  BY <1>1 DEF Steady, Live, Stopped, Reported
<1>8. TypeOK'
  <2>1. Len(collected') <= scanMax' /\ measured' \in 0..Len(collected')
    BY <1>1, <1>2, <1>5, <1>6
  <2>2. iterations' \in 0..(MaxIterations + 1) /\ cursor' \in 0..2 /\ dropped' \in BOOLEAN
    BY <1>1, <1>2
  <2>3. due' \subseteq Keys /\ pc' \in {"idle", "policy", "scan", "measure", "done"}
    BY <1>1, <1>7 DEF IInv, TypeOK
  <2> QED
    BY <1>1, <1>6, <2>1, <2>2, <2>3 DEF IInv, TypeOK
<1>9. ScanInv'
  BY <1>1, <1>2, <1>7, <1>b DEF ScanInv
<1>10. Steady \subseteq due \cup Range(collected)
  BY <1>1 DEF IInv, DueInv
<1>11. DueInv'
  <2>1. pc' = "scan" => collected' = all
    BY <1>b
  <2> QED
    BY <1>1, <1>4, <1>7, <1>10, <2>1 DEF DueInv
<1>12. StoppedInv'
  <2>1. cursor' = 0 => last
    BY <1>1
  <2>2. last => Steady \subseteq Range(all)
    BY <1>1, <1>4, <1>10
  <2>3. cursor' = 0 /\ ~dropped' => Steady' \subseteq Range(collected')
    BY <1>7, <1>b, <2>1, <2>2
  <2>4. last => cursor' = 0
    BY <1>1
  <2>5. pc' = "measure" => cursor' = 0 \/ iterations' > MaxIterations \/ Len(collected') = scanMax'
    BY <1>1, <1>b, <2>4
  <2> QED
    BY <1>7, <2>3, <2>5 DEF StoppedInv
<1>13. MeasuredInv'
  BY <1>1, <1>2 DEF MeasuredInv
<1>14. ReportInv'
  BY <1>7 DEF ReportInv
<1> QED
  BY <1>8, <1>9, <1>11, <1>12, <1>13, <1>14 DEF IInv

\* A batch of the pipeline is the next piece of what was collected.
LEMMA ChunkIs ==
  ASSUME collected \in Seq(Keys), measured \in 0..Len(collected), measured < Len(collected)
  PROVE  /\ Chunk \in Seq(Keys) /\ Len(Chunk) \in Nat \ {0} /\ measured + Len(Chunk) <= Len(collected)
         /\ \A i \in 1..Len(Chunk) : Chunk[i] = collected[measured + i]
<1> DEFINE end == IF measured + PipelineBatch < Len(collected) THEN measured + PipelineBatch ELSE Len(collected)
<1>1. Len(collected) \in Nat /\ \A i \in 1..Len(collected) : collected[i] \in Keys
  BY LenProperties
<1>2. measured \in Nat /\ end \in Nat /\ measured + 1 <= end /\ end <= Len(collected)
  BY <1>1, CapsAssumption
<1>3. Chunk = SubSeq(collected, measured + 1, end)
  BY DEF Chunk
<1> HIDE DEF end
<1> DEFINE size == end - measured
<1>4. \A i \in (measured + 1)..end : collected[i] \in Keys
  BY <1>1, <1>2
<1>5. /\ Chunk \in Seq(Keys) /\ Len(Chunk) = end - (measured + 1) + 1
      /\ \A i \in 1..(end - (measured + 1) + 1) : Chunk[i] = collected[(measured + 1) + i - 1]
  BY <1>2, <1>3, <1>4, SubSeqProperties
<1>6. end - (measured + 1) + 1 = size /\ size \in Nat \ {0} /\ measured + size = end
  BY <1>2
<1> HIDE DEF size
<1>7. ASSUME NEW i \in 1..size
      PROVE  Chunk[i] = collected[measured + i]
  <2>1. (measured + 1) + i - 1 = measured + i
    BY <1>2, <1>6
  <2>2. Chunk[i] = collected[(measured + 1) + i - 1]
    BY <1>5, <1>6
  <2> QED
    BY <2>1, <2>2
<1> QED
  BY <1>2, <1>5, <1>6, <1>7

\* A batch that is measured adds a row for each of its keys that is there.
LEMMA MeasureIInv ==
  ASSUME IInv, Measure, measured' # measured
  PROVE  IInv'
<1> DEFINE chunk == Chunk
           there == Picked(chunk, {i \in DOMAIN chunk : score[chunk[i]] > 0})
           new == [i \in DOMAIN there |-> [key |-> there[i], score |-> score[there[i]]]]
           size == Len(chunk)
<1>1. /\ pc = "measure" /\ measured < Len(collected) /\ measured' = measured + size
      /\ sized' = sized \o new
      /\ pc' = pc /\ report' = report
      /\ score' = score /\ lfu' = lfu /\ changes' = changes /\ tool' = tool /\ scanMax' = scanMax
      /\ lfuMode' = lfuMode /\ due' = due
      /\ collected' = collected /\ cursor' = cursor /\ iterations' = iterations
      /\ dropped' = dropped /\ changed' = changed
  BY DEF Measure, server, loop, history
<1>2. /\ collected \in Seq(Keys) /\ measured \in 0..Len(collected) /\ Len(collected) \in Nat
      /\ \A i \in 1..Len(collected) : collected[i] \in Keys
      /\ sized \in Seq(Rows) /\ Len(sized) <= measured /\ Len(sized) \in Nat
      /\ score \in [Keys -> Scores]
  BY LenProperties DEF IInv, TypeOK
<1>3. PipelineBatch \in Nat \ {0} /\ Scores \subseteq Nat
  BY CapsAssumption, ChurnAssumption
<1>4. /\ chunk \in Seq(Keys) /\ size \in Nat /\ measured + size <= Len(collected) /\ DOMAIN chunk = 1..size
      /\ \A i \in 1..size : chunk[i] = collected[measured + i]
  BY <1>1, <1>2, ChunkIs, LenProperties
<1> HIDE DEF chunk
<1>5. /\ there \in Seq(Keys) /\ Len(there) <= size
      /\ \A n \in 1..Len(there) : \E i \in 1..size : score[chunk[i]] > 0 /\ there[n] = chunk[i]
      /\ \A i \in 1..size : score[chunk[i]] > 0 => \E n \in 1..Len(there) : there[n] = chunk[i]
  <2> DEFINE P == {i \in DOMAIN chunk : score[chunk[i]] > 0}
  <2>1. P \in SUBSET (1..Len(chunk)) /\ P = {i \in 1..size : score[chunk[i]] > 0}
    BY <1>4
  <2>2. there = Picked(chunk, P)
    OBVIOUS
  <2> HIDE DEF P, there
  <2>3. /\ there \in Seq(Keys) /\ Len(there) <= size
        /\ \A n \in 1..Len(there) : \E i \in P : there[n] = chunk[i]
        /\ \A i \in P : \E n \in 1..Len(there) : there[n] = chunk[i]
    BY <1>4, <2>1, <2>2, PickedIs
  <2> QED
    BY <2>1, <2>3
<1> HIDE DEF there
<1>6. Len(there) \in Nat /\ DOMAIN there = 1..Len(there) /\ \A n \in 1..Len(there) : there[n] \in Keys
  BY <1>5, LenProperties
<1>7. new \in Seq(Rows) /\ Len(new) = Len(there) /\ DOMAIN new = 1..Len(there)
  <2>1. ASSUME NEW n \in 1..Len(there)
        PROVE  [key |-> there[n], score |-> score[there[n]]] \in Rows
    <3>1. there[n] \in Keys /\ score[there[n]] \in Scores /\ score[there[n]] # 0
      <4>1. score[there[n]] > 0 /\ there[n] \in Keys
        BY <1>5, <1>6
      <4>2. score[there[n]] \in Scores /\ score[there[n]] \in Nat
        BY <1>2, <1>3, <4>1
      <4> QED
        BY <4>1, <4>2
    <3> QED
      BY <3>1 DEF Rows
  <2>2. new = [n \in 1..Len(there) |-> [key |-> there[n], score |-> score[there[n]]]]
    BY <1>6
  <2> QED
    BY <1>6, <2>1, <2>2
<1>8. \A n \in 1..Len(there) : new[n] = Row(there[n])
  BY <1>6 DEF Row
<1> HIDE DEF new
<1>9. /\ sized' \in Seq(Rows) /\ Len(sized') = Len(sized) + Len(there)
      /\ Range(sized') = Range(sized) \cup Range(new)
  <2>1. sized \in Seq(Rows) /\ new \in Seq(Rows)
    BY <1>2, <1>7
  <2>2. /\ sized \o new \in Seq(Rows) /\ Len(sized \o new) = Len(sized) + Len(new)
        /\ Range(sized \o new) = Range(sized) \cup Range(new)
    BY <2>1, RangeOf
  <2> QED
    BY <1>1, <1>7, <2>2
<1> HIDE DEF size
<1>10. TypeOK'
  <2>1. measured' \in 0..Len(collected') /\ Len(sized') <= measured'
    BY <1>1, <1>2, <1>4, <1>5, <1>6, <1>9
  <2> QED
    BY <1>1, <1>9, <2>1 DEF IInv, TypeOK
<1>11. Steady' = Steady /\ Stopped' /\ Stopped /\ ~Reported'
  BY <1>1 DEF Steady, Live, Stopped, Reported
<1>12. ScanInv' /\ DueInv' /\ ReportInv'
  BY <1>1, <1>11 DEF ScanInv, DueInv, ReportInv
<1>13. StoppedInv'
  BY <1>1, <1>11 DEF IInv, StoppedInv
<1>14. MeasuredInv'
  <2> SUFFICES ASSUME NEW k \in Steady, NEW i \in 1..measured', collected[i] = k
               PROVE  Row(k)' \in Range(sized')
    BY <1>1, <1>11 DEF MeasuredInv
  <2>0. Row(k)' = Row(k) /\ k \in Keys /\ score[k] > 0
    BY <1>1 DEF Row, Steady, Live
  <2>1. CASE i <= measured
    <3>1. i \in 1..measured
      BY <1>2, <2>1
    <3>2. Row(k) \in Range(sized)
      BY <1>11, <3>1 DEF IInv, MeasuredInv
    <3> QED
      BY <1>9, <2>0, <3>2
  <2>2. CASE i > measured
    <3>1. i - measured \in 1..size /\ measured + (i - measured) = i
      BY <1>1, <1>2, <1>4, <2>2
    <3>2. chunk[i - measured] = k
      BY <1>4, <3>1
    <3>3. PICK n \in 1..Len(there) : there[n] = k
      BY <1>5, <2>0, <3>1, <3>2
    <3>4. new[n] = Row(k) /\ n \in DOMAIN new
      BY <1>7, <1>8, <3>3
    <3> QED
      BY <1>9, <2>0, <3>4 DEF Range
  <2> QED
    BY <1>1, <1>2, <1>4, <2>1, <2>2
<1> QED
  BY <1>10, <1>12, <1>13, <1>14 DEF IInv

\* The report lists the highest of what was measured.
LEMMA ReportIInv ==
  ASSUME IInv, Report
  PROVE  IInv'
<1> DEFINE top == Highest(sized)
<1>1. /\ pc = "measure" /\ measured = Len(collected) /\ pc' = "done"
      /\ report' = [status |-> Status(top), top |-> top, truncated |-> Truncated]
      /\ score' = score /\ lfu' = lfu /\ changes' = changes /\ tool' = tool /\ scanMax' = scanMax
      /\ lfuMode' = lfuMode /\ due' = due
      /\ collected' = collected /\ cursor' = cursor /\ iterations' = iterations
      /\ measured' = measured /\ sized' = sized /\ dropped' = dropped /\ changed' = changed
  BY DEF Report, server, loop, history
<1>2. /\ top \in Seq(Rows) /\ Len(top) <= TopN
      /\ \A r \in Range(sized) : Ranked(top, r)
  BY HighestIs DEF IInv, TypeOK
<1> HIDE DEF top
<1>3. Status(top) \in {"ok", "warning", "critical"}
  BY DEF Status
<1>4. /\ report'.status \in Texts /\ report'.status # "exception"
      /\ report'.top = top /\ report'.truncated = Truncated
  BY <1>1, <1>3 DEF Texts
<1>5. Truncated \in BOOLEAN /\ Truncated' = Truncated
  BY <1>1 DEF Truncated
<1>6. TypeOK'
  BY <1>1, <1>2, <1>4, <1>5 DEF IInv, TypeOK
<1>7. Steady' = Steady /\ Stopped /\ \A k : Row(k)' = Row(k)
  BY <1>1 DEF Steady, Live, Stopped, Row
<1>8. ScanInv' /\ DueInv'
  BY <1>1 DEF ScanInv, DueInv
<1>9. StoppedInv'
  BY <1>1, <1>7 DEF IInv, StoppedInv
<1>10. MeasuredInv'
  BY <1>1, <1>7 DEF IInv, MeasuredInv
<1>11. ReportInv'
  BY <1>1, <1>2, <1>4, <1>5 DEF ReportInv
<1> QED
  BY <1>6, <1>8, <1>9, <1>10, <1>11 DEF IInv

\* Every step preserves the inductive invariant.
LEMMA StepIInv == IInv /\ [Next]_vars => IInv'
<1> SUFFICES ASSUME IInv, [Next]_vars PROVE IInv'
  OBVIOUS
<1>1. ASSUME NEW k \in Keys, NEW s \in Scores, Change(k, s) PROVE IInv'
  BY <1>1, ChangeIInv
<1>2. CASE ChangePolicy
  BY <1>2, ChangePolicyIInv
<1>3. ASSUME NEW t \in {"big_keys", "hot_keys"}, NEW cap \in ScanCaps, Call(t, cap) PROVE IInv'
  BY <1>3, CallIInv
<1>4. CASE ReadPolicy
  BY <1>4, ReadPolicyIInv
<1>5. CASE Iterate
  BY <1>5, ScanIInv DEF Iterate
<1>6. CASE Measure
  <2>1. CASE measured' # measured
    BY <1>6, <2>1, MeasureIInv
  <2>2. CASE measured' = measured
    <3>1. Chunk \in Seq(Keys) /\ Len(Chunk) \in Nat \ {0}
      BY <1>6, ChunkIs DEF Measure, IInv, TypeOK
    <3>2. measured + Len(Chunk) # measured
      <4>1. measured \in Int
        BY LenProperties DEF IInv, TypeOK
      <4> QED
        BY <3>1, <4>1
    <3>4. Chunk # << >>
      BY <3>1
    <3>3. /\ pc = "measure" /\ pc' = "done" /\ report' = [NoReport EXCEPT !.status = "exception"]
          /\ UNCHANGED <<server, tool, loop, measured, sized, due, history>>
      BY <1>6, <2>2, <3>2, <3>4 DEF Measure
    <3> QED
      BY <3>3, FailedIInv
  <2> QED
    BY <2>1, <2>2
<1>7. CASE Report
  BY <1>7, ReportIInv
<1>8. CASE Lost
  BY <1>8, FailedIInv DEF Lost
<1>9. CASE Finish
  BY <1>9, FinishIInv
<1>10. CASE UNCHANGED vars
  <2>1. /\ score' = score /\ lfu' = lfu /\ changes' = changes /\ pc' = pc /\ tool' = tool
        /\ scanMax' = scanMax /\ lfuMode' = lfuMode /\ due' = due
        /\ collected' = collected /\ cursor' = cursor /\ iterations' = iterations
        /\ measured' = measured /\ sized' = sized /\ dropped' = dropped /\ changed' = changed
        /\ report' = report
    BY <1>10 DEF vars, server, loop, history
  <2>2. TypeOK' /\ ScanInv'
    BY <2>1 DEF IInv, TypeOK, ScanInv
  <2>3. Steady' = Steady /\ Stopped' = Stopped /\ Reported' = Reported /\ Truncated' = Truncated
    BY <2>1 DEF Steady, Live, Stopped, Reported, Truncated
  <2>4. DueInv' /\ StoppedInv' /\ MeasuredInv'
    BY <2>1, <2>3 DEF IInv, DueInv, StoppedInv, MeasuredInv, Row
  <2>5. ReportInv'
    BY <2>1, <2>3 DEF IInv, ReportInv, Ranked
  <2> QED
    BY <2>2, <2>4, <2>5 DEF IInv
<1> QED
  BY <1>1, <1>2, <1>3, <1>4, <1>5, <1>6, <1>7, <1>8, <1>9, <1>10 DEF Next, Progress

\* The inductive invariant says that a silent report has missed nothing: the
\* loop was stopped by the end of the SCAN, so what had not changed was
\* collected, then measured, then ranked.
LEMMA NothingMissed == IInv => NothingBiggerMissed
<1> SUFFICES ASSUME IInv, Reported, ~report.truncated, ~Untold, NEW k \in Steady
             PROVE  Covers(k)
  BY DEF NothingBiggerMissed
<1>1. Stopped /\ measured = Len(collected) /\ ~Truncated
  BY DEF IInv, ReportInv, Stopped
<1>2. cursor = 0 \/ Len(collected) = scanMax
  BY <1>1 DEF IInv, StoppedInv, Untold
<1>3. cursor = 0
  BY <1>1, <1>2 DEF Truncated, IInv, TypeOK
<1>4. k \in Range(collected)
  BY <1>1, <1>3 DEF IInv, StoppedInv, Untold
<1>5. PICK i \in 1..Len(collected) : collected[i] = k
  BY <1>4, LenProperties DEF Range, IInv, TypeOK
<1>6. Row(k) \in Range(sized)
  BY <1>1, <1>5 DEF IInv, MeasuredInv
<1>7. Ranked(report.top, Row(k))
  BY <1>6 DEF IInv, ReportInv
<1>8. Row(k).key = k /\ Row(k).score = score[k]
  BY DEF Row
<1> QED
  BY <1>7, <1>8 DEF Ranked, Covers, Range

\* Every state the specification reaches satisfies the inductive invariant.
LEMMA Invariant == Spec => []IInv
<1>1. Init => IInv
  BY InitIInv
<1>2. IInv /\ [Next]_vars => IInv'
  BY StepIInv
<1> QED
  BY <1>1, <1>2, PTL DEF Spec

\* Whatever SCAN returns and clients change meanwhile, the caps hold for what
\* is collected and listed, and every variable keeps its type.
THEOREM TypeCorrect == Spec => []TypeOK
<1>1. IInv => TypeOK
  BY DEF IInv
<1> QED
  BY <1>1, Invariant, PTL

\* inspect_big_keys and inspect_hot_keys never miss a bigger key in silence: a
\* key that did not change during the call is in the list, or the list is full
\* of keys at least as big, unless scan_truncated says otherwise or the loop
\* stopped in one of the two ways it does not tell.
THEOREM NoBiggerKeyIsMissed == Spec => []NothingBiggerMissed
<1>1. IInv => NothingBiggerMissed
  BY NothingMissed
<1> QED
  BY <1>1, Invariant, PTL


\* Picking keeps the order of the list.
LEMMA PickedInOrder ==
  ASSUME NEW S, NEW s \in Seq(S), NEW P \in SUBSET (1..Len(s))
  PROVE  \A m, n \in 1..Len(Picked(s, P)) :
            m < n => \E i, j \in P : i < j /\ Picked(s, P)[m] = s[i] /\ Picked(s, P)[n] = s[j]
<1> DEFINE R == {p \in P \X P : p[1] < p[2]}
           order == Arranged(P, R)
           size == Cardinality(P)
<1>1. IsFiniteSet(P)
  <2>1. IsFiniteSet(1..Len(s))
    BY LenProperties, Positions
  <2> QED
    BY <2>1, FS_Subset
<1>2. \A i \in P : <<i, i>> \notin R
  OBVIOUS
<1>3. \A i, j, k \in P : <<i, j>> \in R /\ <<j, k>> \in R => <<i, k>> \in R
  OBVIOUS
<1>4. \A i, j \in P : i # j => <<i, j>> \in R \/ <<j, i>> \in R
  OBVIOUS
<1>5. \A i, j : <<i, j>> \in R => i < j
  OBVIOUS
<1>6. Picked(s, P) = [n \in 1..size |-> s[order[n]]]
  BY DEF Picked
<1> HIDE DEF R
<1>7. /\ size \in Nat /\ order \in [1..size -> P]
      /\ \A m, n \in 1..size : m < n => <<order[m], order[n]>> \in R
  BY <1>1, <1>2, <1>3, <1>4, Arrangement
<1> HIDE DEF order, size
<1>8. Len(Picked(s, P)) = size
  BY <1>6, <1>7
<1>9. ASSUME NEW m \in 1..size, NEW n \in 1..size, m < n
      PROVE  \E i, j \in P : i < j /\ Picked(s, P)[m] = s[i] /\ Picked(s, P)[n] = s[j]
  <2>1. order[m] \in P /\ order[n] \in P /\ order[m] < order[n]
    BY <1>5, <1>7, <1>9
  <2>2. Picked(s, P)[m] = s[order[m]] /\ Picked(s, P)[n] = s[order[n]]
    BY <1>6
  <2> QED
    BY <2>1, <2>2
<1> QED
  BY <1>8, <1>9
--------------------------------------------------------------------------
\* What a LIMIT or a slice leaves of a list.
Cut(list, rows) == list = rows \/ \E k \in Nat \ {0} : list = First(k, rows)

\* A verdict of statuses and severities.
Fit(v) == v.status \in Grades /\ v.findings \in Seq(Grades)

\* No finding is graver than the status.
Modest(v) == \A i \in DOMAIN v.findings : v.findings[i] <= v.status

\* The status is not in the text alone.
Told(v) == v.status > 0 => \E i \in DOMAIN v.findings : v.findings[i] >= v.status

\* The positions of a list; an empty one has no first.
LEMMA Indexed ==
  ASSUME NEW S, NEW s \in Seq(S)
  PROVE  /\ Len(s) \in Nat /\ DOMAIN s = 1..Len(s)
         /\ \A i \in DOMAIN s : s[i] \in S /\ i \in Nat /\ 1 <= i
         /\ s = <<>> <=> 1 \notin DOMAIN s
         /\ DOMAIN s # {} <=> 1 \in DOMAIN s
<1>1. Len(s) \in Nat /\ DOMAIN s = 1..Len(s) /\ \A i \in DOMAIN s : s[i] \in S
  BY LenProperties
<1>2. s = <<>> <=> Len(s) = 0
  BY EmptySeq
<1>3. Len(s) = 0 <=> 1 \notin DOMAIN s
  BY <1>1
<1>4. \A i \in DOMAIN s : i \in Nat /\ 1 <= i /\ 1 \in DOMAIN s
  BY <1>1
<1> QED
  BY <1>1, <1>2, <1>3, <1>4

\* A list with something else at each position.
LEMMA MappedIs ==
  ASSUME NEW S, NEW s \in Seq(S), NEW T, NEW u \in [DOMAIN s -> T]
  PROVE  u \in Seq(T) /\ DOMAIN u = DOMAIN s
<1>1. Len(s) \in Nat /\ DOMAIN s = 1..Len(s)
  BY LenProperties
<1> QED
  BY <1>1, IsASeq

\* The start of a list, as a LIMIT or a slice takes it.
LEMMA FirstIs ==
  ASSUME NEW S, NEW s \in Seq(S), NEW k \in Nat \ {0}
  PROVE  /\ First(k, s) \in Seq(S)
         /\ \A i \in DOMAIN First(k, s) : i \in DOMAIN s /\ First(k, s)[i] = s[i]
         /\ 1 \in DOMAIN s => 1 \in DOMAIN First(k, s)
<1> DEFINE m == IF k < Len(s) THEN k ELSE Len(s)
<1>1. Len(s) \in Nat /\ DOMAIN s = 1..Len(s) /\ k \in Nat /\ k >= 1
  BY LenProperties
<1>2. m \in Nat /\ m <= Len(s) /\ (1 <= Len(s) => 1 <= m)
  BY <1>1
<1>3. First(k, s) = SubSeq(s, 1, m)
  BY DEF First
<1> HIDE DEF m
<1>4. /\ SubSeq(s, 1, m) \in Seq(S) /\ Len(SubSeq(s, 1, m)) = m
      /\ \A i \in 1..m : SubSeq(s, 1, m)[i] = s[i]
  <2>1. 1 \in 1..(Len(s) + 1) /\ m \in 0..Len(s)
    BY <1>1, <1>2
  <2>2. /\ SubSeq(s, 1, m) \in Seq(S)
        /\ Len(SubSeq(s, 1, m)) = IF 1 <= m THEN m - 1 + 1 ELSE 0
        /\ \A i \in 1..(m - 1 + 1) : SubSeq(s, 1, m)[i] = s[1 + i - 1]
    BY <2>1, SubSeqProperties
  <2>3. m - 1 + 1 = m /\ (IF 1 <= m THEN m - 1 + 1 ELSE 0) = m /\ \A i \in 1..m : 1 + i - 1 = i
    BY <1>2
  <2> QED
    BY <2>2, <2>3
<1>5. DOMAIN SubSeq(s, 1, m) = 1..m
  BY <1>4, LenProperties
<1> QED
  BY <1>1, <1>2, <1>3, <1>4, <1>5

\* A cut of a list holds its first rows, and is empty only with it.
LEMMA CutIs ==
  ASSUME NEW S, NEW rows \in Seq(S), NEW list, Cut(list, rows)
  PROVE  /\ list \in Seq(S)
         /\ \A i \in DOMAIN list : i \in DOMAIN rows /\ list[i] = rows[i]
         /\ 1 \in DOMAIN rows <=> 1 \in DOMAIN list
<1>1. CASE list = rows
  BY <1>1
<1>2. CASE list # rows
  <2>1. PICK k \in Nat \ {0} : list = First(k, rows)
    BY <1>2 DEF Cut
  <2> QED
    BY <2>1, FirstIs
<1> QED
  BY <1>1, <1>2

\* The slice of the findings.
LEMMA FirstFewIs ==
  ASSUME NEW S, NEW s \in Seq(S)
  PROVE  /\ FirstFew(s) \in Seq(S)
         /\ \A i \in DOMAIN FirstFew(s) : i \in DOMAIN s /\ FirstFew(s)[i] = s[i]
         /\ 1 \in DOMAIN s <=> 1 \in DOMAIN FirstFew(s)
<1>1. Shown \in Nat \ {0}
  BY ShownAssumption
<1> QED
  BY <1>1, FirstIs DEF FirstFew

\* Two lists joined begin with the first one.
LEMMA JoinedIs ==
  ASSUME NEW S, NEW s \in Seq(S), NEW t \in Seq(S)
  PROVE  /\ s \o t \in Seq(S)
         /\ \A i \in DOMAIN s : i \in DOMAIN (s \o t) /\ (s \o t)[i] = s[i]
<1>1. /\ s \o t \in Seq(S) /\ Len(s \o t) = Len(s) + Len(t) /\ DOMAIN (s \o t) = 1..(Len(s) + Len(t))
      /\ \A i \in 1..Len(s) : (s \o t)[i] = s[i]
  BY ConcatProperties, LenProperties
<1>2. Len(s) \in Nat /\ DOMAIN s = 1..Len(s) /\ Len(t) \in Nat
  BY LenProperties
<1> QED
  BY <1>1, <1>2

\* The status that a list of grades amounts to.
LEMMA WorstIs ==
  ASSUME NEW s \in Seq(Grades)
  PROVE  /\ Worst(s) \in Grades
         /\ \A i \in DOMAIN s : s[i] <= Worst(s)
         /\ Worst(s) > 0 => \E i \in DOMAIN s : s[i] = Worst(s)
<1>1. \A i \in DOMAIN s : s[i] \in {0, 1, 2}
  <2>1. Grades = {0, 1, 2}
    BY DEF Grades
  <2> QED
    BY <2>1, Indexed
<1> QED
  BY <1>1 DEF Worst, Some, Grades

\* The worst row of a list that is in order is its first one.
LEMMA WorstIsFirst ==
  ASSUME NEW s \in Seq(Grades), Descending(s)
  PROVE  /\ 1 \in DOMAIN s => Worst(s) = s[1]
         /\ 1 \notin DOMAIN s => Worst(s) = 0
<1>1. \A i \in DOMAIN s : s[i] \in Int /\ i \in Nat /\ 1 <= i
  <2>1. Grades \subseteq Int
    BY DEF Grades
  <2> QED
    BY <2>1, Indexed
<1>2. DOMAIN s # {} <=> 1 \in DOMAIN s
  BY Indexed
<1>3. \A i \in DOMAIN s : s[i] <= s[1]
  <2> SUFFICES ASSUME NEW i \in DOMAIN s PROVE s[i] <= s[1]
    OBVIOUS
  <2>1. 1 \in DOMAIN s
    BY <1>2
  <2>2. i = 1 \/ 1 < i
    BY <1>1
  <2>3. 1 < i => s[1] >= s[i]
    BY <2>1 DEF Descending
  <2> QED
    BY <1>1, <2>1, <2>2, <2>3
<1>4. /\ Worst(s) \in Grades /\ \A i \in DOMAIN s : s[i] <= Worst(s)
      /\ Worst(s) > 0 => \E i \in DOMAIN s : s[i] = Worst(s)
  BY WorstIs
<1>5. CASE 1 \in DOMAIN s
  <2>1. s[1] <= Worst(s) /\ s[1] \in Nat
    <3>1. s[1] \in Grades
      BY <1>5, Indexed
    <3> QED
      BY <1>4, <1>5, <3>1 DEF Grades
  <2>2. Worst(s) > 0 => Worst(s) <= s[1]
    BY <1>3, <1>4
  <2>3. Worst(s) \in Nat
    BY <1>4 DEF Grades
  <2> QED
    BY <1>5, <2>1, <2>2, <2>3
<1>6. CASE 1 \notin DOMAIN s
  <2>1. DOMAIN s = {}
    BY <1>2, <1>6
  <2>2. ~(Worst(s) > 0)
    BY <1>4, <2>1
  <2> QED
    BY <1>4, <1>6, <2>2 DEF Grades
<1> QED
  BY <1>5, <1>6
--------------------------------------------------------------------------
\* The elements a filter leaves, in their order.
LEMMA RaisedIs ==
  ASSUME NEW s \in Seq(Grades)
  PROVE  /\ Raised(s) \in Seq(Grades)
         /\ \A n \in DOMAIN Raised(s) : Raised(s)[n] >= 1 /\ \E i \in DOMAIN s : Raised(s)[n] = s[i]
         /\ \A i \in DOMAIN s : s[i] >= 1 => \E n \in DOMAIN Raised(s) : Raised(s)[n] = s[i]
<1> DEFINE P == {i \in DOMAIN s : s[i] >= 1}
<1>1. DOMAIN s = 1..Len(s) /\ \A i \in DOMAIN s : s[i] \in Grades
  BY Indexed
<1>2. P \in SUBSET (1..Len(s))
  BY <1>1
<1>3. Raised(s) = Picked(s, P)
  BY DEF Raised
<1> HIDE DEF P
<1>4. /\ Picked(s, P) \in Seq(Grades)
      /\ \A n \in 1..Len(Picked(s, P)) : \E i \in P : Picked(s, P)[n] = s[i]
      /\ \A i \in P : \E n \in 1..Len(Picked(s, P)) : Picked(s, P)[n] = s[i]
  BY <1>2, PickedIs
<1>5. DOMAIN Picked(s, P) = 1..Len(Picked(s, P)) /\ Len(Picked(s, P)) \in Nat
  BY <1>4, LenProperties
<1>6. \A i \in P : i \in DOMAIN s /\ s[i] >= 1
  BY DEF P
<1>7. \A i \in DOMAIN s : s[i] >= 1 => i \in P
  BY DEF P
<1> QED
  BY <1>3, <1>4, <1>5, <1>6, <1>7

\* Filtering keeps the worst row in front.
LEMMA RaisedInOrder ==
  ASSUME NEW s \in Seq(Grades), Descending(s)
  PROVE  Descending(Raised(s))
<1> DEFINE P == {i \in DOMAIN s : s[i] >= 1}
<1>1. DOMAIN s = 1..Len(s)
  BY Indexed
<1>2. P \in SUBSET (1..Len(s))
  BY <1>1
<1>3. Raised(s) = Picked(s, P)
  BY DEF Raised
<1>4. \A i \in P : i \in DOMAIN s
  OBVIOUS
<1> HIDE DEF P
<1>5. /\ DOMAIN Picked(s, P) = 1..Len(Picked(s, P))
      /\ \A m, n \in 1..Len(Picked(s, P)) :
            m < n => \E i, j \in P : i < j /\ Picked(s, P)[m] = s[i] /\ Picked(s, P)[n] = s[j]
  <2>1. Picked(s, P) \in Seq(Grades)
    BY <1>2, PickedIs
  <2> QED
    BY <1>2, <2>1, PickedInOrder, LenProperties
<1> QED
  BY <1>3, <1>4, <1>5 DEF Descending

\* Rows that are worth a warning at least.
LEMMA WarnedIs ==
  ASSUME NEW s \in Seq(Grades)
  PROVE  /\ AtLeastWarning(s) \in Seq(Grades) /\ DOMAIN AtLeastWarning(s) = DOMAIN s
         /\ \A i \in DOMAIN s : AtLeastWarning(s)[i] = IF s[i] = 2 THEN 2 ELSE 1
         /\ Descending(s) => Descending(AtLeastWarning(s))
<1>1. AtLeastWarning(s) \in [DOMAIN s -> Grades]
  BY DEF AtLeastWarning, Grades
<1>2. AtLeastWarning(s) \in Seq(Grades) /\ DOMAIN AtLeastWarning(s) = DOMAIN s
  BY <1>1, MappedIs
<1>3. \A i \in DOMAIN s : AtLeastWarning(s)[i] = IF s[i] = 2 THEN 2 ELSE 1
  BY DEF AtLeastWarning
<1>4. ASSUME Descending(s)
      PROVE  Descending(AtLeastWarning(s))
  <2>1. \A i \in DOMAIN s : s[i] \in 0..2
    BY Indexed DEF Grades
  <2>2. SUFFICES ASSUME NEW i \in DOMAIN s, NEW j \in DOMAIN s, i < j
                 PROVE  AtLeastWarning(s)[i] >= AtLeastWarning(s)[j]
    BY <1>2 DEF Descending
  <2>3. s[i] >= s[j] /\ s[i] \in 0..2 /\ s[j] \in 0..2
    BY <1>4, <2>1, <2>2 DEF Descending
  <2> QED
    BY <1>3, <2>3
<1> QED
  BY <1>2, <1>3, <1>4

\* Rows of one severity.
LEMMA AllIs ==
  ASSUME NEW S, NEW s \in Seq(S), NEW g \in Grades
  PROVE  All(g, s) \in Seq(Grades) /\ DOMAIN All(g, s) = DOMAIN s /\ \A i \in DOMAIN s : All(g, s)[i] = g
<1>1. All(g, s) \in [DOMAIN s -> Grades] /\ \A i \in DOMAIN s : All(g, s)[i] = g
  BY DEF All
<1> QED
  BY <1>1, MappedIs

\* A LIMIT leaves a list in order, and its worst row in it.
LEMMA CutKeepsWorst ==
  ASSUME NEW rows \in Seq(Grades), Descending(rows), NEW list, Cut(list, rows)
  PROVE  /\ list \in Seq(Grades) /\ Descending(list) /\ Worst(list) = Worst(rows)
         /\ Worst(AtLeastWarning(list)) = Worst(AtLeastWarning(rows))
<1>1. /\ list \in Seq(Grades)
      /\ \A i \in DOMAIN list : i \in DOMAIN rows /\ list[i] = rows[i]
      /\ 1 \in DOMAIN rows <=> 1 \in DOMAIN list
  BY CutIs
<1>2. Descending(list)
  BY <1>1 DEF Descending
<1>3. Worst(list) = Worst(rows)
  BY <1>1, <1>2, WorstIsFirst
<1>4. Worst(AtLeastWarning(list)) = Worst(AtLeastWarning(rows))
  <2>1. /\ AtLeastWarning(rows) \in Seq(Grades) /\ DOMAIN AtLeastWarning(rows) = DOMAIN rows
        /\ \A i \in DOMAIN rows : AtLeastWarning(rows)[i] = IF rows[i] = 2 THEN 2 ELSE 1
        /\ Descending(AtLeastWarning(rows))
    BY WarnedIs
  <2>2. /\ AtLeastWarning(list) \in Seq(Grades) /\ DOMAIN AtLeastWarning(list) = DOMAIN list
        /\ \A i \in DOMAIN list : AtLeastWarning(list)[i] = IF list[i] = 2 THEN 2 ELSE 1
        /\ Descending(AtLeastWarning(list))
    BY <1>1, <1>2, WarnedIs
  <2>3. 1 \in DOMAIN rows => AtLeastWarning(rows)[1] = AtLeastWarning(list)[1]
    BY <1>1, <2>1, <2>2
  <2> QED
    BY <1>1, <2>1, <2>2, <2>3, WorstIsFirst
<1> QED
  BY <1>1, <1>2, <1>3, <1>4
--------------------------------------------------------------------------
\* The forms a verdict takes.
LEMMA Parts ==
  ASSUME NEW s, NEW f
  PROVE  Verdict(s, f).status = s /\ Verdict(s, f).findings = f
BY DEF Verdict

\* Every row is a finding and the worst one is the status.
LEMMA GradedRows ==
  ASSUME NEW s \in Seq(Grades)
  PROVE  Fit(Verdict(Worst(s), s)) /\ Modest(Verdict(Worst(s), s)) /\ Told(Verdict(Worst(s), s))
<1>1. /\ Worst(s) \in Grades /\ \A i \in DOMAIN s : s[i] <= Worst(s)
      /\ Worst(s) > 0 => \E i \in DOMAIN s : s[i] = Worst(s)
  BY WorstIs
<1>2. Verdict(Worst(s), s).status = Worst(s) /\ Verdict(Worst(s), s).findings = s
  BY Parts
<1>3. Worst(s) >= Worst(s)
  BY <1>1 DEF Grades
<1> QED
  BY <1>1, <1>2, <1>3 DEF Fit, Modest, Told

\* A slice of rows in order.
LEMMA GradedSlice ==
  ASSUME NEW s \in Seq(Grades), Descending(s)
  PROVE  /\ Fit(Verdict(Worst(s), FirstFew(s))) /\ Modest(Verdict(Worst(s), FirstFew(s)))
         /\ Told(Verdict(Worst(s), FirstFew(s)))
<1>1. /\ Worst(s) \in Grades /\ \A i \in DOMAIN s : s[i] <= Worst(s)
  BY WorstIs
<1>2. Verdict(Worst(s), FirstFew(s)).status = Worst(s) /\ Verdict(Worst(s), FirstFew(s)).findings = FirstFew(s)
  BY Parts
<1>3. /\ FirstFew(s) \in Seq(Grades)
      /\ \A i \in DOMAIN FirstFew(s) : i \in DOMAIN s /\ FirstFew(s)[i] = s[i]
      /\ 1 \in DOMAIN s <=> 1 \in DOMAIN FirstFew(s)
  BY FirstFewIs
<1>4. Worst(s) > 0 => 1 \in DOMAIN s /\ Worst(s) = s[1]
  <2>1. ~(0 > 0)
    OBVIOUS
  <2> QED
    BY <2>1, WorstIsFirst
<1>5. Worst(s) >= Worst(s)
  BY <1>1 DEF Grades
<1> QED
  BY <1>1, <1>2, <1>3, <1>4, <1>5 DEF Fit, Modest, Told

\* A series of checks.
LEMMA ChecksAre ==
  ASSUME NEW s \in Seq(Grades)
  PROVE  Fit(Checks(s)) /\ Modest(Checks(s)) /\ Told(Checks(s))
<1>1. /\ Worst(s) \in Grades /\ \A i \in DOMAIN s : s[i] <= Worst(s)
      /\ Worst(s) > 0 => \E i \in DOMAIN s : s[i] = Worst(s)
  BY WorstIs
<1>2. Checks(s).status = Worst(s) /\ Checks(s).findings = Raised(s)
  BY Parts DEF Checks
<1>3. /\ Raised(s) \in Seq(Grades)
      /\ \A n \in DOMAIN Raised(s) : \E i \in DOMAIN s : Raised(s)[n] = s[i]
      /\ \A i \in DOMAIN s : s[i] >= 1 => \E n \in DOMAIN Raised(s) : Raised(s)[n] = s[i]
  BY RaisedIs
<1>4. Worst(s) > 0 => Worst(s) >= 1 /\ Worst(s) >= Worst(s)
  BY <1>1 DEF Grades
<1> QED
  BY <1>1, <1>2, <1>3, <1>4 DEF Fit, Modest, Told

\* Findings of one grade.
LEMMA Listing ==
  ASSUME NEW S, NEW s \in Seq(S), NEW g \in Grades, NEW status \in Grades, g <= status
  PROVE  /\ Fit(Verdict(status, All(g, s))) /\ Modest(Verdict(status, All(g, s)))
         /\ Fit(Verdict(status, FirstFew(All(g, s)))) /\ Modest(Verdict(status, FirstFew(All(g, s))))
         /\ (status > 0 => g = status /\ 1 \in DOMAIN s) =>
               Told(Verdict(status, All(g, s))) /\ Told(Verdict(status, FirstFew(All(g, s))))
<1>1. All(g, s) \in Seq(Grades) /\ DOMAIN All(g, s) = DOMAIN s /\ \A i \in DOMAIN s : All(g, s)[i] = g
  BY AllIs
<1>2. /\ FirstFew(All(g, s)) \in Seq(Grades)
      /\ \A i \in DOMAIN FirstFew(All(g, s)) :
            i \in DOMAIN All(g, s) /\ FirstFew(All(g, s))[i] = All(g, s)[i]
      /\ 1 \in DOMAIN All(g, s) <=> 1 \in DOMAIN FirstFew(All(g, s))
  BY <1>1, FirstFewIs
<1>3. status >= status
  BY DEF Grades
<1>4. /\ Verdict(status, All(g, s)).status = status /\ Verdict(status, All(g, s)).findings = All(g, s)
      /\ Verdict(status, FirstFew(All(g, s))).status = status
      /\ Verdict(status, FirstFew(All(g, s))).findings = FirstFew(All(g, s))
  BY Parts
<1> QED
  BY <1>1, <1>2, <1>3, <1>4 DEF Fit, Modest, Told

\* A verdict of one finding, and one whose text stands alone.
LEMMA OneFinding ==
  ASSUME NEW g \in Grades
  PROVE  /\ Fit(Verdict(g, <<g>>)) /\ Modest(Verdict(g, <<g>>)) /\ Told(Verdict(g, <<g>>))
         /\ Fit(Verdict(g, <<>>)) /\ Modest(Verdict(g, <<>>))
<1>1. /\ Verdict(g, <<g>>).status = g /\ Verdict(g, <<g>>).findings = <<g>>
      /\ Verdict(g, <<>>).status = g /\ Verdict(g, <<>>).findings = <<>>
  BY Parts
<1>2. <<g>> \in Seq(Grades) /\ DOMAIN <<g>> = {1} /\ <<g>>[1] = g /\ g <= g /\ g >= g
  BY DEF Grades
<1>3. <<>> \in Seq(Grades) /\ DOMAIN <<>> = {}
  OBVIOUS
<1>4. Fit(Verdict(g, <<g>>)) /\ Modest(Verdict(g, <<g>>)) /\ Told(Verdict(g, <<g>>))
  BY <1>1, <1>2, Zenon DEF Fit, Modest, Told
<1> QED
  BY <1>1, <1>3, <1>4, Zenon DEF Fit, Modest
--------------------------------------------------------------------------
\* What the reports of a tool promise: v is the verdict on what LIMIT left,
\* w the verdict on all rows.
Sound(t, v, w) ==
  /\ Fit(v)
  /\ t \notin OwnScale => Modest(v)
  /\ t \notin NotShown => Told(v) \/ (t \in TextOnly /\ v.status = 1)
  /\ t \notin OtherOrder => v.status = w.status

\* A verdict with no exception to be made.
LEMMA SoundIfAll ==
  ASSUME NEW t, NEW v, NEW w, Fit(v), Modest(v), Told(v), v.status = w.status
  PROVE  Sound(t, v, w)
BY DEF Sound

\* The lists that are enumerated are lists.
LEMMA ListsAre ==
  ASSUME NEW S, NEW s \in Lists(S)
  PROVE  s \in Seq(S)
<1>1. PICK m \in 0..MaxRows : s \in [1..m -> S]
  BY DEF Lists, BoundedSeq, SeqOf
<1>2. m \in Nat
  BY ShownAssumption
<1> QED
  BY <1>1, <1>2, IsASeq

\* A check is graded or 0.
LEMMA IfIs ==
  ASSUME NEW c, NEW g \in Grades
  PROVE  If(c, g) \in Grades
BY DEF If, Grades

\* Lists of up to three grades.
LEMMA ShortLists ==
  /\ <<>> \in Seq(Grades)
  /\ \A a \in Grades : <<a>> \in Seq(Grades)
  /\ \A a, b \in Grades : <<a, b>> \in Seq(Grades)
  /\ \A a, b, c \in Grades : <<a, b, c>> \in Seq(Grades)
OBVIOUS
--------------------------------------------------------------------------
\* The instance of RedisVerdict grades as Grading does: INSTANCE makes copies of
\* the operators, and the provers do not know them to be the same.
LEMMA RedisShares ==
  /\ Redis!Grades = Grades /\ Redis!None = None
  /\ \A S : Redis!Lists(S) = Lists(S)
  /\ \A s : Redis!Descending(s) = Descending(s)
  /\ \A s : Redis!Worst(s) = Worst(s) /\ Redis!FirstFew(s) = FirstFew(s) /\ Redis!Raised(s) = Raised(s)
  /\ \A s : Redis!Checks(s) = Checks(s) /\ Redis!AtLeastWarning(s) = AtLeastWarning(s)
  /\ \A g, s : Redis!All(g, s) = All(g, s)
  /\ \A c, g : Redis!If(c, g) = If(c, g)
  /\ \A k, s : Redis!First(k, s) = First(k, s)
  /\ \A s, f : Redis!Verdict(s, f) = Verdict(s, f)
  /\ \A S : Redis!Cardinality(S) = Cardinality(S)
<1>1. Redis!Grades = Grades /\ Redis!None = None
  BY DEF Redis!Grades, Grades, Redis!None, None
<1>2. \A S : Redis!Lists(S) = Lists(S)
  BY DEF Redis!Lists, Lists, Redis!BoundedSeq, BoundedSeq, Redis!SeqOf, SeqOf
<1>3. \A s : Redis!Descending(s) = Descending(s)
  BY DEF Redis!Descending, Descending
<1>4. \A s : Redis!Worst(s) = Worst(s)
  BY DEF Redis!Worst, Worst, Redis!Some, Some
<1>5. \A k, s : Redis!First(k, s) = First(k, s)
  BY DEF Redis!First, First
<1>6. \A s : Redis!FirstFew(s) = FirstFew(s)
  BY <1>5 DEF Redis!FirstFew, FirstFew
<1>0. \A S : Redis!Cardinality(S) = Cardinality(S)
  BY DEF Redis!Cardinality, Cardinality
<1>7. \A s, P : Redis!Picked(s, P) = Picked(s, P)
  BY DEF Redis!Picked, Picked, Redis!Arranged, Arranged, Redis!Cardinality, Cardinality
<1>8. \A s : Redis!Raised(s) = Raised(s)
  BY <1>7 DEF Redis!Raised, Raised
<1>9. \A s, f : Redis!Verdict(s, f) = Verdict(s, f)
  BY DEF Redis!Verdict, Verdict
<1>10. \A s : Redis!Checks(s) = Checks(s) /\ Redis!AtLeastWarning(s) = AtLeastWarning(s)
  BY <1>4, <1>8, <1>9 DEF Redis!Checks, Checks, Redis!AtLeastWarning, AtLeastWarning
<1>11. \A g, s : Redis!All(g, s) = All(g, s)
  BY DEF Redis!All, All
<1>12. \A c, g : Redis!If(c, g) = If(c, g)
  BY DEF Redis!If, If
<1> QED
  BY <1>0, <1>1, <1>2, <1>3, <1>4, <1>5, <1>6, <1>8, <1>9, <1>10, <1>11, <1>12

\* The tools of the ElastiCache server that are exceptions.
LEMMA RedisNamed ==
  \A t : /\ <<"redis", t>> \in OwnScale <=> t \in {"overview", "memory", "clients", "eviction"}
         /\ <<"redis", t>> \in NotShown <=> t \in {"clients", "pubsub"}
         /\ <<"redis", t>> \in TextOnly <=> t \in {"replication", "eviction", "cluster_mode"}
         /\ <<"redis", t>> \in OtherOrder <=> t \in {"slow_queries"}
<1>1. \A t : <<"redis", t>> \in OwnScale <=> t \in {"overview", "memory", "clients", "eviction"}
  BY DEF OwnScale, On
<1>2. \A t : <<"redis", t>> \in NotShown <=> t \in {"clients", "pubsub"}
  BY DEF NotShown, On
<1>3. \A t : <<"redis", t>> \in TextOnly <=> t \in {"replication", "eviction", "cluster_mode"}
  BY DEF TextOnly, On
<1>4. \A t : <<"redis", t>> \in OtherOrder <=> t \in {"slow_queries"}
  BY DEF OtherOrder, On
<1> QED
  BY <1>1, <1>2, <1>3, <1>4

\* The tools of the ElastiCache server without a LIMIT.
LEMMA RedisTotalTools ==
  ASSUME NEW t \in Redis!Unlimited, NEW rows \in Redis!Rows(t), NEW figure \in Redis!Totals(t, rows)
  PROVE  Sound(<<"redis", t>>, Redis!Judge(t, rows, figure), Redis!Judge(t, rows, figure))
<1> DEFINE v == Redis!Judge(t, rows, figure)
<1>0. t \in Redis!Tools \ {"slow_queries", "big_keys", "hot_keys"}
  BY DEF Redis!Unlimited
<1>overview. CASE t = "overview"
  <2>1. v = Verdict(0, IF figure.blocked THEN <<1>> ELSE <<>>)
    BY <1>overview, RedisShares DEF Redis!Judge, Redis!inspect_overview
  <2>2. (IF figure.blocked THEN <<1>> ELSE <<>>) \in Seq(Grades) /\ 0 \in Grades
    BY ShortLists DEF Grades
  <2>3. v.status = 0 /\ v.findings = IF figure.blocked THEN <<1>> ELSE <<>>
    BY <2>1, Parts
  <2> HIDE DEF v
  <2>4. Fit(v) /\ Told(v)
    BY <2>2, <2>3 DEF Fit, Told
  <2> QED
    BY <1>overview, <2>4, RedisNamed DEF Sound, v
<1>memory. CASE t = "memory"
  <2> DEFINE graded == <<figure.used, If(figure.frag >= 1, 1), If(figure.evicted, 1)>>
             shown == <<figure.used, figure.frag, If(figure.evicted, 1)>>
  <2>1. v = Verdict(Worst(graded), Raised(shown))
    BY <1>memory, RedisShares DEF Redis!Judge, Redis!inspect_memory
  <2>2. figure \in [used : Grades, frag : Grades, evicted : BOOLEAN]
    BY <1>memory, RedisShares DEF Redis!Totals
  <2>3. /\ figure.used \in Grades /\ figure.frag \in Grades
        /\ If(figure.frag >= 1, 1) \in Grades /\ If(figure.evicted, 1) \in Grades
    BY <2>2, IfIs DEF Grades
  <2>4. graded \in Seq(Grades) /\ shown \in Seq(Grades)
    BY <2>3, ShortLists
  <2>5. \A i \in DOMAIN graded : graded[i] > 0 => \E j \in DOMAIN shown : shown[j] >= graded[i]
    BY <2>3 DEF Grades, If
  <2> HIDE DEF graded, shown
  <2>6. /\ Worst(graded) \in Grades
        /\ Worst(graded) > 0 => \E i \in DOMAIN graded : graded[i] = Worst(graded)
    BY <2>4, WorstIs
  <2>7. /\ Raised(shown) \in Seq(Grades)
        /\ \A i \in DOMAIN shown : shown[i] >= 1 => \E n \in DOMAIN Raised(shown) : Raised(shown)[n] = shown[i]
    BY <2>4, RaisedIs
  <2>8. v.status = Worst(graded) /\ v.findings = Raised(shown)
    BY <2>1, Parts
  <2>9. ASSUME Worst(graded) > 0
         PROVE  \E n \in DOMAIN Raised(shown) : Raised(shown)[n] >= Worst(graded)
    <3>1. PICK i \in DOMAIN graded : graded[i] = Worst(graded)
      BY <2>6, <2>9
    <3>2. PICK j \in DOMAIN shown : shown[j] >= graded[i]
      BY <2>5, <2>9, <3>1
    <3>3. shown[j] \in 0..2 /\ Worst(graded) \in 0..2
      BY <2>4, <2>6, Indexed DEF Grades
    <3>4. shown[j] >= 1 /\ shown[j] >= Worst(graded)
      BY <2>9, <3>1, <3>2, <3>3
    <3> QED
      BY <2>7, <3>4
  <2> HIDE DEF v
  <2>10. Fit(v) /\ Told(v)
    BY <2>6, <2>7, <2>8, <2>9 DEF Fit, Told
  <2> QED
    BY <1>memory, <2>10, RedisNamed DEF Sound, v
<1>clients. CASE t = "clients"
  <2>1. v = Verdict(figure.total, Raised(<<If(figure.long_idle, 1)>>))
    BY <1>clients, RedisShares DEF Redis!Judge, Redis!inspect_clients
  <2>2. figure \in [total : Grades, long_idle : BOOLEAN]
    BY <1>clients, RedisShares DEF Redis!Totals
  <2>3. figure.total \in Grades /\ <<If(figure.long_idle, 1)>> \in Seq(Grades)
    <3>1. If(figure.long_idle, 1) \in Grades
      BY IfIs DEF Grades
    <3> QED
      BY <2>2, <3>1, ShortLists
  <2>4. Raised(<<If(figure.long_idle, 1)>>) \in Seq(Grades)
    BY <2>3, RaisedIs
  <2>5. v.status = figure.total /\ v.findings = Raised(<<If(figure.long_idle, 1)>>)
    BY <2>1, Parts
  <2> HIDE DEF v
  <2>6. Fit(v)
    BY <2>3, <2>4, <2>5 DEF Fit
  <2> QED
    BY <1>clients, <2>6, RedisNamed DEF Sound, v
<1>keyspace. CASE t = "keyspace"
  <2>1. v = Verdict(0, FirstFew(All(0, rows)))
    BY <1>keyspace, RedisShares DEF Redis!Judge, Redis!inspect_keyspace
  <2>2. rows \in Seq({0})
    BY <1>keyspace, RedisShares, ListsAre DEF Redis!Rows
  <2>3. 0 \in Grades /\ 0 <= 0 /\ ~(0 > 0)
    BY DEF Grades
  <2>4. Fit(v) /\ Modest(v) /\ Told(v)
    BY <2>1, <2>2, <2>3, Listing
  <2> QED
    BY <2>4, SoundIfAll
<1>stats. CASE t = "stats"
  <2>1. v = Checks(<<If(figure.low_hits, 1), If(figure.rejected, 1)>>)
    BY <1>stats, RedisShares DEF Redis!Judge, Redis!inspect_stats
  <2>2. If(figure.low_hits, 1) \in Grades /\ If(figure.rejected, 1) \in Grades
    BY IfIs DEF Grades
  <2>3. <<If(figure.low_hits, 1), If(figure.rejected, 1)>> \in Seq(Grades)
    BY <2>2, ShortLists
  <2> QED
    BY <2>1, <2>3, ChecksAre, SoundIfAll
<1>replication. CASE t = "replication"
  <2>1. v = Redis!inspect_replication(rows, figure.master, figure.link_up, figure.late)
    BY <1>replication DEF Redis!Judge
  <2>2. rows \in Seq(Grades)
    BY <1>replication, RedisShares, ListsAre DEF Redis!Rows
  <2>3. figure \in [master : BOOLEAN, link_up : BOOLEAN, late : BOOLEAN]
    BY <1>replication DEF Redis!Totals
  <2>4. \/ v = Verdict(1, <<1>>)
        \/ v = Checks(rows)
        \/ v = Verdict(2, <<2>>)
        \/ v = Verdict(If(figure.late, 1), <<>>)
    <3>1. figure.master \in BOOLEAN /\ figure.link_up \in BOOLEAN
      BY <2>3
    <3> QED
      BY <2>1, <3>1, RedisShares DEF Redis!inspect_replication
  <2> HIDE DEF v
  <2>5. 1 \in Grades /\ 2 \in Grades /\ If(figure.late, 1) \in Grades
    BY IfIs DEF Grades
  <2>6. Fit(v) /\ Modest(v) /\ (Told(v) \/ v = Verdict(If(figure.late, 1), <<>>))
    BY <2>2, <2>4, <2>5, ChecksAre, OneFinding
  <2>7. v = Verdict(If(figure.late, 1), <<>>) => Told(v) \/ v.status = 1
    <3>1. v = Verdict(If(figure.late, 1), <<>>) => v.status = If(figure.late, 1)
      BY Parts
    <3>2. If(figure.late, 1) = 0 \/ If(figure.late, 1) = 1
      BY DEF If
    <3> QED
      BY <3>1, <3>2 DEF Told
  <2> QED
    BY <1>replication, <2>6, <2>7, RedisNamed DEF Sound, v
<1>persistence. CASE t = "persistence"
  <2>1. v = Checks(<<figure.rdb, If(figure.aof_failed, 2), If(figure.rewrite_failed, 1)>>)
    BY <1>persistence, RedisShares DEF Redis!Judge, Redis!inspect_persistence
  <2>2. figure \in [rdb : Grades, aof_failed : BOOLEAN, rewrite_failed : BOOLEAN]
    BY <1>persistence, RedisShares DEF Redis!Totals
  <2>3. figure.rdb \in Grades /\ If(figure.aof_failed, 2) \in Grades /\ If(figure.rewrite_failed, 1) \in Grades
    BY <2>2, IfIs DEF Grades
  <2>4. <<figure.rdb, If(figure.aof_failed, 2), If(figure.rewrite_failed, 1)>> \in Seq(Grades)
    BY <2>3, ShortLists
  <2> QED
    BY <2>1, <2>4, ChecksAre, SoundIfAll
<1>eviction. CASE t = "eviction"
  <2> DEFINE grade == IF figure.pct = 3 THEN 2 ELSE If(figure.pct >= 1, 1)
             checks == <<grade, If(figure.noeviction /\ figure.pct >= 2, 1), If(figure.evicted, 1)>>
  <2>1. v = Verdict(IF figure.limited THEN grade ELSE 1, Raised(checks))
    BY <1>eviction, RedisShares DEF Redis!Judge, Redis!inspect_eviction
  <2>2. grade \in {0, 1, 2}
    BY DEF If
  <2> HIDE DEF grade
  <2>3. grade \in Grades /\ If(figure.noeviction /\ figure.pct >= 2, 1) \in Grades /\ If(figure.evicted, 1) \in Grades
    BY <2>2, IfIs DEF Grades
  <2>4. checks \in Seq(Grades) /\ 1 \in DOMAIN checks /\ checks[1] = grade
    BY <2>3, ShortLists
  <2> HIDE DEF checks
  <2>5. /\ Raised(checks) \in Seq(Grades)
        /\ grade >= 1 => \E n \in DOMAIN Raised(checks) : Raised(checks)[n] = grade
    BY <2>4, RaisedIs
  <2>6. v.status = (IF figure.limited THEN grade ELSE 1) /\ v.findings = Raised(checks)
    BY <2>1, Parts
  <2> HIDE DEF v
  <2>7. Fit(v)
    BY <2>2, <2>5, <2>6 DEF Fit, Grades
  <2>8. Told(v) \/ v.status = 1
    <3>1. CASE v.status = grade
      BY <2>2, <2>5, <2>6, <3>1 DEF Told
    <3> QED
      BY <2>6, <3>1
  <2> QED
    BY <1>eviction, <2>7, <2>8, RedisNamed DEF Sound, v
<1>cluster. CASE t = "cluster_mode"
  <2> DEFINE broken == Redis!Shows(figure.broken, figure.info, figure.nodes)
             listed == IF figure.nodes THEN First(20, rows) ELSE <<>>
             alone == listed # <<>> /\ ~figure.replicas
             faulty == [i \in 1..Cardinality(broken) |-> 2]
             findings == faulty \o All(0, listed)
             status == IF broken # {} THEN 2 ELSE If(alone, 1)
  <2>1. v = IF figure.enabled THEN Verdict(status, findings) ELSE Verdict(0, <<>>)
    BY <1>cluster, RedisShares DEF Redis!Judge, Redis!inspect_cluster_mode
  <2>2. rows \in Seq({0})
    BY <1>cluster, RedisShares, ListsAre DEF Redis!Rows
  <2>3. listed \in Seq({0})
    <3>1. 20 \in Nat \ {0} /\ <<>> \in Seq({0})
      OBVIOUS
    <3> QED
      BY <2>2, <3>1, FirstIs
  <2>4. Cardinality(broken) \in Nat /\ (Cardinality(broken) = 0 <=> broken = {})
    <3>1. figure.broken \subseteq {"state", "slots", "links"}
      BY <1>cluster DEF Redis!Totals
    <3>2. broken \subseteq {"state", "slots", "links"}
      BY <3>1 DEF Redis!Shows
    <3> HIDE DEF broken
    <3>3. IsFiniteSet({"state", "slots", "links"})
      <4>1. IsFiniteSet({"state"}) /\ IsFiniteSet({"slots"}) /\ IsFiniteSet({"links"})
        BY FS_Singleton
      <4>2. IsFiniteSet({"state"} \cup {"slots"})
        BY <4>1, FS_Union
      <4>3. IsFiniteSet(({"state"} \cup {"slots"}) \cup {"links"})
        BY <4>1, <4>2, FS_Union
      <4>4. {"state", "slots", "links"} = ({"state"} \cup {"slots"}) \cup {"links"}
        OBVIOUS
      <4> QED
        BY <4>3, <4>4
    <3>4. IsFiniteSet(broken)
      BY <3>2, <3>3, FS_Subset
    <3> QED
      BY <3>4, FS_CardinalityType, FS_EmptySet
  <2> HIDE DEF broken, listed
  <2>5. /\ faulty \in Seq({2}) /\ \A i \in DOMAIN faulty : faulty[i] = 2
        /\ broken # {} <=> 1 \in DOMAIN faulty
    BY <2>4, IsASeq
  <2>6. All(0, listed) \in Seq(Grades) /\ \A i \in DOMAIN All(0, listed) : All(0, listed)[i] = 0
    <3>1. 0 \in Grades
      BY DEF Grades
    <3> QED
      BY <2>3, <3>1, AllIs
  <2> HIDE DEF faulty
  <2>7. faulty \in Seq(Grades)
    <3>1. {2} \subseteq Grades
      BY DEF Grades
    <3> QED
      BY <2>5, <3>1, SeqMonotonic
  <2>8. /\ findings \in Seq(Grades)
        /\ \A i \in DOMAIN faulty : i \in DOMAIN findings /\ findings[i] = faulty[i]
        /\ \A i \in DOMAIN findings :
              \/ \E j \in DOMAIN faulty : findings[i] = faulty[j]
              \/ \E j \in DOMAIN All(0, listed) : findings[i] = All(0, listed)[j]
    <3>1. /\ findings \in Seq(Grades)
          /\ \A i \in DOMAIN faulty : i \in DOMAIN findings /\ findings[i] = faulty[i]
      BY <2>6, <2>7, JoinedIs
    <3>2. Range(findings) = Range(faulty) \cup Range(All(0, listed))
      BY <2>6, <2>7, RangeOf
    <3> HIDE DEF findings
    <3> QED
      BY <3>1, <3>2 DEF Range
  <2> HIDE DEF findings
  <2>9. status \in {0, 1, 2} /\ (broken # {} <=> status = 2)
    BY DEF If
  <2> HIDE DEF status
  <2>10. \A i \in DOMAIN findings : findings[i] = 0 \/ (findings[i] = 2 /\ status = 2)
    <3> SUFFICES ASSUME NEW i \in DOMAIN findings
                 PROVE  findings[i] = 0 \/ (findings[i] = 2 /\ status = 2)
      OBVIOUS
    <3>1. DOMAIN faulty # {} <=> 1 \in DOMAIN faulty
      BY <2>7, Indexed
    <3>2. (\E j \in DOMAIN faulty : findings[i] = faulty[j]) => findings[i] = 2 /\ status = 2
      BY <2>5, <2>9, <3>1
    <3> QED
      BY <2>6, <2>8, <3>2
  <2>11. status = 2 => 1 \in DOMAIN findings /\ findings[1] = 2
    BY <2>5, <2>8, <2>9
  <2>12. CASE v = Verdict(status, findings)
    <3>1. v.status = status /\ v.findings = findings
      BY <2>12, Parts
    <3> HIDE DEF v
    <3>2. Fit(v)
      BY <2>8, <2>9, <3>1 DEF Fit, Grades
    <3>3. Modest(v)
      BY <2>9, <2>10, <3>1 DEF Modest
    <3>4. Told(v) \/ v.status = 1
      BY <2>9, <2>11, <3>1 DEF Told
    <3> QED
      BY <1>cluster, <3>2, <3>3, <3>4, RedisNamed DEF Sound, v
  <2>13. CASE v = Verdict(0, <<>>)
    <3>1. v.status = 0 /\ v.findings = <<>>
      BY <2>13, Parts
    <3> HIDE DEF v
    <3>2. Fit(v) /\ Modest(v) /\ Told(v)
      BY <3>1, ShortLists DEF Fit, Modest, Told, Grades
    <3> QED
      BY <3>2, SoundIfAll DEF v
  <2> QED
    BY <2>1, <2>12, <2>13
<1>pubsub. CASE t = "pubsub"
  <2>1. v = Verdict(Worst(AtLeastWarning(rows)), FirstFew(All(1, rows)))
    BY <1>pubsub, RedisShares DEF Redis!Judge, Redis!inspect_pubsub
  <2>2. rows \in Seq(Grades)
    <3>1. rows \in Seq({1, 2})
      BY <1>pubsub, RedisShares, ListsAre DEF Redis!Rows
    <3>2. {1, 2} \subseteq Grades
      BY DEF Grades
    <3> QED
      BY <3>1, <3>2, SeqMonotonic
  <2>3. /\ AtLeastWarning(rows) \in Seq(Grades) /\ DOMAIN AtLeastWarning(rows) = DOMAIN rows
        /\ \A i \in DOMAIN rows : AtLeastWarning(rows)[i] >= 1
    BY <2>2, WarnedIs
  <2>4. /\ Worst(AtLeastWarning(rows)) \in Grades
        /\ \A i \in DOMAIN rows : AtLeastWarning(rows)[i] <= Worst(AtLeastWarning(rows))
    BY <2>3, WorstIs
  <2>5. /\ All(1, rows) \in Seq(Grades) /\ DOMAIN All(1, rows) = DOMAIN rows
        /\ \A i \in DOMAIN rows : All(1, rows)[i] = 1
    <3>1. 1 \in Grades
      BY DEF Grades
    <3> QED
      BY <2>2, <3>1, AllIs
  <2>6. /\ FirstFew(All(1, rows)) \in Seq(Grades)
        /\ \A i \in DOMAIN FirstFew(All(1, rows)) : i \in DOMAIN rows /\ FirstFew(All(1, rows))[i] = 1
    BY <2>5, FirstFewIs
  <2>7. \A i \in DOMAIN rows : 1 <= Worst(AtLeastWarning(rows))
    <3> SUFFICES ASSUME NEW i \in DOMAIN rows PROVE 1 <= Worst(AtLeastWarning(rows))
      OBVIOUS
    <3>1. AtLeastWarning(rows)[i] \in 0..2 /\ Worst(AtLeastWarning(rows)) \in 0..2
      BY <2>3, <2>4, Indexed DEF Grades
    <3> QED
      BY <2>3, <2>4, <3>1
  <2>8. v.status = Worst(AtLeastWarning(rows)) /\ v.findings = FirstFew(All(1, rows))
    BY <2>1, Parts
  <2> HIDE DEF v
  <2>9. Fit(v) /\ Modest(v)
    BY <2>4, <2>6, <2>7, <2>8 DEF Fit, Modest
  <2> QED
    BY <1>pubsub, <2>9, RedisNamed DEF Sound, v
<1> QED
  BY <1>0, <1>overview, <1>memory, <1>clients, <1>keyspace, <1>stats, <1>replication, <1>persistence,
     <1>eviction, <1>cluster, <1>pubsub DEF Redis!Tools

\* The tools of the ElastiCache server with a top_n.
LEMMA RedisListTools ==
  ASSUME NEW t \in {"slow_queries", "big_keys", "hot_keys"}, NEW rows \in Redis!Rows(t), NEW list, Cut(list, rows),
         NEW figure \in Redis!Totals(t, rows)
  PROVE  Sound(<<"redis", t>>, Redis!Judge(t, list, figure), Redis!Judge(t, rows, figure))
<1> DEFINE v == Redis!Judge(t, list, figure)
           w == Redis!Judge(t, rows, figure)
<1>1. rows \in Seq(Grades) /\ (t # "slow_queries" => Descending(rows))
  <2>1. CASE t = "slow_queries"
    BY <2>1, RedisShares, ListsAre DEF Redis!Rows
  <2>2. CASE t = "big_keys"
    BY <2>2, RedisShares, ListsAre DEF Redis!Rows
  <2>3. CASE t = "hot_keys"
    <3>1. rows \in Seq({0, 1}) /\ Descending(rows)
      BY <2>3, RedisShares, ListsAre DEF Redis!Rows
    <3>2. {0, 1} \subseteq Grades
      BY DEF Grades
    <3> QED
      BY <3>1, <3>2, SeqMonotonic
  <2> QED
    BY <2>1, <2>2, <2>3
<1>2. list \in Seq(Grades)
  BY <1>1, CutIs
<1>3. CASE t = "slow_queries"
  <2>1. v = Verdict(Worst(list), list)
    BY <1>3, RedisShares DEF Redis!Judge, Redis!inspect_slow_queries
  <2>2. Fit(v) /\ Modest(v) /\ Told(v)
    BY <1>2, <2>1, GradedRows
  <2> QED
    BY <1>3, <2>2, RedisNamed DEF Sound
<1>4. CASE t = "big_keys" \/ (t = "hot_keys" /\ figure.lfu)
  <2>1. v = Verdict(Worst(list), list) /\ w = Verdict(Worst(rows), rows)
    BY <1>4, RedisShares DEF Redis!Judge, Redis!inspect_big_keys, Redis!inspect_hot_keys
  <2>2. Worst(list) = Worst(rows)
    BY <1>1, <1>4, CutKeepsWorst
  <2>3. Fit(v) /\ Modest(v) /\ Told(v) /\ v.status = w.status
    BY <1>2, <2>1, <2>2, GradedRows, Parts
  <2> QED
    BY <2>3, SoundIfAll
<1>5. CASE t = "hot_keys" /\ ~figure.lfu
  <2>1. v = Verdict(0, All(0, list)) /\ w = Verdict(0, All(0, rows))
    BY <1>5, RedisShares DEF Redis!Judge, Redis!inspect_hot_keys
  <2>2. 0 \in Grades /\ 0 <= 0 /\ ~(0 > 0)
    BY DEF Grades
  <2>3. Fit(v) /\ Modest(v) /\ Told(v) /\ v.status = w.status
    BY <1>2, <2>1, <2>2, Listing, Parts
  <2> QED
    BY <2>3, SoundIfAll
<1> QED
  BY <1>3, <1>4, <1>5

\* Rows that WHERE let through, in order: the worst one is the status.
LEMMA WarnedTools ==
  ASSUME NEW rows \in Seq({1, 2}), Descending(rows), NEW list, Cut(list, rows), NEW t, NEW v, NEW w,
         v = Verdict(Worst(AtLeastWarning(list)), AtLeastWarning(list)),
         w = Verdict(Worst(AtLeastWarning(rows)), AtLeastWarning(rows))
  PROVE  Sound(t, v, w)
<1>1. rows \in Seq(Grades)
  <2>1. {1, 2} \subseteq Grades
    BY DEF Grades
  <2> QED
    BY <2>1, SeqMonotonic
<1>2. list \in Seq(Grades) /\ Worst(AtLeastWarning(list)) = Worst(AtLeastWarning(rows))
  BY <1>1, CutKeepsWorst
<1>3. AtLeastWarning(list) \in Seq(Grades)
  BY <1>2, WarnedIs
<1>4. Fit(v) /\ Modest(v) /\ Told(v) /\ v.status = w.status
  BY <1>2, <1>3, GradedRows, Parts
<1> QED
  BY <1>4, SoundIfAll
--------------------------------------------------------------------------
\* The instance of MyVerdict grades as Grading does.
LEMMA MyShares ==
  /\ My!Grades = Grades /\ My!None = None
  /\ \A S : My!Lists(S) = Lists(S)
  /\ \A s : My!Descending(s) = Descending(s)
  /\ \A s : My!Worst(s) = Worst(s) /\ My!FirstFew(s) = FirstFew(s) /\ My!Raised(s) = Raised(s)
  /\ \A s : My!Checks(s) = Checks(s) /\ My!AtLeastWarning(s) = AtLeastWarning(s)
  /\ \A g, s : My!All(g, s) = All(g, s)
  /\ \A c, g : My!If(c, g) = If(c, g)
  /\ \A k, s : My!First(k, s) = First(k, s)
  /\ \A s, f : My!Verdict(s, f) = Verdict(s, f)
  /\ \A s, P : My!Picked(s, P) = Picked(s, P)
  /\ \A s : My!ByScore(s) = ByScore(s)
<1>1. My!Grades = Grades /\ My!None = None
  BY DEF My!Grades, Grades, My!None, None
<1>2. \A S : My!Lists(S) = Lists(S)
  BY DEF My!Lists, Lists, My!BoundedSeq, BoundedSeq, My!SeqOf, SeqOf
<1>3. \A s : My!Descending(s) = Descending(s)
  BY DEF My!Descending, Descending
<1>4. \A s : My!Worst(s) = Worst(s)
  BY DEF My!Worst, Worst, My!Some, Some
<1>5. \A k, s : My!First(k, s) = First(k, s)
  BY DEF My!First, First
<1>6. \A s : My!FirstFew(s) = FirstFew(s)
  BY <1>5 DEF My!FirstFew, FirstFew
<1>7. \A s, P : My!Picked(s, P) = Picked(s, P)
  BY DEF My!Picked, Picked, My!Arranged, Arranged, My!Cardinality, Cardinality
<1>8. \A s : My!Raised(s) = Raised(s)
  BY <1>7 DEF My!Raised, Raised
<1>9. \A s, f : My!Verdict(s, f) = Verdict(s, f)
  BY DEF My!Verdict, Verdict
<1>10. \A s : My!Checks(s) = Checks(s) /\ My!AtLeastWarning(s) = AtLeastWarning(s)
  BY <1>4, <1>8, <1>9 DEF My!Checks, Checks, My!AtLeastWarning, AtLeastWarning
<1>11. \A g, s : My!All(g, s) = All(g, s)
  BY DEF My!All, All
<1>12. \A c, g : My!If(c, g) = If(c, g)
  BY DEF My!If, If
<1>13. \A s : My!ByScore(s) = ByScore(s)
  BY DEF My!ByScore, ByScore, My!Before, Before, My!Arranged, Arranged, My!Cardinality, Cardinality
<1> QED
  BY <1>1, <1>2, <1>3, <1>4, <1>5, <1>6, <1>7, <1>8, <1>13, <1>9, <1>10, <1>11, <1>12

\* The tools of the MySQL server that are exceptions.
LEMMA MyNamed ==
  \A t : /\ <<"mysql", t>> \notin OwnScale
         /\ <<"mysql", t>> \in TextOnly <=> t \in {"index_usage", "variables", "replica_status"}
         /\ <<"mysql", t>> \in OtherOrder <=>
               t \in {"processlist", "metadata_locks", "active_clients", "slow_queries", "table_sizes",
                      "auto_increment"}
<1>1. \A t : <<"mysql", t>> \notin OwnScale
  BY DEF OwnScale, On
<1>2. \A t : <<"mysql", t>> \in TextOnly <=> t \in {"index_usage", "variables", "replica_status"}
  BY DEF TextOnly, On
<1>3. \A t : <<"mysql", t>> \in OtherOrder <=>
               t \in {"processlist", "metadata_locks", "active_clients", "slow_queries", "table_sizes",
                      "auto_increment"}
  BY DEF OtherOrder, On
<1> QED
  BY <1>1, <1>2, <1>3

\* The MySQL tools without a LIMIT grade counters, and the rows of Aurora's
\* readers.
LEMMA MyTotalTools ==
  ASSUME NEW t \in My!Unlimited, NEW rows \in My!Rows(t), NEW figure \in My!Totals(t, rows)
  PROVE  Sound(<<"mysql", t>>, My!Judge(t, rows, figure), My!Judge(t, rows, figure))
<1> DEFINE v == My!Judge(t, rows, figure)
<1>0. t \notin My!Degrading
  BY DEF My!Unlimited, My!Degrading
<1>connections. CASE t = "connections"
  <2>1. v = Checks(<<figure.used, If(figure.refused, 2)>>)
    BY <1>0, <1>connections, MyShares DEF My!Judge, My!inspect_connections
  <2>2. figure \in [used : Grades, refused : BOOLEAN]
    BY <1>0, <1>connections, MyShares DEF My!Totals
  <2>3. figure.used \in Grades /\ If(figure.refused, 2) \in Grades
    BY <2>2, IfIs DEF Grades
  <2>4. <<figure.used, If(figure.refused, 2)>> \in Seq(Grades)
    BY <2>3, ShortLists
  <2> QED
    BY <2>1, <2>4, ChecksAre, SoundIfAll
<1>buffer. CASE t = "buffer_pool"
  <2> DEFINE hit == If(figure.hit # None, figure.hit)
  <2>1. v = Checks(<<hit, If(figure.waited, 1), If(figure.dirty, 1)>>)
    BY <1>0, <1>buffer, MyShares DEF My!Judge, My!inspect_buffer_pool
  <2>2. figure \in [hit : Grades \cup {None}, waited : BOOLEAN, dirty : BOOLEAN]
    BY <1>0, <1>buffer, MyShares DEF My!Totals
  <2>3. hit \in Grades
    BY <2>2 DEF If, Grades
  <2>4. If(figure.waited, 1) \in Grades /\ If(figure.dirty, 1) \in Grades
    BY IfIs DEF Grades
  <2> HIDE DEF hit
  <2>5. <<hit, If(figure.waited, 1), If(figure.dirty, 1)>> \in Seq(Grades)
    BY <2>3, <2>4, ShortLists
  <2> QED
    BY <2>1, <2>5, ChecksAre, SoundIfAll
<1>temp. CASE t = "temp_tables"
  <2>1. v = Checks(<<figure.disk, If(figure.merges, 1)>>)
    BY <1>0, <1>temp, MyShares DEF My!Judge, My!inspect_temp_tables
  <2>2. figure \in [disk : Grades, merges : BOOLEAN]
    BY <1>0, <1>temp, MyShares DEF My!Totals
  <2>3. figure.disk \in Grades /\ If(figure.merges, 1) \in Grades
    BY <2>2, IfIs DEF Grades
  <2>4. <<figure.disk, If(figure.merges, 1)>> \in Seq(Grades)
    BY <2>3, ShortLists
  <2> QED
    BY <2>1, <2>4, ChecksAre, SoundIfAll
<1>status. CASE t = "global_status"
  <2>1. v = Checks(<<If(figure.slow, 1), If(figure.joins, 1)>>)
    BY <1>0, <1>status, MyShares DEF My!Judge, My!inspect_global_status
  <2>2. If(figure.slow, 1) \in Grades /\ If(figure.joins, 1) \in Grades
    BY IfIs DEF Grades
  <2>3. <<If(figure.slow, 1), If(figure.joins, 1)>> \in Seq(Grades)
    BY <2>2, ShortLists
  <2> QED
    BY <2>1, <2>3, ChecksAre, SoundIfAll
<1>variables. CASE t = "variables"
  <2> DEFINE durable == IF figure.binlog THEN <<1>> ELSE <<>>
             flushed == IF figure.flush THEN <<0>> ELSE <<>>
             findings == durable \o flushed
  <2>1. v = Verdict(If(findings # <<>>, 1), findings)
    BY <1>0, <1>variables, MyShares DEF My!Judge, My!inspect_variables
  <2>2. durable \in Seq({0, 1}) /\ flushed \in Seq({0, 1})
    <3>1. <<1>> \in Seq({0, 1}) /\ <<0>> \in Seq({0, 1})
      OBVIOUS
    <3>2. <<>> \in Seq({0, 1})
      OBVIOUS
    <3> QED
      BY <3>1, <3>2, Zenon
  <2> HIDE DEF durable, flushed
  <2>3. findings \in Seq({0, 1})
    BY <2>2, JoinedIs
  <2>4. findings \in Seq(Grades)
    <3>1. {0, 1} \subseteq Grades
      BY DEF Grades
    <3> QED
      BY <2>3, <3>1, SeqMonotonic
  <2> HIDE DEF findings
  <2>5. \A i \in DOMAIN findings : findings[i] \in {0, 1} /\ findings # <<>>
    BY <2>3, Indexed
  <2>6. v.status = If(findings # <<>>, 1) /\ v.findings = findings
    BY <2>1, Parts
  <2> HIDE DEF v
  <2>7. v.status \in Grades /\ (findings # <<>> => v.status = 1)
    BY <2>6 DEF If, Grades
  <2>8. \A i \in DOMAIN findings : findings[i] <= v.status
    BY <2>5, <2>7
  <2>9. Fit(v) /\ Modest(v)
    BY <2>4, <2>6, <2>7, <2>8 DEF Fit, Modest
  <2>10. v.status = 1 \/ Told(v)
    BY <2>6 DEF If, Told
  <2> QED
    BY <1>variables, <2>9, <2>10, MyNamed DEF Sound, v
<1>replica. CASE t = "replica_status"
  <2>1. v = My!inspect_replica_status(rows, figure.kind, figure.down, figure.lag)
    BY <1>0, <1>replica DEF My!Judge
  <2>2. rows \in Seq(Grades)
    BY <1>replica, MyShares, ListsAre DEF My!Rows
  <2>3. figure.kind \in {"aurora", "source", "replica"} /\ figure.lag \in Grades \cup {None}
    BY <1>0, <1>replica, MyShares DEF My!Totals
  <2>4. \/ v = Verdict(1, <<>>)
        \/ v = Verdict(Worst(rows), rows)
        \/ v = Verdict(0, <<>>)
        \/ v = Verdict(2, <<2>>)
        \/ figure.lag # None /\ v = Checks(<<figure.lag>>)
    <3>1. CASE figure.kind = "aurora"
      BY <2>1, <3>1, MyShares DEF My!inspect_replica_status
    <3>2. CASE figure.kind = "source"
      BY <2>1, <3>2, MyShares DEF My!inspect_replica_status
    <3>3. CASE figure.kind = "replica"
      BY <2>1, <3>3, MyShares DEF My!inspect_replica_status
    <3> QED
      BY <2>3, <3>1, <3>2, <3>3
  <2> HIDE DEF v
  <2>5. figure.lag # None => <<figure.lag>> \in Seq(Grades)
    BY <2>3, ShortLists
  <2>6. 0 \in Grades /\ 1 \in Grades /\ 2 \in Grades
    BY DEF Grades
  <2>7. Fit(v) /\ Modest(v) /\ (Told(v) \/ v = Verdict(1, <<>>) \/ v = Verdict(0, <<>>))
    BY <2>2, <2>4, <2>5, <2>6, GradedRows, ChecksAre, OneFinding
  <2>8. v = Verdict(1, <<>>) => v.status = 1
    BY Parts
  <2>9. v = Verdict(0, <<>>) => Told(v)
    BY Parts DEF Told
  <2> QED
    BY <1>replica, <2>7, <2>8, <2>9, MyNamed DEF Sound, v
<1> QED
  BY <1>connections, <1>buffer, <1>temp, <1>status, <1>variables, <1>replica DEF My!Unlimited

\* The MySQL tools with a LIMIT, when their statement succeeds.
LEMMA MyListTools ==
  ASSUME NEW t \in My!Tools \ My!Unlimited, NEW rows \in My!Rows(t), NEW list, Cut(list, rows), NEW figure,
         ~(t \in My!Degrading /\ figure = None)
  PROVE  Sound(<<"mysql", t>>, My!Judge(t, list, figure), My!Judge(t, rows, figure))
<1> DEFINE v == My!Judge(t, list, figure)
           w == My!Judge(t, rows, figure)
<1>0. ~(t \in My!Degrading /\ figure = My!None)
  BY MyShares
<1>00. 0 \in Grades /\ 0 <= 0 /\ ~(0 > 0) /\ 1 \in Grades
  BY DEF Grades
<1>processlist. CASE t = "processlist"
  <2> DEFINE Threads == [query : BOOLEAN, time : Grades]
             P == {i \in DOMAIN list : list[i].query /\ list[i].time >= 1}
             running == Picked(list, P)
             times == [i \in DOMAIN running |-> running[i].time]
  <2>1. v = Verdict(Worst(times), FirstFew(times))
    BY <1>0, <1>processlist, MyShares DEF My!Judge, My!inspect_processlist
  <2>2. rows \in Seq(Threads) /\ Descending([i \in DOMAIN rows |-> rows[i].time])
    BY <1>processlist, MyShares, ListsAre DEF My!Rows
  <2>3. /\ list \in Seq(Threads)
        /\ \A i \in DOMAIN list : i \in DOMAIN rows /\ list[i] = rows[i]
    BY <2>2, CutIs
  <2>4. \A i, j \in DOMAIN list : i < j => list[i].time >= list[j].time
    BY <2>2, <2>3 DEF Descending
  <2>5. DOMAIN list = 1..Len(list)
    BY <2>3, Indexed
  <2>6. P \in SUBSET (1..Len(list)) /\ P \subseteq DOMAIN list
    BY <2>5
  <2> HIDE DEF P
  <2>7. /\ running \in Seq(Threads)
        /\ \A m, n \in 1..Len(running) :
              m < n => \E i, j \in P : i < j /\ running[m] = list[i] /\ running[n] = list[j]
    <3> HIDE DEF Threads
    <3>1. running \in Seq(Threads)
      BY <2>3, <2>6, PickedIs
    <3>2. \A m, n \in 1..Len(Picked(list, P)) :
             m < n => \E i, j \in P : i < j /\ Picked(list, P)[m] = list[i] /\ Picked(list, P)[n] = list[j]
      BY <2>3, <2>6, PickedInOrder
    <3> QED
      BY <3>1, <3>2
  <2> HIDE DEF running
  <2>8. DOMAIN running = 1..Len(running) /\ \A i \in DOMAIN running : running[i] \in Threads
    BY <2>7, Indexed
  <2>9. times \in [DOMAIN running -> Grades]
    BY <2>8
  <2>10. times \in Seq(Grades) /\ DOMAIN times = DOMAIN running
    BY <2>7, <2>9, MappedIs
  <2>11. Descending(times)
    <3> SUFFICES ASSUME NEW m \in DOMAIN running, NEW n \in DOMAIN running, m < n
                 PROVE  running[m].time >= running[n].time
      BY <2>10 DEF Descending
    <3>1. PICK i \in P, j \in P : i < j /\ running[m] = list[i] /\ running[n] = list[j]
      BY <2>7, <2>8
    <3> QED
      BY <2>4, <2>6, <3>1
  <2> HIDE DEF times, v
  <2>12. Fit(v) /\ Modest(v) /\ Told(v)
    BY <2>1, <2>10, <2>11, GradedSlice
  <2> QED
    BY <1>processlist, <2>12, MyNamed DEF Sound, v
<1>warned. CASE t \in {"long_transactions", "lock_waits", "current_queries"}
  <2>1. /\ v = Verdict(Worst(AtLeastWarning(list)), AtLeastWarning(list))
        /\ w = Verdict(Worst(AtLeastWarning(rows)), AtLeastWarning(rows))
    BY <1>0, <1>warned, MyShares
    DEF My!Judge, My!inspect_long_transactions, My!inspect_lock_waits, My!inspect_current_queries
  <2>2. rows \in Seq({1, 2}) /\ Descending(rows)
    BY <1>warned, MyShares, ListsAre DEF My!Rows
  <2> QED
    BY <2>1, <2>2, WarnedTools
<1>locks. CASE t = "metadata_locks"
  <2> DEFINE Locks == [pending : BOOLEAN, late : BOOLEAN]
             P == {i \in DOMAIN list : list[i].pending}
             pending == Picked(list, P)
             grades == [i \in DOMAIN pending |-> IF pending[i].late THEN 2 ELSE 1]
  <2>1. v = Verdict(Worst(grades), grades)
    BY <1>0, <1>locks, MyShares DEF My!Judge, My!inspect_metadata_locks, My!Pending
  <2>2. rows \in Seq(Locks)
    BY <1>locks, MyShares, ListsAre DEF My!Rows
  <2>3. list \in Seq(Locks)
    BY <2>2, CutIs
  <2>4. P \in SUBSET (1..Len(list))
    BY <2>3, Indexed
  <2> HIDE DEF P
  <2>5. pending \in Seq(Locks)
    BY <2>3, <2>4, PickedIs
  <2> HIDE DEF pending
  <2>6. grades \in [DOMAIN pending -> Grades]
    BY DEF Grades
  <2>7. grades \in Seq(Grades)
    BY <2>5, <2>6, MappedIs
  <2> HIDE DEF grades, v
  <2>8. Fit(v) /\ Modest(v) /\ Told(v)
    BY <2>1, <2>7, GradedRows
  <2> QED
    BY <1>locks, <2>8, MyNamed DEF Sound, v
<1>clients. CASE t = "active_clients"
  <2>1. PICK c : v = Checks(<<If(c, 1)>>)
    BY <1>0, <1>clients, MyShares DEF My!Judge, My!inspect_active_clients
  <2>2. <<If(c, 1)>> \in Seq(Grades)
    BY <1>00, IfIs, ShortLists
  <2> HIDE DEF v
  <2>3. Fit(v) /\ Modest(v) /\ Told(v)
    BY <2>1, <2>2, ChecksAre
  <2> QED
    BY <1>clients, <2>3, MyNamed DEF Sound, v
<1>slow. CASE t \in {"slow_queries", "slow_queries by avg"}
  <2>1. v = Verdict(Worst(list), list) /\ w = Verdict(Worst(rows), rows)
    BY <1>0, <1>slow, MyShares DEF My!Judge, My!inspect_slow_queries
  <2>2. rows \in Seq(Grades) /\ (t = "slow_queries by avg" => Descending(rows))
    BY <1>slow, MyShares, ListsAre DEF My!Rows
  <2>3. list \in Seq(Grades)
    BY <2>2, CutIs
  <2> HIDE DEF v, w
  <2>4. Fit(v) /\ Modest(v) /\ Told(v)
    BY <2>1, <2>3, GradedRows
  <2>5. t = "slow_queries by avg" => v.status = w.status
    <3>1. t = "slow_queries by avg" => Worst(list) = Worst(rows)
      BY <2>2, CutKeepsWorst
    <3>2. v.status = Worst(list) /\ w.status = Worst(rows)
      BY <2>1, Parts
    <3> QED
      BY <3>1, <3>2
  <2> QED
    BY <1>slow, <2>4, <2>5, MyNamed DEF Sound, v, w
<1>io. CASE t = "table_io"
  <2>1. v = Verdict(0, FirstFew(All(0, list))) /\ w = Verdict(0, FirstFew(All(0, rows)))
    BY <1>0, <1>io, MyShares DEF My!Judge, My!inspect_table_io
  <2>2. rows \in Seq({0})
    BY <1>io, MyShares, ListsAre DEF My!Rows
  <2>3. list \in Seq({0})
    BY <2>2, CutIs
  <2>4. Fit(v) /\ Modest(v) /\ Told(v) /\ v.status = w.status
    BY <1>00, <2>1, <2>3, Listing, Parts
  <2> QED
    BY <2>4, SoundIfAll
<1>sizes. CASE t = "table_sizes"
  <2> DEFINE nonInnodb == If(\E i \in DOMAIN list : list[i], 1)
             listed == FirstFew(All(0, list))
             raised == Raised(<<nonInnodb>>)
             findings == listed \o raised
  <2>1. v = Verdict(nonInnodb, findings)
    BY <1>0, <1>sizes, MyShares DEF My!Judge, My!inspect_table_sizes
  <2>2. rows \in Seq(BOOLEAN)
    BY <1>sizes, MyShares, ListsAre DEF My!Rows
  <2>3. list \in Seq(BOOLEAN)
    BY <2>2, CutIs
  <2>4. nonInnodb \in {0, 1}
    BY DEF If
  <2> HIDE DEF nonInnodb
  <2>5. Fit(Verdict(0, listed)) /\ Modest(Verdict(0, listed))
    BY <1>00, <2>3, Listing
  <2>6. listed \in Seq(Grades) /\ \A i \in DOMAIN listed : listed[i] <= 0
    BY <2>5, Parts DEF Fit, Modest
  <2> HIDE DEF listed
  <2>7. <<nonInnodb>> \in Seq(Grades) /\ DOMAIN <<nonInnodb>> = {1} /\ <<nonInnodb>>[1] = nonInnodb
    BY <2>4 DEF Grades
  <2>8. /\ raised \in Seq(Grades)
        /\ \A n \in DOMAIN raised : raised[n] = nonInnodb
        /\ nonInnodb >= 1 => \E n \in DOMAIN raised : raised[n] = nonInnodb
    <3> DEFINE one == <<nonInnodb>>
    <3>1. one \in Seq(Grades) /\ DOMAIN one = {1} /\ one[1] = nonInnodb
      BY <2>7
    <3> HIDE DEF one
    <3>2. /\ Raised(one) \in Seq(Grades)
          /\ \A n \in DOMAIN Raised(one) : Raised(one)[n] >= 1 /\ \E i \in DOMAIN one : Raised(one)[n] = one[i]
          /\ \A i \in DOMAIN one : one[i] >= 1 => \E n \in DOMAIN Raised(one) : Raised(one)[n] = one[i]
      BY <3>1, RaisedIs
    <3>3. raised = Raised(one)
      BY DEF one
    <3> HIDE DEF raised
    <3> QED
      BY <3>1, <3>2, <3>3
  <2> HIDE DEF raised
  <2>9. /\ findings \in Seq(Grades)
        /\ \A i \in DOMAIN raised : \E j \in DOMAIN findings : findings[j] = raised[i]
        /\ \A i \in DOMAIN findings :
              \/ \E j \in DOMAIN listed : findings[i] = listed[j]
              \/ \E j \in DOMAIN raised : findings[i] = raised[j]
    <3>1. listed \in Seq(Grades) /\ raised \in Seq(Grades)
      BY <2>6, <2>8
    <3>2. findings \in Seq(Grades) /\ Range(findings) = Range(listed) \cup Range(raised)
      BY <3>1, RangeOf
    <3> HIDE DEF findings
    <3> QED
      BY <3>2 DEF Range
  <2>10. \A i \in DOMAIN findings : findings[i] <= nonInnodb
    <3> SUFFICES ASSUME NEW i \in DOMAIN findings PROVE findings[i] <= nonInnodb
      OBVIOUS
    <3>1. findings[i] <= 0 \/ findings[i] = nonInnodb
      BY <2>6, <2>8, <2>9
    <3>2. findings[i] \in 0..2
      BY <2>9, Indexed DEF Grades
    <3> QED
      BY <2>4, <3>1, <3>2
  <2>11. nonInnodb > 0 => \E i \in DOMAIN findings : findings[i] >= nonInnodb
    BY <2>4, <2>8, <2>9
  <2> HIDE DEF findings
  <2>12. v.status = nonInnodb /\ v.findings = findings
    BY <2>1, Parts
  <2> HIDE DEF v
  <2>13. Fit(v) /\ Modest(v) /\ Told(v)
    BY <2>4, <2>9, <2>10, <2>11, <2>12 DEF Fit, Modest, Told, Grades
  <2> QED
    BY <1>sizes, <2>13, MyNamed DEF Sound, v
<1>objects. CASE t = "schema_objects"
  <2>1. v = Verdict(0, <<>>) /\ w = Verdict(0, <<>>)
    BY <1>0, <1>objects, MyShares DEF My!Judge, My!inspect_schema_objects
  <2>2. Fit(v) /\ Modest(v) /\ v.status = 0 /\ w.status = 0
    BY <1>00, <2>1, OneFinding, Parts
  <2>3. Told(v)
    BY <2>2 DEF Told
  <2> QED
    BY <2>2, <2>3, SoundIfAll
<1>indexes. CASE t = "index_usage"
  <2>1. /\ v = Verdict(If(list # <<>>, 1), FirstFew(All(0, list)))
        /\ w = Verdict(If(rows # <<>>, 1), FirstFew(All(0, rows)))
    BY <1>0, <1>indexes, MyShares DEF My!Judge, My!inspect_index_usage
  <2>2. rows \in Seq({0})
    BY <1>indexes, MyShares, ListsAre DEF My!Rows
  <2>3. list \in Seq({0}) /\ (1 \in DOMAIN rows <=> 1 \in DOMAIN list)
    BY <2>2, CutIs
  <2>4. list # <<>> <=> rows # <<>>
    BY <2>2, <2>3, Indexed
  <2>5. If(list # <<>>, 1) \in Grades /\ 0 <= If(list # <<>>, 1) /\ If(list # <<>>, 1) = If(rows # <<>>, 1)
    BY <2>4 DEF If, Grades
  <2>6. Fit(v) /\ Modest(v)
    BY <1>00, <2>1, <2>3, <2>5, Listing
  <2>7. v.status = w.status
    BY <2>1, <2>5, Parts
  <2>8. v.status = 1 \/ Told(v)
    <3>1. v.status = If(list # <<>>, 1)
      BY <2>1, Parts
    <3> HIDE DEF v
    <3> QED
      BY <3>1 DEF If, Told
  <2> QED
    BY <1>indexes, <2>6, <2>7, <2>8, MyNamed DEF Sound
<1>increment. CASE t = "auto_increment"
  <2> DEFINE raised == Raised(list)
             rated == [i \in DOMAIN raised |-> [score |-> raised[i]]]
             items == ByScore(rated)
             findings == [i \in DOMAIN items |-> items[i].score]
  <2>1. v = Verdict(If(items # <<>>, items[1].score), findings)
    BY <1>0, <1>increment, MyShares DEF My!Judge, My!inspect_auto_increment
  <2>2. rows \in Seq(Grades)
    BY <1>increment, MyShares, ListsAre DEF My!Rows
  <2>3. raised \in Seq(Grades)
    BY <2>2, CutIs, RaisedIs
  <2> HIDE DEF raised
  <2>4. rated \in Seq([score : Grades])
    <3>1. rated \in [DOMAIN raised -> [score : Grades]]
      BY <2>3, Indexed
    <3> QED
      BY <2>3, <3>1, MappedIs
  <2> HIDE DEF rated
  <2>5. /\ items \in Seq([score : Grades]) /\ Len(items) = Len(rated)
        /\ \A m, n \in 1..Len(rated) : m < n => items[m].score >= items[n].score
    <3>1. \A r \in [score : Grades] : r.score \in Int
      BY DEF Grades
    <3> QED
      BY <2>4, <3>1, SortedIs
  <2> HIDE DEF items
  <2>6. DOMAIN items = 1..Len(items) /\ \A i \in DOMAIN items : items[i] \in [score : Grades]
    BY <2>5, Indexed
  <2>7. findings \in Seq(Grades) /\ DOMAIN findings = DOMAIN items
    <3>1. findings \in [DOMAIN items -> Grades]
      BY <2>6
    <3> QED
      BY <2>5, <3>1, MappedIs
  <2>8. Descending(findings)
    BY <2>5, <2>6, <2>7 DEF Descending
  <2>9. If(items # <<>>, items[1].score) = Worst(findings)
    <3>1. items # <<>> <=> 1 \in DOMAIN items
      BY <2>5, Indexed
    <3>2. 1 \in DOMAIN items => findings[1] = items[1].score
      OBVIOUS
    <3> HIDE DEF findings
    <3> QED
      BY <2>7, <2>8, <3>1, <3>2, WorstIsFirst DEF If
  <2> HIDE DEF findings, v
  <2>10. Fit(v) /\ Modest(v) /\ Told(v)
    BY <2>1, <2>7, <2>9, GradedRows
  <2> QED
    BY <1>increment, <2>10, MyNamed DEF Sound, v
<1> QED
  BY <1>processlist, <1>warned, <1>locks, <1>clients, <1>slow, <1>io, <1>sizes, <1>objects, <1>indexes,
     <1>increment DEF My!Tools, My!Unlimited

\* A statement that failed leaves a text, and the same one whatever LIMIT is.
LEMMA MyDegradedTools ==
  ASSUME NEW t \in My!Degrading, NEW rows, NEW list
  PROVE  My!Judge(t, list, None) = Degraded /\ My!Judge(t, rows, None) = Degraded
BY MyShares DEF My!Judge, My!Degraded, Degraded

\* That text is a warning, and has no finding.
LEMMA DegradedIs == Fit(Degraded) /\ Modest(Degraded) /\ Degraded.status = 1
<1>1. 1 \in Grades
  BY DEF Grades
<1> QED
  BY <1>1, OneFinding, Parts DEF Degraded

\* The rows that raise the status are those that make it.
LEMMA WorstOfRaised ==
  ASSUME NEW s \in Seq(Grades)
  PROVE  Worst(Raised(s)) = Worst(s)
<1>1. /\ Raised(s) \in Seq(Grades)
      /\ \A n \in DOMAIN Raised(s) : Raised(s)[n] >= 1 /\ \E i \in DOMAIN s : Raised(s)[n] = s[i]
      /\ \A i \in DOMAIN s : s[i] >= 1 => \E n \in DOMAIN Raised(s) : Raised(s)[n] = s[i]
  BY RaisedIs
<1> DEFINE raised == Raised(s)
<1>2. ASSUME NEW g \in {1, 2}, Some(g, raised)
      PROVE  Some(g, s)
  <2>1. PICK n \in DOMAIN raised : raised[n] = g
    BY <1>2 DEF Some
  <2>2. PICK i \in DOMAIN s : raised[n] = s[i]
    BY <1>1, <2>1
  <2> QED
    BY <2>1, <2>2 DEF Some
<1>3. ASSUME NEW g \in {1, 2}, Some(g, s)
      PROVE  Some(g, raised)
  <2>1. PICK i \in DOMAIN s : s[i] = g
    BY <1>3 DEF Some
  <2>2. PICK n \in DOMAIN raised : raised[n] = s[i]
    BY <1>1, <2>1
  <2> QED
    BY <2>1, <2>2 DEF Some
<1> QED
  BY <1>2, <1>3 DEF Worst

\* That there are rows at all is the warning.
LEMMA Presence ==
  ASSUME NEW S, NEW s \in Seq(S), NEW status, status = IF s = <<>> THEN 0 ELSE 1
  PROVE  /\ Fit(Verdict(status, All(1, s))) /\ Modest(Verdict(status, All(1, s))) /\ Told(Verdict(status, All(1, s)))
         /\ Fit(Verdict(status, FirstFew(All(1, s)))) /\ Modest(Verdict(status, FirstFew(All(1, s))))
         /\ Told(Verdict(status, FirstFew(All(1, s))))
<1>1. 0 \in Grades /\ 1 \in Grades /\ 1 <= 1
  BY DEF Grades
<1>2. CASE s # <<>>
  <2>1. status = 1 /\ 1 \in DOMAIN s
    BY <1>2, Indexed
  <2> QED
    BY <1>1, <2>1, Listing
<1>3. CASE s = <<>>
  <2>1. All(1, s) \in Seq(Grades) /\ DOMAIN All(1, s) = DOMAIN s
    BY <1>1, AllIs
  <2>2. 1 \notin DOMAIN s
    BY <1>3, Indexed
  <2>3. FirstFew(All(1, s)) \in Seq(Grades) /\ 1 \notin DOMAIN FirstFew(All(1, s))
    BY <2>1, <2>2, FirstFewIs
  <2>4. All(1, s) = <<>> /\ FirstFew(All(1, s)) = <<>>
    BY <2>1, <2>2, <2>3, Indexed
  <2>5. Fit(Verdict(0, <<>>)) /\ Modest(Verdict(0, <<>>)) /\ Verdict(0, <<>>).status = 0
    BY <1>1, OneFinding, Parts
  <2>6. Told(Verdict(0, <<>>))
    BY <2>5 DEF Told
  <2>7. status = 0
    BY <1>3
  <2> QED
    BY <2>4, <2>5, <2>6, <2>7
<1> QED
  BY <1>2, <1>3

\* A bound on the findings of two lists.
LEMMA JoinedUpTo ==
  ASSUME NEW s \in Seq(Grades), NEW t \in Seq(Grades), NEW g,
         \A i \in DOMAIN s : s[i] <= g, \A i \in DOMAIN t : t[i] <= g
  PROVE  s \o t \in Seq(Grades) /\ \A i \in DOMAIN (s \o t) : (s \o t)[i] <= g
<1> DEFINE st == s \o t
<1>1. st \in Seq(Grades) /\ Range(st) = Range(s) \cup Range(t)
  BY RangeOf
<1>2. \A e \in Range(s) \cup Range(t) : e <= g
  BY DEF Range
<1> HIDE DEF st
<1>3. \A i \in DOMAIN st : st[i] <= g
  BY <1>1, <1>2 DEF Range
<1> QED
  BY <1>1, <1>3 DEF st
--------------------------------------------------------------------------
\* The instance of PgVerdict grades as Grading does.
LEMMA PgShares ==
  /\ Pg!Grades = Grades /\ Pg!None = None
  /\ \A S : Pg!Lists(S) = Lists(S)
  /\ \A s : Pg!Descending(s) = Descending(s)
  /\ \A s : Pg!Worst(s) = Worst(s) /\ Pg!FirstFew(s) = FirstFew(s) /\ Pg!Raised(s) = Raised(s)
  /\ \A s : Pg!Checks(s) = Checks(s) /\ Pg!AtLeastWarning(s) = AtLeastWarning(s)
  /\ \A g, s : Pg!All(g, s) = All(g, s)
  /\ \A c, g : Pg!If(c, g) = If(c, g)
  /\ \A k, s : Pg!First(k, s) = First(k, s)
  /\ \A s, f : Pg!Verdict(s, f) = Verdict(s, f)
  /\ \A s, P : Pg!Picked(s, P) = Picked(s, P)
  /\ Pg!Degraded = Degraded
<1>1. Pg!Grades = Grades /\ Pg!None = None
  BY DEF Pg!Grades, Grades, Pg!None, None
<1>2. \A S : Pg!Lists(S) = Lists(S)
  BY DEF Pg!Lists, Lists, Pg!BoundedSeq, BoundedSeq, Pg!SeqOf, SeqOf
<1>3. \A s : Pg!Descending(s) = Descending(s)
  BY DEF Pg!Descending, Descending
<1>4. \A s : Pg!Worst(s) = Worst(s)
  BY DEF Pg!Worst, Worst, Pg!Some, Some
<1>5. \A k, s : Pg!First(k, s) = First(k, s)
  BY DEF Pg!First, First
<1>6. \A s : Pg!FirstFew(s) = FirstFew(s)
  BY <1>5 DEF Pg!FirstFew, FirstFew
<1>7. \A s, P : Pg!Picked(s, P) = Picked(s, P)
  BY DEF Pg!Picked, Picked, Pg!Arranged, Arranged, Pg!Cardinality, Cardinality
<1>8. \A s : Pg!Raised(s) = Raised(s)
  BY <1>7 DEF Pg!Raised, Raised
<1>9. \A s, f : Pg!Verdict(s, f) = Verdict(s, f)
  BY DEF Pg!Verdict, Verdict
<1>10. \A s : Pg!Checks(s) = Checks(s) /\ Pg!AtLeastWarning(s) = AtLeastWarning(s)
  BY <1>4, <1>8, <1>9 DEF Pg!Checks, Checks, Pg!AtLeastWarning, AtLeastWarning
<1>11. \A g, s : Pg!All(g, s) = All(g, s)
  BY DEF Pg!All, All
<1>12. \A c, g : Pg!If(c, g) = If(c, g)
  BY DEF Pg!If, If
<1>13. Pg!Degraded = Degraded
  BY <1>9 DEF Pg!Degraded, Degraded
<1> QED
  BY <1>1, <1>2, <1>3, <1>4, <1>5, <1>6, <1>7, <1>8, <1>9, <1>10, <1>11, <1>12, <1>13

\* The tools of the PostgreSQL server that are exceptions.
LEMMA PgNamed ==
  \A t : /\ <<"postgres", t>> \in OwnScale <=>
               t \in {"replication_slots", "index_usage", "cache_hit_ratio", "temp_file_usage", "xid_wraparound"}
         /\ <<"postgres", t>> \in NotShown <=> t \in {"table_sizes", "index_usage", "replication_slots"}
         /\ <<"postgres", t>> \in TextOnly <=>
               t \in {"database_sizes", "wait_events", "autovacuum_tuning", "table_io_stats", "temp_file_usage",
                      "cache_hit_ratio"}
         /\ <<"postgres", t>> \in OtherOrder <=>
               t \in {"table_bloat", "top_queries", "table_io_stats", "index_usage", "wait_events",
                      "autovacuum_tuning"}
<1>1. \A t : <<"postgres", t>> \in OwnScale <=>
               t \in {"replication_slots", "index_usage", "cache_hit_ratio", "temp_file_usage", "xid_wraparound"}
  BY DEF OwnScale, On
<1>2. \A t : <<"postgres", t>> \in NotShown <=> t \in {"table_sizes", "index_usage", "replication_slots"}
  BY DEF NotShown, On
<1>3. \A t : <<"postgres", t>> \in TextOnly <=>
               t \in {"database_sizes", "wait_events", "autovacuum_tuning", "table_io_stats", "temp_file_usage",
                      "cache_hit_ratio"}
  BY DEF TextOnly, On
<1>4. \A t : <<"postgres", t>> \in OtherOrder <=>
               t \in {"table_bloat", "top_queries", "table_io_stats", "index_usage", "wait_events",
                      "autovacuum_tuning"}
  BY DEF OtherOrder, On
<1> QED
  BY <1>1, <1>2, <1>3, <1>4

\* What the statements with an ORDER BY or a WHERE on the measure return.
LEMMA PgMeasures ==
  ASSUME NEW t \in Pg!Graded, NEW rows \in Pg!Rows(t)
  PROVE  /\ rows \in Seq(Grades)
         /\ t \in Pg!ByMeasure => Descending(rows)
         /\ t \in Pg!Filtered => rows \in Seq({1, 2})
         /\ t = "table_io_stats" => rows \in Seq({0, 1})
<1> DEFINE grades == IF t \in Pg!Filtered THEN {1, 2} ELSE IF t = "table_io_stats" THEN {0, 1} ELSE Grades
<1>1. t \notin Pg!Listings
  BY DEF Pg!Graded, Pg!Listings, Pg!ByMeasure, Pg!ByOther
<1>2. t \notin {"connections", "active_clients"}
  BY <1>1 DEF Pg!Listings
<1>3. t \notin {"index_usage", "replication_slots", "wait_events", "autovacuum_tuning", "temp_file_usage"}
  BY DEF Pg!Graded, Pg!ByMeasure, Pg!ByOther
<1>4. Pg!Rows(t) = Pg!Measures(t)
  BY <1>1, <1>2, <1>3, ZenonT(30) DEF Pg!Rows
<1>5. rows \in Lists(grades) /\ (t \in Pg!ByMeasure => Descending(rows))
  BY <1>4, PgShares DEF Pg!Measures
<1>6. rows \in Seq(grades)
  BY <1>5, ListsAre
<1>7. grades \subseteq Grades
  BY DEF Grades
<1>8. rows \in Seq(Grades)
  BY <1>6, <1>7, SeqMonotonic
<1>9. "table_io_stats" \notin Pg!Filtered
  BY DEF Pg!Filtered
<1> QED
  BY <1>5, <1>6, <1>8, <1>9

\* A tool that has nothing to read says so, whatever LIMIT is.
LEMMA PgDegradedTools ==
  ASSUME NEW t \in Pg!Degrading, NEW rows, NEW list, NEW second
  PROVE  Pg!Judge(t, list, second, None) = Degraded /\ Pg!Judge(t, rows, second, None) = Degraded
<1>1. CASE t \in {"top_queries", "top_queries by mean"}
  BY <1>1, PgShares DEF Pg!Judge, Pg!inspect_top_queries
<1>2. CASE t = "replica_lag"
  BY <1>2, PgShares DEF Pg!Judge, Pg!inspect_replica_lag
<1>3. CASE t = "pg_stat_replication"
  BY <1>3, PgShares DEF Pg!Judge, Pg!inspect_pg_stat_replication
<1> QED
  BY <1>1, <1>2, <1>3 DEF Pg!Degrading

\* The PostgreSQL tools that grade a measure of each row.
LEMMA PgGradedTools ==
  ASSUME NEW t \in Pg!Graded, NEW rows \in Pg!Rows(t), NEW list, Cut(list, rows), t \in Pg!Unlimited => list = rows,
         NEW second \in Pg!Others(t, rows), NEW figure \in Pg!Totals(t, rows),
         ~(t \in Pg!Degrading /\ figure = None)
  PROVE  Sound(<<"postgres", t>>, Pg!Judge(t, list, second, figure), Pg!Judge(t, rows, second, figure))
<1> DEFINE v == Pg!Judge(t, list, second, figure)
           w == Pg!Judge(t, rows, second, figure)
<1>1. /\ rows \in Seq(Grades)
      /\ t \in Pg!ByMeasure => Descending(rows)
      /\ t \in Pg!Filtered => rows \in Seq({1, 2})
      /\ t = "table_io_stats" => rows \in Seq({0, 1})
  BY PgMeasures
<1>2. list \in Seq(Grades) /\ (1 \in DOMAIN rows <=> 1 \in DOMAIN list)
  BY <1>1, CutIs
<1>3. list # <<>> <=> rows # <<>>
  BY <1>1, <1>2, Indexed
<1>4. ASSUME t \in Pg!ByMeasure
      PROVE  Descending(list) /\ Worst(list) = Worst(rows)
  BY <1>1, <1>4, CutKeepsWorst
<1>warned. CASE t \in {"long_transactions", "blocking_chains"}
  <2>1. /\ v = Verdict(Worst(AtLeastWarning(list)), AtLeastWarning(list))
        /\ w = Verdict(Worst(AtLeastWarning(rows)), AtLeastWarning(rows))
    BY <1>warned, PgShares DEF Pg!Judge, Pg!inspect_long_transactions, Pg!inspect_blocking_chains
  <2>2. rows \in Seq({1, 2}) /\ Descending(rows)
    BY <1>1, <1>warned DEF Pg!ByMeasure, Pg!Filtered
  <2> QED
    BY <2>1, <2>2, WarnedTools
<1>bloat. CASE t = "table_bloat"
  <2>1. v = Verdict(Worst(AtLeastWarning(list)), AtLeastWarning(list))
    BY <1>bloat, PgShares DEF Pg!Judge, Pg!inspect_table_bloat
  <2>2. AtLeastWarning(list) \in Seq(Grades)
    BY <1>2, WarnedIs
  <2>3. Fit(v) /\ Modest(v) /\ Told(v)
    BY <2>1, <2>2, GradedRows
  <2> QED
    BY <1>bloat, <2>3, PgNamed DEF Sound
<1>graded. CASE t \in {"top_queries", "top_queries by mean", "replica_lag", "pg_stat_replication"}
  <2>0. figure # Pg!None
    BY <1>graded, PgShares DEF Pg!Degrading
  <2>1. v = Verdict(Worst(list), list) /\ w = Verdict(Worst(rows), rows)
    <3>1. CASE t \in {"top_queries", "top_queries by mean"}
      BY <2>0, <3>1, PgShares DEF Pg!Judge, Pg!inspect_top_queries
    <3>2. CASE t = "replica_lag"
      BY <2>0, <3>2, PgShares DEF Pg!Judge, Pg!inspect_replica_lag
    <3>3. CASE t = "pg_stat_replication"
      BY <2>0, <3>3, PgShares DEF Pg!Judge, Pg!inspect_pg_stat_replication
    <3> QED
      BY <1>graded, <3>1, <3>2, <3>3
  <2>2. t \in Pg!ByMeasure \/ t \in Pg!Unlimited \/ t = "top_queries"
    BY <1>graded DEF Pg!ByMeasure, Pg!Unlimited
  <2>3. v.status = Worst(list) /\ w.status = Worst(rows)
    BY <2>1, Parts
  <2>4. Fit(v) /\ Modest(v) /\ Told(v)
    BY <1>2, <2>1, GradedRows
  <2>5. t # "top_queries" => v.status = w.status
    BY <1>4, <2>2, <2>3
  <2> QED
    BY <2>4, <2>5, PgNamed DEF Sound
<1>current. CASE t = "current_queries"
  <2>1. v = Verdict(Worst(list), FirstFew(list)) /\ w = Verdict(Worst(rows), FirstFew(rows))
    BY <1>current, PgShares DEF Pg!Judge, Pg!inspect_current_queries
  <2>2. t \in Pg!ByMeasure
    BY <1>current DEF Pg!ByMeasure
  <2>3. v.status = w.status
    BY <1>4, <2>1, <2>2, Parts
  <2>4. Fit(v) /\ Modest(v) /\ Told(v)
    BY <1>2, <1>4, <2>1, <2>2, GradedSlice
  <2> QED
    BY <2>3, <2>4, SoundIfAll
<1>index. CASE t = "index_bloat"
  <2>1. t \in Pg!ByMeasure
    BY <1>index DEF Pg!ByMeasure
  <2>2. ASSUME NEW s \in Seq(Grades), Descending(s)
        PROVE  Pg!inspect_index_bloat(s) = Verdict(Worst(s), FirstFew(Raised(s)))
    <3> DEFINE bloated == Raised(s)
    <3>1. Pg!inspect_index_bloat(s) =
            IF bloated = <<>> THEN Verdict(0, <<>>)
            ELSE Verdict(IF bloated[1] = 2 THEN 2 ELSE 1, FirstFew(bloated))
      BY PgShares DEF Pg!inspect_index_bloat
    <3>2. bloated \in Seq(Grades) /\ \A n \in DOMAIN bloated : bloated[n] >= 1
      BY <2>2, RaisedIs
    <3>3. Descending(bloated) /\ Worst(bloated) = Worst(s)
      BY <2>2, RaisedInOrder, WorstOfRaised
    <3> HIDE DEF bloated
    <3>4. /\ 1 \in DOMAIN bloated => Worst(bloated) = bloated[1]
          /\ 1 \notin DOMAIN bloated => Worst(bloated) = 0
          /\ bloated = <<>> <=> 1 \notin DOMAIN bloated
      BY <3>2, <3>3, WorstIsFirst, Indexed
    <3>5. CASE bloated = <<>>
      <4>1. FirstFew(bloated) \in Seq(Grades) /\ 1 \notin DOMAIN FirstFew(bloated)
        BY <3>2, <3>4, <3>5, FirstFewIs
      <4>2. FirstFew(bloated) = <<>>
        BY <4>1, Indexed
      <4> QED
        BY <3>1, <3>3, <3>4, <3>5, <4>2 DEF bloated
    <3>6. CASE bloated # <<>>
      <4>1. bloated[1] \in Grades /\ bloated[1] >= 1
        BY <3>2, <3>4, <3>6, Indexed
      <4>2. (IF bloated[1] = 2 THEN 2 ELSE 1) = Worst(s)
        BY <3>3, <3>4, <3>6, <4>1 DEF Grades
      <4> QED
        BY <3>1, <3>6, <4>2 DEF bloated
    <3> QED
      BY <3>5, <3>6
  <2>3. v = Verdict(Worst(list), FirstFew(Raised(list))) /\ w = Verdict(Worst(rows), FirstFew(Raised(rows)))
    <3>1. v = Pg!inspect_index_bloat(list) /\ w = Pg!inspect_index_bloat(rows)
      BY <1>index DEF Pg!Judge
    <3> HIDE DEF v, w
    <3> QED
      BY <1>1, <1>2, <1>4, <2>1, <2>2, <3>1
  <2>4. Raised(list) \in Seq(Grades) /\ Descending(Raised(list)) /\ Worst(Raised(list)) = Worst(list)
    BY <1>2, <1>4, <2>1, RaisedIs, RaisedInOrder, WorstOfRaised
  <2>5. Fit(v) /\ Modest(v) /\ Told(v)
    BY <2>3, <2>4, GradedSlice
  <2>6. v.status = w.status
    BY <1>4, <2>1, <2>3, Parts
  <2> QED
    BY <2>5, <2>6, SoundIfAll
<1>stale. CASE t = "table_stats_freshness"
  <2> DEFINE status == IF list = <<>> THEN 0 ELSE 1
  <2>1. v = Verdict(status, FirstFew(All(1, list))) /\ w = Verdict(status, FirstFew(All(1, rows)))
    BY <1>3, <1>stale, PgShares DEF Pg!Judge, Pg!inspect_table_stats_freshness
  <2>2. Fit(v) /\ Modest(v) /\ Told(v)
    BY <1>2, <2>1, Presence
  <2>3. v.status = w.status
    BY <2>1, Parts
  <2> QED
    BY <2>2, <2>3, SoundIfAll
<1>xid. CASE t = "xid_wraparound"
  <2> DEFINE aged == Raised(FirstFew(second))
             findings == list \o All(1, aged)
  <2>1. v = Verdict(Worst(list), findings)
    BY <1>xid, PgShares DEF Pg!Judge, Pg!inspect_xid_wraparound
  <2>2. second \in Seq(Grades)
    <3>1. t # "index_usage"
      BY <1>xid
    <3>2. second \in Lists(Grades)
      BY <1>xid, <3>1, PgShares DEF Pg!Others
    <3> QED
      BY <3>2, ListsAre
  <2>3. aged \in Seq(Grades)
    BY <2>2, FirstFewIs, RaisedIs
  <2> HIDE DEF aged
  <2>4. All(1, aged) \in Seq(Grades)
    <3>1. 1 \in Grades
      BY DEF Grades
    <3> QED
      BY <2>3, <3>1, AllIs
  <2>5. findings \in Seq(Grades) /\ \A i \in DOMAIN list : i \in DOMAIN findings /\ findings[i] = list[i]
    BY <1>2, <2>4, JoinedIs
  <2> HIDE DEF findings
  <2>6. v.status = Worst(list) /\ v.findings = findings
    BY <2>1, Parts
  <2>7. Worst(list) \in Grades /\ (Worst(list) > 0 => \E i \in DOMAIN list : list[i] = Worst(list))
    BY <1>2, WorstIs
  <2>8. Worst(list) >= Worst(list)
    BY <2>7 DEF Grades
  <2>9. list = rows
    BY <1>xid DEF Pg!Unlimited
  <2> HIDE DEF v
  <2>10. Fit(v) /\ Told(v)
    BY <2>5, <2>6, <2>7, <2>8 DEF Fit, Told
  <2> QED
    BY <1>xid, <2>9, <2>10, PgNamed DEF Sound, v
<1>hits. CASE t = "cache_hit_ratio"
  <2> DEFINE global == IF figure \in {1, 2} THEN <<figure>> ELSE <<>>
             few == FirstFew(list)
             low == Picked(few, {i \in DOMAIN few : list[i] = 2})
             status == IF figure = None THEN 1 ELSE figure
  <2>1. v = Verdict(status, global \o All(1, low)) /\ w.status = status
    <3>1. v = Verdict(status, global \o All(1, low))
      BY <1>hits, PgShares DEF Pg!Judge, Pg!inspect_cache_hit_ratio
    <3>2. \E f : w = Verdict(status, f)
      BY <1>hits, PgShares DEF Pg!Judge, Pg!inspect_cache_hit_ratio
    <3> HIDE DEF w, status
    <3> QED
      BY <3>1, <3>2, Parts
  <2>2. figure \in Grades \cup {None}
    BY <1>hits, PgShares DEF Pg!Totals, Pg!Degrading
  <2>3. few \in Seq(Grades)
    BY <1>2, FirstFewIs
  <2> HIDE DEF few
  <2>4. low \in Seq(Grades)
    <3>1. {i \in DOMAIN few : list[i] = 2} \in SUBSET (1..Len(few))
      BY <2>3, Indexed
    <3> QED
      BY <2>3, <3>1, PickedIs
  <2> HIDE DEF low
  <2>5. All(1, low) \in Seq(Grades)
    <3>1. 1 \in Grades
      BY DEF Grades
    <3> QED
      BY <2>4, <3>1, AllIs
  <2>6. global \in Seq(Grades)
    <3>1. figure \in {1, 2} => <<figure>> \in Seq(Grades)
      BY ShortLists DEF Grades
    <3> QED
      BY <3>1, ShortLists
  <2>7. status \in Grades
    BY <2>2 DEF Grades
  <2>11. status = 2 => 1 \in DOMAIN global /\ global[1] = 2
    <3>1. status = 2 => figure = 2
      OBVIOUS
    <3>2. 1 \in DOMAIN <<2>> /\ <<2>>[1] = 2
      OBVIOUS
    <3> QED
      BY <3>1, <3>2
  <2> HIDE DEF global, status
  <2>8. /\ global \o All(1, low) \in Seq(Grades)
        /\ \A i \in DOMAIN global : i \in DOMAIN (global \o All(1, low)) /\ (global \o All(1, low))[i] = global[i]
    BY <2>5, <2>6, JoinedIs
  <2> HIDE DEF v, w
  <2>9. v.status = status /\ v.findings = global \o All(1, low)
    BY <2>1, Parts
  <2>10. Fit(v)
    BY <2>7, <2>8, <2>9 DEF Fit
  <2>12. v.status = 1 \/ Told(v)
    <3> DEFINE findings == global \o All(1, low)
    <3>1. status = 2 => 1 \in DOMAIN findings /\ findings[1] = 2
      BY <2>8, <2>11
    <3>2. v.findings = findings /\ v.status = status
      BY <2>9
    <3> HIDE DEF findings
    <3>3. status = 2 => Told(v)
      BY <3>1, <3>2 DEF Told
    <3>4. status = 0 => Told(v)
      BY <3>2 DEF Told
    <3> QED
      BY <2>7, <3>2, <3>3, <3>4 DEF Grades
  <2> QED
    BY <1>hits, <2>1, <2>9, <2>10, <2>12, PgNamed DEF Sound, v, w
<1>io. CASE t = "table_io_stats"
  <2>1. v = Verdict(IF Some(1, list) THEN 1 ELSE 0, FirstFew(list))
    BY <1>io, PgShares DEF Pg!Judge, Pg!inspect_table_io_stats, Pg!Some, Some
  <2>2. list \in Seq({0, 1})
    BY <1>1, <1>io, CutIs
  <2>3. /\ FirstFew(list) \in Seq(Grades)
        /\ \A i \in DOMAIN FirstFew(list) : i \in DOMAIN list /\ FirstFew(list)[i] = list[i]
    BY <1>2, FirstFewIs
  <2>4. /\ v.status = (IF Some(1, list) THEN 1 ELSE 0)
        /\ v.findings = FirstFew(list)
    BY <2>1, Parts
  <2> HIDE DEF v
  <2>5. v.status \in Grades /\ \A i \in DOMAIN list : list[i] <= v.status
    <3>1. \A i \in DOMAIN list : list[i] \in {0, 1}
      BY <2>2, Indexed
    <3> QED
      BY <2>4, <3>1 DEF Some, Grades
  <2>6. Fit(v) /\ Modest(v)
    BY <2>3, <2>4, <2>5 DEF Fit, Modest
  <2>7. v.status = 1 \/ Told(v)
    BY <2>4 DEF Told
  <2> QED
    BY <1>io, <2>6, <2>7, PgNamed DEF Sound, v
<1> QED
  BY <1>warned, <1>bloat, <1>graded, <1>current, <1>index, <1>stale, <1>xid, <1>hits, <1>io
  DEF Pg!Graded, Pg!ByMeasure, Pg!ByOther

\* The PostgreSQL tools that list rows, and grade one number or none.
LEMMA PgListings ==
  ASSUME NEW t \in Pg!Listings, NEW rows \in Pg!Rows(t), NEW list, Cut(list, rows), t \in Pg!Unlimited => list = rows,
         NEW second, NEW figure \in Pg!Totals(t, rows)
  PROVE  Sound(<<"postgres", t>>, Pg!Judge(t, list, second, figure), Pg!Judge(t, rows, second, figure))
<1> DEFINE v == Pg!Judge(t, list, second, figure)
           w == Pg!Judge(t, rows, second, figure)
<1>1. rows \in Seq({0}) /\ (t \in {"connections", "active_clients"} => rows # <<>>)
  <2>1. t \notin Pg!Graded
    BY DEF Pg!Listings, Pg!Graded, Pg!ByMeasure, Pg!ByOther
  <2>2. CASE t \in {"connections", "active_clients"}
    <3>1. t \notin Pg!Listings \ {"connections", "active_clients"}
      BY <2>2
    <3>2. t \notin {"index_usage", "replication_slots", "wait_events", "autovacuum_tuning", "temp_file_usage"}
      BY <2>2
    <3>3. Pg!Rows(t) = Pg!Lists({0}) \ {<<>>}
      BY <2>1, <2>2, <3>1, <3>2, ZenonT(30) DEF Pg!Rows
    <3>4. rows \in Lists({0}) /\ rows # <<>>
      BY <3>3, PgShares
    <3> QED
      BY <3>4, ListsAre
  <2>3. CASE t \notin {"connections", "active_clients"}
    <3>1. t \in Pg!Listings \ {"connections", "active_clients"}
      BY <2>3
    <3>2. t \notin {"index_usage", "replication_slots", "wait_events", "autovacuum_tuning", "temp_file_usage"}
      BY DEF Pg!Listings
    <3>3. Pg!Rows(t) = Pg!Lists({0})
      BY <2>1, <2>3, <3>1, <3>2, ZenonT(30) DEF Pg!Rows
    <3>4. rows \in Lists({0})
      BY <3>3, PgShares
    <3> QED
      BY <2>3, <3>4, ListsAre
  <2> QED
    BY <2>2, <2>3
<1>2. list \in Seq({0}) /\ (1 \in DOMAIN rows <=> 1 \in DOMAIN list)
  BY <1>1, CutIs
<1>3. 0 \in Grades /\ 0 <= 0 /\ ~(0 > 0)
  BY DEF Grades
<1>settings. CASE t = "settings"
  <2> DEFINE status == IF list = <<>> THEN 0 ELSE 1
  <2>1. v = Verdict(status, All(1, list))
    BY <1>settings, PgShares DEF Pg!Judge, Pg!inspect_settings
  <2>2. list = rows
    BY <1>settings DEF Pg!Unlimited
  <2>3. Fit(v) /\ Modest(v) /\ Told(v)
    BY <1>2, <2>1, Presence
  <2> QED
    BY <2>2, <2>3, SoundIfAll
<1>connections. CASE t = "connections"
  <2>1. v = Verdict(figure, FirstFew(All(figure, list))) /\ w = Verdict(figure, FirstFew(All(figure, rows)))
    BY <1>connections, PgShares DEF Pg!Judge, Pg!inspect_connections
  <2>2. figure \in Grades /\ figure <= figure
    <3>1. figure \in Grades
      BY <1>connections, PgShares DEF Pg!Totals, Pg!Degrading
    <3> QED
      BY <3>1 DEF Grades
  <2>3. 1 \in DOMAIN list
    BY <1>1, <1>2, <1>connections, Indexed
  <2>4. Fit(v) /\ Modest(v) /\ Told(v) /\ v.status = w.status
    BY <1>2, <2>1, <2>2, <2>3, Listing, Parts
  <2> QED
    BY <2>4, SoundIfAll
<1>sizes. CASE t = "table_sizes"
  <2>1. v = Verdict(figure, FirstFew(All(0, list))) /\ w = Verdict(figure, FirstFew(All(0, rows)))
    BY <1>sizes, PgShares DEF Pg!Judge, Pg!inspect_table_sizes
  <2>2. figure \in Grades /\ 0 <= figure
    <3>1. figure \in Grades
      BY <1>sizes, PgShares DEF Pg!Totals, Pg!Degrading
    <3> QED
      BY <3>1 DEF Grades
  <2>3. Fit(v) /\ Modest(v) /\ v.status = w.status
    BY <1>2, <1>3, <2>1, <2>2, Listing, Parts
  <2> QED
    BY <1>sizes, <2>3, PgNamed DEF Sound
<1>databases. CASE t = "database_sizes"
  <2> DEFINE status == IF figure >= 1 THEN 1 ELSE 0
  <2>1. v = Verdict(status, FirstFew(All(0, list))) /\ w = Verdict(status, FirstFew(All(0, rows)))
    BY <1>databases, PgShares DEF Pg!Judge, Pg!inspect_database_sizes
  <2>2. status \in {0, 1} /\ status \in Grades /\ 0 <= status
    BY DEF Grades
  <2> HIDE DEF status
  <2>3. Fit(v) /\ Modest(v) /\ v.status = w.status
    BY <1>2, <1>3, <2>1, <2>2, Listing, Parts
  <2>4. v.status = 1 \/ Told(v)
    <3>1. v.status \in {0, 1}
      BY <2>1, <2>2, Parts
    <3> HIDE DEF v
    <3> QED
      BY <3>1 DEF Told
  <2> QED
    BY <1>databases, <2>3, <2>4, PgNamed DEF Sound
<1>clients. CASE t \in {"active_clients", "schema_objects"}
  <2>1. v = Verdict(0, FirstFew(All(0, list))) /\ w = Verdict(0, FirstFew(All(0, rows)))
    BY <1>clients, PgShares DEF Pg!Judge, Pg!inspect_active_clients, Pg!inspect_schema_objects
  <2>2. Fit(v) /\ Modest(v) /\ Told(v) /\ v.status = w.status
    BY <1>2, <1>3, <2>1, Listing, Parts
  <2> QED
    BY <2>2, SoundIfAll
<1> QED
  BY <1>settings, <1>connections, <1>sizes, <1>databases, <1>clients DEF Pg!Listings

\* The PostgreSQL tools with rows of their own.
LEMMA PgOtherTools ==
  ASSUME NEW t \in Pg!Tools, t \notin Pg!Graded, t \notin Pg!Listings,
         NEW rows \in Pg!Rows(t), NEW list, Cut(list, rows), t \in Pg!Unlimited => list = rows,
         NEW second \in Pg!Others(t, rows), NEW figure \in Pg!Totals(t, rows)
  PROVE  Sound(<<"postgres", t>>, Pg!Judge(t, list, second, figure), Pg!Judge(t, rows, second, figure))
<1> DEFINE v == Pg!Judge(t, list, second, figure)
           w == Pg!Judge(t, rows, second, figure)
<1>1. t \notin Pg!Listings \ {"connections", "active_clients"} /\ t \notin {"connections", "active_clients"}
  BY DEF Pg!Listings
<1>2. 0 \in Grades /\ 1 \in Grades
  BY DEF Grades
<1>usage. CASE t = "index_usage"
  <2> DEFINE Sizes == [pct : Grades, large : BOOLEAN]
             severity(s) == IF s.large /\ s.pct = 2 THEN 2 ELSE 1
             few == FirstFew(list)
             unused == All(1, FirstFew(second))
             scanned == [i \in DOMAIN few |-> severity(list[i])]
  <2>1. v.status \in {0, 1, 2} /\ v.findings = unused \o scanned
    <3>1. \E g \in {0, 1, 2} : v = Verdict(g, unused \o scanned)
      BY <1>usage, PgShares DEF Pg!Judge, Pg!inspect_index_usage
    <3> HIDE DEF v, w, unused, scanned, severity, Sizes, few
    <3>2. PICK g \in {0, 1, 2} : v = Verdict(g, unused \o scanned)
      BY <3>1
    <3>3. v.status = g /\ v.findings = unused \o scanned
      BY <3>2, Parts
    <3> QED
      BY <3>3
  <2>2. Pg!Rows(t) \subseteq Lists(Sizes)
    BY <1>1, <1>usage, PgShares, ZenonT(30) DEF Pg!Rows
  <2>3. list \in Seq(Sizes)
    BY <2>2, ListsAre, CutIs
  <2>4. few \in Seq(Sizes)
    BY <2>3, FirstFewIs
  <2> HIDE DEF few
  <2>5. scanned \in Seq(Grades)
    <3>1. scanned \in [DOMAIN few -> Grades]
      BY DEF Grades
    <3> QED
      BY <2>4, <3>1, MappedIs
  <2>6. second \in Seq({0})
    BY <1>usage, PgShares, ListsAre DEF Pg!Others
  <2>7. unused \in Seq(Grades)
    BY <1>2, <2>6, FirstFewIs, AllIs
  <2> HIDE DEF unused, scanned
  <2>8. unused \o scanned \in Seq(Grades)
    BY <2>5, <2>7, JoinedIs
  <2>9. Fit(v)
    BY <2>1, <2>8 DEF Fit, Grades
  <2> HIDE DEF v
  <2> QED
    BY <1>usage, <2>9, PgNamed DEF Sound, v
<1>slots. CASE t = "replication_slots"
  <2> DEFINE severity(s) == IF s.active THEN 0 ELSE IF s.mb >= 1 THEN 2 ELSE 1
             findings == [i \in DOMAIN list |-> severity(list[i])]
             Slots == [active : BOOLEAN, mb : {0, 1}]
  <2>1. v.status \in {0, 1, 2} /\ v.findings = findings
    <3>1. \E g \in {0, 1, 2} : v = Verdict(g, findings)
      BY <1>slots, PgShares DEF Pg!Judge, Pg!inspect_replication_slots
    <3> HIDE DEF v, w, findings, severity, Slots
    <3>2. PICK g \in {0, 1, 2} : v = Verdict(g, findings)
      BY <3>1
    <3>3. v.status = g /\ v.findings = findings
      BY <3>2, Parts
    <3> QED
      BY <3>3
  <2>2. Pg!Rows(t) \subseteq Lists(Slots)
    BY <1>1, <1>slots, PgShares, ZenonT(30) DEF Pg!Rows
  <2>3. list \in Seq(Slots)
    BY <2>2, ListsAre, CutIs
  <2>4. findings \in Seq(Grades)
    <3>1. findings \in [DOMAIN list -> Grades]
      BY DEF Grades
    <3> QED
      BY <2>3, <3>1, MappedIs
  <2> HIDE DEF findings
  <2>5. Fit(v) /\ list = rows
    BY <1>slots, <2>1, <2>4 DEF Fit, Grades, Pg!Unlimited
  <2> HIDE DEF v, w
  <2> QED
    BY <1>slots, <2>5, PgNamed DEF Sound, v, w
<1>waits. CASE t = "wait_events"
  <2> DEFINE status == IF list = <<>> THEN 0 ELSE IF Pg!TopType(list) \in {"Lock", "IO"} THEN 1 ELSE 0
             few == FirstFew(list)
  <2>1. v = Verdict(status, All(0, few))
    BY <1>waits, PgShares DEF Pg!Judge, Pg!inspect_wait_events
  <2>2. PICK S : Pg!Rows(t) \subseteq Lists(S)
    BY <1>1, <1>waits, PgShares, ZenonT(30) DEF Pg!Rows
  <2>3. list \in Seq(S)
    BY <2>2, ListsAre, CutIs
  <2>4. few \in Seq(S)
    BY <2>3, FirstFewIs
  <2>5. status \in {0, 1} /\ status \in Grades /\ 0 <= status
    BY DEF Grades
  <2> HIDE DEF v, few, status
  <2>6. Fit(v) /\ Modest(v)
    BY <1>2, <2>1, <2>4, <2>5, Listing
  <2>7. v.status \in {0, 1}
    BY <2>1, <2>5, Parts
  <2>8. v.status = 1 \/ Told(v)
    BY <2>7 DEF Told
  <2> QED
    BY <1>waits, <2>6, <2>8, PgNamed DEF Sound, v
<1>vacuum. CASE t = "autovacuum_tuning"
  <2> DEFINE Tables == [lagging : BOOLEAN, large : BOOLEAN]
             late == {i \in DOMAIN list : list[i].lagging}
             huge == {i \in DOMAIN list : list[i].large /\ ~figure.tuned}
             lagging == Picked(list, late)
             big == Picked(list, huge)
             off == IF figure.off THEN <<2>> ELSE <<>>
             status == IF figure.off THEN 2 ELSE IF lagging # <<>> \/ big # <<>> THEN 1 ELSE 0
             findings == (off \o All(1, FirstFew(lagging))) \o All(0, FirstFew(big))
  <2>1. v = Verdict(status, findings)
    BY <1>vacuum, PgShares DEF Pg!Judge, Pg!inspect_autovacuum_tuning
  <2>2. Pg!Rows(t) = Lists(Tables)
    BY <1>1, <1>vacuum, PgShares, ZenonT(30) DEF Pg!Rows
  <2>3. list \in Seq(Tables)
    BY <2>2, ListsAre, CutIs
  <2>4. late \in SUBSET (1..Len(list)) /\ huge \in SUBSET (1..Len(list))
    BY <2>3, Indexed
  <2> HIDE DEF late, huge, Tables
  <2>5. lagging \in Seq(Tables) /\ big \in Seq(Tables)
    BY <2>3, <2>4, PickedIs
  <2> HIDE DEF lagging, big
  <2>6. status \in {0, 1, 2} /\ (lagging # <<>> => status >= 1) /\ (figure.off <=> status = 2)
    OBVIOUS
  <2>7. /\ FirstFew(lagging) \in Seq(Tables)
        /\ 1 \in DOMAIN lagging <=> 1 \in DOMAIN FirstFew(lagging)
    BY <2>5, FirstFewIs
  <2>8. FirstFew(big) \in Seq(Tables)
    BY <2>5, FirstFewIs
  <2>16. figure.off => 1 \in DOMAIN off /\ off[1] = 2
    <3>1. 1 \in DOMAIN <<2>> /\ <<2>>[1] = 2
      OBVIOUS
    <3> QED
      BY <3>1
  <2> HIDE DEF status
  <2>9. off \in Seq(Grades) /\ \A i \in DOMAIN off : off[i] <= status
    <3>1. CASE figure.off
      <4>1. <<2>> \in Seq(Grades) /\ \A i \in DOMAIN <<2>> : <<2>>[i] <= 2
        BY DEF Grades
      <4> QED
        BY <2>6, <3>1, <4>1
    <3>2. CASE ~figure.off
      <4>1. <<>> \in Seq(Grades) /\ \A i \in DOMAIN <<>> : <<>>[i] <= status
        BY ShortLists
      <4> QED
        BY <3>2, <4>1
    <3> QED
      BY <3>1, <3>2
  <2>10. /\ All(1, FirstFew(lagging)) \in Seq(Grades)
         /\ \A i \in DOMAIN All(1, FirstFew(lagging)) : All(1, FirstFew(lagging))[i] <= status
    <3>1. /\ All(1, FirstFew(lagging)) \in Seq(Grades)
          /\ DOMAIN All(1, FirstFew(lagging)) = DOMAIN FirstFew(lagging)
          /\ \A i \in DOMAIN FirstFew(lagging) : All(1, FirstFew(lagging))[i] = 1
      BY <1>2, <2>7, AllIs
    <3>2. DOMAIN FirstFew(lagging) # {} => lagging # <<>>
      BY <2>5, <2>7, Indexed
    <3> QED
      BY <2>6, <3>1, <3>2
  <2>11. /\ All(0, FirstFew(big)) \in Seq(Grades)
         /\ \A i \in DOMAIN All(0, FirstFew(big)) : All(0, FirstFew(big))[i] <= status
    <3>1. /\ All(0, FirstFew(big)) \in Seq(Grades)
          /\ DOMAIN All(0, FirstFew(big)) = DOMAIN FirstFew(big)
          /\ \A i \in DOMAIN FirstFew(big) : All(0, FirstFew(big))[i] = 0
      BY <1>2, <2>8, AllIs
    <3> QED
      BY <2>6, <3>1
  <2> HIDE DEF off
  <2>15. figure.off => 1 \in DOMAIN findings /\ findings[1] = 2
    <3> DEFINE late1 == All(1, FirstFew(lagging))
               big0 == All(0, FirstFew(big))
    <3>1. late1 \in Seq(Grades) /\ big0 \in Seq(Grades) /\ off \in Seq(Grades)
      BY <2>9, <2>10, <2>11
    <3>2. findings = (off \o late1) \o big0
      OBVIOUS
    <3> HIDE DEF late1, big0, findings
    <3>3. /\ off \o late1 \in Seq(Grades)
          /\ \A i \in DOMAIN off : i \in DOMAIN (off \o late1) /\ (off \o late1)[i] = off[i]
      BY <3>1, JoinedIs
    <3> DEFINE grave == off \o late1
    <3>4. grave \in Seq(Grades)
      BY <3>3
    <3>5. \A i \in DOMAIN off : i \in DOMAIN grave /\ grave[i] = off[i]
      BY <3>3
    <3>6. findings = grave \o big0
      BY <3>2
    <3> HIDE DEF grave
    <3>7. \A i \in DOMAIN grave : i \in DOMAIN (grave \o big0) /\ (grave \o big0)[i] = grave[i]
      BY <3>1, <3>4, JoinedIs
    <3> QED
      BY <2>16, <3>5, <3>6, <3>7
  <2>12. findings \in Seq(Grades) /\ \A i \in DOMAIN findings : findings[i] <= status
    <3>1. /\ off \o All(1, FirstFew(lagging)) \in Seq(Grades)
          /\ \A i \in DOMAIN (off \o All(1, FirstFew(lagging))) : (off \o All(1, FirstFew(lagging)))[i] <= status
      BY <2>9, <2>10, JoinedUpTo
    <3> QED
      BY <2>11, <3>1, JoinedUpTo
  <2> HIDE DEF findings
  <2>13. v.status = status /\ v.findings = findings
    BY <2>1, Parts
  <2> HIDE DEF v
  <2>14. Fit(v) /\ Modest(v)
    BY <2>6, <2>12, <2>13 DEF Fit, Modest, Grades
  <2>17. v.status = 1 \/ Told(v)
    BY <2>6, <2>13, <2>15 DEF Told
  <2> QED
    BY <1>vacuum, <2>14, <2>17, PgNamed DEF Sound, v
<1>files. CASE t = "temp_file_usage"
  <2> DEFINE grades == [i \in DOMAIN list |-> IF list[i] >= 2 THEN 1 ELSE 0]
  <2>1. v.status \in {0, 1} /\ v.findings = FirstFew(grades)
    <3>1. \E g \in {0, 1} : v = Verdict(g, FirstFew(grades))
      BY <1>files, PgShares DEF Pg!Judge, Pg!inspect_temp_file_usage
    <3> HIDE DEF v, grades
    <3> QED
      BY <3>1, Parts
  <2>2. Pg!Rows(t) \subseteq Lists({0, 1, 2, 10, 20})
    BY <1>1, <1>files, PgShares, ZenonT(30) DEF Pg!Rows
  <2>3. list \in Seq({0, 1, 2, 10, 20})
    BY <2>2, ListsAre, CutIs
  <2>4. grades \in Seq(Grades)
    <3>1. grades \in [DOMAIN list -> Grades]
      BY DEF Grades
    <3> QED
      BY <2>3, <3>1, MappedIs
  <2> HIDE DEF grades
  <2>5. FirstFew(grades) \in Seq(Grades)
    BY <2>4, FirstFewIs
  <2>6. Fit(v) /\ list = rows
    BY <1>files, <2>1, <2>5 DEF Fit, Grades, Pg!Unlimited
  <2> HIDE DEF v, w
  <2>7. v.status = 1 \/ Told(v)
    BY <2>1 DEF Told
  <2> QED
    BY <1>files, <2>6, <2>7, PgNamed DEF Sound, v, w
<1>settled. CASE t \in {"extensions", "checkpoint_stats"}
  <2>1. list = rows
    BY <1>settled DEF Pg!Unlimited
  <2>2. v = Verdict(0, <<>>) \/ v = Verdict(1, <<1>>)
    <3>1. CASE t = "extensions"
      <4>1. v = LET missing == IF figure.preloaded /\ figure.created THEN <<>> ELSE <<1>>
                IN  Verdict(IF missing = <<>> THEN 0 ELSE 1, missing)
        BY <3>1, PgShares DEF Pg!Judge, Pg!inspect_extensions
      <4>2. <<1>> # <<>>
        OBVIOUS
      <4> QED
        BY <4>1, <4>2
    <3>2. CASE t = "checkpoint_stats"
      <4>1. v = Verdict(figure, IF figure = 1 THEN <<1>> ELSE <<>>)
        BY <3>2, PgShares DEF Pg!Judge, Pg!inspect_checkpoint_stats
      <4>2. figure \in {0, 1}
        BY <3>2 DEF Pg!Totals, Pg!Degrading
      <4> QED
        BY <4>1, <4>2
    <3> QED
      BY <1>settled, <3>1, <3>2
  <2> HIDE DEF v
  <2>3. Told(Verdict(0, <<>>))
    BY Parts DEF Told
  <2>4. Fit(v) /\ Modest(v) /\ Told(v)
    BY <1>2, <2>2, <2>3, OneFinding
  <2> QED
    BY <2>1, <2>4, SoundIfAll DEF v
<1> QED
  BY <1>usage, <1>slots, <1>waits, <1>vacuum, <1>files, <1>settled DEF Pg!Tools
--------------------------------------------------------------------------
\* What the calls of each server are made of.
LEMMA PerServer ==
  \A t, list, second, figure :
    /\ RowsOf(<<"postgres", t>>) = Pg!Rows(t) /\ RowsOf(<<"mysql", t>>) = My!Rows(t)
    /\ RowsOf(<<"redis", t>>) = Redis!Rows(t)
    /\ Others(<<"postgres", t>>, list) = Pg!Others(t, list)
    /\ Totals(<<"postgres", t>>, list) = Pg!Totals(t, list)
    /\ Totals(<<"mysql", t>>, list) = My!Totals(t, list)
    /\ Totals(<<"redis", t>>, list) = Redis!Totals(t, list)
    /\ Judge(<<"postgres", t>>, list, second, figure) = Pg!Judge(t, list, second, figure)
    /\ Judge(<<"mysql", t>>, list, second, figure) = My!Judge(t, list, figure)
    /\ Judge(<<"redis", t>>, list, second, figure) = Redis!Judge(t, list, figure)
    /\ <<"postgres", t>> \in Unlimited <=> t \in Pg!Unlimited
    /\ <<"mysql", t>> \in Unlimited <=> t \in My!Unlimited
    /\ <<"redis", t>> \in Unlimited <=> t \in Redis!Unlimited
<1> TAKE t, list, second, figure
<1>1. /\ RowsOf(<<"postgres", t>>) = Pg!Rows(t) /\ RowsOf(<<"mysql", t>>) = My!Rows(t)
      /\ RowsOf(<<"redis", t>>) = Redis!Rows(t)
  BY DEF RowsOf
<1>2. /\ Others(<<"postgres", t>>, list) = Pg!Others(t, list)
      /\ Totals(<<"postgres", t>>, list) = Pg!Totals(t, list)
      /\ Totals(<<"mysql", t>>, list) = My!Totals(t, list)
      /\ Totals(<<"redis", t>>, list) = Redis!Totals(t, list)
  BY DEF Others, Totals
<1>3. /\ Judge(<<"postgres", t>>, list, second, figure) = Pg!Judge(t, list, second, figure)
      /\ Judge(<<"mysql", t>>, list, second, figure) = My!Judge(t, list, figure)
      /\ Judge(<<"redis", t>>, list, second, figure) = Redis!Judge(t, list, figure)
  BY DEF Judge
<1>4. /\ <<"postgres", t>> \in Unlimited <=> t \in Pg!Unlimited
      /\ <<"mysql", t>> \in Unlimited <=> t \in My!Unlimited
      /\ <<"redis", t>> \in Unlimited <=> t \in Redis!Unlimited
  BY DEF Unlimited, On
<1> QED
  BY <1>1, <1>2, <1>3, <1>4

\* The answer of a tool that had nothing to read.
Refused(t, v, w, figure) == t \in Degrading /\ figure = None /\ v = Degraded /\ w = Degraded

\* Every tool of every server reports soundly, whatever the rows and LIMIT, or
\* says that it had nothing to read.
LEMMA Judged ==
  ASSUME NEW t \in Tools, NEW rows \in RowsOf(t), NEW list, Cut(list, rows), t \in Unlimited => list = rows,
         NEW second \in Others(t, rows), NEW figure \in Totals(t, rows)
  PROVE  \/ Sound(t, Judge(t, list, second, figure), Judge(t, rows, second, figure))
         \/ Refused(t, Judge(t, list, second, figure), Judge(t, rows, second, figure), figure)
<1>1. \/ \E n \in Pg!Tools : t = <<"postgres", n>>
      \/ \E n \in My!Tools : t = <<"mysql", n>>
      \/ \E n \in Redis!Tools : t = <<"redis", n>>
  BY DEF Tools, On
<1>postgres. ASSUME NEW n \in Pg!Tools, t = <<"postgres", n>>
             PROVE  \/ Sound(t, Judge(t, list, second, figure), Judge(t, rows, second, figure))
                    \/ Refused(t, Judge(t, list, second, figure), Judge(t, rows, second, figure), figure)
  <2>1. /\ rows \in Pg!Rows(n) /\ second \in Pg!Others(n, rows) /\ figure \in Pg!Totals(n, rows)
        /\ n \in Pg!Unlimited => list = rows
        /\ Judge(t, list, second, figure) = Pg!Judge(n, list, second, figure)
        /\ Judge(t, rows, second, figure) = Pg!Judge(n, rows, second, figure)
    BY <1>postgres, PerServer
  <2>2. CASE n \in Pg!Graded /\ ~(n \in Pg!Degrading /\ figure = None)
    BY <1>postgres, <2>1, <2>2, PgGradedTools
  <2>5. CASE n \in Pg!Degrading /\ figure = None
    <3>1. /\ Pg!Judge(n, list, second, None) = Degraded
          /\ Pg!Judge(n, rows, second, None) = Degraded
      BY <2>5, PgDegradedTools
    <3>2. t \in Degrading
      BY <1>postgres, <2>5 DEF Degrading, On
    <3> QED
      BY <2>1, <2>5, <3>1, <3>2 DEF Refused
  <2>3. CASE n \in Pg!Listings
    BY <1>postgres, <2>1, <2>3, PgListings
  <2>4. CASE n \notin Pg!Graded /\ n \notin Pg!Listings
    BY <1>postgres, <2>1, <2>4, PgOtherTools
  <2> QED
    BY <2>2, <2>3, <2>4, <2>5
<1>mysql. ASSUME NEW n \in My!Tools, t = <<"mysql", n>>
          PROVE  \/ Sound(t, Judge(t, list, second, figure), Judge(t, rows, second, figure))
                 \/ Refused(t, Judge(t, list, second, figure), Judge(t, rows, second, figure), figure)
  <2>1. /\ rows \in My!Rows(n) /\ figure \in My!Totals(n, rows)
        /\ n \in My!Unlimited => list = rows
        /\ Judge(t, list, second, figure) = My!Judge(n, list, figure)
        /\ Judge(t, rows, second, figure) = My!Judge(n, rows, figure)
    BY <1>mysql, PerServer
  <2>2. CASE n \in My!Unlimited
    BY <1>mysql, <2>1, <2>2, MyTotalTools
  <2>3. CASE n \in My!Degrading /\ figure = None
    <3>1. My!Judge(n, list, None) = Degraded /\ My!Judge(n, rows, None) = Degraded
      BY <2>3, MyDegradedTools
    <3>2. t \in Degrading
      BY <1>mysql, <2>3 DEF Degrading, On
    <3> QED
      BY <2>1, <2>3, <3>1, <3>2 DEF Refused
  <2>4. CASE n \notin My!Unlimited /\ ~(n \in My!Degrading /\ figure = None)
    BY <1>mysql, <2>1, <2>4, MyListTools
  <2> QED
    BY <2>2, <2>3, <2>4
<1>redis. ASSUME NEW n \in Redis!Tools, t = <<"redis", n>>
          PROVE  Sound(t, Judge(t, list, second, figure), Judge(t, rows, second, figure))
  <2>1. /\ rows \in Redis!Rows(n) /\ figure \in Redis!Totals(n, rows)
        /\ n \in Redis!Unlimited => list = rows
        /\ Judge(t, list, second, figure) = Redis!Judge(n, list, figure)
        /\ Judge(t, rows, second, figure) = Redis!Judge(n, rows, figure)
    BY <1>redis, PerServer
  <2>2. CASE n \in Redis!Unlimited
    BY <1>redis, <2>1, <2>2, RedisTotalTools
  <2>3. CASE n \notin Redis!Unlimited
    <3>1. n \in {"slow_queries", "big_keys", "hot_keys"}
      BY <2>3 DEF Redis!Tools, Redis!Unlimited
    <3> QED
      BY <1>redis, <2>1, <3>1, RedisListTools
  <2> QED
    BY <2>2, <2>3
<1> QED
  BY <1>1, <1>postgres, <1>mysql, <1>redis
--------------------------------------------------------------------------
\* The inductive invariant of a call: its LIMIT is positive, what was fetched
\* is a cut of what the server had, and the result is the verdict on it.
CallInv ==
  /\ phase \in {"idle", "called", "fetched", "done"}
  /\ asked \in Tools
  /\ limit \in 1..QueryLimit
  /\ phase \in {"fetched", "done"} =>
        /\ stored \in RowsOf(asked) /\ other \in Others(asked, stored) /\ total \in Totals(asked, stored)
        /\ fetched = IF asked \in Unlimited THEN stored ELSE First(limit, stored)
  /\ result = IF phase = "done" THEN Judge(asked, fetched, other, total) ELSE Nothing

\* The variables of a call at rest have their types.
LEMMA RestingIsATool == Resting \in Tools
BY DEF Resting, Tools, On, Redis!Tools

\* At rest, nothing is reported.
LEMMA AtRest ==
  ASSUME phase' = "idle", asked' = Resting, limit' = QueryLimit, result' = Nothing
  PROVE  CallInv'
BY RestingIsATool, QueryLimitAssumption DEF CallInv

\* No call is made at first.
LEMMA IdleInv == Idle => CallInv
BY RestingIsATool, QueryLimitAssumption DEF Idle, CallInv

\* Whatever top_n is, the LIMIT is one.
LEMMA AskInv ==
  ASSUME CallInv, NEW t \in Tools, NEW top_n \in -1..(QueryLimit + 1), Ask(t, top_n)
  PROVE  CallInv'
<1>1. limit' \in 1..QueryLimit
  BY QueryLimitAssumption DEF Ask, Clamp
<1>2. phase = "idle" /\ phase' = "called" /\ asked' = t /\ result' = result
  BY DEF Ask
<1>3. result = Nothing
  BY <1>2 DEF CallInv
<1> QED
  BY <1>1, <1>2, <1>3 DEF CallInv

\* The statement returns what LIMIT leaves of the rows.
LEMMA QueryInv ==
  ASSUME CallInv, Query
  PROVE  CallInv'
<1>1. phase = "called" /\ phase' = "fetched" /\ asked' = asked /\ limit' = limit /\ result' = result
  BY DEF Query
<1>2. /\ stored' \in RowsOf(asked) /\ other' \in Others(asked, stored') /\ total' \in Totals(asked, stored')
      /\ fetched' = IF asked \in Unlimited THEN stored' ELSE First(limit, stored')
  BY DEF Query
<1>3. result = Nothing /\ asked \in Tools /\ limit \in 1..QueryLimit
  BY <1>1 DEF CallInv
<1> QED
  BY <1>1, <1>2, <1>3 DEF CallInv

\* The tool judges the rows it fetched.
LEMMA ConcludeInv ==
  ASSUME CallInv, Conclude
  PROVE  CallInv'
<1>1. /\ phase = "fetched" /\ phase' = "done"
      /\ asked' = asked /\ limit' = limit
      /\ stored' = stored /\ fetched' = fetched /\ other' = other /\ total' = total
      /\ result' = Judge(asked, fetched, other, total)
  BY DEF Conclude
<1>2. /\ asked \in Tools /\ limit \in 1..QueryLimit
      /\ stored \in RowsOf(asked) /\ other \in Others(asked, stored) /\ total \in Totals(asked, stored)
      /\ fetched = IF asked \in Unlimited THEN stored ELSE First(limit, stored)
  BY <1>1 DEF CallInv
<1> QED
  BY <1>1, <1>2 DEF CallInv

\* After its result the call is over.
LEMMA ReturnInv ==
  ASSUME CallInv, Return
  PROVE  CallInv'
<1>1. phase' = "idle" /\ asked' = Resting /\ limit' = QueryLimit /\ result' = Nothing
  BY DEF Return
<1> QED
  BY <1>1, AtRest

\* A step of something else.
LEMMA CallStutter ==
  ASSUME CallInv, UNCHANGED call
  PROVE  CallInv'
BY DEF CallInv, call

\* CallInv is an invariant of a call.
THEOREM CallInvariant == Calls => []CallInv
<1>1. CallInv /\ [CallStep]_call => CallInv'
  <2> SUFFICES ASSUME CallInv, [CallStep]_call
               PROVE  CallInv'
    OBVIOUS
  <2>1. ASSUME NEW t \in Tools, NEW top_n \in -1..(QueryLimit + 1), Ask(t, top_n)
        PROVE  CallInv'
    BY <2>1, AskInv
  <2>2. CASE Query
    BY <2>2, QueryInv
  <2>3. CASE Conclude
    BY <2>3, ConcludeInv
  <2>4. CASE Return
    BY <2>4, ReturnInv
  <2>5. CASE UNCHANGED call
    BY <2>5, CallStutter
  <2> QED
    BY <2>1, <2>2, <2>3, <2>4, <2>5 DEF CallStep
<1> QED
  BY IdleInv, <1>1, PTL DEF Calls

\* A report that is done is sound, or it says that there was nothing to read.
LEMMA DoneIsSound ==
  ASSUME CallInv, phase = "done"
  PROVE  \/ Sound(asked, result, Judge(asked, stored, other, total))
         \/ Refused(asked, result, Judge(asked, stored, other, total), total)
<1>1. /\ asked \in Tools /\ limit \in Nat \ {0}
      /\ stored \in RowsOf(asked) /\ other \in Others(asked, stored) /\ total \in Totals(asked, stored)
      /\ fetched = IF asked \in Unlimited THEN stored ELSE First(limit, stored)
      /\ result = Judge(asked, fetched, other, total)
  BY QueryLimitAssumption DEF CallInv
<1>2. Cut(fetched, stored) /\ (asked \in Unlimited => fetched = stored)
  BY <1>1 DEF Cut
<1> QED
  BY <1>1, <1>2, Judged

\* A report that is not has nothing in it.
LEMMA NotDone ==
  ASSUME CallInv, phase # "done"
  PROVE  Fit(result) /\ result.status = 0
<1>1. result = Verdict(0, <<>>)
  BY DEF CallInv, Nothing
<1>2. result.status = 0 /\ result.findings = <<>>
  BY <1>1, Parts
<1> QED
  BY <1>2, ShortLists DEF Fit, Grades

\* Every variable of a call keeps its type: the LIMIT is one, whatever top_n
\* the agent passes, and every result is made of statuses and severities.
THEOREM ReportTypeCorrect == Calls => []ReportTypeOK
<1>1. CallInv => ReportTypeOK
  <2> SUFFICES ASSUME CallInv
               PROVE  ReportTypeOK
    OBVIOUS
  <2>1. Fit(result)
    BY DoneIsSound, NotDone, DegradedIs DEF Sound, Refused
  <2>2. /\ result.status \in Grades
        /\ \A i \in DOMAIN result.findings : result.findings[i] \in Grades
    BY <2>1, Indexed DEF Fit
  <2> QED
    BY <2>2 DEF CallInv, ReportTypeOK
<1> QED
  BY CallInvariant, <1>1, PTL

\* An agent that reads only the status misses nothing: but for the tools of
\* OwnScale, no finding is graver, whatever the rows and the LIMIT.
THEOREM StatusNeverUnderstates == Calls => []NeverUnderstates
<1>1. CallInv => NeverUnderstates
  BY DoneIsSound, DegradedIs DEF NeverUnderstates, Sound, Refused, Modest
<1> QED
  BY CallInvariant, <1>1, PTL

\* An agent that reads only the findings misses nothing either: but for the
\* tools of NotShown, the warnings of TextOnly and the answer that there was
\* nothing to read, the slice holds a finding as grave as the status.
THEOREM VerdictsAreShown == Calls => []VerdictIsShown
<1>1. CallInv => VerdictIsShown
  BY DoneIsSound, DegradedIs DEF VerdictIsShown, Sound, Refused, Told
<1> QED
  BY CallInvariant, <1>1, PTL

\* The LIMIT of a statement does not change the status, but for the tools of
\* OtherOrder: the rows it cuts off would not have made it graver.
THEOREM LimitsHideNothing == Calls => []LimitHidesNothing
<1>1. CallInv => LimitHidesNothing
  BY DoneIsSound DEF LimitHidesNothing, Sound, Refused
<1> QED
  BY CallInvariant, <1>1, PTL
=============================================================================
