---------------------------- MODULE PgScan_proofs ----------------------------
(***************************************************************************)
(* Theorems about PgScan for every finite set of databases, every cap and  *)
(* every number of changes and faults.  What the runs check of a finished  *)
(* scan follows from an invariant of the loop: the databases of the list   *)
(* are divided among those read, those noted as failed and those to come.  *)
(***************************************************************************)
EXTENDS PgScan, FiniteSetTheorems, WellFoundedInduction, TLAPS

\* The type invariant, by what its parts are about.
WorldType ==
  /\ version \in {"12", "16", "17"}
  /\ present \subseteq Databases /\ vacuums \subseteq present
  /\ content \in [Databases -> Grades]
  /\ changes \in 0..MaxChanges /\ faults \in 0..MaxFaults

CallType ==
  /\ pc \in {"idle", "listing", "scanning", "first query", "second query", "done"}
  /\ tool \in Tools /\ cap \in Caps \cup {0}
  /\ capped \in BOOLEAN
  /\ status \in {"none", "ok", "warning", "critical", "exception"}

ListType ==
  /\ listed \subseteq Databases /\ dbList \subseteq Databases /\ todo \subseteq dbList
  /\ visiting \in todo \cup {Nowhere}
  /\ complete \subseteq dbList /\ errors \subseteq dbList

RowsType ==
  /\ rows \in [Databases -> [grade : Grades, vacuums : SUBSET Databases]]
  /\ \A d \in Databases : rows[d] # Nothing => d \in dbList

\* Between calls, and until the list is there, nothing is left of an earlier
\* call.
RestingInv ==
  pc \in {"idle", "listing"} =>
    /\ listed = {} /\ dbList = {} /\ todo = {} /\ capped = FALSE
    /\ complete = {} /\ errors = {} /\ status = "none"
    /\ rows = [d \in Databases |-> Nothing]

\* A connection is open exactly while statements are executed on it.
PhaseInv == visiting # Nowhere <=> pc \in {"first query", "second query"}

\* The invariant of the loop.
ScanInv ==
  pc # "done" =>
    /\ complete \cup errors \cup todo = dbList
    /\ complete \cap errors = {} /\ (complete \cup errors) \cap todo = {}
    /\ status = "none"

\* A call ends with the loop, or before it.
EndInv ==
  pc = "done" =>
    /\ todo = {}
    /\ IF status = "exception" THEN dbList = {} /\ errors = {} /\ complete = {} /\ listed = {}
       ELSE complete \cup errors = dbList /\ complete \cap errors = {}

\* A cut list is known to be one.
CutInv == listed # {} => (capped <=> dbList # listed)

IInv ==
  /\ WorldType /\ CallType /\ ListType /\ RowsType
  /\ RestingInv /\ PhaseInv /\ ScanInv /\ EndInv /\ CutInv
--------------------------------------------------------------------------
\* Reading a database changes its row only.
LEMMA RowChanges ==
  ASSUME NEW old \in [Databases -> [grade : Grades, vacuums : SUBSET Databases]], NEW d \in Databases,
         NEW grade \in Grades, NEW running \in SUBSET Databases
  PROVE  /\ [old EXCEPT ![d].grade = grade] \in [Databases -> [grade : Grades, vacuums : SUBSET Databases]]
         /\ [old EXCEPT ![d].vacuums = running] \in [Databases -> [grade : Grades, vacuums : SUBSET Databases]]
  OBVIOUS

\* A set of names has a first one ...
LEMMA LeastOf ==
  ASSUME NEW S \in SUBSET Nat, S # {}
  PROVE  \E x \in S : \A y \in S : x <= y
<1>1. \E x \in S : \A y \in S : ~ (<<y, x>> \in OpToRel(<, Nat))
  BY NatLessThanWellFounded, WFMin
<1>2. PICK x \in S : \A y \in S : ~ (<<y, x>> \in OpToRel(<, Nat))
  BY <1>1
<1>3. \A y \in S : ~(y < x)
  BY <1>2 DEF OpToRel
<1> QED
  BY <1>3

\* ... and a finite one has a last one.
LEMMA GreatestOf ==
  ASSUME NEW S \in SUBSET Nat, IsFiniteSet(S), S # {}
  PROVE  \E x \in S : \A y \in S : y <= x
<1> DEFINE From(x) == {y \in S : y >= x}
           Tails == {From(x) : x \in S}
<1>1. Tails \subseteq FiniteSubsetsOf(S) /\ Tails # {}
  <2>1. ASSUME NEW x \in S PROVE From(x) \in FiniteSubsetsOf(S)
    <3>1. From(x) \in SUBSET S
      OBVIOUS
    <3> QED
      BY <3>1, FS_Subset DEF FiniteSubsetsOf
  <2>2. Tails # {}
    OBVIOUS
  <2> QED
    BY <2>1, <2>2
<1>2. PICK T \in Tails : \A U \in Tails : ~(<<U, T>> \in StrictSubsetOrdering(S))
  BY <1>1, FS_StrictSubsetOrderingWellFounded, WFMin
<1>3. PICK x \in S : T = From(x)
  BY <1>2
<1>4. ASSUME NEW y \in S, y > x PROVE FALSE
  <2>1. From(y) \subseteq From(x)
    <3>1. \A z \in S : z \in Nat
      OBVIOUS
    <3>2. \A z \in S : z >= y => z >= x
      BY <1>4, <3>1
    <3> QED
      BY <3>2, Zenon
  <2>2. x \in From(x) /\ x \notin From(y)
    BY <1>4
  <2>3. <<From(y), From(x)>> \in StrictSubsetOrdering(S)
    BY <2>1, <2>2 DEF StrictSubsetOrdering
  <2> QED
    BY <1>2, <1>3, <2>3
<1> QED
  BY <1>4

\* A slice of a list leaves out at least one name when the list is longer than
\* the cap, also when the cap is negative.
LEMMA SliceCuts ==
  ASSUME NEW S \in SUBSET Databases, NEW n \in Int, Cardinality(S) > n, S # {}
  PROVE  Slice(S, n) # S
<1>1. S \in SUBSET Nat /\ IsFiniteSet(S)
  BY DatabasesAssumption, FS_Subset
<1>2. PICK last \in S : \A e \in S : e <= last
  BY <1>1, GreatestOf
<1>3. Cardinality(S) \in Nat
  BY <1>1, FS_CardinalityType
<1>4. {e \in S : e < last} = S \ {last}
  <2>1. \A e \in S : e < last <=> e # last
    BY <1>1, <1>2
  <2> QED
    BY <2>1
<1>5. Cardinality({e \in S : e < last}) = Cardinality(S) - 1
  BY <1>1, <1>4, FS_RemoveElement
<1>6. (IF n >= 0 THEN n ELSE Cardinality(S) + n) <= Cardinality(S) - 1
  BY <1>3
<1>7. last \notin Slice(S, n)
  BY <1>3, <1>5, <1>6 DEF Slice
<1> QED
  BY <1>7

\* The next database to visit is one of those to visit.
LEMMA FirstIsToVisit ==
  ASSUME todo \subseteq Databases, todo # {}
  PROVE  FirstToVisit \in todo
  BY DatabasesAssumption, LeastOf DEF FirstToVisit

LEMMA NothingType == Nothing \in [grade : Grades, vacuums : SUBSET Databases]
  BY DEF Nothing, Grades

\* A fault stays within its bound.
LEMMA FaultBound ==
  ASSUME faults \in 0..MaxFaults, Fault \/ UNCHANGED faults
  PROVE  faults' \in 0..MaxFaults
  BY BoundsAssumption DEF Fault
--------------------------------------------------------------------------
\* The initial states satisfy the inductive invariant.
LEMMA InitIInv == Init => IInv
<1> SUFFICES ASSUME Init PROVE IInv
  OBVIOUS
<1> USE DEF Init
<1>1. WorldType
  BY BoundsAssumption DEF WorldType
<1>2. CallType
  BY DEF CallType, Tools
<1>3. ListType
  BY DEF ListType
<1>4. RowsType
  BY NothingType DEF RowsType
<1>5. RestingInv /\ PhaseInv /\ ScanInv /\ EndInv /\ CutInv
  BY DEF RestingInv, PhaseInv, ScanInv, EndInv, CutInv
<1> QED
  BY <1>1, <1>2, <1>3, <1>4, <1>5 DEF IInv

\* Every step keeps it.
LEMMA StepIInv == IInv /\ [Next]_vars => IInv'
<1> SUFFICES ASSUME IInv, [Next]_vars PROVE IInv'
  OBVIOUS
<1> USE DEF IInv, cluster
<1>1. CASE ClusterChanges
  <2> USE <1>1 DEF ClusterChanges
  <2>1. WorldType'
    <3>1. changes' \in 0..MaxChanges
      BY BoundsAssumption DEF Change, WorldType
    <3>2. present' \subseteq Databases /\ vacuums' \subseteq present'
      BY DEF WorldType
    <3> QED
      BY <3>1, <3>2 DEF WorldType
  <2>2. CallType'
    BY DEF CallType, Tools
  <2>3. ListType'
    BY DEF ListType
  <2>4. RowsType'
    BY DEF RowsType
  <2>5. RestingInv'
    BY DEF RestingInv
  <2>6. PhaseInv'
    BY DEF PhaseInv
  <2>7. ScanInv'
    BY DEF ScanInv
  <2>8. EndInv'
    BY DEF EndInv
  <2>9. CutInv'
    BY DEF CutInv
  <2> QED
    BY <2>1, <2>2, <2>3, <2>4, <2>5, <2>6, <2>7, <2>8, <2>9
<1>2. ASSUME NEW t \in Tools, NEW d \in Databases, CallOne(t, d) PROVE IInv'
  <2> USE <1>2 DEF CallOne
  <2>1. WorldType'
    BY DEF WorldType
  <2>2. CallType'
    BY DEF CallType, Tools
  <2>3. ListType'
    BY DEF ListType, RestingInv, PhaseInv
  <2>4. RowsType'
    BY DEF RowsType, RestingInv
  <2>5. RestingInv'
    BY DEF RestingInv
  <2>6. PhaseInv'
    BY DEF PhaseInv
  <2>7. ScanInv'
    BY DEF ScanInv, RestingInv
  <2>8. EndInv'
    BY DEF EndInv
  <2>9. CutInv'
    BY DEF CutInv, RestingInv
  <2> QED
    BY <2>1, <2>2, <2>3, <2>4, <2>5, <2>6, <2>7, <2>8, <2>9
<1>3. ASSUME NEW t \in Tools, NEW n \in Caps, CallAll(t, n) PROVE IInv'
  <2> USE <1>3 DEF CallAll
  <2>1. WorldType'
    BY DEF WorldType
  <2>2. CallType'
    BY DEF CallType, Tools
  <2>3. ListType'
    BY DEF ListType
  <2>4. RowsType'
    BY DEF RowsType
  <2>5. RestingInv'
    BY DEF RestingInv
  <2>6. PhaseInv'
    BY DEF PhaseInv
  <2>7. ScanInv'
    BY DEF ScanInv
  <2>8. EndInv'
    BY DEF EndInv
  <2>9. CutInv'
    BY DEF CutInv
  <2> QED
    BY <2>1, <2>2, <2>3, <2>4, <2>5, <2>6, <2>7, <2>8, <2>9
<1>4. CASE List
  <2> USE <1>4 DEF List
  <2>1. WorldType'
    BY FaultBound DEF WorldType
  <2>2. CallType'
    <3>1. TooMany(present) \in BOOLEAN
      BY DEF TooMany
    <3> QED
      BY <3>1 DEF CallType
  <2>3. ListType'
    BY DEF ListType, WorldType, Slice, RestingInv, PhaseInv
  <2>4. RowsType'
    BY DEF RowsType, RestingInv
  <2>5. RestingInv'
    BY DEF RestingInv
  <2>6. PhaseInv'
    BY DEF PhaseInv
  <2>7. ScanInv'
    BY DEF ScanInv, RestingInv
  <2>8. EndInv'
    BY DEF EndInv, RestingInv
  <2>9. CutInv'
    <3>1. ASSUME listed' # {}, Cardinality(present) > cap PROVE Slice(present, cap) # present
      <4>1. present \in SUBSET Databases /\ present # {}
        BY <3>1 DEF WorldType, RestingInv
      <4>2. cap \in Int
        BY DatabasesAssumption DEF CallType
      <4> QED
        BY <3>1, <4>1, <4>2, SliceCuts
    <3> QED
      BY <3>1 DEF CutInv, TooMany, RestingInv
  <2> QED
    BY <2>1, <2>2, <2>3, <2>4, <2>5, <2>6, <2>7, <2>8, <2>9
<1>5. CASE Connect
  <2> USE <1>5 DEF Connect, PassOver
  <2>0. FirstToVisit \in todo /\ FirstToVisit # Nowhere /\ FirstToVisit \in dbList
    BY FirstIsToVisit, DatabasesAssumption DEF ListType, Nowhere
  <2>1. WorldType'
    BY FaultBound DEF WorldType
  <2>2. CallType'
    BY DEF CallType, Tools
  <2>3. ListType'
    BY <2>0 DEF ListType
  <2>4. RowsType'
    BY DEF RowsType
  <2>5. RestingInv'
    BY DEF RestingInv
  <2>6. PhaseInv'
    BY <2>0 DEF PhaseInv
  <2>7. ScanInv'
    BY <2>0 DEF ScanInv, ListType
  <2>8. EndInv'
    BY DEF EndInv
  <2>9. CutInv'
    BY DEF CutInv
  <2> QED
    BY <2>1, <2>2, <2>3, <2>4, <2>5, <2>6, <2>7, <2>8, <2>9
<1>6. CASE FirstQuery
  <2> USE <1>6 DEF FirstQuery, Leave, Fails
  <2>0. visiting \in todo /\ visiting \in dbList /\ visiting \in Databases
    BY DEF ListType, PhaseInv
  <2>1. WorldType'
    BY FaultBound DEF WorldType
  <2>2. CallType'
    BY DEF CallType, Tools
  <2>3. ListType'
    BY <2>0 DEF ListType
  <2>4. RowsType'
    <3>1. content[visiting] \in Grades /\ vacuums \in SUBSET Databases
      BY <2>0 DEF WorldType
    <3>2. rows \in [Databases -> [grade : Grades, vacuums : SUBSET Databases]]
      BY DEF RowsType
    <3>3. /\ [rows EXCEPT ![visiting].grade = content[visiting]]
               \in [Databases -> [grade : Grades, vacuums : SUBSET Databases]]
          /\ [rows EXCEPT ![visiting].vacuums = vacuums]
               \in [Databases -> [grade : Grades, vacuums : SUBSET Databases]]
      BY <2>0, <3>1, <3>2, RowChanges
    <3>4. \A d \in Databases \ {visiting} : rows'[d] = rows[d]
      BY DEF RowsType
    <3> QED
      BY <2>0, <3>3, <3>4 DEF RowsType
  <2>5. RestingInv'
    BY DEF RestingInv
  <2>6. PhaseInv'
    BY <2>0 DEF PhaseInv
  <2>7. ScanInv'
    BY <2>0 DEF ScanInv
  <2>8. EndInv'
    BY DEF EndInv
  <2>9. CutInv'
    BY DEF CutInv
  <2> QED
    BY <2>1, <2>2, <2>3, <2>4, <2>5, <2>6, <2>7, <2>8, <2>9
<1>7. CASE SecondQuery
  <2> USE <1>7 DEF SecondQuery, Leave, Fails
  <2>0. visiting \in todo /\ visiting \in dbList /\ visiting \in Databases
    BY DEF ListType, PhaseInv
  <2>1. WorldType'
    BY FaultBound DEF WorldType
  <2>2. CallType'
    BY DEF CallType, Tools
  <2>3. ListType'
    BY <2>0 DEF ListType
  <2>4. RowsType'
    <3>1. \A g \in Grades : [rows EXCEPT ![visiting].grade = g]
               \in [Databases -> [grade : Grades, vacuums : SUBSET Databases]]
      BY <2>0 DEF RowsType
    <3>2. \A d \in Databases \ {visiting} : rows'[d] = rows[d]
      BY DEF RowsType
    <3> QED
      BY <2>0, <3>1, <3>2 DEF RowsType, Grades
  <2>5. RestingInv'
    BY DEF RestingInv
  <2>6. PhaseInv'
    BY <2>0 DEF PhaseInv
  <2>7. ScanInv'
    BY <2>0 DEF ScanInv
  <2>8. EndInv'
    BY DEF EndInv
  <2>9. CutInv'
    BY DEF CutInv
  <2> QED
    BY <2>1, <2>2, <2>3, <2>4, <2>5, <2>6, <2>7, <2>8, <2>9
<1>8. CASE Conclude
  <2> USE <1>8 DEF Conclude
  <2>1. WorldType'
    BY DEF WorldType
  <2>2. CallType'
    BY DEF CallType, Verdict
  <2>3. ListType'
    BY DEF ListType
  <2>4. RowsType'
    BY DEF RowsType
  <2>5. RestingInv'
    BY DEF RestingInv
  <2>6. PhaseInv'
    BY DEF PhaseInv
  <2>7. ScanInv'
    BY DEF ScanInv
  <2>8. EndInv'
    BY DEF EndInv, ScanInv, Verdict
  <2>9. CutInv'
    BY DEF CutInv
  <2> QED
    BY <2>1, <2>2, <2>3, <2>4, <2>5, <2>6, <2>7, <2>8, <2>9
<1>9. CASE Finish
  <2> USE <1>9 DEF Finish
  <2>1. WorldType'
    BY DEF WorldType
  <2>2. CallType'
    BY DEF CallType, Tools
  <2>3. ListType'
    BY DEF ListType
  <2>4. RowsType'
    BY NothingType DEF RowsType
  <2>5. RestingInv'
    BY DEF RestingInv
  <2>6. PhaseInv'
    BY DEF PhaseInv
  <2>7. ScanInv'
    BY DEF ScanInv
  <2>8. EndInv'
    BY DEF EndInv
  <2>9. CutInv'
    BY DEF CutInv
  <2> QED
    BY <2>1, <2>2, <2>3, <2>4, <2>5, <2>6, <2>7, <2>8, <2>9
<1>10. CASE UNCHANGED vars
  <2> USE <1>10 DEF vars
  <2>1. WorldType'
    BY DEF WorldType
  <2>2. CallType'
    BY DEF CallType, Tools
  <2>3. ListType'
    BY DEF ListType
  <2>4. RowsType'
    BY DEF RowsType
  <2>5. RestingInv'
    BY DEF RestingInv
  <2>6. PhaseInv'
    BY DEF PhaseInv
  <2>7. ScanInv'
    BY DEF ScanInv
  <2>8. EndInv'
    BY DEF EndInv
  <2>9. CutInv'
    BY DEF CutInv
  <2> QED
    BY <2>1, <2>2, <2>3, <2>4, <2>5, <2>6, <2>7, <2>8, <2>9
<1> QED
  BY <1>1, <1>2, <1>3, <1>4, <1>5, <1>6, <1>7, <1>8, <1>9, <1>10 DEF Next
--------------------------------------------------------------------------
LEMMA InductiveInvariant == Spec => []IInv
  BY InitIInv, StepIInv, PTL DEF Spec

\* Every variable keeps its type; a row comes from a database of the list.
THEOREM TypeCorrect == Spec => []TypeOK
<1>1. IInv => TypeOK
  BY DEF IInv, TypeOK, WorldType, CallType, ListType, RowsType
<1> QED
  BY <1>1, InductiveInvariant, PTL

\* Whatever is dropped, refused or failed while the scan runs, at its end each
\* database of the list was read or is named as failed, and a list that was
\* cut is known to be cut.
THEOREM ScanAccountsForAll == Spec => []EveryDatabaseAccounted
<1>1. IInv => EveryDatabaseAccounted
  BY DEF IInv, EndInv, CutInv, EveryDatabaseAccounted
<1> QED
  BY <1>1, InductiveInvariant, PTL

\* A call only ends with an exception when it had no list of databases.
THEOREM FailuresAreIsolated == Spec => []FailureIsolated
<1>1. IInv => FailureIsolated
  BY DEF IInv, ScanInv, EndInv, FailureIsolated
<1> QED
  BY <1>1, InductiveInvariant, PTL
==============================================================================
