------------------------- MODULE AgentMemory_proofs -------------------------
(***************************************************************************)
(* Theorems about AgentMemory for every set of callers, roles and          *)
(* collections and every bound.  That no caller undoes what another one    *)
(* wrote to the policy rests on what its version says: a caller that read  *)
(* the version that is still there has the same rules in hand.             *)
(***************************************************************************)
EXTENDS AgentMemory, TLAPS

Places == {"idle", "exists", "identify", "get_policy", "update_policy", "create_policy", "create_index",
           "write", "delete"}

\* The type invariant, by what its parts are about.
PlaceType ==
  /\ pc \in [Callers -> Places]
  /\ outcome \in [Callers -> {"none", "covered", "updated", "created", "raced", "failed"}]
  /\ faults \in 0..MaxFaults /\ edits \in 0..MaxEdits

SeenType ==
  /\ seen \in [Callers -> Policies]
  /\ \A p \in Callers : seen[p] # NoPolicy <=> pc[p] = "update_policy"

PolicyType ==
  /\ writes \in Nat
  /\ policy \in Policies
  /\ applied \subseteq RuleSets

IndexType ==
  /\ index \in [Collections -> {"absent", "enriched", "plain"}]
  /\ stored \in [Collections -> SUBSET Callers]

\* A version is given out once: who read the version that is there has read
\* the policy that is there.
VersionInv ==
  /\ policy # NoPolicy => policy.version # 0
  /\ \A p \in Callers : pc[p] = "update_policy" =>
       /\ seen[p].version # 0
       /\ seen[p].version = policy.version => seen[p] = policy

\* Only an index that an administrator dropped comes back without its schema.
IndexInv ==
  edits = 0 =>
    /\ \A c \in Collections : index[c] # "plain"
    /\ \A p \in Callers : pc[p] = "write" => index[Target[p]] = "enriched"

IInv == PlaceType /\ SeenType /\ PolicyType /\ IndexType /\ VersionInv /\ IndexInv
--------------------------------------------------------------------------
\* There is a state without a policy, and a version once given out stays one.
LEMMA PoliciesGrow ==
  ASSUME writes \in Nat, writes' \in Nat, writes <= writes'
  PROVE  Policies \subseteq Policies' /\ NoPolicy \in Policies'
  BY DEF Policies, NoPolicy

\* A role is added to every rule set, and nobody is taken out of one.
LEMMA WithKeeps ==
  ASSUME NEW role \in Principals, NEW rules \in SUBSET RuleSets
  PROVE  /\ With(role, rules) \subseteq RuleSets
         /\ \A r \in rules : \E s \in With(role, rules) :
              s.collection = r.collection /\ r.principals \subseteq s.principals
<1>1. ASSUME NEW r \in rules
      PROVE  LET s == [r EXCEPT !.principals = @ \cup {role}]
             IN  /\ s \in RuleSets /\ s \in With(role, rules)
                 /\ s.collection = r.collection /\ r.principals \subseteq s.principals
  BY DEF With, RuleSets
<1>2. With(role, rules) \subseteq RuleSets
  BY <1>1 DEF With
<1> QED
  BY <1>1, <1>2

\* Every policy that is written has a version of its own.
LEMMA WriteGivesVersion ==
  ASSUME PolicyType, NEW rules \in SUBSET RuleSets, Write(rules)
  PROVE  /\ writes' \in Nat /\ writes' = writes + 1
         /\ policy' \in Policies' /\ policy'.version = writes + 1
         /\ policy'.rules = rules /\ policy' # NoPolicy
  BY DEF PolicyType, Write, Policies, NoPolicy

\* A caller has a role, and a collection it writes to.
LEMMA CallerHas == \A p \in Callers : Role[p] \in Principals /\ Target[p] \in Collections
  BY MemoryAssumption
--------------------------------------------------------------------------
\* The initial states satisfy the inductive invariant.
LEMMA InitIInv == Init => IInv
<1> SUFFICES ASSUME Init PROVE IInv
  OBVIOUS
<1> USE MemoryAssumption DEF Init
<1>1. PlaceType /\ IndexType
  BY DEF PlaceType, Places, IndexType
<1>2. SeenType /\ PolicyType
  BY DEF SeenType, PolicyType, Policies, NoPolicy
<1>3. VersionInv /\ IndexInv
  BY DEF VersionInv, IndexInv
<1> QED
  BY <1>1, <1>2, <1>3 DEF IInv

\* The requests that leave the policy alone.
LEMMA RequestIInv ==
  ASSUME IInv, NEW p \in Callers,
         \/ SaveMemory(p) \/ DeleteMemory(p) \/ Exists(p) \/ Identify(p) \/ GetPolicy(p)
         \/ CreateIndex(p) \/ WriteMemory(p) \/ RemoveMemory(p)
  PROVE  IInv'
<1> USE DEF IInv, service, Goto
<1>1. CASE SaveMemory(p)
  <2> USE <1>1 DEF SaveMemory
  <2>0. writes' = writes /\ Policies' = Policies
    BY DEF Policies
  <2>1. PlaceType'
    BY DEF PlaceType, Places
  <2>2. SeenType'
    BY <2>0 DEF SeenType, PlaceType
  <2>3. PolicyType'
    BY <2>0 DEF PolicyType
  <2>4. IndexType'
    BY DEF IndexType
  <2>5. VersionInv'
    BY <2>0 DEF VersionInv, PlaceType, SeenType
  <2>6. IndexInv'
    BY DEF IndexInv, PlaceType
  <2> QED
    BY <2>1, <2>2, <2>3, <2>4, <2>5, <2>6
<1>2. CASE DeleteMemory(p)
  <2> USE <1>2 DEF DeleteMemory
  <2>0. writes' = writes /\ Policies' = Policies
    BY DEF Policies
  <2>1. PlaceType'
    BY DEF PlaceType, Places
  <2>2. SeenType'
    BY <2>0 DEF SeenType, PlaceType
  <2>3. PolicyType'
    BY <2>0 DEF PolicyType
  <2>4. IndexType'
    BY DEF IndexType
  <2>5. VersionInv'
    BY <2>0 DEF VersionInv, PlaceType, SeenType
  <2>6. IndexInv'
    BY DEF IndexInv, PlaceType
  <2> QED
    BY <2>1, <2>2, <2>3, <2>4, <2>5, <2>6
<1>3. CASE Exists(p)
  <2> USE <1>3 DEF Exists, Unchecked, Fault, NoFault
  <2>0. writes' = writes /\ Policies' = Policies
    BY DEF Policies
  <2>1. PlaceType'
    BY MemoryAssumption DEF PlaceType, Places
  <2>2. SeenType'
    BY <2>0 DEF SeenType, PlaceType
  <2>3. PolicyType'
    BY <2>0 DEF PolicyType
  <2>4. IndexType'
    BY CallerHas DEF IndexType
  <2>5. VersionInv'
    BY <2>0 DEF VersionInv, PlaceType, SeenType
  <2>6. IndexInv'
    BY CallerHas DEF IndexInv, PlaceType, IndexType
  <2> QED
    BY <2>1, <2>2, <2>3, <2>4, <2>5, <2>6
<1>4. CASE Identify(p)
  <2> USE <1>4 DEF Identify, Ends, Fault, NoFault
  <2>0. writes' = writes /\ Policies' = Policies
    BY DEF Policies
  <2>1. PlaceType'
    BY MemoryAssumption DEF PlaceType, Places
  <2>2. SeenType'
    BY <2>0, PoliciesGrow DEF SeenType, PlaceType, PolicyType
  <2>3. PolicyType'
    BY <2>0 DEF PolicyType
  <2>4. IndexType'
    BY DEF IndexType
  <2>5. VersionInv'
    BY <2>0 DEF VersionInv, PlaceType, SeenType
  <2>6. IndexInv'
    BY DEF IndexInv, PlaceType
  <2> QED
    BY <2>1, <2>2, <2>3, <2>4, <2>5, <2>6
<1>5. CASE GetPolicy(p)
  <2> USE <1>5 DEF GetPolicy, ToIndex, Fault, NoFault
  <2>0. writes' = writes /\ Policies' = Policies
    BY DEF Policies
  <2>1. PlaceType'
    BY MemoryAssumption DEF PlaceType, Places
  <2>2. SeenType'
    BY <2>0, PoliciesGrow DEF SeenType, PlaceType, PolicyType
  <2>3. PolicyType'
    BY <2>0 DEF PolicyType
  <2>4. IndexType'
    BY DEF IndexType
  <2>5. VersionInv'
    BY <2>0 DEF VersionInv, PlaceType, SeenType, PolicyType
  <2>6. IndexInv'
    BY DEF IndexInv, PlaceType
  <2> QED
    BY <2>1, <2>2, <2>3, <2>4, <2>5, <2>6
<1>6. CASE CreateIndex(p)
  <2> USE <1>6 DEF CreateIndex, Ends, Refused, Fault, NoFault
  <2>0. writes' = writes /\ Policies' = Policies
    BY DEF Policies
  <2>1. PlaceType'
    BY MemoryAssumption DEF PlaceType, Places
  <2>2. SeenType'
    BY <2>0, PoliciesGrow DEF SeenType, PlaceType, PolicyType
  <2>3. PolicyType'
    BY <2>0 DEF PolicyType
  <2>4. IndexType'
    BY CallerHas DEF IndexType
  <2>5. VersionInv'
    BY <2>0 DEF VersionInv, PlaceType, SeenType
  <2>6. IndexInv'
    BY CallerHas DEF IndexInv, PlaceType, IndexType
  <2> QED
    BY <2>1, <2>2, <2>3, <2>4, <2>5, <2>6
<1>7. CASE WriteMemory(p)
  <2> USE <1>7 DEF WriteMemory, Ends, Fault, NoFault
  <2>0. writes' = writes /\ Policies' = Policies
    BY DEF Policies
  <2>1. PlaceType'
    BY MemoryAssumption DEF PlaceType, Places
  <2>2. SeenType'
    BY <2>0, PoliciesGrow DEF SeenType, PlaceType, PolicyType
  <2>3. PolicyType'
    BY <2>0 DEF PolicyType
  <2>4. IndexType'
    BY CallerHas DEF IndexType
  <2>5. VersionInv'
    BY <2>0 DEF VersionInv, PlaceType, SeenType
  <2>6. IndexInv'
    BY CallerHas DEF IndexInv, PlaceType, IndexType
  <2> QED
    BY <2>1, <2>2, <2>3, <2>4, <2>5, <2>6
<1>8. CASE RemoveMemory(p)
  <2> USE <1>8 DEF RemoveMemory, Ends, Fault, NoFault
  <2>0. writes' = writes /\ Policies' = Policies
    BY DEF Policies
  <2>1. PlaceType'
    BY MemoryAssumption DEF PlaceType, Places
  <2>2. SeenType'
    BY <2>0, PoliciesGrow DEF SeenType, PlaceType, PolicyType
  <2>3. PolicyType'
    BY <2>0 DEF PolicyType
  <2>4. IndexType'
    BY CallerHas DEF IndexType
  <2>5. VersionInv'
    BY <2>0 DEF VersionInv, PlaceType, SeenType
  <2>6. IndexInv'
    BY CallerHas DEF IndexInv, PlaceType, IndexType
  <2> QED
    BY <2>1, <2>2, <2>3, <2>4, <2>5, <2>6
<1> QED
  BY <1>1, <1>2, <1>3, <1>4, <1>5, <1>6, <1>7, <1>8

\* A caller that updates the policy writes what it read, with its role added;
\* its version being the one that is there, that is the policy that is there.
LEMMA UpdateStarts ==
  ASSUME IInv, NEW p \in Callers, pc[p] = "update_policy", Current(p)
  PROVE  seen[p] = policy /\ seen[p].rules \in SUBSET RuleSets /\ Role[p] \in Principals
  BY CallerHas DEF IInv, VersionInv, Current, PolicyType, Policies

\* What a step that leaves or writes the policy owes the invariant.
LEMMA PolicyStep ==
  ASSUME PolicyType, SeenType,
         \/ UNCHANGED <<policy, writes>>
         \/ \E rules \in SUBSET RuleSets : Write(rules)
  PROVE  /\ writes' \in Nat /\ writes <= writes' /\ policy' \in Policies'
         /\ Policies \subseteq Policies' /\ NoPolicy \in Policies'
         /\ policy' # policy => policy'.version = writes + 1
         /\ \A p \in Callers : seen[p].version <= writes
<1>1. CASE UNCHANGED <<policy, writes>>
  <2>1. Policies' = Policies /\ writes <= writes'
    BY <1>1 DEF Policies, PolicyType
  <2> QED
    BY <1>1, <2>1, PoliciesGrow DEF PolicyType, SeenType, Policies
<1>2. ASSUME NEW rules \in SUBSET RuleSets, Write(rules)
      PROVE  /\ writes' = writes + 1 /\ policy' \in Policies' /\ policy'.version = writes + 1
  BY <1>2, WriteGivesVersion
<1>3. CASE \E rules \in SUBSET RuleSets : Write(rules)
  <2>1. writes \in Nat /\ writes' = writes + 1
    BY <1>2, <1>3 DEF PolicyType
  <2> QED
    BY <1>2, <1>3, <2>1, PoliciesGrow DEF SeenType, Policies
<1> QED
  BY <1>1, <1>3

\* The requests that write the policy.
LEMMA WriteIInv ==
  ASSUME IInv, NEW p \in Callers, UpdatePolicy(p) \/ CreatePolicy(p)
  PROVE  IInv'
<1> USE DEF IInv, service, Goto
<1>1. CASE UpdatePolicy(p)
  <2> USE <1>1 DEF UpdatePolicy, ToIndex, Fault, NoFault
  <2>7. \/ UNCHANGED <<policy, writes>>
        \/ \E rules \in SUBSET RuleSets : Write(rules)
    BY UpdateStarts, WithKeeps
  <2>0. /\ writes' \in Nat /\ writes <= writes' /\ policy' \in Policies'
        /\ Policies \subseteq Policies' /\ NoPolicy \in Policies'
        /\ policy' # policy => policy'.version = writes + 1
        /\ \A q \in Callers : seen[q].version <= writes
    BY <2>7, PolicyStep
  <2>1. PlaceType'
    BY MemoryAssumption DEF PlaceType, Places
  <2>2. SeenType'
    BY <2>0 DEF SeenType, PlaceType
  <2>3. PolicyType'
    BY <2>0 DEF PolicyType
  <2>4. IndexType'
    BY DEF IndexType
  <2>5. VersionInv'
    BY <2>0 DEF VersionInv, PlaceType, SeenType, PolicyType, NoPolicy
  <2>6. IndexInv'
    BY DEF IndexInv, PlaceType
  <2> QED
    BY <2>1, <2>2, <2>3, <2>4, <2>5, <2>6
<1>2. CASE CreatePolicy(p)
  <2> USE <1>2 DEF CreatePolicy, ToIndex, Fault, NoFault
  <2>7. \/ UNCHANGED <<policy, writes>>
        \/ \E rules \in SUBSET RuleSets : Write(rules)
    <3>1. {[collection |-> Target[p], principals |-> {Role[p]}]} \in SUBSET RuleSets
      BY CallerHas DEF RuleSets
    <3> QED
      BY <3>1
  <2>0. /\ writes' \in Nat /\ writes <= writes' /\ policy' \in Policies'
        /\ Policies \subseteq Policies' /\ NoPolicy \in Policies'
        /\ policy' # policy => policy'.version = writes + 1
        /\ \A q \in Callers : seen[q].version <= writes
    BY <2>7, PolicyStep
  <2>1. PlaceType'
    BY MemoryAssumption DEF PlaceType, Places
  <2>2. SeenType'
    BY <2>0 DEF SeenType, PlaceType
  <2>3. PolicyType'
    BY <2>0 DEF PolicyType
  <2>4. IndexType'
    BY DEF IndexType
  <2>5. VersionInv'
    BY <2>0 DEF VersionInv, PlaceType, SeenType, PolicyType, NoPolicy
  <2>6. IndexInv'
    BY DEF IndexInv, PlaceType
  <2> QED
    BY <2>1, <2>2, <2>3, <2>4, <2>5, <2>6
<1> QED
  BY <1>1, <1>2

\* What the service and the administrator do.
LEMMA AdministratorIInv ==
  ASSUME IInv, \/ Propagate \/ AddRuleSet \/ DeletePolicy
         \/ \E c \in Collections : DropIndex(c)
  PROVE  IInv'
<1> USE DEF IInv, service
<1>1. CASE Propagate
  <2> USE <1>1 DEF Propagate
  <2>0. writes' = writes /\ Policies' = Policies
    BY DEF Policies
  <2>1. PlaceType'
    BY DEF PlaceType, Places
  <2>2. SeenType'
    BY <2>0 DEF SeenType, PlaceType
  <2>3. PolicyType'
    BY <2>0 DEF PolicyType, Policies
  <2>4. IndexType'
    BY DEF IndexType
  <2>5. VersionInv'
    BY <2>0 DEF VersionInv, PlaceType, SeenType
  <2>6. IndexInv'
    BY DEF IndexInv
  <2> QED
    BY <2>1, <2>2, <2>3, <2>4, <2>5, <2>6
<1>2. CASE AddRuleSet
  <2> USE <1>2 DEF AddRuleSet, Edit
  <2>7. \/ UNCHANGED <<policy, writes>>
        \/ \E rules \in SUBSET RuleSets : Write(rules)
    BY DEF PolicyType, Policies
  <2>0. /\ writes' \in Nat /\ writes <= writes' /\ policy' \in Policies'
        /\ Policies \subseteq Policies' /\ NoPolicy \in Policies'
        /\ policy' # policy => policy'.version = writes + 1
        /\ \A q \in Callers : seen[q].version <= writes
    BY <2>7, PolicyStep
  <2>8. edits' # 0
    BY MemoryAssumption DEF PlaceType
  <2>1. PlaceType'
    BY MemoryAssumption DEF PlaceType
  <2>2. SeenType'
    BY <2>0 DEF SeenType
  <2>3. PolicyType'
    BY <2>0 DEF PolicyType, Policies
  <2>4. IndexType'
    BY DEF IndexType
  <2>5. VersionInv'
    BY <2>0 DEF VersionInv, SeenType, PolicyType, NoPolicy, PlaceType
  <2>6. IndexInv'
    BY <2>8 DEF IndexInv
  <2> QED
    BY <2>1, <2>2, <2>3, <2>4, <2>5, <2>6
<1>3. CASE DeletePolicy
  <2> USE <1>3 DEF DeletePolicy, Edit
  <2>0. writes' = writes /\ Policies' = Policies
    BY DEF Policies
  <2>8. edits' # 0
    BY MemoryAssumption DEF PlaceType
  <2>1. PlaceType'
    BY MemoryAssumption DEF PlaceType
  <2>2. SeenType'
    BY <2>0 DEF SeenType
  <2>3. PolicyType'
    BY <2>0, PoliciesGrow DEF PolicyType
  <2>4. IndexType'
    BY DEF IndexType
  <2>5. VersionInv'
    BY <2>0 DEF VersionInv, SeenType, PolicyType, NoPolicy, PlaceType
  <2>6. IndexInv'
    BY <2>8 DEF IndexInv
  <2> QED
    BY <2>1, <2>2, <2>3, <2>4, <2>5, <2>6
<1>4. CASE \E c \in Collections : DropIndex(c)
  <2> USE <1>4 DEF DropIndex, Edit
  <2>0. writes' = writes /\ Policies' = Policies
    BY DEF Policies
  <2>8. edits' # 0
    BY MemoryAssumption DEF PlaceType
  <2>1. PlaceType'
    BY MemoryAssumption DEF PlaceType
  <2>2. SeenType'
    BY <2>0 DEF SeenType
  <2>3. PolicyType'
    BY <2>0 DEF PolicyType, Policies
  <2>4. IndexType'
    BY DEF IndexType
  <2>5. VersionInv'
    BY <2>0 DEF VersionInv, SeenType, PolicyType, NoPolicy, PlaceType
  <2>6. IndexInv'
    BY <2>8 DEF IndexInv
  <2> QED
    BY <2>1, <2>2, <2>3, <2>4, <2>5, <2>6
<1> QED
  BY <1>1, <1>2, <1>3, <1>4

LEMMA StepIInv == IInv /\ [Next]_vars => IInv'
<1> SUFFICES ASSUME IInv, [Next]_vars PROVE IInv'
  OBVIOUS
<1>1. ASSUME NEW p \in Callers, SaveMemory(p) \/ DeleteMemory(p) \/ Request(p) PROVE IInv'
  BY <1>1, RequestIInv, WriteIInv DEF Request
<1>2. CASE Propagate \/ AddRuleSet \/ DeletePolicy \/ \E c \in Collections : DropIndex(c)
  BY <1>2, AdministratorIInv
<1>3. CASE UNCHANGED vars
  <2>1. Policies' = Policies
    BY <1>3 DEF Policies, vars, service
  <2> QED
    BY <1>3, <2>1 DEF vars, service, IInv, PlaceType, SeenType, PolicyType, IndexType, VersionInv, IndexInv
<1> QED
  BY <1>1, <1>2, <1>3 DEF Next

LEMMA InductiveInvariant == Spec => []IInv
  BY InitIInv, StepIInv, PTL DEF Spec

\* Every variable keeps its type; a caller has a policy in hand only between
\* reading and updating it.
THEOREM TypeCorrect == Spec => []TypeOK
<1>1. IInv => TypeOK
  BY DEF IInv, TypeOK, PlaceType, Places, SeenType, PolicyType, IndexType
<1> QED
  BY <1>1, InductiveInvariant, PTL

\* Whatever fails on the way, a memory is only written to an index with the
\* schema, unless an administrator drops the index.
THEOREM WritesAreEnriched == Spec => []EnrichedWhenWriting
<1>1. IInv => EnrichedWhenWriting
  BY DEF IInv, IndexInv, EnrichedWhenWriting
<1> QED
  BY <1>1, InductiveInvariant, PTL
--------------------------------------------------------------------------
\* Only the administrator takes a role out of the policy: two callers that
\* read it at once and both update it do not undo each other's rule.
THEOREM GrantsAreKept == Spec => NoLostGrant
<1> DEFINE Kept == edits' = edits =>
      \A r \in policy.rules :
         \E s \in policy'.rules : s.collection = r.collection /\ r.principals \subseteq s.principals
<1>1. ASSUME IInv, [Next]_vars PROVE [Kept]_vars
  <2>1. CASE policy' = policy
    BY <2>1
  <2>2. ASSUME NEW p \in Callers, UpdatePolicy(p), policy' # policy PROVE Kept
    <3>1. pc[p] = "update_policy" /\ Current(p) /\ Write(With(Role[p], seen[p].rules))
      BY <2>2 DEF UpdatePolicy
    <3>2. seen[p] = policy /\ policy.rules \in SUBSET RuleSets /\ Role[p] \in Principals
      BY <1>1, <3>1, UpdateStarts
    <3>3. policy'.rules = With(Role[p], policy.rules)
      BY <3>1, <3>2 DEF Write
    <3> QED
      BY <3>2, <3>3, WithKeeps
  <2>3. ASSUME NEW p \in Callers, CreatePolicy(p), policy' # policy PROVE Kept
    <3>1. policy.rules = {}
      BY <2>3 DEF CreatePolicy, NameFree, NoPolicy
    <3> QED
      BY <3>1
  <2>4. CASE AddRuleSet \/ DeletePolicy
    BY <1>1, <2>4, MemoryAssumption DEF AddRuleSet, DeletePolicy, Edit, IInv, PlaceType
  <2>5. ASSUME policy' # policy PROVE \/ AddRuleSet \/ DeletePolicy
                                      \/ \E p \in Callers : UpdatePolicy(p) \/ CreatePolicy(p)
    BY <1>1, <2>5 DEF Next, vars, service, Request, SaveMemory, DeleteMemory, Exists, Identify, GetPolicy,
       CreateIndex, WriteMemory, RemoveMemory, Propagate, DropIndex
  <2> QED
    BY <2>1, <2>2, <2>3, <2>4, <2>5
<1> QED
  BY <1>1, InductiveInvariant, PTL DEF Spec, NoLostGrant
==============================================================================
