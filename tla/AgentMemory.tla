----------------------------- MODULE AgentMemory -----------------------------
(***************************************************************************)
(* SaveMemoryTool and DeleteMemoryTool of the OpenSearch server.  A save   *)
(* first makes sure that the memory index exists; on a serverless          *)
(* collection it also writes itself into the data access policy            *)
(* "mcp-memory-access", of which there is one for all collections.  Several*)
(* servers do this at once, and an administrator edits what they share.    *)
(***************************************************************************)
EXTENDS Naturals, FiniteSets

CONSTANTS
  Callers,      \* server processes
  Principals,
  Collections,
  Managed,      \* those that are managed domains, which have no policy
  Role,         \* IAM role of a caller
  Target,       \* collection its OPENSEARCH_URL names
  Admitted,     \* <<role, collection>> pairs other policies admit
  MaxFaults,    \* bound on AWS requests that fail
  MaxEdits      \* bound on what the administrator does

ASSUME MemoryAssumption ==
  /\ Managed \subseteq Collections
  /\ Role \in [Callers -> Principals] /\ Target \in [Callers -> Collections]
  /\ Admitted \subseteq Principals \X Collections
  /\ MaxFaults \in Nat /\ MaxEdits \in Nat

VARIABLES
  pc,         \* the next request of a caller
  seen,       \* the policy it read
  outcome,    \* how its policy step ended
  policy,     \* version and rule sets of mcp-memory-access
  applied,    \* the rule sets in force, which lag behind
  writes,     \* versions given out so far
  index,      \* memory index of a collection
  stored,     \* callers whose memory is in it
  faults, edits

service == <<policy, applied, writes, index, stored>>
vars == <<pc, seen, outcome, service, faults, edits>>
--------------------------------------------------------------------------
RuleSets == [collection : Collections, principals : SUBSET Principals]

Policies == [version : 0..writes, rules : SUBSET RuleSets]

NoPolicy == [version |-> 0, rules |-> {}]

Listed(rules) == UNION {r.principals : r \in rules}

Grants(rules, role, c) == \E r \in rules : r.collection = c /\ role \in r.principals

Allowed(p) == <<Role[p], Target[p]>> \in Admitted \/ Grants(applied, Role[p], Target[p])

Init ==
  /\ pc = [p \in Callers |-> "idle"]
  /\ seen = [p \in Callers |-> NoPolicy]
  /\ outcome = [p \in Callers |-> "none"]
  /\ policy = NoPolicy /\ applied = {} /\ writes = 0
  /\ index = [c \in Collections |-> "absent"]
  /\ stored = [c \in Collections |-> {}]
  /\ faults = 0 /\ edits = 0

Goto(p, step) == pc' = [pc EXCEPT ![p] = step]

Ends(p) == Goto(p, "idle") /\ outcome' = [outcome EXCEPT ![p] = "none"] /\ seen' = [seen EXCEPT ![p] = NoPolicy]

\* The policy step ends, well or not: a failure is logged and passed over.
\* Mutant: the policy that was read is kept.
MutToIndex(p, how) ==
  Goto(p, "create_index") /\ outcome' = [outcome EXCEPT ![p] = how] /\ UNCHANGED seen

ToIndex(p, how) ==
  Goto(p, "create_index") /\ outcome' = [outcome EXCEPT ![p] = how] /\ seen' = [seen EXCEPT ![p] = NoPolicy]

SaveMemory(p) == pc[p] = "idle" /\ Goto(p, "exists") /\ UNCHANGED <<seen, outcome, service, faults, edits>>

DeleteMemory(p) == pc[p] = "idle" /\ Goto(p, "delete") /\ UNCHANGED <<seen, outcome, service, faults, edits>>

\* Any request may fail for a reason of its own; what follows depends on
\* which one it was.
Fault == faults < MaxFaults /\ faults' = faults + 1

NoFault == faults' = faults

\* Mutant: a check that fails ends the call.
MutUnchecked(p) == Goto(p, "idle")

\* "If we can't check, try to create anyway"
Unchecked(p) == Goto(p, IF Target[p] \in Managed THEN "create_index" ELSE "identify")

Exists(p) ==
  /\ pc[p] = "exists"
  /\ \/ Allowed(p) /\ index[Target[p]] # "absent" /\ Goto(p, "write") /\ NoFault
     \/ Allowed(p) /\ index[Target[p]] = "absent" /\ NoFault
          /\ Goto(p, IF Target[p] \in Managed THEN "create_index" ELSE "identify")
     \/ ~Allowed(p) /\ Unchecked(p) /\ NoFault
     \/ Unchecked(p) /\ Fault
  /\ UNCHANGED <<seen, outcome, service, edits>>

\* sts get_caller_identity and batch_get_collection
Identify(p) ==
  /\ pc[p] = "identify"
  /\ \/ Goto(p, "get_policy") /\ NoFault /\ UNCHANGED <<seen, outcome>>
     \/ Ends(p) /\ Fault
  /\ UNCHANGED <<service, edits>>

GetPolicy(p) ==
  /\ pc[p] = "get_policy"
  /\ \/ policy = NoPolicy /\ Goto(p, "create_policy") /\ NoFault /\ UNCHANGED <<seen, outcome>>
     \/ policy # NoPolicy /\ Role[p] \in Listed(policy.rules) /\ ToIndex(p, "covered") /\ NoFault
     \/ policy # NoPolicy /\ Role[p] \notin Listed(policy.rules) /\ NoFault
          /\ Goto(p, "update_policy") /\ seen' = [seen EXCEPT ![p] = policy]
          /\ UNCHANGED outcome
     \/ ToIndex(p, "failed") /\ Fault
  /\ UNCHANGED <<service, edits>>

Write(rules) == policy' = [version |-> writes + 1, rules |-> rules] /\ writes' = writes + 1

\* Mutant: the version that was read is not sent along.
MutCurrent(p) == policy # NoPolicy

\* policyVersion: the service refuses an update of another version.
Current(p) == policy # NoPolicy /\ policy.version = seen[p].version

With(role, rules) == {[r EXCEPT !.principals = @ \cup {role}] : r \in rules}

\* A policy that is gone raises ResourceNotFound, which leads to create_policy.
UpdatePolicy(p) ==
  /\ pc[p] = "update_policy"
  /\ \/ Current(p) /\ Write(With(Role[p], seen[p].rules)) /\ ToIndex(p, "updated") /\ NoFault
     \/ policy # NoPolicy /\ ~Current(p) /\ ToIndex(p, "failed") /\ NoFault /\ UNCHANGED <<policy, writes>>
     \/ policy = NoPolicy /\ Goto(p, "create_policy") /\ seen' = [seen EXCEPT ![p] = NoPolicy]
          /\ NoFault /\ UNCHANGED <<outcome, policy, writes>>
     \/ ToIndex(p, "failed") /\ Fault /\ UNCHANGED <<policy, writes>>
  /\ UNCHANGED <<applied, index, stored, edits>>

NameFree == policy = NoPolicy

CreatePolicy(p) ==
  /\ pc[p] = "create_policy"
  /\ \/ NameFree /\ Write({[collection |-> Target[p], principals |-> {Role[p]}]})
          /\ ToIndex(p, "created") /\ NoFault
     \/ ~NameFree /\ ToIndex(p, "raced") /\ NoFault /\ UNCHANGED <<policy, writes>>
     \/ ToIndex(p, "failed") /\ Fault /\ UNCHANGED <<policy, writes>>
  /\ UNCHANGED <<applied, index, stored, edits>>

\* Mutant: no error of create_index ends the call.
MutRefused(p) == Goto(p, "write") /\ UNCHANGED <<seen, outcome>>

\* Any error but "already exists" is raised.
Refused(p) == Ends(p)

CreateIndex(p) ==
  /\ pc[p] = "create_index"
  /\ \/ Allowed(p) /\ Goto(p, "write") /\ NoFault
          /\ index' = [index EXCEPT ![Target[p]] = IF @ = "absent" THEN "enriched" ELSE @]
          /\ UNCHANGED <<seen, outcome>>
     \/ ~Allowed(p) /\ Refused(p) /\ NoFault /\ UNCHANGED index
     \/ Refused(p) /\ Fault /\ UNCHANGED index
  /\ UNCHANGED <<policy, applied, writes, stored, edits>>

\* client.index; the service creates a missing index itself, without the
\* schema.
WriteMemory(p) ==
  /\ pc[p] = "write"
  /\ Ends(p)
  /\ \/ Allowed(p) /\ NoFault
          /\ index' = [index EXCEPT ![Target[p]] = IF @ = "absent" THEN "plain" ELSE @]
          /\ stored' = [stored EXCEPT ![Target[p]] = @ \cup {p}]
     \/ ~Allowed(p) /\ NoFault /\ UNCHANGED <<index, stored>>
     \/ Fault /\ UNCHANGED <<index, stored>>
  /\ UNCHANGED <<policy, applied, writes, edits>>

\* client.delete of a memory by its id
RemoveMemory(p) ==
  /\ pc[p] = "delete"
  /\ Ends(p)
  /\ \/ Allowed(p) /\ NoFault
          /\ \E m \in Callers : stored' = [stored EXCEPT ![Target[p]] = @ \ {m}]
     \/ ~Allowed(p) /\ NoFault /\ UNCHANGED stored
     \/ Fault /\ UNCHANGED stored
  /\ UNCHANGED <<policy, applied, writes, index, edits>>

Request(p) ==
  Exists(p) \/ Identify(p) \/ GetPolicy(p) \/ UpdatePolicy(p) \/ CreatePolicy(p)
    \/ CreateIndex(p) \/ WriteMemory(p) \/ RemoveMemory(p)
--------------------------------------------------------------------------
\* A policy takes a while to be in force.
Propagate ==
  /\ applied # policy.rules /\ applied' = policy.rules
  /\ UNCHANGED <<pc, seen, outcome, policy, writes, index, stored, faults, edits>>

Edit == edits < MaxEdits /\ edits' = edits + 1 /\ UNCHANGED <<pc, seen, outcome, applied, faults>>

\* The administrator admits roles to a collection, in a policy that he makes
\* if there is none, removes the policy, or drops an index.
AddRuleSet ==
  /\ Edit
  /\ \E r \in RuleSets : Write(policy.rules \cup {r})
  /\ UNCHANGED <<index, stored>>

DeletePolicy == Edit /\ policy # NoPolicy /\ policy' = NoPolicy /\ UNCHANGED <<writes, index, stored>>

DropIndex(c) ==
  /\ Edit /\ index[c] # "absent"
  /\ index' = [index EXCEPT ![c] = "absent"] /\ stored' = [stored EXCEPT ![c] = {}]
  /\ UNCHANGED <<policy, writes>>

Next ==
  \/ \E p \in Callers : SaveMemory(p) \/ DeleteMemory(p) \/ Request(p)
  \/ Propagate \/ AddRuleSet \/ DeletePolicy
  \/ \E c \in Collections : DropIndex(c)

Spec == Init /\ [][Next]_vars

\* A call that was begun goes on, and a policy is in force some day.
FairSpec == Spec /\ WF_vars(Propagate) /\ \A p \in Callers : WF_vars(Request(p))
--------------------------------------------------------------------------
\* Every variable has its type; a caller remembers a policy only between
\* reading and updating it.
TypeOK ==
  /\ pc \in [Callers -> {"idle", "exists", "identify", "get_policy", "update_policy", "create_policy",
                         "create_index", "write", "delete"}]
  /\ outcome \in [Callers -> {"none", "covered", "updated", "created", "raced", "failed"}]
  /\ seen \in [Callers -> Policies]
  /\ \A p \in Callers : seen[p] # NoPolicy <=> pc[p] = "update_policy"
  /\ policy \in Policies
  /\ applied \subseteq RuleSets
  /\ index \in [Collections -> {"absent", "enriched", "plain"}]
  /\ stored \in [Collections -> SUBSET Callers]
  /\ faults \in 0..MaxFaults /\ edits \in 0..MaxEdits

\* As long as the administrator stays away, a memory is only ever written to
\* an index with semantic enrichment, whatever fails on the way to it.
EnrichedWhenWriting ==
  edits = 0 => \A p \in Callers : pc[p] = "write" => index[Target[p]] = "enriched"

\* Only the administrator takes a role out of a rule set: of two callers that
\* change the policy at once, neither undoes what the other wrote.
NoLostGrant ==
  [][edits' = edits =>
       \A r \in policy.rules :
         \E s \in policy'.rules : s.collection = r.collection /\ r.principals \subseteq s.principals]_vars

\* A caller that loses a race for the policy is not left out for ever: if it
\* goes on saving, its role is listed some day.
ListedWhenSaving ==
  \A p \in Callers :
    (Target[p] \notin Managed /\ []<>(pc[p] = "exists"))
      => <>(Role[p] \in Listed(policy.rules) \/ <<Role[p], Target[p]>> \in Admitted)

\* The docstring of _ensure_aoss_data_access_policy: it grants the caller's
\* role access to the memory index within the collection.
GrantsThisCollection ==
  edits = 0 =>
    \A p \in Callers :
      outcome[p] \in {"covered", "updated", "created"} => Grants(policy.rules, Role[p], Target[p])
=============================================================================
