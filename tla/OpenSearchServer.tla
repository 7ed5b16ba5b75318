-------------------------- MODULE OpenSearchServer --------------------------
(***************************************************************************)
(* The OpenSearch server from the start of its container to the end of a   *)
(* call: the credentials are read once, the lock is installed, tools are   *)
(* generated, named and filtered, and then every call builds a client of   *)
(* its own, asks the cluster it goes to for its version, and sends its     *)
(* request.  Meanwhile passwords are rotated, clusters are upgraded and    *)
(* the process is stopped and started again.  Composes ToolFilter,         *)
(* OpenSearchAuth and ApiEndpoint.                                         *)
(***************************************************************************)
EXTENDS ToolFilter, OpenSearchAuth, ApiEndpoint

CONSTANTS
  Deployments,     \* environments and configuration files
  Requests,        \* arguments and headers of calls
  MaxRotations     \* bound on the passwords after the placeholder

ASSUME RotationsAssumption == MaxRotations \in Nat

\* Two switches of a deployment are copied into the state of the process.
ASSUME DeploymentsAssumption == \A d \in Deployments : d.force \in BOOLEAN /\ d.envWrite \in BOOLEAN

VARIABLES
  deployment,
  secret,          \* password in Secrets Manager: 0 is the placeholder
  version,         \* version[c] of a cluster
  pc,
  held,            \* password read at the start, 0 if none
  locked,          \* is _create_opensearch_client wrapped
  registry,        \* TOOL_REGISTRY with the names of the configuration
  writable,        \* _resolved_allow_write_setting
  offered,         \* enabled_tools: the tool behind each name
  call

world == <<deployment, secret, version>>
process == <<held, locked, registry, writable, offered>>
vars == <<world, pc, process, call>>

Clusters == {"home", "other"}
NoCall == [phase |-> "none"]

\* Endpoints of the generated tools in the API specification.
Endpoints(t) == IF t = "ExplainTool" THEN << {"index", "id"} >> ELSE << {}, {"index"} >>
IsGenerated(t) == t \in Generated[1] \cup Generated[2]

\* The tools that do not call check_tool_compatibility.
Unchecked == {"GenericOpenSearchApiTool"} \cup Memory \cup Skills
--------------------------------------------------------------------------
\* The identity a client talks to a cluster with, and whether it is let in.
Target(args, headers) ==
  IF (Says(args, "url") /\ ~deployment.multi) \/ "url" \in Heeded(deployment, headers)
  THEN "other" ELSE "home"

Identity(args, headers) ==
  LET p == Parameters(deployment, held > 0, args, headers)
  IN  IF locked THEN Neutralised(p) ELSE p

KnownAt(c, source) ==
  CASE source = "secret" -> c = "home" /\ held = secret
    [] source \in {"env", "file"} -> c = "home"
    [] OTHER -> TRUE

\* What IAM lets in is up to the cluster.
LetIn(args, headers) ==
  LET p == Identity(args, headers)
  IN  CASE Branch(p, deployment) = "basic" -> {p.user = p.password /\ KnownAt(Target(args, headers), p.user)}
        [] Branch(p, deployment) = "none" -> {deployment.noAuth /\ Target(args, headers) = "home"}
        [] Branch(p, deployment) = "error" -> {FALSE}
        [] OTHER -> BOOLEAN

\* get_opensearch_version: every failure is an unknown version.
Versions(args, headers) ==
  {Unknown} \cup (IF TRUE \in LetIn(args, headers) THEN {version[Target(args, headers)]} ELSE {})
--------------------------------------------------------------------------
Blank ==
  /\ held = 0 /\ locked = FALSE /\ writable = TRUE
  /\ registry = [t \in Static(deployment.memory) |-> t]
  /\ offered = <<>> /\ call = NoCall

Init ==
  /\ deployment \in Deployments
  /\ secret = 0 /\ version \in [Clusters -> {2, 3}]
  /\ pc = "down"
  /\ Blank

Rotate ==
  /\ secret < MaxRotations
  /\ secret' = secret + 1
  /\ UNCHANGED <<deployment, version, pc, process, call>>

Upgrade(c) ==
  /\ version[c] = 2
  /\ version' = [version EXCEPT ![c] = 3]
  /\ UNCHANGED <<deployment, secret, pc, process, call>>

Start ==
  /\ pc = "down"
  /\ pc' = IF deployment.container THEN "credentials" ELSE "clusters"
  /\ UNCHANGED <<world, process, call>>

AsksSecret == ~deployment.noAuth /\ deployment.explicit # "both" /\ deployment.secretName

\* Mutant: no start without a password.
MutLoadCredentials ==
  /\ pc = "credentials"
  /\ held' = IF AsksSecret THEN secret ELSE 0
  /\ pc' = IF AsksSecret /\ secret = 0 THEN "crashed" ELSE "lock"
  /\ UNCHANGED <<world, locked, registry, writable, offered, call>>

\* Best effort: a failed request and a placeholder leave the environment as it is.
LoadCredentials ==
  /\ pc = "credentials"
  /\ held' \in IF AsksSecret THEN {0, secret} ELSE {0}
  /\ pc' = "lock"
  /\ UNCHANGED <<world, locked, registry, writable, offered, call>>

Lock ==
  /\ pc = "lock"
  /\ locked' = deployment.force
  /\ pc' = "clusters"
  /\ UNCHANGED <<world, held, registry, writable, offered, call>>

LoadClusters ==
  /\ pc = "clusters"
  /\ pc' = IF deployment.multi /\ deployment.malformed = "clusters" THEN "crashed" ELSE "generate 1"
  /\ UNCHANGED <<world, process, call>>

\* A file of the specification that cannot be fetched ends the generation.
Generate(i) ==
  /\ pc = <<"generate 1", "generate 2">>[i]
  /\ \/ /\ registry' = [t \in Generated[i] \cup DOMAIN registry |-> IF t \in Generated[i] THEN t ELSE registry[t]]
        /\ pc' = <<"generate 2", "customise">>[i]
     \/ /\ pc' = "customise"
        /\ UNCHANGED registry
  /\ UNCHANGED <<world, held, locked, writable, offered, call>>

Customise ==
  /\ pc = "customise"
  /\ IF Valid(deployment.names, DOMAIN registry)
     THEN pc' = "filter" /\ registry' = Customised(registry, deployment.names)
     ELSE pc' = "crashed" /\ UNCHANGED registry
  /\ UNCHANGED <<world, held, locked, writable, offered, call>>

Offer ==
  /\ pc = "filter"
  /\ writable' = Resolved(deployment)
  /\ \E v \in IF deployment.multi THEN {Unknown} ELSE Versions(<<>>, {}) :
       offered' = Offered(registry, deployment, v)
  /\ pc' = "serving"
  /\ UNCHANGED <<world, held, locked, registry, call>>

Stop ==
  /\ pc \in {"serving", "crashed"}
  /\ pc' = "down"
  /\ held' = 0 /\ locked' = FALSE /\ writable' = TRUE
  /\ registry' = [t \in Static(deployment.memory) |-> t]
  /\ offered' = <<>> /\ call' = NoCall
  /\ UNCHANGED world
--------------------------------------------------------------------------
\* A call the schema of its tool lets through; only the generic tool takes a
\* method, and only the generated ones take path parameters.
Fits(t, r) ==
  /\ r.write => t \in {"GenericOpenSearchApiTool", "CreateQuerySetTool"} \cup Memory
  /\ r.params # {} => IsGenerated(t)
  /\ IsGenerated(t) => RequiredPath(Endpoints(t)) \subseteq r.params
                       /\ r.params \subseteq UNION Range(Endpoints(t))

Call(name, r) ==
  /\ pc = "serving" /\ call.phase = "none"
  /\ name \in DOMAIN offered
  /\ Fits(offered[name], r)
  /\ call' = [phase |-> "called", tool |-> offered[name], request |-> r, seen |-> Unknown,
              found |-> Unknown, via |-> "", against |-> Unknown, path |-> {}, outcome |-> ""]
  /\ UNCHANGED <<world, pc, process>>

Ends(outcome) == call' = [call EXCEPT !.phase = "done", !.outcome = outcome]

\* The gate inside the generic tool.
Deny ==
  /\ call.phase = "called"
  /\ call.tool = "GenericOpenSearchApiTool" /\ call.request.write /\ ~writable
  /\ Ends("denied")
  /\ UNCHANGED <<world, pc, process>>

Pass ==
  /\ call.phase = "called"
  /\ call.tool \in Unchecked \cup MultiOnly
  /\ ~(call.tool = "GenericOpenSearchApiTool" /\ call.request.write /\ ~writable)
  /\ IF call.tool \in MultiOnly THEN Ends("ok") ELSE call' = [call EXCEPT !.phase = "checked"]
  /\ UNCHANGED <<world, pc, process>>

\* The cluster the call goes to.  call.found, its version at the time of the
\* check, is history: no step reads it.
Destination == Target(call.request.args, call.request.headers)

\* Mutant: the version is that of the cluster the server started with.
MutCheck ==
  /\ call.phase = "called"
  /\ call.tool \notin Unchecked \cup MultiOnly
  /\ \E v \in Versions(<<>>, {}) :
       IF Compatible(call.tool, v)
       THEN call' = [call EXCEPT !.phase = "checked", !.seen = v, !.found = version[Destination]]
       ELSE Ends("unsupported")
  /\ UNCHANGED <<world, pc, process>>

\* check_tool_compatibility asks the cluster this call goes to.
Check ==
  /\ call.phase = "called"
  /\ call.tool \notin Unchecked \cup MultiOnly
  /\ \E v \in Versions(call.request.args, call.request.headers) :
       IF Compatible(call.tool, v)
       THEN call' = [call EXCEPT !.phase = "checked", !.seen = v, !.found = version[Destination]]
       ELSE Ends("unsupported")
  /\ UNCHANGED <<world, pc, process>>

Send ==
  /\ call.phase = "checked"
  /\ \E in \in LetIn(call.request.args, call.request.headers) :
       LET via == Branch(Identity(call.request.args, call.request.headers), deployment)
           path == IF IsGenerated(call.tool)
                   THEN Select(Endpoints(call.tool), call.request.params) ELSE {}
       IN  call' = [call EXCEPT !.phase = "done", !.via = via, !.path = path,
                                !.against = IF in THEN version[Destination] ELSE Unknown,
                                !.outcome = IF in THEN "ok" ELSE "refused"]
  /\ UNCHANGED <<world, pc, process>>

Return ==
  /\ call.phase = "done"
  /\ call' = NoCall
  /\ UNCHANGED <<world, pc, process>>
--------------------------------------------------------------------------
StartUp ==
  \/ LoadCredentials \/ Lock \/ LoadClusters \/ Generate(1) \/ Generate(2) \/ Customise \/ Offer

Next ==
  \/ Rotate
  \/ \E c \in Clusters : Upgrade(c)
  \/ Start \/ StartUp \/ Stop
  \/ \E name \in DOMAIN offered, r \in Requests : Call(name, r)
  \/ Deny \/ Pass \/ Check \/ Send \/ Return

\* Every request of the start-up has a time-out, and nothing else blocks it.
Spec == Init /\ [][Next]_vars /\ WF_vars(StartUp)
--------------------------------------------------------------------------
Outcomes == {"", "ok", "denied", "unsupported", "refused"}

CallOK ==
  /\ call.phase \in {"called", "checked", "done"}
  /\ call.tool \in Range(offered) /\ call.request \in Requests
  /\ {call.seen, call.found, call.against} \subseteq {Unknown, 2, 3}
  /\ call.via \in Branches \cup {""} /\ call.outcome \in Outcomes
  /\ call.path \subseteq {"index", "id"}

\* Every variable has its type; a tool that is offered is registered, and the
\* memory tools only are when they are switched on.
TypeOK ==
  /\ deployment \in Deployments
  /\ secret \in 0..MaxRotations /\ held \in 0..secret
  /\ version \in [Clusters -> {2, 3}]
  /\ pc \in {"down", "credentials", "lock", "clusters", "generate 1", "generate 2", "customise",
             "filter", "serving", "crashed"}
  /\ locked \in BOOLEAN /\ writable \in BOOLEAN
  /\ DOMAIN registry \subseteq Tools
  /\ ~deployment.memory => Memory \cap DOMAIN registry = {}
  /\ Range(offered) \subseteq DOMAIN registry
  /\ call = NoCall \/ CallOK

Done == call.phase = "done"
Sent == Done /\ call.via \notin {"", "error"}
Writes == call.request.write \/ call.tool = "CreateQuerySetTool"

\* The deployments whose filter does not do what the setting says: several
\* clusters, settings of a file that leave allow_write out, a null list.
Unfiltered(d) == d.multi \/ WriteFilterOff(d) \/ d.malformed = "null categories"

\* While writing is switched off no request writes, whichever tool it comes
\* from, but for the memory and the categories that are exempted by name.
ReadOnlyHolds ==
  Sent /\ Writes /\ ~writable =>
    \/ call.tool \in Memory \cup InCategories(registry, Exempted(deployment))
    \/ Unfiltered(deployment)

\* A cluster only carries out what its version supports, also when the call
\* names another cluster than the one the tools were filtered for, unless
\* the version could not be read just before.  A tool is never too new for
\* the cluster; it is too old only when that very cluster was upgraded
\* between the check and the request.
SupportedWhenSent ==
  Sent /\ call.tool \notin Unchecked /\ call.seen # Unknown /\ call.outcome = "ok" =>
    \/ Compatible(call.tool, call.against)
    \/ call.found < call.against /\ MaxVersion(call.tool) < call.against

\* A call that switches authentication off, or blanks half of the credentials:
\* without a pair the session of the container is used.
Opens(args) == Says(args, "no_auth") \/ Blanks(args, "username") \/ Blanks(args, "password")

\* In a locked container nothing a call or its headers bring leads to a role,
\* to keys or to a token, and with a password from the secret every request is
\* made with basic authentication, but for the calls just named.
LockHolds ==
  Sent /\ locked =>
    /\ call.via \in {"none", "basic", "session"}
    /\ held > 0 /\ ~Opens(call.request.args) => call.via = "basic"

Plain(r) == DOMAIN r.args = {} /\ r.headers = {}

\* A container that read the password that is in force, and that is locked or
\* has no role to assume, serves every call that brings nothing of its own,
\* and a generated tool addresses exactly what the call names.
OrdinaryCallsWork ==
  /\ Done /\ Plain(call.request)
  /\ deployment.container /\ deployment.url /\ (locked \/ ~deployment.iam)
  /\ held > 0 /\ held = secret
  =>
    /\ call.outcome # "refused"
    /\ call.outcome = "ok" => call.path = call.request.params

\* The container starts whatever is wrong with the secret, the specification
\* or the cluster, so that the gateway can list its tools.
ContainerStarts == pc = "credentials" ~> pc = "serving"
============================================================================
