----------------------- MODULE OpenSearchServer_proofs -----------------------
(***************************************************************************)
(* Theorems about OpenSearchServer, for every set of deployments and of    *)
(* requests.  What the run checks of a finished call follows from what the *)
(* process remembers on the way: the gate the call passed, the version it  *)
(* was told, and how the tools on offer were chosen.                       *)
(***************************************************************************)
EXTENDS OpenSearchServer, FiniteSetTheorems, TLAPS

\* The type invariant, by what its parts are about.
WorldType ==
  /\ deployment \in Deployments
  /\ secret \in 0..MaxRotations
  /\ version \in [Clusters -> {2, 3}]

ProcessType ==
  /\ pc \in {"down", "credentials", "lock", "clusters", "generate 1", "generate 2", "customise",
             "filter", "serving", "crashed"}
  /\ held \in 0..secret
  /\ locked \in BOOLEAN /\ writable \in BOOLEAN

RegistryType ==
  /\ DOMAIN registry \subseteq Tools
  /\ ~deployment.memory => Memory \cap DOMAIN registry = {}
  /\ Range(offered) \subseteq DOMAIN registry

Calls ==
  [phase : {"called", "checked", "done"}, tool : Tools, request : Requests,
   seen : {Unknown, 2, 3}, found : {Unknown, 2, 3}, via : Branches \cup {""}, against : {Unknown, 2, 3},
   path : SUBSET {"index", "id"}, outcome : Outcomes]

CallType == call = NoCall \/ (call \in Calls /\ call.tool \in Range(offered))

\* Tools are offered, and called, only by a process that has started.
ServingInv == pc # "serving" => offered = <<>> /\ call = NoCall

\* The password is asked for where authentication is on.
HeldInv == held > 0 => ~deployment.noAuth

\* A tool that only writes is on offer when the filter is off, or by name.
OfferInv ==
  ~Unfiltered(deployment) /\ ~writable =>
    Range(offered) \cap WriteOnly \subseteq InCategories(registry, Exempted(deployment))

To == Destination
As == Identity(call.request.args, call.request.headers)

\* A call is one its schema let through ...
FitsInv == call # NoCall => Fits(call.tool, call.request)

\* ... it passed the gate before it was sent ...
Sends == call # NoCall /\ (call.phase = "checked" \/ call.via # "")

GateInv ==
  Sends => /\ ~(call.tool = "GenericOpenSearchApiTool" /\ call.request.write /\ ~writable)
           /\ call.tool \notin MultiOnly

\* ... the version it saw was that its cluster had then, and versions only
\* grow ...
SeenInv ==
  call # NoCall /\ call.phase = "checked" /\ call.tool \notin Unchecked =>
    /\ Compatible(call.tool, call.seen)
    /\ call.seen # Unknown => call.found = call.seen /\ call.seen <= version[To]

\* ... and it was sent with the identity the process gives it.
SentInv ==
  call # NoCall =>
    /\ call.phase # "done" => call.via = "" /\ call.path = {}
    /\ call.via # "" => call.via = Branch(As, deployment)

IInv ==
  /\ WorldType /\ ProcessType /\ RegistryType /\ CallType
  /\ ServingInv /\ HeldInv /\ OfferInv
  /\ FitsInv /\ GateInv /\ SeenInv /\ SentInv
  /\ SupportedWhenSent /\ OrdinaryCallsWork
--------------------------------------------------------------------------
\* The nine tools, one by one.
LEMMA ToolsAre ==
  /\ DOMAIN Order = 1..9
  /\ Tools = {"DataDistributionTool", "SaveMemoryTool", "SearchIndexTool", "CreateQuerySetTool",
              "GenericOpenSearchApiTool", "ListClustersTool", "ClusterHealthTool", "CountTool",
              "ExplainTool"}
<1>1. DOMAIN Order = 1..9
  BY DEF Order
<1>2. Tools = {Order[i] : i \in 1..9}
  BY <1>1 DEF Tools, Range
<1>3. 1..9 = {1, 2, 3, 4, 5, 6, 7, 8, 9}
  OBVIOUS
<1> QED
  BY <1>1, <1>2, <1>3 DEF Order

\* The first and the last of some tools is one of them.
LEMMA FirstAndLast ==
  ASSUME NEW S \in SUBSET DOMAIN Order, S # {}
  PROVE  Min(S) \in S /\ Max(S) \in S
<1>1. \A n \in 0..9 : (\E x \in S : x <= n) => \E x \in S : \A y \in S : x <= y
  BY ToolsAre
<1>2. \A n \in 0..9 : (\E x \in S : x >= n) => \E x \in S : \A y \in S : x >= y
  BY ToolsAre
<1> QED
  BY <1>1, <1>2, ToolsAre DEF Min, Max

\* Names that a configuration file gives add no tool and take none away.
LEMMA CustomisedKeeps ==
  ASSUME NEW reg, NEW custom
  PROVE  DOMAIN Customised(reg, custom) = DOMAIN reg
  BY DEF Customised

LEMMA StaticTools ==
  ASSUME NEW memory
  PROVE  /\ DOMAIN [t \in Static(memory) |-> t] \subseteq Tools
         /\ ~memory => Memory \cap DOMAIN [t \in Static(memory) |-> t] = {}
  BY DEF Static

LEMMA GeneratedTools ==
  ASSUME NEW i \in {1, 2}
  PROVE  Generated[i] \subseteq Tools /\ Memory \cap Generated[i] = {}
  BY ToolsAre DEF Generated, Memory

LEMMA NamedTools ==
  ASSUME NEW S, NEW t \in Tools
  PROVE  \E i \in DOMAIN Order : Order[i] = t
  BY ToolsAre DEF Tools, Range

\* What is shown is registered; a tool that only writes is shown when it is
\* exempted by name, or the filter does not do what the setting says.
Shown(reg, d, v) ==
  IF d.multi THEN DOMAIN reg \ Memory
  ELSE {t \in DOMAIN Filtered(reg, d) \ MultiOnly : Compatible(t, v)}

LEMMA ShownTools ==
  ASSUME NEW reg, NEW d, NEW v
  PROVE  /\ Shown(reg, d, v) \subseteq DOMAIN reg
         /\ ~Unfiltered(d) => Shown(reg, d, v) \cap WriteOnly \subseteq InCategories(reg, Exempted(d))
<1> DEFINE exempt == InCategories(reg, Exempted(d))
<1> HIDE DEF exempt
<1>1. DOMAIN WriteFiltered(reg, d) =
        IF WriteFilterOff(d) THEN DOMAIN reg ELSE (DOMAIN reg \ WriteOnly) \cup (exempt \cap DOMAIN reg)
  BY DEF WriteFiltered, Restrict, exempt
<1>2. DOMAIN Filtered(reg, d) \subseteq
        IF d.malformed = "null categories" THEN DOMAIN reg ELSE DOMAIN WriteFiltered(reg, d)
  <2> DEFINE written == WriteFiltered(reg, d)
             enabled == InCategories(reg, EnabledCategories(reg, d)) \cup Named(reg, d.enable)
             disabled == Named(reg, d.disable)
             kept == (DOMAIN written \cap enabled) \ disabled
  <2>1. CASE d.malformed = "null categories"
    BY <2>1 DEF Filtered
  <2>2. CASE d.malformed = "bad pattern"
    BY <2>2 DEF Filtered
  <2>3. CASE d.malformed \notin {"null categories", "bad pattern"}
    <3>1. Filtered(reg, d) = Restrict(written, kept)
      BY <2>3 DEF Filtered
    <3> HIDE DEF written, enabled, disabled
    <3>2. DOMAIN Filtered(reg, d) = kept
      BY <3>1 DEF Restrict
    <3> QED
      BY <3>2, <2>3 DEF written
  <2> QED
    BY <2>1, <2>2, <2>3
<1> QED
  BY <1>1, <1>2 DEF Shown, Unfiltered, exempt

\* Every name on offer leads to a tool that is shown.
LEMMA OfferedTools ==
  ASSUME NEW reg, NEW d, NEW v, DOMAIN reg \subseteq Tools
  PROVE  Range(Offered(reg, d, v)) \subseteq Shown(reg, d, v)
<1> DEFINE shown == Shown(reg, d, v)
           behind(name) == {i \in DOMAIN Order : Order[i] \in shown /\ reg[Order[i]] = name}
           tool(name) == Order[IF d.multi THEN Min(behind(name)) ELSE Max(behind(name))]
<1>1. Offered(reg, d, v) = [name \in {reg[t] : t \in shown} |-> tool(name)]
  BY DEF Offered, Shown
<1>2. ASSUME NEW t \in shown
      PROVE  tool(reg[t]) \in shown
  <2>1. t \in Tools
    BY ShownTools
  <2>2. behind(reg[t]) # {} /\ behind(reg[t]) \in SUBSET DOMAIN Order
    BY <2>1, NamedTools
  <2>3. Min(behind(reg[t])) \in behind(reg[t]) /\ Max(behind(reg[t])) \in behind(reg[t])
    <3> HIDE DEF behind
    <3> QED
      BY <2>2, FirstAndLast
  <2> QED
    BY <2>3
<1> QED
  <2> HIDE DEF tool, shown
  <2>1. Range(Offered(reg, d, v)) = {tool(name) : name \in {reg[t] : t \in shown}}
    BY <1>1 DEF Range
  <2> QED
    BY <2>1, <1>2 DEF shown
--------------------------------------------------------------------------
LEMMA BranchType ==
  ASSUME NEW p, NEW d
  PROVE  Branch(p, d) \in Branches
<1>1. CASE ~p.url
  BY <1>1 DEF Branch, Branches
<1>2. CASE p.url /\ p.noAuth
  BY <1>2 DEF Branch, Branches
<1>3. CASE p.url /\ ~p.noAuth /\ p.bearer
  BY <1>3 DEF Branch, Branches
<1>4. CASE p.url /\ ~p.noAuth /\ ~p.bearer /\ p.awsKeys /\ p.region
  BY <1>4 DEF Branch, Branches
<1>5. CASE p.url /\ ~p.noAuth /\ ~p.bearer /\ ~(p.awsKeys /\ p.region)
  BY <1>5 DEF Branch, Branches
<1> QED
  BY <1>1, <1>2, <1>3, <1>4, <1>5

\* Where no role, keys or token are left, a pair is used when there is one.
LEMMA WithoutIam ==
  ASSUME NEW p, NEW d, ~p.bearer, ~p.awsKeys, ~p.iam
  PROVE  /\ Branch(p, d) \in {"error", "none", "basic", "session"}
         /\ ~p.noAuth /\ p.user # Absent /\ p.password # Absent => Branch(p, d) \in {"error", "basic"}
         /\ p.url /\ ~p.noAuth /\ p.user # Absent /\ p.password # Absent => Branch(p, d) = "basic"
<1>1. CASE ~p.url
  BY <1>1 DEF Branch
<1>2. CASE p.url /\ p.noAuth
  BY <1>2 DEF Branch
<1>3. CASE p.url /\ ~p.noAuth
  BY <1>3 DEF Branch
<1> QED
  BY <1>1, <1>2, <1>3

\* What the environment, the file, a call and its headers come to.
Settled(p, d, has, args, headers) ==
  /\ {"user", "password", "noAuth", "iam", "bearer", "awsKeys", "url"} \subseteq DOMAIN p
  /\ p.user = IF "basic" \in Heeded(d, headers) THEN "header"
              ELSE IF d.multi THEN "file"
              ELSE IF "username" \in DOMAIN args THEN args["username"]
              ELSE FromEnvironment(d, has).user
  /\ p.password = IF "basic" \in Heeded(d, headers) THEN "header"
                  ELSE IF d.multi THEN "file"
                  ELSE IF "password" \in DOMAIN args THEN args["password"]
                  ELSE FromEnvironment(d, has).password
  /\ p.noAuth <=> ~d.multi /\ (Says(args, "no_auth") \/ (d.noAuth /\ ~Blanks(args, "no_auth")))
  /\ p.iam <=> IF d.multi THEN d.iam ELSE Says(args, "iam_arn") \/ (d.iam /\ ~Blanks(args, "iam_arn"))
  /\ p.url <=> \/ d.multi
               \/ Says(args, "url") \/ (d.url /\ ~Blanks(args, "url"))
               \/ "url" \in Heeded(d, headers)
  /\ p.bearer <=> "bearer" \in Heeded(d, headers)
  /\ p.awsKeys <=> "aws_keys" \in Heeded(d, headers)

LEMMA ParametersOf ==
  ASSUME NEW d, NEW has, NEW args, NEW headers
  PROVE  Settled(Parameters(d, has, args, headers), d, has, args, headers)
<1>1. CASE d.multi
  <2>1. Parameters(d, has, args, headers) = WithHeaders(FromFile(d), Heeded(d, headers))
    BY <1>1 DEF Parameters
  <2> QED
    BY <1>1, <2>1 DEF WithHeaders, FromFile, Settled
<1>2. CASE ~d.multi
  <2> DEFINE e == FromEnvironment(d, has)
             now(field, before) == Says(args, field) \/ (before /\ ~Blanks(args, field))
             o == [user |-> IF "username" \in DOMAIN args THEN args["username"] ELSE e.user,
                   password |-> IF "password" \in DOMAIN args THEN args["password"] ELSE e.password,
                   noAuth |-> now("no_auth", d.noAuth), iam |-> now("iam_arn", d.iam),
                   region |-> now("region", d.region), bearer |-> FALSE, awsKeys |-> FALSE,
                   url |-> now("url", d.url)]
             u == IF has THEN "secret" ELSE IF d.explicit # "none" THEN "env" ELSE Absent
             w == IF has THEN "secret" ELSE IF d.explicit = "both" THEN "env" ELSE Absent
             name == IF "username" \in DOMAIN args THEN args["username"] ELSE e.user
             word == IF "password" \in DOMAIN args THEN args["password"] ELSE e.password
  <2>1. Overridden(e, args) = o
    <3>1. e = [user |-> u, password |-> w, noAuth |-> d.noAuth, iam |-> d.iam, region |-> d.region,
               bearer |-> FALSE, awsKeys |-> FALSE, url |-> d.url]
      BY DEF FromEnvironment
    <3>2. Overridden(e, args) =
            [e EXCEPT !.user = name, !.password = word, !.noAuth = now("no_auth", e.noAuth),
                      !.iam = now("iam_arn", e.iam), !.region = now("region", e.region),
                      !.url = now("url", e.url)]
      <4> HIDE DEF e
      <4> QED
        BY Zenon DEF Overridden
    <3>4. e.noAuth = d.noAuth /\ e.iam = d.iam /\ e.region = d.region /\ e.url = d.url
      BY <3>1
    <3> HIDE DEF e, u, w, now, name, word
    <3>3. o = [user |-> name, password |-> word, noAuth |-> now("no_auth", d.noAuth),
               iam |-> now("iam_arn", d.iam), region |-> now("region", d.region),
               bearer |-> FALSE, awsKeys |-> FALSE, url |-> now("url", d.url)]
      BY DEF name, word
    <3> QED
      BY ZenonT(30), <3>1, <3>2, <3>3, <3>4
  <2>2. Parameters(d, has, args, headers) = WithHeaders(o, Heeded(d, headers))
    BY <1>2, <2>1 DEF Parameters
  <2> HIDE DEF e, now
  <2> DEFINE h == Heeded(d, headers)
             q == WithHeaders(o, h)
  <2>3. /\ DOMAIN q = {"user", "password", "noAuth", "iam", "region", "bearer", "awsKeys", "url"}
        /\ q.user = IF "basic" \in h THEN "header" ELSE o.user
        /\ q.password = IF "basic" \in h THEN "header" ELSE o.password
        /\ q.noAuth = o.noAuth /\ q.iam = o.iam
        /\ q.url = (o.url \/ "url" \in h)
        /\ q.bearer = ("bearer" \in h) /\ q.awsKeys = ("aws_keys" \in h)
    <3> HIDE DEF e, now, h
    <3> QED
      BY DEF WithHeaders
  <2>4. /\ o.user = IF "username" \in DOMAIN args THEN args["username"] ELSE e.user
        /\ o.password = IF "password" \in DOMAIN args THEN args["password"] ELSE e.password
        /\ o.noAuth = now("no_auth", d.noAuth) /\ o.iam = now("iam_arn", d.iam)
        /\ o.url = now("url", d.url)
    <3> HIDE DEF e, now
    <3> QED
      OBVIOUS
  <2>5. Parameters(d, has, args, headers) = q
    BY <2>2 DEF h
  <2> HIDE DEF o, q
  <2>6. Settled(q, d, has, args, headers)
    BY <1>2, <2>3, <2>4 DEF Settled, e, now, h
  <2> QED
    BY <2>5, <2>6
<1> QED
  BY <1>1, <1>2

\* A generated tool addresses exactly the parameters a call gives, when they
\* are those its schema requires and knows.
LEMMA SelectsGiven ==
  ASSUME NEW t, NEW params,
         RequiredPath(Endpoints(t)) \subseteq params,
         params \subseteq UNION Range(Endpoints(t))
  PROVE  Select(Endpoints(t), params) = params /\ params \subseteq {"index", "id"}
<1>1. CASE t = "ExplainTool"
  <2>1. Endpoints(t) = << {"index", "id"} >>
    BY <1>1 DEF Endpoints
  <2>2. Range(Endpoints(t)) = { {"index", "id"} }
    BY <2>1 DEF Range
  <2>3. params = {"index", "id"}
    BY <2>2 DEF RequiredPath
  <2>4. {i \in DOMAIN Endpoints(t) : Endpoints(t)[i] \subseteq params} = {1}
    BY <2>1, <2>3
  <2>5. Cardinality(Endpoints(t)[1] \cap params) \in Nat
    <3>1. {"index", "id"} = {"index"} \cup {"id"} /\ Endpoints(t)[1] \cap params = {"index", "id"}
      BY <2>1, <2>3
    <3>2. IsFiniteSet({"index"}) /\ IsFiniteSet({"index"} \cup {"id"})
      BY FS_Singleton, FS_AddElement, Zenon
    <3> QED
      BY <3>1, <3>2, FS_CardinalityType
  <2>6. {i \in {1} : \A j \in {1} : Cardinality(Endpoints(t)[j] \cap params)
                                      <= Cardinality(Endpoints(t)[i] \cap params)} = {1}
    BY <2>5
  <2>7. Select(Endpoints(t), params) = Endpoints(t)[Min({1})]
    BY <2>4, <2>6 DEF Select
  <2> QED
    BY <2>1, <2>3, <2>7 DEF Min
<1>2. CASE t # "ExplainTool"
  <2>1. Endpoints(t) = << {}, {"index"} >>
    BY <1>2 DEF Endpoints
  <2>2. Range(Endpoints(t)) = { {}, {"index"} }
    BY <2>1 DEF Range
  <2>3. CASE params = {}
    <3>1. {i \in DOMAIN Endpoints(t) : Endpoints(t)[i] \subseteq params} = {1}
      BY <2>1, <2>3
    <3>2. Cardinality(Endpoints(t)[1] \cap params) = 0
      BY <2>3, FS_EmptySet
    <3>3. {i \in {1} : \A j \in {1} : Cardinality(Endpoints(t)[j] \cap params)
                                        <= Cardinality(Endpoints(t)[i] \cap params)} = {1}
      BY <3>2
    <3>4. Select(Endpoints(t), params) = Endpoints(t)[Min({1})]
      BY <3>1, <3>3 DEF Select
    <3> QED
      BY <2>1, <2>3, <3>4 DEF Min
  <2>4. CASE params = {"index"}
    <3>1. {i \in DOMAIN Endpoints(t) : Endpoints(t)[i] \subseteq params} = {1, 2}
      BY <2>1, <2>4
    <3>2. Cardinality(Endpoints(t)[1] \cap params) = 0 /\ Cardinality(Endpoints(t)[2] \cap params) = 1
      <4>1. Endpoints(t)[1] \cap params = {} /\ Endpoints(t)[2] \cap params = {"index"}
        BY <2>1, <2>4
      <4> QED
        BY <4>1, FS_EmptySet, FS_Singleton
    <3>3. {i \in {1, 2} : \A j \in {1, 2} : Cardinality(Endpoints(t)[j] \cap params)
                                              <= Cardinality(Endpoints(t)[i] \cap params)} = {2}
      <4> DEFINE used(i) == Cardinality(Endpoints(t)[i] \cap params)
      <4>1. used(1) = 0 /\ used(2) = 1
        BY <3>2
      <4> HIDE DEF used
      <4>2. used(1) <= used(2) /\ ~(used(2) <= used(1)) /\ used(2) <= used(2)
        BY <4>1
      <4>3. {i \in {1, 2} : \A j \in {1, 2} : used(j) <= used(i)} = {2}
        BY <4>2
      <4> QED
        BY <4>3, Zenon DEF used
    <3>4. Select(Endpoints(t), params) = Endpoints(t)[Min({2})]
      BY <3>1, <3>3 DEF Select
    <3> QED
      BY <2>1, <2>4, <3>4 DEF Min
  <2> QED
    BY <2>2, <2>3, <2>4
<1> QED
  BY <1>1, <1>2
--------------------------------------------------------------------------
\* The version that is read is that of the cluster, or unknown.
LEMMA VersionsRead ==
  ASSUME WorldType, NEW args, NEW headers
  PROVE  /\ version[Target(args, headers)] \in {2, 3}
         /\ Versions(args, headers) \subseteq {Unknown, version[Target(args, headers)]}
         /\ Versions(args, headers) # {}
<1>1. Target(args, headers) \in Clusters
  BY DEF Target, Clusters
<1> QED
  BY <1>1 DEF WorldType, Versions

Given(args, headers) == Parameters(deployment, held > 0, args, headers)

\* The lock takes the ways into IAM away and leaves the rest.
LEMMA IdentityOf ==
  ASSUME NEW args, NEW headers
  PROVE  /\ Identity(args, headers).user = Given(args, headers).user
         /\ Identity(args, headers).password = Given(args, headers).password
         /\ Identity(args, headers).noAuth = Given(args, headers).noAuth
         /\ Identity(args, headers).url = Given(args, headers).url
         /\ Identity(args, headers).bearer <=> ~locked /\ Given(args, headers).bearer
         /\ Identity(args, headers).awsKeys <=> ~locked /\ Given(args, headers).awsKeys
         /\ Identity(args, headers).iam <=> ~locked /\ Given(args, headers).iam
<1>1. Identity(args, headers) = IF locked THEN Neutralised(Given(args, headers)) ELSE Given(args, headers)
  BY DEF Identity, Given
<1>2. {"user", "password", "noAuth", "iam", "bearer", "awsKeys", "url"} \subseteq DOMAIN Given(args, headers)
  BY ParametersOf DEF Settled, Given
<1>3. CASE locked
  BY <1>1, <1>2, <1>3 DEF Neutralised
<1>4. CASE ~locked
  BY <1>1, <1>4
<1> QED
  BY <1>3, <1>4

\* In a locked process nothing but a pair or the session of the container is
\* left, and with a password of the secret a pair, unless the call opens it.
LEMMA LockedBranch ==
  ASSUME locked, HeldInv, NEW args, NEW headers,
         Branch(Identity(args, headers), deployment) # "error"
  PROVE  /\ Branch(Identity(args, headers), deployment) \in {"none", "basic", "session"}
         /\ held > 0 /\ ~Opens(args) => Branch(Identity(args, headers), deployment) = "basic"
<1>1. ASSUME held > 0, ~Opens(args)
      PROVE  ~Given(args, headers).noAuth /\ Given(args, headers).user # Absent
             /\ Given(args, headers).password # Absent
  <2> DEFINE env == FromEnvironment(deployment, held > 0)
  <2>1. env.user = "secret" /\ env.password = "secret"
    BY <1>1 DEF FromEnvironment
  <2>2. /\ "username" \in DOMAIN args => args["username"] # Absent
        /\ "password" \in DOMAIN args => args["password"] # Absent
        /\ ~Says(args, "no_auth")
    BY <1>1 DEF Opens, Blanks
  <2>3. ~deployment.noAuth
    BY <1>1 DEF HeldInv
  <2>4. Settled(Given(args, headers), deployment, held > 0, args, headers)
    BY ParametersOf DEF Given
  <2> QED
    BY <2>1, <2>2, <2>3, <2>4 DEF Settled, Absent
<1> QED
  BY <1>1, IdentityOf, WithoutIam

\* A call that brings nothing is let in with the password in force.
LEMMA PlainLetIn ==
  ASSUME HeldInv, NEW r, Plain(r),
         deployment.url, locked \/ ~deployment.iam, held > 0, held = secret
  PROVE  \A in \in LetIn(r.args, r.headers) : in
<1> DEFINE given == Given(r.args, r.headers)
           who == Identity(r.args, r.headers)
           env == FromEnvironment(deployment, held > 0)
<1>1. /\ r.headers = {} /\ Heeded(deployment, r.headers) = {}
      /\ \A f \in ArgFields : ~Says(r.args, f) /\ ~Blanks(r.args, f) /\ f \notin DOMAIN r.args
  BY DEF Plain, Heeded, Says, Blanks
<1>2. env.user = "secret" /\ env.password = "secret" /\ ~deployment.noAuth
  BY DEF FromEnvironment, HeldInv
<1>3. Settled(given, deployment, held > 0, r.args, r.headers)
  BY ParametersOf DEF Given
<1>4. /\ given.user = (IF deployment.multi THEN "file" ELSE "secret")
      /\ given.password = given.user /\ ~given.noAuth /\ given.url
      /\ ~given.bearer /\ ~given.awsKeys /\ (locked \/ ~given.iam)
  BY <1>1, <1>2, <1>3 DEF Settled, ArgFields
<1>5. /\ who.user = (IF deployment.multi THEN "file" ELSE "secret")
      /\ who.password = who.user /\ Branch(who, deployment) = "basic"
  <2>1. /\ who.user = given.user /\ who.password = given.password
        /\ who.noAuth = given.noAuth /\ who.url = given.url
        /\ who.bearer <=> ~locked /\ given.bearer
        /\ who.awsKeys <=> ~locked /\ given.awsKeys
        /\ who.iam <=> ~locked /\ given.iam
    BY IdentityOf
  <2> HIDE DEF given, who
  <2>2. ~who.bearer /\ ~who.awsKeys /\ ~who.iam /\ ~who.noAuth /\ who.url
    BY <1>4, <2>1
  <2>3. who.user # Absent /\ who.password # Absent
    BY <1>4, <2>1 DEF Absent
  <2> QED
    BY <1>4, <2>1, <2>2, <2>3, WithoutIam
<1>6. Target(r.args, r.headers) = "home"
  BY <1>1 DEF Target, ArgFields
<1>7. KnownAt("home", who.user)
  BY <1>5 DEF KnownAt
<1>8. LetIn(r.args, r.headers) = {who.user = who.password /\ KnownAt("home", who.user)}
  BY <1>5, <1>6 DEF LetIn
<1> QED
  BY <1>5, <1>7, <1>8
--------------------------------------------------------------------------
\* What holds of the process as long as it and its call stay as they are.
LEMMA ProcessStays ==
  ASSUME IInv, UNCHANGED <<deployment, process, pc, call>>
  PROVE  /\ (RegistryType /\ CallType)' /\ (ServingInv /\ HeldInv /\ OfferInv)'
         /\ (FitsInv /\ GateInv /\ SentInv /\ SupportedWhenSent)' /\ To' = To
<1> USE DEF process
<1>1. (RegistryType /\ CallType)'
  BY DEF IInv, RegistryType, CallType
<1>2. (ServingInv /\ HeldInv /\ OfferInv)'
  BY DEF IInv, ServingInv, HeldInv, OfferInv
<1>3. (FitsInv /\ GateInv)'
  BY DEF IInv, FitsInv, GateInv, Sends
<1>4. As' = As /\ To' = To
  BY DEF As, Identity, To, Destination, Target
<1>5. (SentInv /\ SupportedWhenSent)'
  BY <1>4 DEF IInv, SentInv, SupportedWhenSent, Sent, Done
<1> QED
  BY <1>1, <1>2, <1>3, <1>4, <1>5

LEMMA Passwords ==
  ASSUME IInv
  PROVE  secret \in Nat /\ held \in Nat /\ held <= secret
<1>1. secret \in 0..MaxRotations /\ held \in 0..secret
  BY DEF IInv, WorldType, ProcessType
<1>2. secret \in Nat
  BY <1>1, RotationsAssumption
<1> QED
  BY <1>1, <1>2

\* Without a call nothing has to hold of one.
LEMMA NoCallLeft ==
  ASSUME call' = NoCall
  PROVE  (CallType /\ FitsInv /\ GateInv /\ SeenInv /\ SentInv /\ SupportedWhenSent /\ OrdinaryCallsWork)'
<1>1. (CallType /\ FitsInv /\ GateInv /\ SeenInv /\ SentInv)'
  BY DEF CallType, FitsInv, GateInv, Sends, SeenInv, SentInv
<1>2. (SupportedWhenSent /\ OrdinaryCallsWork)'
  BY DEF SupportedWhenSent, Sent, OrdinaryCallsWork, Done, NoCall
<1> QED
  BY <1>1, <1>2

LEMMA InitIInv == Init => IInv
<1> SUFFICES ASSUME Init PROVE IInv
  OBVIOUS
<1> USE DEF Init, Blank
<1>1. WorldType
  BY RotationsAssumption DEF WorldType
<1>2. ProcessType
  <2>1. held = 0 /\ secret = 0 /\ locked = FALSE /\ writable = TRUE /\ pc = "down"
    OBVIOUS
  <2>2. held \in 0..secret
    BY <2>1
  <2> QED
    BY <2>1, <2>2 DEF ProcessType
<1>3. RegistryType
  <2>1. Range(offered) = {}
    BY DEF Range
  <2> QED
    BY <2>1, StaticTools DEF RegistryType
<1>4. CallType /\ FitsInv /\ GateInv /\ SeenInv /\ SentInv
  BY DEF CallType, FitsInv, GateInv, Sends, SeenInv, SentInv
<1>5. SupportedWhenSent /\ OrdinaryCallsWork
  BY DEF SupportedWhenSent, Sent, OrdinaryCallsWork, Done, NoCall
<1>6. ServingInv /\ HeldInv /\ OfferInv
  BY DEF ServingInv, HeldInv, OfferInv
<1> QED
  BY <1>1, <1>2, <1>3, <1>4, <1>5, <1>6 DEF IInv

\* A rotation and an upgrade leave the process alone; after a rotation the
\* password it holds is no longer the one in force.
LEMMA WorldIInv ==
  ASSUME IInv, Rotate \/ \E c \in Clusters : Upgrade(c)
  PROVE  IInv'
<1>1. /\ (RegistryType /\ CallType)' /\ (ServingInv /\ HeldInv /\ OfferInv)'
      /\ (FitsInv /\ GateInv /\ SentInv /\ SupportedWhenSent)' /\ To' = To
  BY ProcessStays, Zenon DEF Rotate, Upgrade
<1>2. CASE Rotate
  <2> USE <1>2 DEF Rotate, process
  <2>1. WorldType'
    BY RotationsAssumption DEF IInv, WorldType
  <2>2. ProcessType'
    <3>1. held' \in 0..secret'
      BY Passwords
    <3> QED
      BY <3>1 DEF IInv, ProcessType
  <2>3. SeenInv'
    BY <1>1 DEF IInv, SeenInv
  <2>4. OrdinaryCallsWork'
    <3>1. held' # secret'
      BY Passwords
    <3> QED
      BY <3>1 DEF OrdinaryCallsWork
  <2> QED
    BY <1>1, <2>1, <2>2, <2>3, <2>4 DEF IInv
<1>3. ASSUME NEW c \in Clusters, Upgrade(c)
      PROVE  IInv'
  <2> USE <1>3 DEF Upgrade, process
  <2>1. WorldType'
    BY DEF IInv, WorldType
  <2>2. ProcessType'
    BY DEF IInv, ProcessType
  <2>3. SeenInv'
    <3>1. To \in Clusters
      BY DEF To, Destination, Target, Clusters
    <3>2. version[To] \in {2, 3} /\ version'[To] \in {2, 3} /\ version[To] <= version'[To]
      BY <3>1 DEF IInv, WorldType
    <3>3. call.seen \in {0, 2, 3} \/ call = NoCall
      BY DEF IInv, CallType, Calls, Unknown
    <3> QED
      BY <1>1, <3>2, <3>3 DEF IInv, SeenInv
  <2>4. OrdinaryCallsWork'
    BY DEF IInv, OrdinaryCallsWork, Done
  <2> QED
    BY <1>1, <2>1, <2>2, <2>3, <2>4 DEF IInv
<1> QED
  BY <1>2, <1>3

\* The steps before the tools are on offer: there is no call yet.
LEMMA StartUpIInv ==
  ASSUME IInv, Start \/ LoadCredentials \/ Lock \/ LoadClusters \/ Generate(1) \/ Generate(2) \/ Customise
  PROVE  IInv'
<1>1. pc \in {"down", "credentials", "lock", "clusters", "generate 1", "generate 2", "customise"}
  BY DEF Start, LoadCredentials, Lock, LoadClusters, Generate, Customise
<1>2. offered = <<>> /\ call = NoCall
  BY <1>1 DEF IInv, ServingInv
<1>3. UNCHANGED <<world, writable, offered, call>>
  BY DEF Start, LoadCredentials, Lock, LoadClusters, Generate, Customise, process
<1>4. (CallType /\ FitsInv /\ GateInv /\ SeenInv /\ SentInv /\ SupportedWhenSent /\ OrdinaryCallsWork)'
  BY <1>2, <1>3, NoCallLeft
<1>5. WorldType' /\ deployment' = deployment /\ secret' = secret
  BY <1>3 DEF IInv, WorldType, world
<1>6. ProcessType'
  <2>1. pc' \in {"credentials", "lock", "clusters", "generate 1", "generate 2", "customise", "filter",
                 "serving", "crashed"}
    BY DEF Start, LoadCredentials, Lock, LoadClusters, Generate, Customise
  <2>2. held' \in 0..secret'
    <3>1. held' \in {held, 0, secret}
      BY DEF Start, LoadCredentials, Lock, LoadClusters, Generate, Customise, process
    <3> QED
      BY <1>5, <3>1, Passwords
  <2>3. locked' \in BOOLEAN
    BY DeploymentsAssumption DEF IInv, ProcessType, WorldType, Start, LoadCredentials, Lock,
                                 LoadClusters, Generate, Customise, process
  <2> QED
    BY <1>3, <2>1, <2>2, <2>3 DEF IInv, ProcessType
<1>7. RegistryType'
  <2>1. Range(offered') = {}
    BY <1>2, <1>3 DEF Range
  <2>2. CASE UNCHANGED registry
    BY <1>5, <2>1, <2>2 DEF IInv, RegistryType
  <2>3. ASSUME NEW i \in {1, 2}, Generate(i), registry' # registry
        PROVE  RegistryType'
    <3>1. DOMAIN registry' = Generated[i] \cup DOMAIN registry
      BY <2>3 DEF Generate
    <3> QED
      BY <1>5, <2>1, <3>1, GeneratedTools DEF IInv, RegistryType
  <2>4. CASE Customise
    <3>1. DOMAIN registry' = DOMAIN registry
      BY <2>4, CustomisedKeeps DEF Customise
    <3> QED
      BY <1>5, <2>1, <3>1 DEF IInv, RegistryType
  <2> QED
    BY <2>2, <2>3, <2>4 DEF Start, LoadCredentials, Lock, LoadClusters, process
<1>8. ServingInv'
  BY <1>2, <1>3 DEF ServingInv
<1>9. HeldInv'
  <2>1. held' = held \/ held' = 0 \/ ~deployment.noAuth
    BY DEF Start, LoadCredentials, AsksSecret, Lock, LoadClusters, Generate, Customise, process
  <2>2. CASE held' = 0
    BY <2>2 DEF HeldInv
  <2> QED
    BY <1>5, <2>1, <2>2 DEF IInv, HeldInv
<1>10. OfferInv'
  <2>1. Range(offered') = {}
    BY <1>2, <1>3 DEF Range
  <2> QED
    BY <2>1 DEF OfferInv
<1> QED
  BY <1>4, <1>5, <1>6, <1>7, <1>8, <1>9, <1>10 DEF IInv

LEMMA OfferIInv ==
  ASSUME IInv, Offer
  PROVE  IInv'
<1>1. call = NoCall /\ call' = NoCall /\ pc' = "serving"
  BY DEF IInv, ServingInv, Offer
<1>2. (CallType /\ FitsInv /\ GateInv /\ SeenInv /\ SentInv /\ SupportedWhenSent /\ OrdinaryCallsWork)'
  BY <1>1, NoCallLeft
<1>3. UNCHANGED <<world, held, locked, registry>> /\ writable' = Resolved(deployment)
  BY DEF Offer
<1>4. WorldType'
  BY <1>3 DEF IInv, WorldType, world
<1>5. ProcessType'
  <2>1. Resolved(deployment) \in BOOLEAN
    BY DeploymentsAssumption DEF IInv, WorldType, Resolved
  <2>2. held' \in 0..secret'
    BY <1>3, Passwords DEF world
  <2> QED
    BY <1>1, <1>3, <2>1, <2>2 DEF IInv, ProcessType
<1>6. PICK v : offered' = Offered(registry, deployment, v)
  BY Zenon DEF Offer
<1>7. Range(offered') \subseteq Shown(registry, deployment, v)
  BY <1>6, OfferedTools DEF IInv, RegistryType
<1>8. RegistryType'
  BY <1>3, <1>7, ShownTools DEF IInv, RegistryType, world
<1>9. OfferInv'
  BY <1>3, <1>7, ShownTools DEF OfferInv, world
<1>10. ServingInv' /\ HeldInv'
  BY <1>1, <1>3 DEF IInv, ServingInv, HeldInv, world
<1> QED
  BY <1>2, <1>4, <1>5, <1>8, <1>9, <1>10 DEF IInv

LEMMA StopIInv ==
  ASSUME IInv, Stop
  PROVE  IInv'
<1> USE DEF Stop
<1>1. (CallType /\ FitsInv /\ GateInv /\ SeenInv /\ SentInv /\ SupportedWhenSent /\ OrdinaryCallsWork)'
  BY NoCallLeft
<1>2. WorldType' /\ deployment' = deployment
  BY DEF IInv, WorldType, world
<1>3. ProcessType'
  <2>1. held' = 0 /\ secret' = secret /\ locked' = FALSE /\ writable' = TRUE /\ pc' = "down"
    BY DEF world
  <2>2. held' \in 0..secret'
    BY <2>1, Passwords
  <2> QED
    BY <2>1, <2>2 DEF ProcessType
<1>4. Range(offered') = {}
  BY DEF Range
<1>5. RegistryType'
  BY <1>2, <1>4, StaticTools DEF RegistryType
<1>6. ServingInv' /\ HeldInv' /\ OfferInv'
  BY <1>4 DEF ServingInv, HeldInv, OfferInv
<1> QED
  BY <1>1, <1>2, <1>3, <1>5, <1>6 DEF IInv

\* The steps of a call leave the world and the process alone.
LEMMA OnlyTheCall ==
  ASSUME IInv, UNCHANGED <<world, pc, process>>, pc = "serving"
  PROVE  (WorldType /\ ProcessType /\ RegistryType /\ ServingInv /\ HeldInv /\ OfferInv)'
<1>1. WorldType' /\ ProcessType'
  BY DEF IInv, WorldType, ProcessType, world, process
<1>2. RegistryType' /\ ServingInv'
  BY DEF IInv, RegistryType, ServingInv, world, process
<1>3. HeldInv' /\ OfferInv'
  BY DEF IInv, HeldInv, OfferInv, world, process
<1> QED
  BY <1>1, <1>2, <1>3

\* A call in the process, before and after one of its steps.
LEMMA CallThere ==
  ASSUME IInv, call.phase # "none"
  PROVE  call \in Calls /\ call.tool \in Range(offered) /\ call # NoCall /\ pc = "serving"
         /\ Fits(call.tool, call.request) /\ (call.phase # "done" => call.via = "" /\ call.path = {})
<1>1. call # NoCall
  BY DEF NoCall
<1> QED
  BY <1>1 DEF IInv, CallType, ServingInv, FitsInv, SentInv

\* A call that was not sent, or is over, has no identity to account for.
LEMMA Unsent ==
  ASSUME call' \in Calls, call'.phase = "done", call'.via = ""
  PROVE  (GateInv /\ SeenInv /\ SentInv /\ SupportedWhenSent)'
BY DEF GateInv, Sends, SeenInv, SentInv, SupportedWhenSent, Sent

LEMMA CallIInv ==
  ASSUME IInv, NEW name \in DOMAIN offered, NEW r \in Requests, Call(name, r)
  PROVE  IInv'
<1> DEFINE c == [phase |-> "called", tool |-> offered[name], request |-> r, seen |-> Unknown,
                 found |-> Unknown, via |-> "", against |-> Unknown, path |-> {}, outcome |-> ""]
<1>1. call' = c /\ Fits(offered[name], r) /\ pc = "serving" /\ UNCHANGED <<world, pc, process>>
  BY DEF Call
<1>2. (WorldType /\ ProcessType /\ RegistryType /\ ServingInv /\ HeldInv /\ OfferInv)'
  BY <1>1, OnlyTheCall
<1>3. offered[name] \in Range(offered) /\ offered[name] \in Tools
  BY DEF Range, IInv, RegistryType
<1>4. c \in Calls /\ c # NoCall
  BY <1>3 DEF Calls, Outcomes, NoCall
<1>5. offered' = offered
  BY <1>1 DEF process
<1>6. CallType'
  BY <1>1, <1>3, <1>4, <1>5 DEF CallType
<1>7. FitsInv'
  BY <1>1 DEF FitsInv
<1>8. (GateInv /\ SeenInv /\ SentInv)'
  BY <1>1 DEF GateInv, Sends, SeenInv, SentInv
<1>9. (SupportedWhenSent /\ OrdinaryCallsWork)'
  BY <1>1 DEF SupportedWhenSent, Sent, OrdinaryCallsWork, Done
<1> QED
  BY <1>2, <1>6, <1>7, <1>8, <1>9 DEF IInv

LEMMA ReturnIInv ==
  ASSUME IInv, Return
  PROVE  IInv'
<1>1. pc = "serving"
  BY CallThere DEF Return
<1> QED
  BY <1>1, OnlyTheCall, NoCallLeft DEF Return, IInv

\* A call that ends without being sent.
LEMMA EndsIInv ==
  ASSUME IInv, call.phase = "called", NEW outcome \in {"denied", "unsupported", "ok"}, Ends(outcome),
         outcome = "ok" => ~IsGenerated(call.tool),
         UNCHANGED <<world, pc, process>>
  PROVE  IInv'
<1>1. call \in Calls /\ call.tool \in Range(offered) /\ call # NoCall /\ pc = "serving"
      /\ Fits(call.tool, call.request) /\ call.via = "" /\ call.path = {}
  BY CallThere
<1>2. call' = [call EXCEPT !.phase = "done", !.outcome = outcome]
  BY DEF Ends
<1>3. /\ call' \in Calls /\ call'.tool = call.tool /\ call'.request = call.request
      /\ call'.phase = "done" /\ call'.via = "" /\ call'.path = {} /\ call'.outcome = outcome
  BY <1>1, <1>2 DEF Calls, Outcomes
<1>4. (WorldType /\ ProcessType /\ RegistryType /\ ServingInv /\ HeldInv /\ OfferInv)'
  BY <1>1, OnlyTheCall
<1>5. CallType' /\ FitsInv'
  BY <1>1, <1>3 DEF CallType, FitsInv, process
<1>6. OrdinaryCallsWork'
  BY <1>1, <1>3 DEF OrdinaryCallsWork, Fits
<1> QED
  BY <1>3, <1>4, <1>5, <1>6, Unsent DEF IInv

LEMMA DenyIInv ==
  ASSUME IInv, Deny
  PROVE  IInv'
BY EndsIInv DEF Deny

\* A call that passes the gates before it is sent.
LEMMA PassesIInv ==
  ASSUME IInv, call.phase = "called", call.tool \notin MultiOnly,
         ~(call.tool = "GenericOpenSearchApiTool" /\ call.request.write /\ ~writable),
         call' \in Calls, call'.phase = "checked", call'.tool = call.tool,
         call'.request = call.request, call'.via = call.via, call'.path = call.path,
         \/ call.tool \in Unchecked
         \/ /\ call'.seen \in {Unknown, version[To]} /\ call'.found = version[To]
            /\ Compatible(call.tool, call'.seen),
         UNCHANGED <<world, pc, process>>
  PROVE  IInv'
<1>1. call \in Calls /\ call.tool \in Range(offered) /\ call # NoCall /\ pc = "serving"
      /\ Fits(call.tool, call.request) /\ call.via = "" /\ call.path = {}
  BY CallThere
<1>2. version[To] \in {2, 3}
  BY VersionsRead DEF To, Destination, IInv
<1>3. (WorldType /\ ProcessType /\ RegistryType /\ ServingInv /\ HeldInv /\ OfferInv)'
  BY <1>1, OnlyTheCall
<1>4. CallType' /\ FitsInv'
  BY <1>1 DEF CallType, FitsInv, process
<1>5. GateInv'
  BY <1>1 DEF GateInv, process
<1>6. To' = To /\ version' = version
  BY DEF To, Destination, Target, world
<1>7. SeenInv'
  <2>1. \/ call.tool \in Unchecked
        \/ call'.seen # Unknown => call'.found = call'.seen /\ call'.seen <= version'[To']
    BY <1>2, <1>6
  <2> QED
    BY <2>1 DEF SeenInv
<1>8. SentInv'
  BY <1>1 DEF SentInv
<1>9. (SupportedWhenSent /\ OrdinaryCallsWork)'
  BY <1>1 DEF SupportedWhenSent, Sent, OrdinaryCallsWork, Done
<1> QED
  BY <1>3, <1>4, <1>5, <1>7, <1>8, <1>9 DEF IInv

LEMMA PassIInv ==
  ASSUME IInv, Pass
  PROVE  IInv'
<1>1. CASE call.tool \in MultiOnly
  <2>1. ~IsGenerated(call.tool)
    BY <1>1 DEF MultiOnly, IsGenerated, Generated
  <2> QED
    BY <1>1, <2>1, EndsIInv DEF Pass
<1>2. CASE call.tool \notin MultiOnly
  <2>1. call \in Calls
    BY CallThere DEF Pass
  <2>2. call.tool \in Unchecked /\ call' = [call EXCEPT !.phase = "checked"]
    BY <1>2 DEF Pass
  <2>3. /\ call' \in Calls /\ call'.phase = "checked" /\ call'.tool = call.tool
        /\ call'.request = call.request /\ call'.via = call.via /\ call'.path = call.path
    BY <2>1, <2>2 DEF Calls
  <2> QED
    BY <1>2, <2>2, <2>3, PassesIInv DEF Pass
<1> QED
  BY <1>1, <1>2

LEMMA CheckIInv ==
  ASSUME IInv, Check
  PROVE  IInv'
<1>1. call \in Calls
  BY CallThere DEF Check
<1>2. PICK v \in Versions(call.request.args, call.request.headers) :
        IF Compatible(call.tool, v)
        THEN call' = [call EXCEPT !.phase = "checked", !.seen = v, !.found = version[To]]
        ELSE Ends("unsupported")
  BY Zenon DEF Check, To
<1>3. v \in {Unknown, version[To]} /\ version[To] \in {2, 3}
  BY <1>2, VersionsRead DEF IInv, To, Destination
<1>4. CASE Compatible(call.tool, v)
  <2>1. call' = [call EXCEPT !.phase = "checked", !.seen = v, !.found = version[To]]
    BY <1>2, <1>4
  <2>2. /\ call' \in Calls /\ call'.phase = "checked" /\ call'.tool = call.tool /\ call'.seen = v
        /\ call'.request = call.request /\ call'.via = call.via /\ call'.path = call.path
        /\ call'.found = version[To]
    BY <1>1, <1>3, <2>1 DEF Calls
  <2>3. call.tool # "GenericOpenSearchApiTool" /\ call.tool \notin MultiOnly
    BY DEF Check, Unchecked
  <2> QED
    BY <1>3, <1>4, <2>2, <2>3, PassesIInv DEF Check
<1>5. CASE ~Compatible(call.tool, v)
  BY <1>2, <1>5, EndsIInv DEF Check
<1> QED
  BY <1>4, <1>5

\* A request that is sent: what it was checked for, what it is sent with, and
\* what comes back.
LEMMA SendIInv ==
  ASSUME IInv, Send
  PROVE  IInv'
<1> DEFINE args == call.request.args
           headers == call.request.headers
           path == IF IsGenerated(call.tool) THEN Select(Endpoints(call.tool), call.request.params) ELSE {}
<1>1. call \in Calls /\ call.tool \in Range(offered) /\ call # NoCall /\ pc = "serving"
      /\ Fits(call.tool, call.request) /\ call.phase = "checked" /\ UNCHANGED <<world, pc, process>>
  BY CallThere DEF Send
<1>2. PICK in \in LetIn(args, headers) :
        call' = [call EXCEPT !.phase = "done", !.via = Branch(As, deployment), !.path = path,
                             !.against = IF in THEN version[To] ELSE Unknown,
                             !.outcome = IF in THEN "ok" ELSE "refused"]
  BY Zenon DEF Send, As, To
<1>3. version[To] \in {2, 3}
  BY VersionsRead DEF To, Destination, IInv
<1>4. Branch(As, deployment) \in Branches
  BY BranchType
<1>5. path = call.request.params /\ path \subseteq {"index", "id"}
  <2>1. CASE IsGenerated(call.tool)
    <3>1. /\ RequiredPath(Endpoints(call.tool)) \subseteq call.request.params
          /\ call.request.params \subseteq UNION Range(Endpoints(call.tool))
      BY <1>1, <2>1 DEF Fits
    <3> QED
      BY <2>1, <3>1, SelectsGiven
  <2>2. CASE ~IsGenerated(call.tool)
    BY <1>1, <2>2 DEF Fits
  <2> QED
    BY <2>1, <2>2
<1>6. /\ call' \in Calls /\ call'.tool = call.tool /\ call'.request = call.request /\ call'.seen = call.seen
      /\ call'.found = call.found /\ call'.phase = "done" /\ call'.via = Branch(As, deployment) /\ call'.path = call.request.params
      /\ call'.against = (IF in THEN version[To] ELSE Unknown)
      /\ call'.outcome = (IF in THEN "ok" ELSE "refused")
  <2> HIDE DEF path
  <2> QED
    BY <1>1, <1>2, <1>3, <1>4, <1>5 DEF Calls, Outcomes, Unknown
<1>7. (WorldType /\ ProcessType /\ RegistryType /\ ServingInv /\ HeldInv /\ OfferInv)'
  BY <1>1, OnlyTheCall
<1>8. CallType' /\ FitsInv'
  BY <1>1, <1>6 DEF CallType, FitsInv, process
<1>9. GateInv'
  BY <1>1, <1>6 DEF IInv, GateInv, Sends, process
<1>10. SeenInv'
  BY <1>6 DEF SeenInv
<1>11. SentInv'
  <2>1. As' = As /\ deployment' = deployment
    BY <1>1, <1>6 DEF As, Identity, world, process
  <2> QED
    BY <1>6, <2>1 DEF SentInv
<1>12. SupportedWhenSent'
  <2>1. CASE call.tool \in Unchecked \/ call.seen = Unknown \/ ~in
    BY <1>6, <2>1 DEF SupportedWhenSent
  <2>2. CASE call.tool \notin Unchecked /\ call.seen # Unknown /\ in
    <3>1. /\ Compatible(call.tool, call.seen) /\ call.found = call.seen
          /\ call.seen <= version[To] /\ call.seen \in {2, 3}
      BY <1>1, <2>2 DEF IInv, SeenInv, Calls
    <3>2. MinVersion(call.tool) \in {1, 3} /\ MaxVersion(call.tool) \in {2, 99}
      BY DEF MinVersion, MaxVersion
    <3>3. \/ Compatible(call.tool, version[To])
          \/ call.found < version[To] /\ MaxVersion(call.tool) < version[To]
      BY <1>3, <3>1, <3>2 DEF Compatible, Unknown
    <3> QED
      BY <1>6, <2>2, <3>3 DEF SupportedWhenSent
  <2> QED
    BY <2>1, <2>2
<1>13. OrdinaryCallsWork'
  <2>1. SUFFICES ASSUME Plain(call.request), deployment.url, locked \/ ~deployment.iam,
                        held > 0, held = secret
                 PROVE  in
    BY <1>1, <1>6 DEF OrdinaryCallsWork, world, process
  <2> QED
    BY <1>2, <2>1, PlainLetIn DEF IInv
<1> QED
  BY <1>7, <1>8, <1>9, <1>10, <1>11, <1>12, <1>13 DEF IInv
--------------------------------------------------------------------------
LEMMA StepIInv == IInv /\ [Next]_vars => IInv'
<1> SUFFICES ASSUME IInv, [Next]_vars PROVE IInv'
  OBVIOUS
<1>1. CASE Rotate \/ \E c \in Clusters : Upgrade(c)
  BY <1>1, WorldIInv
<1>2. CASE Start \/ LoadCredentials \/ Lock \/ LoadClusters \/ Generate(1) \/ Generate(2) \/ Customise
  BY <1>2, StartUpIInv
<1>3. CASE Offer
  BY <1>3, OfferIInv
<1>4. CASE Stop
  BY <1>4, StopIInv
<1>5. CASE \E name \in DOMAIN offered, r \in Requests : Call(name, r)
  BY <1>5, CallIInv
<1>6. CASE Deny
  BY <1>6, DenyIInv
<1>7. CASE Pass
  BY <1>7, PassIInv
<1>8. CASE Check
  BY <1>8, CheckIInv
<1>9. CASE Send
  BY <1>9, SendIInv
<1>10. CASE Return
  BY <1>10, ReturnIInv
<1>11. CASE UNCHANGED vars
  <2>1. UNCHANGED <<world, pc, process, call>> /\ deployment' = deployment
    BY <1>11 DEF vars, world
  <2>2. (WorldType /\ ProcessType)'
    BY <2>1 DEF IInv, WorldType, ProcessType, world, process
  <2>3. SeenInv' /\ OrdinaryCallsWork'
    <3>1. To' = To
      BY <2>1, ProcessStays
    <3> QED
      BY <2>1, <3>1 DEF IInv, SeenInv, OrdinaryCallsWork, Done, world, process
  <2> QED
    BY <2>1, <2>2, <2>3, ProcessStays DEF IInv
<1> QED
  BY <1>1, <1>2, <1>3, <1>4, <1>5, <1>6, <1>7, <1>8, <1>9, <1>10, <1>11 DEF Next, StartUp

LEMMA InductiveInvariant == Spec => []IInv
  BY InitIInv, StepIInv, PTL DEF Spec

\* Every variable has its type; a tool that is offered is registered, and the
\* memory tools only are when they are switched on.
THEOREM TypeCorrect == Spec => []TypeOK
<1>1. IInv => TypeOK
  <2> SUFFICES ASSUME IInv PROVE TypeOK
    OBVIOUS
  <2>1. call = NoCall \/ CallOK
    BY DEF IInv, CallType, Calls, CallOK
  <2>2. DOMAIN registry \subseteq Tools /\ (~deployment.memory => Memory \cap DOMAIN registry = {})
        /\ Range(offered) \subseteq DOMAIN registry
    BY DEF IInv, RegistryType
  <2> QED
    BY <2>1, <2>2 DEF IInv, WorldType, ProcessType, TypeOK
<1> QED
  BY <1>1, InductiveInvariant, PTL

\* While writing is switched off no request writes, whichever tool it comes
\* from, but for the memory and the categories that are exempted by name: the
\* generic tool asks for the setting itself, every other tool that writes was
\* kept out by the filter.
THEOREM WritingIsOff == Spec => []ReadOnlyHolds
<1>1. IInv => ReadOnlyHolds
  <2> SUFFICES ASSUME IInv, Sent, Writes, ~writable, ~Unfiltered(deployment), call.tool \notin Memory
               PROVE  call.tool \in InCategories(registry, Exempted(deployment))
    BY DEF ReadOnlyHolds
  <2>1. call # NoCall /\ call.tool \in Range(offered) /\ Fits(call.tool, call.request)
    BY CallThere DEF Sent, Done
  <2>2. ~(call.tool = "GenericOpenSearchApiTool" /\ call.request.write)
    BY <2>1 DEF IInv, GateInv, Sends, Sent
  <2>3. call.tool = "CreateQuerySetTool"
    BY <2>1, <2>2 DEF Writes, Fits
  <2> QED
    BY <2>1, <2>3 DEF IInv, OfferInv, WriteOnly
<1> QED
  BY <1>1, InductiveInvariant, PTL

\* A cluster only carries out what its version supports, whichever cluster a
\* call names and whenever it is upgraded, unless the version was not read:
\* no tool is too new for it, and one is too old only after an upgrade
\* between the check and the request.
THEOREM VersionIsChecked == Spec => []SupportedWhenSent
<1>1. IInv => SupportedWhenSent
  BY DEF IInv
<1> QED
  BY <1>1, InductiveInvariant, PTL

\* In a locked container nothing a call or its headers bring leads to a role,
\* to keys or to a token.
THEOREM LockIsKept == Spec => []LockHolds
<1>1. IInv => LockHolds
  <2> SUFFICES ASSUME IInv, Sent, locked
               PROVE  /\ call.via \in {"none", "basic", "session"}
                      /\ held > 0 /\ ~Opens(call.request.args) => call.via = "basic"
    BY DEF LockHolds
  <2>1. call # NoCall
    BY CallThere DEF Sent, Done
  <2>2. call.via = Branch(As, deployment) /\ call.via # "error"
    BY <2>1 DEF IInv, SentInv, Sent
  <2> QED
    BY <2>2, LockedBranch DEF IInv, As
<1> QED
  BY <1>1, InductiveInvariant, PTL

\* A container that read the password in force serves every plain call, and a
\* generated tool addresses exactly what the call names.
THEOREM PlainCallsAreServed == Spec => []OrdinaryCallsWork
<1>1. IInv => OrdinaryCallsWork
  BY DEF IInv
<1> QED
  BY <1>1, InductiveInvariant, PTL
===============================================================================
