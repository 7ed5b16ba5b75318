------------------------ MODULE MC_OpenSearchServer ------------------------
(***************************************************************************)
(* Instances of OpenSearchServer for TLC: containers that differ in their  *)
(* credentials, servers that differ in what their configuration says of    *)
(* the tools, and servers for several clusters.                            *)
(***************************************************************************)
EXTENDS OpenSearchServer

NoSettings == [present |-> FALSE, write |-> "unset", exempt |-> {}]

Container ==
  [container |-> TRUE, multi |-> FALSE, file |-> FALSE, names |-> <<>>, categories |-> {},
   enable |-> {}, disable |-> {}, malformed |-> "no", settings |-> NoSettings, envWrite |-> TRUE,
   envExempt |-> {}, memory |-> FALSE, explicit |-> "none", noAuth |-> FALSE, force |-> TRUE,
   headerAuth |-> FALSE, secretName |-> TRUE, iam |-> FALSE, region |-> TRUE, session |-> TRUE,
   url |-> TRUE]

Containers ==
  {[Container EXCEPT !.explicit = e, !.noAuth = n, !.headerAuth = h, !.iam = i] :
     e \in {"none", "user", "both"}, n \in BOOLEAN, h \in BOOLEAN, i \in BOOLEAN}
  \cup {[Container EXCEPT !.headerAuth = TRUE, !.url = FALSE],
        [Container EXCEPT !.force = FALSE, !.headerAuth = TRUE],
        [Container EXCEPT !.force = FALSE, !.iam = TRUE],
        [Container EXCEPT !.secretName = FALSE, !.session = FALSE],
        [Container EXCEPT !.secretName = FALSE, !.region = FALSE]}

Direct == [Container EXCEPT !.container = FALSE, !.secretName = FALSE, !.explicit = "both"]

Categories == {"search_relevance", "skills"}

\* What the environment says of the tools.
ByEnvironment ==
  {[Direct EXCEPT !.envWrite = w, !.categories = c, !.envExempt = x, !.memory = m] :
     w \in BOOLEAN, c \in {{}, Categories}, x \in {{}, {"search_relevance"}}, m \in BOOLEAN}

Settings ==
  {NoSettings} \cup
  {[present |-> TRUE, write |-> w, exempt |-> x] : w \in {"yes", "no", "unset"}, x \in {{}, {"skills"}}}

\* What a file says of them.
ByFile ==
  {[Direct EXCEPT !.file = TRUE, !.settings = s, !.envWrite = w, !.categories = Categories] :
     s \in Settings, w \in BOOLEAN}
  \cup
  {[Direct EXCEPT !.file = TRUE, !.envWrite = FALSE, !.categories = Categories, !.malformed = f,
                  !.settings = [NoSettings EXCEPT !.present = TRUE, !.write = w]] :
     w \in {"yes", "no"}, f \in {"null categories", "bad pattern"}}
  \cup
  {[Direct EXCEPT !.file = TRUE, !.enable = {"CreateQuerySetTool"}, !.disable = {"SearchIndexTool"},
                  !.settings = [NoSettings EXCEPT !.present = TRUE, !.write = "yes"]]}

Names ==
  { [t \in {"SearchIndexTool"} |-> "Find"],
    [t \in {"SearchIndexTool", "CountTool"} |-> "Find"],
    [t \in {"SearchIndexTool"} |-> "CountTool"],
    "SearchIndexTool" :> "" @@ "CountTool" :> "SearchIndexTool",
    "DataDistributionTool" :> "Skew" }

Renamed == {[Direct EXCEPT !.file = TRUE, !.names = n, !.categories = Categories,
                           !.settings = [NoSettings EXCEPT !.present = TRUE, !.write = "yes"]] : n \in Names}

Several ==
  {[Direct EXCEPT !.multi = TRUE, !.file = TRUE, !.memory = TRUE, !.envWrite = w, !.headerAuth = h, !.malformed = f] :
     w \in BOOLEAN, h \in BOOLEAN, f \in {"no", "clusters"}}

AllDeployments == Containers \cup ByEnvironment \cup ByFile \cup Renamed \cup Several

PlainRequest == [args |-> <<>>, headers |-> {}, write |-> FALSE, params |-> {}]

SomeRequests ==
  {[PlainRequest EXCEPT !.args = [f \in fs |-> "call"]] :
     fs \in {{}, {"url"}, {"url", "username", "password"}, {"password"}, {"no_auth"}, {"iam_arn", "region"}}}
  \cup {[PlainRequest EXCEPT !.args = [f \in fs |-> Absent]] : fs \in {{"username"}, {"no_auth", "iam_arn"}, {"url"}}}
  \cup {[PlainRequest EXCEPT !.headers = h] : h \in {{"basic"}, {"bearer"}, {"aws_keys"}, {"url"}}}
  \cup {[PlainRequest EXCEPT !.params = p] : p \in {{"index"}, {"index", "id"}}}
  \cup {[PlainRequest EXCEPT !.write = TRUE]}
============================================================================
