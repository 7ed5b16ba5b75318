----------------------------- MODULE ToolFilter -----------------------------
(***************************************************************************)
(* Which tools the OpenSearch server offers, and under which names: the    *)
(* registry, the names a configuration file gives, the filters, and the    *)
(* version of the cluster.  The functions are pure; OpenSearchServer calls *)
(* them in the order of the start-up.                                      *)
(*                                                                         *)
(* A few tools stand for all of them, one of each kind.  A registry maps   *)
(* the names of tools to the names they are displayed with.  d is a        *)
(* deployment: what its environment and its configuration file say.  Lists *)
(* of tools and regular expressions are the sets of names they match.      *)
(***************************************************************************)
EXTENDS Naturals, Sequences, SequencesExt, FiniteSetsExt, Functions, TLC

\* In the order of TOOL_REGISTRY; the generated ones are added at the end.
Order == << "DataDistributionTool", "SaveMemoryTool", "SearchIndexTool", "CreateQuerySetTool",
            "GenericOpenSearchApiTool", "ListClustersTool", "ClusterHealthTool", "CountTool",
            "ExplainTool" >>

Tools == Range(Order)
Memory == {"SaveMemoryTool"}
Skills == {"DataDistributionTool"}
Core == {"SearchIndexTool", "GenericOpenSearchApiTool", "ClusterHealthTool", "CountTool",
         "ExplainTool"}
MultiOnly == {"ListClustersTool"}

\* What each of the two files of the specification yields.
Generated == << {"ClusterHealthTool"}, {"CountTool", "ExplainTool"} >>

\* Mutant: the memory tools are registered whatever the environment says.
MutStatic(memory) == Tools \ (Generated[1] \cup Generated[2])

Static(memory) == Tools \ (Generated[1] \cup Generated[2] \cup (IF memory THEN {} ELSE Memory))

\* http_methods without GET.
WriteOnly == {"CreateQuerySetTool", "DataDistributionTool"}
MinVersion(t) == IF t \in WriteOnly THEN 3 ELSE 1

\* The specification may mark an operation with x-version-deprecated: CountTool
\* stands for one that it marks.  The others have no last version.
MaxVersion(t) == IF t = "CountTool" THEN 2 ELSE 99

\* A version that could not be read counts as compatible with everything.
Unknown == 0
Compatible(t, version) == version = Unknown \/ (MinVersion(t) <= version /\ version <= MaxVersion(t))
--------------------------------------------------------------------------
\* The names of a configuration file: custom[t] is a display name, or
\* Unnamed when the file only describes t.
Unnamed == ""

Valid(custom, registered) ==
  /\ DOMAIN custom \subseteq registered
  /\ \A t \in DOMAIN custom : custom[t] \notin registered \ DOMAIN custom
  /\ \A t, u \in DOMAIN custom : custom[t] # Unnamed /\ t # u => custom[t] # custom[u]

Customised(reg, custom) ==
  [t \in DOMAIN reg |-> IF t \in DOMAIN custom /\ custom[t] # Unnamed THEN custom[t] ELSE reg[t]]
--------------------------------------------------------------------------
\* The write setting, as the tools that look at it find it ...
Resolved(d) ==
  IF d.file /\ d.settings.write # "unset" THEN d.settings.write = "yes" ELSE d.envWrite

\* ... and as the filter finds it: with a file the environment is not asked.
WriteFilterOff(d) ==
  IF d.file THEN d.settings.present /\ d.settings.write # "no" ELSE d.envWrite

Exempted(d) == IF d.file THEN d.settings.exempt ELSE d.envExempt

ByDisplay(reg, name) ==
  LET same == {i \in DOMAIN Order : Order[i] \in DOMAIN reg /\ reg[Order[i]] = name}
  IN  IF same = {} THEN {} ELSE {Order[Max(same)]}

\* The skills are listed under the names the code gives them.
Category(reg, c) ==
  CASE c = "core_tools" -> {reg[t] : t \in Core \cap DOMAIN reg}
    [] c = "memory" -> {reg[t] : t \in Memory \cap DOMAIN reg}
    [] c = "skills" -> Skills
    [] c = "search_relevance" -> {reg[t] : t \in {"CreateQuerySetTool"} \cap DOMAIN reg}
    [] OTHER -> {}

Named(reg, names) == UNION {ByDisplay(reg, n) : n \in names}
InCategories(reg, categories) == Named(reg, UNION {Category(reg, c) : c \in categories})

\* Mutant: one exempted category switches the whole filter off.
MutWriteFiltered(reg, d) ==
  IF WriteFilterOff(d) \/ Exempted(d) # {} THEN reg ELSE Restrict(reg, DOMAIN reg \ WriteOnly)

\* The tools that bypass the filter accept GET as well and pass it anyway.
WriteFiltered(reg, d) ==
  IF WriteFilterOff(d) THEN reg
  ELSE Restrict(reg, (DOMAIN reg \ WriteOnly) \cup (InCategories(reg, Exempted(d)) \cap DOMAIN reg))

EnabledCategories(reg, d) ==
  {"core_tools"} \cup (IF Memory \cap DOMAIN reg = {} THEN {} ELSE {"memory"}) \cup d.categories

\* An exception ends the filtering where it is: a list of categories that is
\* null before any filter, a bad pattern after the write filter.
Filtered(reg, d) ==
  LET written == WriteFiltered(reg, d)
      enabled == InCategories(reg, EnabledCategories(reg, d)) \cup Named(reg, d.enable)
      disabled == Named(reg, d.disable)
  IN  CASE d.malformed = "null categories" -> reg
        [] d.malformed = "bad pattern" -> written
        [] OTHER -> Restrict(written, (DOMAIN written \cap enabled) \ disabled)
--------------------------------------------------------------------------
\* The tools a client may call: the names it sees, with the tool behind each.
Offered(reg, d, version) ==
  LET shown == IF d.multi THEN DOMAIN reg \ Memory
               ELSE {t \in DOMAIN Filtered(reg, d) \ MultiOnly : Compatible(t, version)}
      behind(name) == {i \in DOMAIN Order : Order[i] \in shown /\ reg[Order[i]] = name}
  IN  [name \in {reg[t] : t \in shown} |->
         Order[IF d.multi THEN Min(behind(name)) ELSE Max(behind(name))]]
============================================================================
