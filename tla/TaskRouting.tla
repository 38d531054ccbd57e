----------------------------- MODULE TaskRouting -----------------------------
(***************************************************************************)
(* From a task to the agent that gets it: the model selector rates the     *)
(* models the registry reports healthy, the planner writes its choice into *)
(* the task, the adaptive runtime looks at the lanes, the router picks an  *)
(* agent and the assignment policy has the last word.                      *)
(*                                                                         *)
(* Texts are abstracted to the marks that decide (risk words, permission   *)
(* words, exemptions, architecture words); selector scores are in          *)
(* hundredths, lane rates and the parts of a routing score in percent.     *)
(* The models ahead of a model in its provider's catalog are only counted. *)
(***************************************************************************)
EXTENDS Integers, Sequences, FiniteSets, SequencesExt, FiniteSetsExt

CONSTANTS
  RtAgents,    \* the registered agents in the registry's order
  RtModels,    \* the models providers may report
  RtTasks,     \* the tasks submitted
  RtCloud,     \* PreferredCloudProvider of the configuration
  RtCrowds     \* how many other confirmed models a catalog may list first

Providers == {"ai_kernel", "local", "mistral", "codexsale", "openai", "mimo", "antigravity"}
LocalOnes == {"ai_kernel", "local"}
PaidOnes  == {"openai", "codexsale"}
Complexities == {"low", "medium", "high", "critical"}

\* What the registry keeps of an agent and of a model, and what is submitted:
\* "fixed" says that the caller assigned the provider or the model.
AgentRecords ==
  [id : STRING \ {""}, provider : Providers, model : STRING, family : STRING, small : BOOLEAN,
   kinds : SUBSET STRING, classes : SUBSET STRING, capabilities : SUBSET STRING,
   status : STRING, configured : BOOLEAN, overrides : BOOLEAN]
ModelRecords ==
  [provider : Providers, name : STRING, family : STRING, default : BOOLEAN, small : BOOLEAN, order : Nat]
TaskRecords ==
  [type : STRING, priority : STRING, complexity : Complexities \cup {""}, marks : SUBSET STRING,
   files : Nat, provider : Providers \cup {""}, model : STRING, capability : STRING, class : STRING,
   preferred : STRING, override : BOOLEAN, sourcecraft : BOOLEAN, dynamic : BOOLEAN, budget : Nat,
   weight : Nat, failures : Nat, helpers : BOOLEAN, fixed : BOOLEAN]

ASSUME RoutingAssumption ==
  /\ RtAgents \in Seq(AgentRecords) /\ IsInjective([i \in DOMAIN RtAgents |-> RtAgents[i].id])
  /\ RtModels \subseteq ModelRecords /\ IsFiniteSet(RtModels)
  /\ \A m, o \in RtModels : m.provider = o.provider /\ m.name = o.name => m = o
  /\ RtTasks \subseteq TaskRecords
  /\ \A t \in RtTasks : ~t.fixed => t.provider = "" /\ t.model = ""
  /\ RtCloud \in Providers /\ RtCrowds \subseteq Nat

VARIABLES
  rtStage,     \* what the submission has come to
  rtTask,      \* the task, with what the stages have added to it
  rtSignals,   \* what memory and earlier attempts say: see Signals
  rtHealthy,   \* the models HealthyModels reports
  rtCrowd,     \* confirmed models of the family listed before them
  rtLanes,     \* per agent: status, error rate and load
  rtPolicy,    \* modelSelectionPolicy of the task, once selected
  rtAgent      \* {} or {the agent routed to}

rtVars == <<rtStage, rtTask, rtSignals, rtHealthy, rtCrowd, rtLanes, rtPolicy, rtAgent>>

Ids == {a.id : a \in ToSet(RtAgents)}
AgentOf(id) == CHOOSE a \in ToSet(RtAgents) : a.id = id
LaneStates == [status : {"ready", "busy", "degraded", "maintenance", "offline"},
              err : {0, 25, 50, 75, 100}, load : {0, 100}]

-----------------------------------------------------------------------------
(* The selector.                                                           *)

\* EvaluateRiskContext: an exemption counts in a permission context only.
HighRisk(t) ==
  "risk" \in t.marks /\ ~({"permission", "exempt"} \subseteq t.marks)

Exempted(t) == {"permission", "exempt"} \subseteq t.marks

Classify(t) ==
  CASE t.complexity # "" -> t.complexity
    [] t.complexity = "" /\ (t.priority = "critical" \/ HighRisk(t)) -> "critical"
    [] t.complexity = "" /\ t.priority # "critical" /\ ~HighRisk(t) ->
         IF t.priority = "high" \/ (t.type \in {"plan", "review"} /\ "architecture" \in t.marks)
           THEN "high"
         ELSE IF Exempted(t) /\ t.type \in {"docs", "fix"} /\ t.files <= 2 /\ "short" \in t.marks
           THEN "low"
         ELSE IF t.type \in {"code", "test", "fix", "docs", "research"} \/ t.files > 2
           THEN "medium"
         ELSE "low"

Escalates(t) ==
  Classify(t) \in {"critical", "high"} \/ t.priority = "critical" \/ HighRisk(t)

\* Where a value stands in a list, counted from 1.
IndexIn(list, value) == CHOOSE i \in DOMAIN list : list[i] = value

\* orderByPath, without the policy's own provider in front; the known providers
\* are in every one of these lists.
ProviderPreference(path) ==
  CASE path = "cloud" -> <<"codexsale", "openai", "mistral", "mimo", "antigravity", "ai_kernel", "local">>
    [] path = "code"  -> <<"ai_kernel", "local", "antigravity", "codexsale", "openai", "mistral", "mimo">>
    [] path = "analysis" -> <<"mistral", "codexsale", "openai", "mimo", "antigravity", "ai_kernel", "local">>
    [] path = "docs"  -> <<"ai_kernel", "local", "mistral", "mimo", "antigravity", "codexsale", "openai">>
    [] path = "research" -> <<"mistral", "mimo", "codexsale", "openai", "antigravity", "ai_kernel", "local">>
    [] path = "default" -> <<"local", "ai_kernel", "mistral", "codexsale", "openai", "mimo", "antigravity">>

\* The place of a provider: the policy's own is the first, and dedupeStrings
\* drops it further down.
ProviderPlace(policy, provider) ==
  IF provider = policy.provider THEN 1
  ELSE 1 + Cardinality({i \in 1..IndexIn(policy.providers, provider) : policy.providers[i] # policy.provider})

Policy(path, provider, model, families, models, review) ==
  [path |-> path, provider |-> provider, model |-> model, review |-> review,
   cloud |-> path = "cloud", families |-> families, models |-> models,
   providers |-> ProviderPreference(path)]

Gemma == "gemma4-12b-agentic-fable5:q4_k_m"

SelectionPolicy(t) ==
  CASE Escalates(t) ->
         Policy("cloud", RtCloud, "gpt-5.5",
           <<"gpt", "claude", "gemini", "deepseek", "mistral", "kimi", "glm", "qwen", "llama">>,
           <<"gpt-5.6-sol", "gpt-5.5", "gpt-5.4", "gpt-5.4-mini", "claude-sonnet-4-6",
             "mistral-large-latest">>, TRUE)
    [] ~Escalates(t) /\ t.type \in {"code", "fix", "test"} ->
         Policy("code", "ai_kernel", Gemma,
           <<"gemma", "deepseek", "llama", "glm", "gpt", "claude", "mistral", "gemini">>,
           <<Gemma, "deepseek-coder", "claude-sonnet-4-6", "gpt-5.5">>, t.type = "test")
    [] ~Escalates(t) /\ t.type \in {"plan", "review"} ->
         Policy("analysis", "mistral", "mistral-large-latest",
           <<"claude", "gpt", "mistral", "gemini", "kimi", "qwen", "deepseek", "llama">>,
           <<"claude-sonnet-4-6", "gpt-5.6-sol", "gpt-5.5", "mistral-large-latest">>,
           t.type = "review")
    [] ~Escalates(t) /\ t.type = "docs" ->
         Policy("docs", "ai_kernel", Gemma,
           <<"gemma", "llama", "mistral", "gpt", "claude", "gemini">>,
           <<Gemma, "mistral-large-latest">>, FALSE)
    [] ~Escalates(t) /\ t.type = "research" ->
         Policy("research", "mistral", "mistral-large-latest",
           <<"claude", "gpt", "mistral", "gemini", "kimi", "deepseek", "gemma">>,
           <<"claude-sonnet-4-6", "gpt-5.5", "mistral-large-latest">>, FALSE)
    [] OTHER ->
         Policy("default", "ai_kernel", Gemma,
           <<"gemma", "llama", "gpt", "claude", "mistral">>, <<Gemma, "gpt-5.5">>, FALSE)

\* expandPolicyModels: every confirmed model of a wanted family joins the list,
\* in the order of the providers and behind the rest of its catalog.
Expanded(policy, healthy, crowd) ==
  LET wanted == {m \in healthy : /\ m.family \in ToSet(policy.families)
                                 /\ m.name \notin ToSet(policy.models)}
      place(m) == ProviderPlace(policy, m.provider)
      behind(m) == Cardinality({o \in wanted : place(o) < place(m)})
  IN  [m \in healthy |->
         CASE m.name \in ToSet(policy.models) -> {IndexIn(policy.models, m.name) - 1}
           [] m \in wanted -> {Len(policy.models) + crowd + behind(m)}
           [] OTHER -> {}]

\* Where a value stands in a preference list, counted from 0: {} when absent.
PlacesIn(value, list) ==
  IF value \in ToSet(list) THEN {IndexIn(list, value) - 1} ELSE {}

\* What a place in a list is worth: nothing when absent.
Points(places, top, step) == IF places = {} THEN 0 ELSE top - step * (CHOOSE i \in places : TRUE)

\* scoreHealthyModel; a model that is routing-ready has the status "ready".
HealthyModel(m, policy, listed) ==
  Points(listed, 1000, 25) + Points(PlacesIn(m.family, policy.families), 700, 20)
    + 150
    + (IF m.default THEN 60 ELSE 0)
    + (IF m.name = policy.model THEN 80 ELSE 0)

(* What else counts, in hundredths: scoreRouteHistory of the provider's    *)
(* earlier routes, scoreBudgetFit, scoreRetrievalFit, scoreFailurePenalty. *)

BudgetFit(m, s) ==
  CASE s.budget = "reduce" /\ m.provider \in LocalOnes -> 180
    [] s.budget = "reduce" /\ m.provider \notin LocalOnes /\ m.small -> 100
    [] s.budget = "reduce" /\ m.provider \notin LocalOnes /\ ~m.small
         /\ m.family \in {"gpt", "claude", "gemini"} -> -80
    [] s.budget = "expand" /\ m.family \in {"gpt", "claude", "gemini"} -> 80
    [] OTHER -> 0

RetrievalFit(m, policy, s) ==
  IF s.retrieval = "none" THEN 0
  ELSE 20 + (IF m.small THEN -50 ELSE 0)
          + (IF policy.path \in {"analysis", "research", "cloud"}
                /\ m.family \in {"gpt", "claude", "gemini", "qwen", "mistral"} THEN 90 ELSE 0)
          + (IF s.retrieval = "high" THEN 40 + 30 + 15 ELSE 0)

Signal(m, policy, s) ==
  s.history[m.provider] + BudgetFit(m, s) + RetrievalFit(m, policy, s)
    - (IF m.provider \in s.failed THEN 220 ELSE 0)

\* The provider's place among the seven is worth 0.35 a step.
ProviderPriority(m, policy) == 35 * (8 - ProviderPlace(policy, m.provider))

ModelScore(m, policy, healthy, crowd, s) ==
  100 * HealthyModel(m, policy, Expanded(policy, healthy, crowd)[m])
    + ProviderPriority(m, policy) + Signal(m, policy, s)

\* resolveAvailableModel: a model whose base is not positive is not rated; of
\* equal scores the first name wins (names are ordered by their "order").
Rated(policy, healthy, crowd) ==
  {m \in healthy : HealthyModel(m, policy, Expanded(policy, healthy, crowd)[m]) > 0}

\* Mutant: the best model's name with the policy's provider.
ResolveSplit(policy, healthy, crowd, s) ==
  LET rated == Rated(policy, healthy, crowd)
      score(m) == ModelScore(m, policy, healthy, crowd, s)
  IN  IF rated = {} THEN [provider |-> policy.provider, name |-> policy.model]
      ELSE LET best == CHOOSE m \in rated :
                         \A o \in rated : \/ score(m) > score(o)
                                          \/ score(m) = score(o) /\ m.order <= o.order
           IN  [provider |-> policy.provider, name |-> best.name]

ResolveAvailableModel(policy, healthy, crowd, s) ==
  LET rated == Rated(policy, healthy, crowd)
      score(m) == ModelScore(m, policy, healthy, crowd, s)
  IN  IF rated = {} THEN [provider |-> policy.provider, name |-> policy.model]
      ELSE LET best == CHOOSE m \in rated :
                         \A o \in rated : \/ score(m) > score(o)
                                          \/ score(m) = score(o) /\ m.order <= o.order
           IN  [provider |-> best.provider, name |-> best.name]

\* shouldAttachAIKernelSupport: local helpers beside a route that is not local.
SupportLanes(t, policy, choice, healthy) ==
  /\ choice.provider # "ai_kernel" /\ policy.provider # "ai_kernel"
  /\ \E m \in healthy : m.provider = "ai_kernel"
  /\ policy.cloud \/ t.type \in {"plan", "review", "research"}

-----------------------------------------------------------------------------
(* The router.                                                             *)

Open(id) ==
  /\ AgentOf(id).status \in {"ready", "busy", "degraded"}
  /\ rtLanes[id].status \notin {"offline", "maintenance"}

\* An agent that takes anything ("*") still accepts only what it lists: Prepare
\* has set the task's RequiredCapability to the plan's.
CanAccept(id, t) == AgentOf(id).configured /\ t.capability \in AgentOf(id).capabilities

CanRoute(id, t) ==
  /\ Open(id)
  /\ {t.capability, "*"} \cap AgentOf(id).capabilities # {}
  /\ CanAccept(id, t)

\* The agent's own model or one it can be asked for, if its provider has it ready.
MatchesModel(id, t) ==
  /\ t.model \in {m.name : m \in {h \in rtHealthy : h.provider = AgentOf(id).provider}}
  /\ t.model = AgentOf(id).model \/ AgentOf(id).overrides

\* shouldRelaxAssignedProvider, or agents already excluded.
Relaxed(t, exclude) == exclude # {} \/ t.failures > 0

Filtered(t, ids, relaxed) ==
  {id \in ids : relaxed \/ /\ t.provider \in {"", AgentOf(id).provider}
                           /\ t.model = "" \/ MatchesModel(id, t)}

Clamp(x, low, high) == IF x < low THEN low ELSE IF x > high THEN high ELSE x
When(p, x) == IF p THEN x ELSE 0

\* clusterPolicyDelta.
ClusterPolicyDelta(a, t, c) ==
  LET small == t.budget > 0 /\ t.budget <= 900
      large == t.budget >= 1800 \/ c \in {"high", "critical"} \/ HighRisk(t)
      light == t.weight > 0 /\ 2 * t.weight <= 3
      heavy == 2 * t.weight >= 7
      local == a.provider \in LocalOnes
      paid  == a.provider \in PaidOnes
      middle == a.provider \in {"mistral", "antigravity", "mimo"}
  IN  When(t.class \in a.kinds, 18)
        + When(t.class = "code" /\ "coding" \in a.kinds, 16)
        + When(t.class = "review" /\ "review" \in a.kinds, 22)
        + When(t.class = "test" /\ "test" \in a.kinds, 18)
        + When(t.class = "retrieval" /\ a.kinds \cap {"research", "analysis"} # {}, 15)
        + When(t.class = "merge" /\ a.kinds \cap {"review", "analysis", "orchestrator"} # {}, 18)
        + When(t.class = "planner" /\ a.kinds \cap {"plan", "analysis"} # {}, 16)
        + When(t.class \in {"code", "test", "retrieval", "verification"},
               When(local, 26) + When(middle, 12) - When(paid, 10))
        + When(t.class \in {"review", "merge", "planner", "research"} /\ (large \/ heavy),
               When(paid, 24) + When(middle, 10) + When(local, 4))
        + When(small, When(local, 16) - When(paid, 14))
        + When(light /\ local, 12)
        + When(heavy /\ large, When(paid, 10) - When(local, 8))

RawPolicyScore(id, t, c) ==
  LET a == AgentOf(id)
      strict == c \in {"high", "critical"} \/ HighRisk(t)
  IN  100 + When(a.status = "ready", 20) + When(a.status = "busy", 5) + 40
        + When(t.provider = a.provider, 35)
        + When(t.model # "" /\ MatchesModel(id, t), 15)
        + When(t.preferred = id, 120)
        + When(strict /\ a.provider \in PaidOnes, 40)
        + When(strict /\ "review" \in a.kinds, 12)
        + When(~strict /\ a.provider \in LocalOnes, 25)
        + When(~strict /\ a.provider \in {"mistral", "antigravity", "mimo"}, 15)
        - When(~strict /\ a.provider \in PaidOnes, 20)
        + When(t.sourcecraft /\ id = "orchestrator", 100)
        + When(t.type \in a.kinds, 10)
        + When(c = "low" /\ a.provider = "local", 10)
        + ClusterPolicyDelta(a, t, c)

\* clampPolicyScore: 80 and below is 0, 240 and above is full marks.
PolicyScore(id, t, c) == Clamp(RawPolicyScore(id, t, c) - 80, 0, 160)

(* runtimeScore, in hundredths of a percent: what the lane's status, error *)
(* rate and load leave of its weight, which is its priority too, and what  *)
(* is left of its capacity after the load of its provider and its class:   *)
(* a share of the highest load or the mean, loads being none or full.      *)

Weight(l) ==
  (CASE l.status = "ready" -> 100 [] l.status = "busy" -> 80 [] l.status = "degraded" -> 45
     [] OTHER -> 0) * Clamp(100 - l.err, 5, 100) * Clamp(100 - (65 * l.load) \div 100, 10, 100)

Pressure(ids, share) ==
  LET full == {id \in ids : rtLanes[id].load = 100}
  IN  CASE full = {} -> 0
        [] full # {} -> Max({share, (100 * Cardinality(full)) \div Cardinality(ids)})

Capacity(id, t) ==
  LET peers == {o \in Ids : AgentOf(o).provider = AgentOf(id).provider}
      class == {o \in peers : t.class \in AgentOf(o).classes}
  IN  100 - Max({rtLanes[id].load, rtLanes[id].err, Pressure(peers, 65), Pressure(class, 60)})

RuntimeScore(id, t) ==
  LET l == rtLanes[id]
  IN  (50 * Weight(l)) \div 10000
        + 18 * (100 - l.err) + 16 * (100 - l.load) + 16 * Capacity(id, t)

\* retrievalScore in percent: memory of a high tier is also well covered and
\* truncated, "some" memory is below every threshold.
RetrievalScore(id, t, c) ==
  LET a == AgentOf(id)
      high == rtSignals.retrieval = "high"
  IN  IF c \notin {"high", "critical"} /\ t.type \notin {"research", "review"} /\ ~high THEN 50
      ELSE Clamp(35 + When(a.provider \in PaidOnes, 25) + When(a.provider \in LocalOnes, 8)
                    + When(a.kinds \cap {"research", "review", "analysis"} # {}, 18)
                    + When(a.family \in {"gpt", "claude", "gemini", "qwen", "mistral"}, 18)
                    - When(a.small, 12) + When(high, 10 + 8 + 6), 0, 100)

\* scoreAgent without route history and realtime quality, which are equal for
\* agents nothing is known about: 39 parts policy, 20 runtime, 11 retrieval.
ScoreAgent(id, t, c) ==
  39 * 10000 * PolicyScore(id, t, c) + 20 * 160 * RuntimeScore(id, t)
    + 11 * 16000 * RetrievalScore(id, t, c)

\* The loop over the candidates in the registry's order: after i agents the
\* place of the best so far, or 0.
Best(ids, t, c) ==
  LET score(i) == ScoreAgent(RtAgents[i].id, t, c)
      best[i \in 0..Len(RtAgents)] ==
        IF i = 0 THEN 0
        ELSE IF RtAgents[i].id \in ids /\ (best[i - 1] = 0 \/ score(i) > score(best[i - 1])) THEN i
        ELSE best[i - 1]
  IN  RtAgents[best[Len(RtAgents)]].id

\* route: a preferred agent, then the orchestrator where asked for, then the
\* best of the candidates.
Routed(t, exclude) ==
  LET able(id) == id \in Ids \ exclude /\ CanRoute(id, t)
      candidates == Filtered(t, {id \in Ids : able(id)}, Relaxed(t, exclude))
  IN  CASE able(t.preferred) -> {t.preferred}
        [] ~able(t.preferred) /\ (t.override \/ t.sourcecraft) /\ able("orchestrator")
             -> {"orchestrator"}
        [] ~able(t.preferred) /\ ~((t.override \/ t.sourcecraft) /\ able("orchestrator"))
             /\ candidates # {} -> {Best(candidates, t, Classify(t))}
        [] OTHER -> {}

-----------------------------------------------------------------------------
(* The stages of a submission.                                             *)

NoPolicy == [path |-> "none"]

Fresh == [status |-> "ready", err |-> 0, load |-> 0]
Neutral == [history |-> [p \in Providers |-> 0], budget |-> "", retrieval |-> "none",
            failed |-> {}]

\* What a lane looks like after no, one or three failures, or under load.
LanesMet == {Fresh, [Fresh EXCEPT !.load = 100],
             [status |-> "degraded", err |-> 25, load |-> 0],
             [status |-> "maintenance", err |-> 75, load |-> 0]}

SignalsMet ==
  [history : {[p \in Providers |-> IF p = q THEN 740 ELSE 0] : q \in {"openai", "ai_kernel"}},
   budget : {"", "reduce", "expand"}, retrieval : {"none", "some", "high"},
   failed : {{}, {"ai_kernel"}}]

\* The selector and the router are tried on their own inputs one at a time.
RtInit ==
  /\ rtStage = "submitted"
  /\ rtTask \in RtTasks
  /\ rtHealthy \in SUBSET RtModels
  /\ \/ rtSignals \in SignalsMet /\ rtCrowd \in RtCrowds /\ rtLanes = [id \in Ids |-> Fresh]
     \/ rtSignals = Neutral /\ rtCrowd = 0 /\ rtLanes \in [Ids -> LanesMet]
  /\ rtPolicy = NoPolicy
  /\ rtAgent = {}

\* Planner.Prepare: what the caller has assigned stays; a plan or analysis step
\* of a parallel plan is left for the router to place.
Prepare ==
  LET t == rtTask
      policy == SelectionPolicy(t)
      choice == ResolveAvailableModel(policy, rtHealthy, rtCrowd, rtSignals)
  IN /\ rtStage = "submitted"
     /\ rtPolicy' = policy
     /\ rtTask' = [t EXCEPT !.complexity = Classify(t),
                            !.provider = IF @ = "" /\ ~t.dynamic THEN choice.provider ELSE @,
                            !.model = IF @ = "" /\ ~t.dynamic THEN choice.name ELSE @,
                            !.helpers = SupportLanes(t, policy, choice, rtHealthy)]
     /\ rtStage' = "planned"
     /\ UNCHANGED <<rtSignals, rtHealthy, rtCrowd, rtLanes, rtAgent>>

\* Apply: a lane at 75 percent is suppressed, and anything wrong anywhere sends
\* the task to the orchestrator.
AdaptTask ==
  LET hit(id) == rtLanes[id].err >= 75 /\ rtLanes[id].status # "offline"
      ill(id) == hit(id) \/ rtLanes[id].status \in {"degraded", "maintenance"}
      mean == MapThenSumSet(LAMBDA id : rtLanes[id].err, Ids)
  IN /\ rtStage = "planned"
     /\ rtLanes' = [id \in Ids |-> IF hit(id) THEN [rtLanes[id] EXCEPT !.status = "maintenance"]
                                   ELSE rtLanes[id]]
     /\ rtTask' = [rtTask EXCEPT !.override = @ \/ (\E id \in Ids : ill(id))
                                                \/ mean >= 30 * Cardinality(Ids)]
     /\ rtStage' = "adapted"
     /\ UNCHANGED <<rtSignals, rtHealthy, rtCrowd, rtPolicy, rtAgent>>

RouteTask ==
  /\ rtStage = "adapted"
  /\ rtAgent' = Routed(rtTask, {})
  /\ rtStage' = IF rtAgent' = {} THEN "rejected" ELSE "routed"
  /\ UNCHANGED <<rtTask, rtSignals, rtHealthy, rtCrowd, rtLanes, rtPolicy>>

\* assignmentPolicy looks at the lane again and insists on the provider.
AssignmentPolicy ==
  LET a == CHOOSE id \in rtAgent : TRUE
  IN /\ rtStage = "routed"
     /\ rtStage' = IF Open(a) /\ rtTask.provider \in {"", AgentOf(a).provider}
                   THEN "accepted" ELSE "refused"
     /\ UNCHANGED <<rtTask, rtSignals, rtHealthy, rtCrowd, rtLanes, rtPolicy, rtAgent>>

\* accepted: the agent's own model unless it takes the assigned one.
ModelAt(id, t) == IF t.model # "" /\ MatchesModel(id, t) THEN t.model ELSE AgentOf(id).model

\* The agent fails: RecordRuntimeFailure, and routePeerFallback without it; the
\* task is bound to the agent it moves to.
PeerFallback ==
  LET a == CHOOSE id \in rtAgent : TRUE
      t == [rtTask EXCEPT !.failures = @ + 1]
      e == rtLanes[a].err + 25
      next == Routed(t, {a})
      b == CHOOSE id \in next : TRUE
  IN /\ rtStage = "accepted"
     /\ rtLanes' = [rtLanes EXCEPT ![a].err = e,
                      ![a].status = IF e >= 75 THEN "maintenance" ELSE "degraded"]
     /\ rtAgent' = IF next = {} THEN rtAgent ELSE next
     /\ rtTask' = IF next = {} THEN rtTask
                  ELSE [t EXCEPT !.provider = AgentOf(b).provider, !.model = ModelAt(b, t)]
     /\ rtStage' = IF next = {} THEN "failed" ELSE "moved"
     /\ UNCHANGED <<rtSignals, rtHealthy, rtCrowd, rtPolicy>>

RtNext == Prepare \/ AdaptTask \/ RouteTask \/ AssignmentPolicy \/ PeerFallback

RtSpec == RtInit /\ [][RtNext]_rtVars

-----------------------------------------------------------------------------
(* Properties.                                                             *)

RtTypeOK ==
  /\ rtStage \in {"submitted", "planned", "adapted", "routed", "rejected", "accepted",
                  "refused", "moved", "failed"}
  /\ rtTask.complexity \in Complexities \cup (IF rtStage = "submitted" THEN {""} ELSE {})
  /\ rtTask.provider \in Providers \cup {""}
  /\ rtHealthy \subseteq RtModels
  /\ rtLanes \in [Ids -> LaneStates]
  /\ rtAgent \subseteq Ids /\ Cardinality(rtAgent) <= 1

Prepared == rtStage \notin {"submitted", "moved", "failed"}
Base(m) == HealthyModel(m, rtPolicy, Expanded(rtPolicy, rtHealthy, rtCrowd)[m])

\* Work with a risk word goes the cloud way with a second review, and so does
\* critical or high work: a complexity the caller states lifts nothing.
RiskKeepsReview ==
  Prepared /\ (HighRisk(rtTask) \/ rtTask.complexity \in {"high", "critical"}) =>
    rtPolicy.cloud /\ rtPolicy.review

\* Route history, budget, retrieval, earlier failures and the provider's place
\* together never outweigh a lead of 20 in the policy's own rating: they choose
\* among models the policy holds about equal.
PolicyDominates ==
  Prepared =>
    LET rated == Rated(rtPolicy, rtHealthy, rtCrowd)
        choice == ResolveAvailableModel(rtPolicy, rtHealthy, rtCrowd, rtSignals)
    IN  \A m, o \in rated : m.provider = choice.provider /\ m.name = choice.name =>
          Base(m) > Base(o) - 20

\* A prepared task's provider and model belong together; only a caller who fixes
\* the provider alone gets a model of another one beside it.
AssignedTogether ==
  rtStage \in {"planned", "adapted"} /\ ~rtTask.fixed /\ rtTask.model # "" /\ rtHealthy # {} =>
    \E m \in RtModels \cup {[provider |-> rtPolicy.provider, name |-> rtPolicy.model]} :
      m.provider = rtTask.provider /\ m.name = rtTask.model

\* A confirmed model of a family the policy wants is rated however long the
\* list before it, up to 62 models with those of other catalogs (further down
\* its place costs more than the family is worth).
FamilyStaysRated ==
  Prepared /\ rtCrowd + Cardinality(rtHealthy) <= 62 =>
    {m \in rtHealthy : m.family \in ToSet(rtPolicy.families)}
      \subseteq Rated(rtPolicy, rtHealthy, rtCrowd)

Twins(a, o) == AgentOf(o) = [AgentOf(a) EXCEPT !.id = o]
Standing(l) ==
  CASE l.status = "ready" -> 3 [] l.status = "busy" -> 2 [] l.status = "degraded" -> 1 [] OTHER -> 0
Healthier(l, k) ==
  /\ Standing(l) >= Standing(k) /\ l.err <= k.err /\ l.load <= k.load
  /\ Standing(l) > Standing(k) \/ l.err < k.err \/ l.load < k.load

\* Of agents that differ in their id alone the one on the worse lane is never
\* taken while the other can be: weight, priority, error rate, load and the
\* pressure of provider and class do not undo each other.
HealthierLaneTaken ==
  rtStage = "accepted" =>
    \A a \in rtAgent, o \in Ids :
      Twins(a, o) /\ CanRoute(o, rtTask) /\ {a, o} \cap {rtTask.preferred, "orchestrator"} = {}
        => ~Healthier(rtLanes[o], rtLanes[a])

\* A failed attempt ends the task only when no other agent can take it at all,
\* whatever provider and model it was assigned.
FallbackReachesAll ==
  rtStage = "failed" => \A id \in Ids \ rtAgent : ~CanRoute(id, rtTask)

\* From the task to its agent: the policy keeps risky work reviewed and chooses
\* among models it holds equal, provider and model belong together, of equal
\* agents the one on the healthier lane is taken, and a failed attempt ends the
\* task only where no agent that could take it was left aside.
RoutesSound ==
  /\ RtTypeOK /\ RiskKeepsReview /\ PolicyDominates /\ AssignedTogether /\ FamilyStaysRated
  /\ HealthierLaneTaken /\ FallbackReachesAll
=============================================================================
