------------------------------ MODULE MCRouting ------------------------------
(* Routing, what a submission does with it, the planner's drafts and the   *)
(* execution of a plan: "part" is the one that moves.                      *)
EXTENDS ParallelPlan, TaskRouting, PlanDrafting, PeerSubmission, TLC

CONSTANTS a1, a2, a3, gone, e1, e2, k1

Agent(id, provider, model, family, kinds, classes, capabilities) ==
  [id |-> id, provider |-> provider, model |-> model, family |-> family, small |-> FALSE,
   kinds |-> kinds, classes |-> classes, capabilities |-> capabilities, status |-> "ready",
   configured |-> TRUE, overrides |-> TRUE]

FiveAgents ==
  << Agent("orchestrator", "ai_kernel", Gemma, "gemma", {"orchestration"}, {},
           {"sourcecraft", "plan", "code", "review"}),
     Agent("coder-openai", "openai", "gpt-5.5", "gpt", {"coding"}, {"code"}, {"*", "code", "review"}),
     Agent("coder-ai-kernel", "ai_kernel", Gemma, "gemma", {"coding"}, {"code"}, {"code", "review"}),
     Agent("coder-ai-kernel-2", "ai_kernel", Gemma, "gemma", {"coding"}, {"code"}, {"code", "review"}),
     Agent("planner-mistral", "mistral", "mistral-large-latest", "mistral", {"plan"}, {"planner"},
           {"plan", "review"}) >>

Model(provider, name, family, default, small, order) ==
  [provider |-> provider, name |-> name, family |-> family, default |-> default,
   small |-> small, order |-> order]

FourModels ==
  { Model("ai_kernel", Gemma, "gemma", TRUE, FALSE, 1),
    Model("openai", "gpt-5.5", "gpt", TRUE, FALSE, 2),
    Model("openai", "gpt-5.1-nano", "gpt", FALSE, TRUE, 3),
    Model("mistral", "mistral-large-latest", "mistral", TRUE, FALSE, 4) }

Plain == [type |-> "code", priority |-> "normal", complexity |-> "", marks |-> {}, files |-> 1,
          provider |-> "", model |-> "", capability |-> "code", class |-> "code",
          preferred |-> "", override |-> FALSE, sourcecraft |-> FALSE, dynamic |-> FALSE,
          budget |-> 0, weight |-> 0, failures |-> 0, helpers |-> FALSE, fixed |-> FALSE]

SomeTasks ==
  { Plain,
    [Plain EXCEPT !.marks = {"risk"}, !.complexity = "low", !.budget = 8, !.weight = 1],
    [Plain EXCEPT !.type = "review", !.capability = "review", !.class = "review",
                  !.marks = {"risk", "permission", "exempt"}],
    [Plain EXCEPT !.type = "plan", !.capability = "plan", !.class = "planner",
                  !.dynamic = TRUE, !.budget = 10, !.weight = 4],
    [Plain EXCEPT !.type = "research", !.capability = "sourcecraft", !.class = "retrieval",
                  !.sourcecraft = TRUE],
    [Plain EXCEPT !.provider = "ai_kernel", !.fixed = TRUE, !.preferred = "coder-openai"],
    [Plain EXCEPT !.type = "fix", !.priority = "high", !.files = 3, !.budget = 1800, !.failures = 1] }

\* A plan: a1 and a2 come first; a3 follows a1, shares a key with a2 and is heavier.
Joined == [a \in Artifacts |-> IF a = a3 THEN {a1} ELSE {}]
Shared == [a \in Artifacts |-> IF a = a1 THEN {} ELSE {k1}]
Order == [a \in Artifacts |-> CASE a = a3 -> 1 [] a = a1 -> 2 [] a = a2 -> 3]

\* The same plan, but a3 also waits for an id that no artifact has, and tasks
\* are run by the goroutines that submit them.
Dangling == [Joined EXCEPT ![a3] = @ \cup {gone}]
Broken == INSTANCE ParallelPlan WITH Deps <- Dangling, Async <- FALSE

\* A task that lists its first file again in fourth place.
FirstAgain == [i \in 1..DrMaxFiles |-> IF i = 4 THEN 1 ELSE i]

VARIABLE part

mcVars == <<vars, rtVars, drVars, psVars, part>>

\* Calls are alike: e1 begins before e2, which comes when e1 has ended or has
\* something to show.
InTurn == step[e2] = "idle" /\ step'[e2] # "idle" =>
            step[e1] = "ended" \/ (step[e1] = "await" /\ completed[e1] # {})

\* A failed read, write or submission, a restart, or calls that overlap.
Faulty == faults' + crashes' <= IF overlap' THEN 0 ELSE 1

\* A failed read or save or another at the mailboxes, submissions that overlap,
\* or lanes that come back.
OneTrouble == psFaults' + psRecovered' <= IF psConcurrent' THEN 0 ELSE 1
OfPlan(A) == part = "plan" /\ A /\ InTurn /\ Faulty /\ UNCHANGED <<rtVars, drVars, psVars, part>>
OfBroken(A) == part = "broken" /\ A /\ InTurn /\ Faulty /\ UNCHANGED <<rtVars, drVars, psVars, part>>
OfRouting(A) == part = "routing" /\ A /\ UNCHANGED <<vars, drVars, psVars, part>>
OfDraft(A) == part = "draft" /\ A /\ UNCHANGED <<vars, rtVars, psVars, part>>
OfSubmission(A) == part = "submission" /\ A /\ OneTrouble /\ UNCHANGED <<vars, rtVars, drVars, part>>

\* Where lanes are not as at the start, at most two of them are, and no model or
\* every one is healthy.
Strained == \E id \in Ids : rtLanes[id] # Fresh
FewStrained ==
  /\ Cardinality({id \in Ids : rtLanes[id] # Fresh}) <= 2
  /\ Strained => Cardinality(rtHealthy) \in {0, 4}

\* The inputs of a part that does not move are one of those it could have.
MCInit ==
  /\ part \in {"plan", "broken", "routing", "draft", "submission"}
  /\ Init
  /\ IF part = "routing" THEN RtInit /\ FewStrained
     ELSE /\ rtStage = "submitted" /\ rtTask = Plain /\ rtSignals = Neutral /\ rtHealthy = {}
          /\ rtCrowd = 0 /\ rtLanes = [id \in Ids |-> Fresh] /\ rtPolicy = NoPolicy
          /\ rtAgent = {}
  /\ IF part = "draft" THEN DrInit
     ELSE /\ drPlan = <<>>
          /\ drTask = [type |-> "code", required |-> "", keyword |-> FALSE, files |-> 0,
                       criteria |-> 0, complexity |-> "low"]
  /\ PsInit
  /\ part # "submission" => psErr = [a \in PsAgents |-> 0]

MCNext ==
  \/ OfPlan(Next)
  \/ OfBroken(Broken!Next)
  \/ OfRouting(RtNext)
  \/ OfDraft(DrNext)
  \/ OfSubmission(PsNext)

\* Executions of a plan are goroutines, and so are the workers, which give
\* every workflow a deadline; submissions are, too.
MCSpec ==
  /\ MCInit /\ [][MCNext]_mcVars
  /\ \A c \in PsCallers : WF_mcVars(OfSubmission(PsStep(c)))
  /\ \A r \in Runs :
       /\ WF_mcVars(OfPlan(Advance(r)) \/ OfBroken(Broken!Advance(r)))
       /\ WF_mcVars(\E a \in Artifacts : OfPlan(Goroutine(r, a)) \/ OfBroken(Broken!Goroutine(r, a)))
       /\ WF_mcVars(\E a \in Artifacts : OfPlan(Workflow(r, a)) \/ OfBroken(Broken!Workflow(r, a)))

\* The plan alone.
PlanSpec == part = "plan" /\ MCInit /\ [][OfPlan(Next)]_mcVars

\* Whatever was planned can be carried out: a draft joins its steps, keeps
\* branches of different files apart and gives every file a step; and a plan is
\* reported blocked only over dependencies, never because conflict keys keep
\* every artifact waiting for another.
PlansHold ==
  /\ TypeOK /\ DrTypeOK /\ DraftJoins /\ BranchesApart /\ FilesHaveAStep
  /\ IF part = "broken" THEN Broken!BlockedHasCause ELSE BlockedHasCause

\* Nothing is tried again that should not be: when calls for a plan do not
\* overlap, the progress a resume reads is kept until the task is planned again
\* and an artifact completed there is not run again, through failures, failed
\* saves and restarts; and a lane that failed too often gets first attempts only
\* after an operator's help, although its suppression ended.
NothingTriedAgain ==
  [][/\ part = "plan" => NoRework /\ ProgressKept
     /\ StruckLaneNeedsHelp]_mcVars

\* Every submission comes to its end, and so does every call of a plan, but for
\* one that waits for a workflow which ended between its look and its waiting.
EveryoneAnswered ==
  <>[](/\ \A r \in Runs : step[r] \in {"idle", "ended"} \/ Deaf(r)
       /\ \A c \in PsCallers : At(c, "idle"))
=============================================================================
