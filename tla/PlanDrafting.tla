---------------------------- MODULE PlanDrafting ----------------------------
(***************************************************************************)
(* The plan the planner drafts for a task, as its artifact shows it: the   *)
(* steps, what each waits for, the files it is given and the conflict keys *)
(* these make.  Files are the places of the task's list, and a path may be *)
(* listed at more than one of them; titles are left out.                   *)
(***************************************************************************)
EXTENDS Integers, Sequences, FiniteSets, SequencesExt

CONSTANTS
  DrMaxFiles,      \* bound: files a task lists
  DrPath,          \* the path listed at each place; compactStrings keeps repeats
  DrClusterLimit   \* GO_CORE_MAX_CLUSTER_PLAN_FILES

ASSUME DraftAssumption ==
  DrMaxFiles \in Nat /\ DrClusterLimit \in Nat /\ DOMAIN DrPath = 1..DrMaxFiles

VARIABLES
  drTask,    \* the task to plan
  drPlan     \* the steps, once drafted

drVars == <<drTask, drPlan>>

TaskTypes == {"code", "fix", "plan", "review", "test", "docs", "research", "other"}
DraftTasks ==
  [type : TaskTypes, required : {"", "review", "sourcecraft"}, keyword : BOOLEAN,
   files : 0..DrMaxFiles, criteria : 0..2, complexity : {"low", "medium", "high", "critical"}]

\* isSourcecraftWork: by the capability asked for ("sourcecraft" stands for its
\* families too), or by a keyword in the text of planning, docs or research.
Sourcecraft(t) ==
  t.required = "sourcecraft" \/ (t.keyword /\ t.type \in {"plan", "docs", "research"})

\* inferCapability: what is asked for, Sourcecraft work, the task's type.
CapabilityOf(t) ==
  CASE t.required # "" -> t.required
    [] t.required = "" /\ Sourcecraft(t) -> "sourcecraft"
    [] t.required = "" /\ ~Sourcecraft(t) /\ t.type # "other" -> t.type
    [] OTHER -> "general"

WorkerClass(capability) ==
  CASE capability \in {"plan", "analysis"} -> "planner"
    [] capability \in {"code", "sourcecraft", "fix"} -> "code"
    [] capability \in {"review", "security"} -> "review"
    [] capability = "test" -> "test"
    [] capability = "research" -> "retrieval"
    [] capability = "docs" -> "merge"
    [] OTHER -> "general"

\* Ten for planning, review and merging, eight for tests and retrieval, six else;
\* two for each file; eighteen at most.
StepContextBudget(capability, n) ==
  LET base == CASE WorkerClass(capability) \in {"planner", "review", "merge"} -> 10
                [] WorkerClass(capability) \in {"test", "retrieval"} -> 8
                [] OTHER -> 6
  IN  IF base + 2 * n > 18 THEN 18 ELSE base + 2 * n

\* A step's paths are its conflict keys: code steps say so themselves, for the
\* others buildPlanArtifact adds them, and the budget too.
Step(id, capability, after, files) ==
  [id |-> id, capability |-> capability, after |-> after, files |-> files,
   keys |-> {DrPath[i] : i \in files},
   budget |-> StepContextBudget(capability, Cardinality(files))]

MaxFilesPerCluster(t) ==
  CASE t.complexity \in {"low", "medium"} -> 3
    [] t.complexity = "high" -> 2
    [] OTHER -> 1

\* Mutant: a cluster begins with the last file of the one before.
ClusterPlanFilesOverlapping(n, size) ==
  LET limit == IF DrClusterLimit > 0 /\ n > DrClusterLimit THEN DrClusterLimit ELSE n
      end(i) == IF i * size > limit THEN limit ELSE i * size
  IN  [i \in 1..((limit + size - 1) \div size) |-> (IF i = 1 THEN 1 ELSE (i - 1) * size)..end(i)]

\* clusterPlanFiles: runs of at most size files, of the first files only.
ClusterPlanFiles(n, size) ==
  LET limit == IF DrClusterLimit > 0 /\ n > DrClusterLimit THEN DrClusterLimit ELSE n
      end(i) == IF i * size > limit THEN limit ELSE i * size
  IN  [i \in 1..((limit + size - 1) \div size) |-> ((i - 1) * size + 1)..end(i)]

Parallelizable(t) ==
  t.files > 1 /\ (t.complexity \in {"high", "critical"} \/ t.files > 2 \/ t.criteria > 1)

CodeSteps(t) ==
  LET all == 1..t.files
      clusters == ClusterPlanFiles(t.files, MaxFilesPerCluster(t))
  IN  IF ~Parallelizable(t)
      THEN << Step(<<"implement", 0>>, CapabilityOf(t), {<<"analyze", 0>>}, all),
              Step(<<"review", 0>>, "review", {<<"implement", 0>>}, all),
              Step(<<"test", 0>>, "test", {<<"review", 0>>}, all) >>
      ELSE [i \in DOMAIN clusters |->
              Step(<<"branch", i>>, CapabilityOf(t), {<<"analyze", 0>>}, clusters[i])]
             \o << Step(<<"merge-review", 0>>, "review",
                        {<<"branch", i>> : i \in DOMAIN clusters}, all),
                   Step(<<"test", 0>>, "test", {<<"merge-review", 0>>}, all) >>

\* One after another, each given every file.
Chain(t, names, capabilities) ==
  [i \in DOMAIN names |->
     Step(<<names[i], 0>>, capabilities[i],
          {<<IF i = 1 THEN "analyze" ELSE names[i - 1], 0>>}, 1..t.files)]

SourcecraftSteps(t) ==
  LET draft == IF t.type \in {"docs", "research", "code", "review", "test"} THEN t.type
               ELSE IF t.type = "fix" THEN "code" ELSE "plan"
      checked == t.type \in {"code", "fix", "test"}
  IN  Chain(t, <<"repo-context", "workflow-policy", "draft-sourcecraft", "review-sourcecraft">>
                 \o (IF checked THEN <<"validate-sourcecraft">> ELSE <<>>),
               <<"research", "plan", draft, "review">> \o (IF checked THEN <<"test">> ELSE <<>>))

DefaultSteps(t) ==
  LET c == CapabilityOf(t)
  IN  << Step(<<"analyze", 0>>, "plan", {}, 1..t.files) >> \o
      CASE Sourcecraft(t) -> SourcecraftSteps(t)
        [] ~Sourcecraft(t) /\ t.type \in {"code", "fix"} -> CodeSteps(t)
        [] ~Sourcecraft(t) /\ t.type = "plan" ->
             Chain(t, <<"draft-plan", "review-plan">>, <<c, "review">>)
        [] ~Sourcecraft(t) /\ t.type = "review" ->
             Chain(t, <<"audit", "report">>, <<c, "docs">>)
        [] ~Sourcecraft(t) /\ t.type = "test" ->
             Chain(t, <<"run-tests", "verify-results">>, <<c, "review">>)
        [] ~Sourcecraft(t) /\ t.type \in {"docs", "research"} ->
             Chain(t, <<"collect-context", "write-output", "review-output">>, <<c, c, "review">>)
        [] ~Sourcecraft(t) /\ t.type = "other" ->
             Chain(t, <<"execute", "verify">>, <<c, "review">>)

DrInit == drTask \in DraftTasks /\ drPlan = <<>>

BuildPlan ==
  /\ drPlan = <<>>
  /\ drPlan' = DefaultSteps(drTask)
  /\ UNCHANGED drTask

DrNext == BuildPlan

DrSpec == DrInit /\ [][DrNext]_drVars

-----------------------------------------------------------------------------
(* Properties.                                                             *)

DrTypeOK ==
  /\ drTask \in DraftTasks
  /\ \A i \in DOMAIN drPlan :
       /\ drPlan[i].files \subseteq 1..drTask.files
       /\ drPlan[i].keys = {DrPath[k] : k \in drPlan[i].files}
       /\ drPlan[i].budget \in 6..18

Drafted == drPlan # <<>>
StepIds == {drPlan[i].id : i \in DOMAIN drPlan}

\* The draft can be run to its end: ids are unique, steps wait only for earlier
\* ones, everything waits for the analysis and the last step for everything.
DraftJoins ==
  Drafted =>
    /\ Cardinality(StepIds) = Len(drPlan)
    /\ \A i \in DOMAIN drPlan :
         drPlan[i].after \subseteq {drPlan[j].id : j \in 1..(i - 1)}
    /\ \A i \in DOMAIN drPlan \ {1} : drPlan[i].after # {}
    /\ \A i \in DOMAIN drPlan \ {Len(drPlan)} :
         \E j \in DOMAIN drPlan : drPlan[i].id \in drPlan[j].after

\* Two steps that wait for the same lock different paths, unless the task lists
\* a path twice: the branches of a plan can run side by side.
BranchesApart ==
  Drafted =>
    \A i, j \in DOMAIN drPlan : i # j /\ drPlan[i].after = drPlan[j].after =>
      \A path \in drPlan[i].keys \cap drPlan[j].keys :
        \E m, n \in 1..drTask.files : m # n /\ DrPath[m] = path /\ DrPath[n] = path

\* Every file of code work is given to a step that changes code, up to the
\* limit on clustered files; the rest appear in the review alone.
FilesHaveAStep ==
  Drafted /\ drTask.type \in {"code", "fix"} /\ ~Sourcecraft(drTask) =>
    LET workers == {i \in DOMAIN drPlan : drPlan[i].id[1] \in {"implement", "branch"}}
        covered == UNION {drPlan[i].files : i \in workers}
    IN  \/ covered = 1..drTask.files
        \/ /\ Parallelizable(drTask) /\ drTask.files > DrClusterLimit
           /\ covered = 1..DrClusterLimit
=============================================================================
