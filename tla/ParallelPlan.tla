---------------------------- MODULE ParallelPlan ----------------------------
(***************************************************************************)
(* Execution of a plan's artifacts with a checkpoint that can be resumed.  *)
(*                                                                         *)
(* RunExecutionPlan stores a fresh checkpoint over whatever is there and   *)
(* executes it; ResumeExecutionPlan loads the stored one.  Calls for one   *)
(* plan may overlap.  An execution starts every ready artifact whose       *)
(* conflict keys are free, waits for one result, records it and looks      *)
(* again.  A failed result ends the execution at once: workflows already   *)
(* submitted go on without it.                                             *)
(*                                                                         *)
(* A workflow is known by its artifact's id alone.  Submitted at once, it  *)
(* is run by the goroutine that submitted it; submitted to the queue, its  *)
(* record is looked at and then waited for, and the record and the waiters *)
(* are those of every call that has submitted this artifact.               *)
(*                                                                         *)
(* A checkpoint is written twice, to the session state and then to the     *)
(* VFS, and read from the VFS if it has one.  Its static part (the plan)   *)
(* is the constants Deps, Keys and Rank here: a client that plans a task   *)
(* again sends the same task.                                              *)
(***************************************************************************)
EXTENDS Integers, FiniteSets

CONSTANTS
  Artifacts,
  Unknown,     \* ids that are a dependency of some artifact but no artifact
  Deps,        \* PlanTaskArtifact.Dependencies
  Keys,        \* PlanTaskArtifact.ConflictKeys, trimmed, blanks removed
  Rank,        \* position by weight, number of files, id
  Async,       \* GO_CORE_SUBMIT_MODE: SubmitTask only puts tasks on the queue
  Runs,        \* calls of RunExecutionPlan and ResumeExecutionPlan
  MaxFaults,   \* bound: failed reads, writes and submissions
  MaxCrashes   \* bound: restarts of the process

ASSUME PlanAssumption ==
  /\ Artifacts \cap Unknown = {}
  /\ Deps \in [Artifacts -> SUBSET (Artifacts \cup Unknown)]
  /\ DOMAIN Keys = Artifacts
  /\ Rank \in [Artifacts -> Int]
  /\ \A a, b \in Artifacts : Rank[a] = Rank[b] => a = b
  /\ Async \in BOOLEAN
  /\ MaxFaults \in Nat
  /\ MaxCrashes \in Nat

VARIABLES
  store, vfs,         \* the two copies of the checkpoint
  step,               \* per call: where it is
  status, pending, completed,  \* per call: its copy of the checkpoint
  running,            \* per call: artifacts started and not yet consumed
  exec,               \* per call: the goroutine of each artifact
  job,                \* per call: artifacts it submitted that still execute
  flow,               \* the workflow record of each artifact
  faults, crashes,
  succeeded,          \* history: artifacts some workflow of which succeeded
  tried,              \* history: the calls that submitted each artifact
  overlap             \* history: a call began while another one was under way

checkpoint == <<status, pending, completed>>
bounds     == <<faults, crashes>>
history    == <<succeeded, tried, overlap>>
flows      == <<exec, job, flow>>
vars == <<store, vfs, step, checkpoint, running, flows, bounds, history>>

Statuses == {"none", "planned", "running", "blocked", "failed", "completed"}
Steps    == {"idle", "saveStore", "saveVfs", "load", "schedule", "await", "ended"}
Phases   == {"none", "submit", "own", "look", "looked", "waiting", "ok", "bad"}

Stored == [status : Statuses, pending : SUBSET Artifacts, completed : SUBSET Artifacts]
Absent == [status |-> "none", pending |-> {}, completed |-> {}]

TypeOK ==
  /\ store \in Stored
  /\ vfs \in Stored
  /\ step \in [Runs -> Steps]
  /\ status \in [Runs -> Statuses]
  /\ pending \in [Runs -> SUBSET Artifacts]
  /\ completed \in [Runs -> SUBSET Artifacts]
  /\ running \in [Runs -> SUBSET Artifacts]
  /\ exec \in [Runs -> [Artifacts -> Phases]]
  /\ job \in [Runs -> SUBSET Artifacts]
  /\ flow \in [Artifacts -> {"none", "active", "ok", "bad"}]
  /\ faults \in 0..MaxFaults
  /\ crashes \in 0..MaxCrashes
  /\ succeeded \in SUBSET Artifacts
  /\ tried \in [Artifacts -> SUBSET Runs]
  /\ overlap \in BOOLEAN

Init ==
  /\ store = Absent
  /\ vfs = Absent
  /\ step = [r \in Runs |-> "idle"]
  /\ status = [r \in Runs |-> "none"]
  /\ pending = [r \in Runs |-> {}]
  /\ completed = [r \in Runs |-> {}]
  /\ running = [r \in Runs |-> {}]
  /\ exec = [r \in Runs |-> [a \in Artifacts |-> "none"]]
  /\ job = [r \in Runs |-> {}]
  /\ flow = [a \in Artifacts |-> "none"]
  /\ faults = 0 /\ crashes = 0
  /\ succeeded = {} /\ tried = [a \in Artifacts |-> {}] /\ overlap = FALSE

Goto(r, s) == step' = [step EXCEPT ![r] = s]

Alone(r) == \A q \in Runs \ {r} : step[q] \in {"idle", "ended"}

Begins(r) == /\ step[r] = "idle"
             /\ overlap' = (overlap \/ ~Alone(r))
             /\ UNCHANGED <<succeeded, tried>>

Fault == faults < MaxFaults /\ faults' = faults + 1 /\ UNCHANGED crashes

-----------------------------------------------------------------------------
(* PreviewExecutionPlan, LoadParallelCheckpoint and the beginning of       *)
(* executeParallelPlan.                                                    *)

Preview(r) ==
  /\ Begins(r)
  /\ status' = [status EXCEPT ![r] = "planned"]
  /\ pending' = [pending EXCEPT ![r] = Artifacts]
  /\ completed' = [completed EXCEPT ![r] = {}]
  /\ Goto(r, "saveStore")
  /\ UNCHANGED <<store, vfs, running, flows, bounds>>

Resume(r) ==
  /\ Begins(r)
  /\ Goto(r, "load")
  /\ UNCHANGED <<store, vfs, checkpoint, running, flows, bounds>>

\* The static part of a new plan cannot be saved: the call is refused.
PreviewFails(r) ==
  /\ Begins(r)
  /\ Fault
  /\ Goto(r, "ended")
  /\ UNCHANGED <<store, vfs, checkpoint, running, flows>>

Loaded == IF vfs = Absent THEN store ELSE vfs

\* Mutant: resuming starts the plan again from the beginning.
LoadFresh(r) ==
  /\ step[r] = "load"
  /\ status' = [status EXCEPT ![r] = "running"]
  /\ pending' = [pending EXCEPT ![r] = Artifacts]
  /\ completed' = [completed EXCEPT ![r] = {}]
  /\ Goto(r, "saveStore")
  /\ UNCHANGED <<store, vfs, running, flows, bounds, history>>

\* A completed plan is returned as it is, a missing one is an error.
Load(r) ==
  /\ step[r] = "load"
  /\ IF Loaded.status \in {"none", "completed"}
     THEN /\ Goto(r, "ended")
          /\ UNCHANGED checkpoint
     ELSE /\ status' = [status EXCEPT ![r] = "running"]
          /\ pending' = [pending EXCEPT ![r] = Loaded.pending]
          /\ completed' = [completed EXCEPT ![r] = Loaded.completed]
          /\ Goto(r, "saveStore")
  /\ UNCHANGED <<store, vfs, running, flows, bounds, history>>

\* Reading the checkpoint or rewriting its static part fails.
LoadFails(r) ==
  /\ step[r] = "load"
  /\ Fault
  /\ Goto(r, "ended")
  /\ UNCHANGED <<store, vfs, checkpoint, running, flows, history>>

-----------------------------------------------------------------------------
(* saveParallelCheckpoint.                                                 *)

Snapshot(r) == [status |-> status[r], pending |-> pending[r], completed |-> completed[r]]

SaveStore(r) ==
  /\ step[r] = "saveStore"
  /\ store' = Snapshot(r)
  /\ Goto(r, "saveVfs")
  /\ UNCHANGED <<vfs, checkpoint, running, flows, bounds, history>>

AfterSave(s) == CASE s = "planned" -> "load"
                  [] s = "running" -> "schedule"
                  [] OTHER         -> "ended"

SaveVfs(r) ==
  /\ step[r] = "saveVfs"
  /\ vfs' = Snapshot(r)
  /\ Goto(r, AfterSave(status[r]))
  /\ UNCHANGED <<store, checkpoint, running, flows, bounds, history>>

\* cancel(): nobody reads the goroutines' results any more.  One that has
\* not submitted its task yet may still do so.
Cancel(r) == exec' = [exec EXCEPT ![r] = [a \in Artifacts |->
                        IF exec[r][a] = "submit" THEN "submit" ELSE "none"]]

\* Whether the error is returned or ignored, the call ends; the copy not yet
\* written stays as it was.
SaveFails(r) ==
  /\ step[r] \in {"saveStore", "saveVfs"}
  /\ Fault
  /\ Goto(r, "ended")
  /\ Cancel(r)
  /\ UNCHANGED <<store, vfs, checkpoint, running, job, flow, history>>

-----------------------------------------------------------------------------
(* The loop of executeParallelPlan.                                        *)

\* Mutant: dependencies are not looked at.
ReadyPending(r) == pending[r]

\* readyPlanArtifacts: artifacts already running are still pending.
Ready(r) == {a \in pending[r] : Deps[a] \subseteq completed[r]}

\* Mutant: the keys of running artifacts are free.
ActiveKeysNone(r) == {}

ActiveKeys(r) == UNION {Keys[a] : a \in running[r]}

\* scheduleReadyArtifactsWithConflicts: greedy, in the order of Rank.
IsSchedule(S, ready, active) ==
  /\ S \subseteq ready
  /\ \A a \in ready :
       a \in S <=> /\ Keys[a] \cap active = {}
                   /\ \A b \in S : Rank[b] < Rank[a] => Keys[a] \cap Keys[b] = {}

Working(r) == pending[r] # {} \/ running[r] # {}

\* An artifact without conflict keys is scheduled again while it runs; it is
\* skipped when found in running.
Schedule(r) ==
  /\ step[r] = "schedule"
  /\ Working(r)
  /\ \E S \in SUBSET Ready(r) :
       /\ IsSchedule(S, Ready(r), ActiveKeys(r))
       /\ running[r] \cup S # {}
       /\ running' = [running EXCEPT ![r] = @ \cup S]
       /\ exec' = [exec EXCEPT ![r] = [a \in Artifacts |->
                     IF a \in S \ running[r] THEN "submit" ELSE exec[r][a]]]
  /\ Goto(r, "await")
  /\ UNCHANGED <<store, vfs, checkpoint, job, flow, bounds, history>>

Blocked(r) ==
  /\ step[r] = "schedule"
  /\ Working(r)
  /\ running[r] = {}
  /\ IsSchedule({}, Ready(r), ActiveKeys(r))
  /\ status' = [status EXCEPT ![r] = "blocked"]
  /\ Goto(r, "saveStore")
  /\ UNCHANGED <<store, vfs, pending, completed, running, flows, bounds, history>>

\* Mutant: the plan is finished as soon as nothing runs.
FinishEarly(r) ==
  /\ step[r] = "schedule"
  /\ running[r] = {}
  /\ status' = [status EXCEPT ![r] = "completed"]
  /\ Goto(r, "saveStore")
  /\ UNCHANGED <<store, vfs, pending, completed, running, flows, bounds, history>>

Finish(r) ==
  /\ step[r] = "schedule"
  /\ ~Working(r)
  /\ status' = [status EXCEPT ![r] = "completed"]
  /\ Goto(r, "saveStore")
  /\ UNCHANGED <<store, vfs, pending, completed, running, flows, bounds, history>>

RemovePending(p, a) == p \ {a}

ConsumeSuccess(r, a) ==
  /\ step[r] = "await"
  /\ a \in running[r] /\ exec[r][a] = "ok"
  /\ running' = [running EXCEPT ![r] = @ \ {a}]
  /\ exec' = [exec EXCEPT ![r][a] = "none"]
  /\ pending' = [pending EXCEPT ![r] = RemovePending(@, a)]
  /\ completed' = [completed EXCEPT ![r] = @ \cup {a}]
  /\ Goto(r, "saveStore")
  /\ UNCHANGED <<store, vfs, status, job, flow, bounds, history>>

\* Mutant: the failed artifact is recorded as completed.
ConsumeFailureRecorded(r, a) ==
  /\ step[r] = "await"
  /\ a \in running[r] /\ exec[r][a] = "bad"
  /\ running' = [running EXCEPT ![r] = @ \ {a}]
  /\ Cancel(r)
  /\ status' = [status EXCEPT ![r] = "failed"]
  /\ pending' = [pending EXCEPT ![r] = RemovePending(@, a)]
  /\ completed' = [completed EXCEPT ![r] = @ \cup {a}]
  /\ Goto(r, "saveStore")
  /\ UNCHANGED <<store, vfs, job, flow, bounds, history>>

\* The workflow could not be submitted or waited for, or did not succeed.
ConsumeFailure(r, a) ==
  /\ step[r] = "await"
  /\ a \in running[r] /\ exec[r][a] = "bad"
  /\ running' = [running EXCEPT ![r] = @ \ {a}]
  /\ Cancel(r)
  /\ status' = [status EXCEPT ![r] = "failed"]
  /\ Goto(r, "saveStore")
  /\ UNCHANGED <<store, vfs, pending, completed, job, flow, bounds, history>>

-----------------------------------------------------------------------------
(* The goroutine of an artifact, the workflows, and restarts.              *)

Cancelled(r) == step[r] = "ended" \/ status[r] = "failed"

\* SubmitTask.  On the queue the record is first saved as queued; run at
\* once, the goroutine stays with its task.
SubmitArtifact(r, a) ==
  /\ exec[r][a] = "submit"
  /\ exec' = [exec EXCEPT ![r][a] = IF Cancelled(r) THEN "none"
                                    ELSE IF Async THEN "look" ELSE "own"]
  /\ flow' = IF Async THEN [flow EXCEPT ![a] = "active"] ELSE flow
  /\ job' = [job EXCEPT ![r] = @ \cup {a}]
  /\ tried' = [tried EXCEPT ![a] = @ \cup {r}]
  /\ UNCHANGED <<store, vfs, step, checkpoint, running, bounds, succeeded, overlap>>

\* The record cannot be saved, or, being saved, the task not be queued: a
\* fault, or the context's end where the store and the bus look at it.
SubmitFails(r, a) ==
  /\ exec[r][a] = "submit"
  /\ Fault \/ (Cancelled(r) /\ UNCHANGED bounds)
  /\ exec' = [exec EXCEPT ![r][a] = IF Cancelled(r) THEN "none" ELSE "bad"]
  /\ flow' \in {flow} \cup (IF Async THEN {[flow EXCEPT ![a] = "active"]} ELSE {})
  /\ UNCHANGED <<store, vfs, step, checkpoint, running, job, history>>

\* WaitWorkflowTerminal looks at the record and then registers its waiter.
Look(r, a) ==
  /\ exec[r][a] = "look"
  /\ exec' = [exec EXCEPT ![r][a] = IF flow[a] \in {"ok", "bad"} THEN flow[a] ELSE "looked"]
  /\ UNCHANGED <<store, vfs, step, checkpoint, running, job, flow, bounds, history>>
Register(r, a) ==
  /\ exec[r][a] = "looked"
  /\ exec' = [exec EXCEPT ![r][a] = "waiting"]
  /\ UNCHANGED <<store, vfs, step, checkpoint, running, job, flow, bounds, history>>

\* A submitted workflow runs to its end on the agents' workers whether or
\* not the call that submitted it is still waiting.  Its record is saved and
\* whoever waits for this id is told.
WorkflowEnds(r, a, outcome) ==
  /\ a \in job[r]
  /\ job' = [job EXCEPT ![r] = @ \ {a}]
  /\ flow' = [flow EXCEPT ![a] = outcome]
  /\ exec' = [q \in Runs |-> [exec[q] EXCEPT ![a] =
                IF @ = "waiting" \/ (q = r /\ @ = "own") THEN outcome ELSE @]]
  /\ UNCHANGED <<store, vfs, step, checkpoint, running, bounds, tried, overlap>>

WorkflowSucceeds(r, a) == WorkflowEnds(r, a, "ok") /\ succeeded' = succeeded \cup {a}
WorkflowFails(r, a) == WorkflowEnds(r, a, "bad") /\ UNCHANGED succeeded

\* The in-memory bus and everything running is lost, the stores are kept.
Crash ==
  /\ crashes < MaxCrashes
  /\ crashes' = crashes + 1
  /\ step' = [r \in Runs |-> IF step[r] = "idle" THEN "idle" ELSE "ended"]
  /\ running' = [r \in Runs |-> {}]
  /\ exec' = [r \in Runs |-> [a \in Artifacts |-> "none"]]
  /\ job' = [r \in Runs |-> {}]
  /\ UNCHANGED <<store, vfs, checkpoint, flow, faults, history>>

-----------------------------------------------------------------------------
Advance(r) ==
  \/ Load(r) \/ SaveStore(r) \/ SaveVfs(r)
  \/ Schedule(r) \/ Blocked(r) \/ Finish(r)
  \/ \E a \in Artifacts : ConsumeSuccess(r, a) \/ ConsumeFailure(r, a)

Goroutine(r, a) == SubmitArtifact(r, a) \/ Look(r, a) \/ Register(r, a)
Workflow(r, a) == WorkflowSucceeds(r, a) \/ WorkflowFails(r, a)

Next ==
  \/ \E r \in Runs : \/ Preview(r) \/ Resume(r) \/ PreviewFails(r)
                     \/ Advance(r)
                     \/ LoadFails(r) \/ SaveFails(r)
                     \/ \E a \in Artifacts : Goroutine(r, a) \/ SubmitFails(r, a) \/ Workflow(r, a)
  \/ Crash

Spec == Init /\ [][Next]_vars

-----------------------------------------------------------------------------
(* Properties.                                                             *)

\* No artifact is started or executes before everything it depends on has
\* succeeded, whichever calls ran those, and however stale the checkpoint it
\* was started from.
DependencyOrder ==
  \A r \in Runs, a \in Artifacts :
    exec[r][a] # "none" \/ a \in job[r] => Deps[a] \subseteq succeeded

\* Two artifacts that one call has started and that execute at the same time
\* share no conflict key, unless tasks go to the queue and another call has
\* submitted one of the two as well: then the end of the other's workflow is
\* taken for the end of one's own.
ConflictFree ==
  \A r \in Runs : step[r] # "ended" =>
    \A a, b \in job[r] :
      \/ a = b \/ Keys[a] \cap Keys[b] = {}
      \/ Async /\ \E c \in {a, b} : tried[c] \ {r} # {}

\* "related tasks do not run concurrently when they share sensitive
\* resources" (CHANGELOG.md:15), of all the workflows of a plan whose calls
\* do not even overlap.
KeysExclusive == ~overlap =>
  \A q, r \in Runs : \A a \in job[q], b \in job[r] : a = b \/ Keys[a] \cap Keys[b] = {}

\* Both copies of the checkpoint tell the truth: what they call completed has
\* succeeded, everything else is pending, a completed plan has nothing left.
CheckpointSound ==
  \A c \in {store, vfs} : c # Absent =>
    /\ c.completed \subseteq succeeded
    /\ c.pending = Artifacts \ c.completed
    /\ c.status = "completed" => succeeded = Artifacts

\* A plan is reported blocked only over dependencies, never because its own
\* conflict keys keep every artifact waiting for another.
BlockedHasCause ==
  \A c \in {store, vfs} : c.status = "blocked" =>
    /\ c.pending # {}
    /\ \A a \in c.pending : ~ Deps[a] \subseteq c.completed

\* While calls do not overlap, an artifact the checkpoint shows as completed
\* is not started again, through failures, failed saves and restarts.
NoRework ==
  \A r \in Runs, a \in Artifacts :
    ~overlap' /\ exec[r][a] = "none" /\ exec'[r][a] = "submit" => a \notin vfs.completed

\* While calls do not overlap, what the copy that is read back shows as
\* completed is kept until the task is planned again.
ProgressKept == ~overlap' => vfs.completed \subseteq vfs'.completed \/ vfs'.status = "planned"

\* A call comes to its end unless it waits for a workflow that ended between
\* its look at the record and its registration.
Deaf(r) ==
  /\ step[r] = "await"
  /\ \E a \in running[r] : exec[r][a] = "waiting" /\ \A q \in Runs : a \notin job[q]

\* What a plan promises: artifacts are done one by one, each after its
\* dependencies, and it is reported finished only when all are done.
Graph == INSTANCE PlanGraph WITH done <- succeeded,
                                 finished <- IF vfs.status = "completed" THEN 1 ELSE 0
ImplementsPlanGraph == Graph!Spec
=============================================================================
