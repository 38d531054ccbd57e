---------------------------- MODULE RoutingProofs ----------------------------
(***************************************************************************)
(* Theorems about the execution of plans, for every plan (any artifacts,   *)
(* dependencies, conflict keys and ranks, any number of calls, faults and  *)
(* restarts), about the planner's drafts, for any number of files, about   *)
(* synchronous submissions, for any agents, callers and budgets, and about *)
(* the selector and the router, for any agents, models and tasks.          *)
(***************************************************************************)
EXTENDS MCRouting, SequenceTheorems, FiniteSetTheorems, WellFoundedInduction, TLAPS

-----------------------------------------------------------------------------
(* The steps of a plan, of a plan that is joined or broken.                *)

\* SubmitTask with tasks put on the queue (m) or run at once.
SubmitAs(m, r, a) ==
  /\ exec[r][a] = "submit"
  /\ exec' = [exec EXCEPT ![r][a] = IF Cancelled(r) THEN "none" ELSE IF m THEN "look" ELSE "own"]
  /\ flow' = IF m THEN [flow EXCEPT ![a] = "active"] ELSE flow
  /\ job' = [job EXCEPT ![r] = @ \cup {a}]
  /\ tried' = [tried EXCEPT ![a] = @ \cup {r}]
  /\ UNCHANGED <<store, vfs, step, checkpoint, running, bounds, succeeded, overlap>>
SubmitFailsAs(m, r, a) ==
  /\ exec[r][a] = "submit"
  /\ Fault \/ (Cancelled(r) /\ UNCHANGED bounds)
  /\ exec' = [exec EXCEPT ![r][a] = IF Cancelled(r) THEN "none" ELSE "bad"]
  /\ flow' \in {flow} \cup (IF m THEN {[flow EXCEPT ![a] = "active"]} ELSE {})
  /\ UNCHANGED <<store, vfs, step, checkpoint, running, job, history>>

\* Steps that look neither at dependencies nor at the mode.
BlindStep(r) ==
  \/ Preview(r) \/ Resume(r) \/ PreviewFails(r) \/ Load(r) \/ LoadFails(r) \/ SaveStore(r)
  \/ SaveVfs(r) \/ SaveFails(r) \/ Finish(r)
  \/ \E a \in Artifacts : ConsumeSuccess(r, a) \/ ConsumeFailure(r, a) \/ Look(r, a) \/ Register(r, a)
                          \/ Workflow(r, a)

\* Artifacts of a set are started.
StartsOf(r, ready) ==
  /\ step[r] = "schedule"
  /\ \E S \in SUBSET ready :
       /\ IsSchedule(S, ready, ActiveKeys(r))
       /\ running' = [running EXCEPT ![r] = @ \cup S]
       /\ exec' = [exec EXCEPT ![r] = [a \in Artifacts |->
                     IF a \in S \ running[r] THEN "submit" ELSE exec[r][a]]]
  /\ Goto(r, "await")
  /\ UNCHANGED <<store, vfs, checkpoint, job, flow, bounds, history>>

\* The greedy choice takes nothing of a set although nothing runs.
BlockedOver(r, ready) ==
  /\ step[r] = "schedule" /\ Working(r) /\ running[r] = {}
  /\ IsSchedule({}, ready, ActiveKeys(r))
  /\ status' = [status EXCEPT ![r] = "blocked"]
  /\ Goto(r, "saveStore")
  /\ UNCHANGED <<store, vfs, pending, completed, running, flows, bounds, history>>

ReadyIn(deps, r) == {a \in pending[r] : deps[a] \subseteq completed[r]}

\* A step of a plan with dependencies deps.
PlanStep(deps, m) ==
  \/ \E r \in Runs : \/ BlindStep(r) \/ StartsOf(r, ReadyIn(deps, r)) \/ BlockedOver(r, ReadyIn(deps, r))
                     \/ \E a \in Artifacts : SubmitAs(m, r, a) \/ SubmitFailsAs(m, r, a)
  \/ Crash
  \/ UNCHANGED vars

LEMMA NextIsPlanStep == ASSUME [Next]_vars PROVE PlanStep(Deps, Async)
<1>1. ASSUME NEW r \in Runs, Schedule(r) PROVE StartsOf(r, ReadyIn(Deps, r))
  BY <1>1 DEF Schedule, Ready, ReadyIn, StartsOf
<1>2. ASSUME NEW r \in Runs, Blocked(r) PROVE BlockedOver(r, ReadyIn(Deps, r))
  BY <1>2 DEF Blocked, Ready, ReadyIn, BlockedOver
<1>3. ASSUME NEW r \in Runs, NEW a \in Artifacts, SubmitArtifact(r, a) PROVE SubmitAs(Async, r, a)
  BY <1>3 DEF SubmitArtifact, SubmitAs
<1>4. ASSUME NEW r \in Runs, NEW a \in Artifacts, SubmitFails(r, a) PROVE SubmitFailsAs(Async, r, a)
  BY <1>4 DEF SubmitFails, SubmitFailsAs
<1> QED BY <1>1, <1>2, <1>3, <1>4 DEF Next, Advance, Goroutine, PlanStep, BlindStep

-----------------------------------------------------------------------------
(* Type correctness.                                                       *)

LEMMA InitTypeOK == ASSUME Init PROVE TypeOK
<1>1. store \in Stored /\ vfs \in Stored
  BY DEF Init, Stored, Absent, Statuses
<1>2. exec \in [Runs -> [Artifacts -> Phases]]
  <2>1. [a \in Artifacts |-> "none"] \in [Artifacts -> Phases]
    BY DEF Phases
  <2> QED BY <2>1 DEF Init
<1>3. step \in [Runs -> Steps] /\ status \in [Runs -> Statuses]
  BY DEF Init, Steps, Statuses
<1>4. faults \in 0 .. MaxFaults /\ crashes \in 0 .. MaxCrashes
  <2>1. faults = 0 /\ crashes = 0
    BY DEF Init
  <2> QED BY <2>1, PlanAssumption
<1>6. overlap \in BOOLEAN
  BY Zenon DEF Init
<1>5. /\ pending \in [Runs -> SUBSET Artifacts] /\ completed \in [Runs -> SUBSET Artifacts]
      /\ running \in [Runs -> SUBSET Artifacts] /\ job \in [Runs -> SUBSET Artifacts]
      /\ flow \in [Artifacts -> {"none", "active", "ok", "bad"}]
      /\ succeeded \in SUBSET Artifacts /\ tried \in [Artifacts -> SUBSET Runs]
  BY DEF Init
<1> QED BY <1>1, <1>2, <1>3, <1>4, <1>5, <1>6 DEF TypeOK

\* What is loaded from a well-typed store is a well-typed checkpoint.
LEMMA LoadedType ==
  ASSUME TypeOK
  PROVE  Loaded \in Stored
  BY DEF TypeOK, Loaded

LEMMA SnapshotType ==
  ASSUME TypeOK, NEW r \in Runs
  PROVE  Snapshot(r) \in Stored
  BY DEF TypeOK, Snapshot, Stored

LEMMA CancelType ==
  ASSUME TypeOK, NEW r \in Runs, Cancel(r)
  PROVE  /\ exec' \in [Runs -> [Artifacts -> Phases]]
         /\ \A q \in Runs, a \in Artifacts : exec'[q][a] = exec[q][a] \/ exec'[q][a] = "none"
<1>1. [a \in Artifacts |-> IF exec[r][a] = "submit" THEN "submit" ELSE "none"] \in [Artifacts -> Phases]
  BY DEF Phases
<1> QED BY <1>1 DEF Cancel, TypeOK

\* The end of a workflow, and who hears of it.
LEMMA EndType ==
  ASSUME TypeOK, NEW r \in Runs, NEW a \in Artifacts, NEW v \in {"ok", "bad"}, WorkflowEnds(r, a, v)
  PROVE  /\ exec' \in [Runs -> [Artifacts -> Phases]]
         /\ \A q \in Runs, b \in Artifacts :
              \/ exec'[q][b] = exec[q][b]
              \/ /\ b = a /\ exec'[q][b] = v
                 /\ exec[q][b] = "waiting" \/ (q = r /\ exec[q][b] = "own")
<1>1. ASSUME NEW q \in Runs
      PROVE  /\ exec'[q] \in [Artifacts -> Phases]
             /\ \A b \in Artifacts :
                  \/ exec'[q][b] = exec[q][b]
                  \/ /\ b = a /\ exec'[q][b] = v
                     /\ exec[q][b] = "waiting" \/ (q = r /\ exec[q][b] = "own")
  <2>1. exec[q] \in [Artifacts -> Phases]
    BY DEF TypeOK
  <2>2. exec'[q] = [exec[q] EXCEPT ![a] = IF exec[q][a] = "waiting" \/ (q = r /\ exec[q][a] = "own")
                                          THEN v ELSE exec[q][a]]
    BY DEF WorkflowEnds
  <2> QED BY <2>1, <2>2 DEF Phases
<1>2. DOMAIN exec' = Runs /\ exec' = [q \in Runs |-> exec'[q]]
  BY DEF WorkflowEnds
<1> QED BY <1>1, <1>2

\* Every step of the code keeps the types.
LEMMA PlanStepType == ASSUME TypeOK, NEW deps, NEW m, PlanStep(deps, m) PROVE TypeOK'
<1> USE PlanAssumption DEF checkpoint, bounds, history, flows
<1>0. TypeOK
  OBVIOUS
<1>1. ASSUME NEW r \in Runs, Preview(r) PROVE TypeOK'
  BY <1>0, <1>1 DEF TypeOK, Preview, Begins, Goto, Statuses, Steps
<1>2. ASSUME NEW r \in Runs, Resume(r) PROVE TypeOK'
  BY <1>0, <1>2 DEF TypeOK, Resume, Begins, Goto, Steps
<1>3. ASSUME NEW r \in Runs, PreviewFails(r) PROVE TypeOK'
  BY <1>0, <1>3 DEF TypeOK, PreviewFails, Begins, Fault, Goto, Steps
<1>4. ASSUME NEW r \in Runs, Load(r) PROVE TypeOK'
  <2>1. Loaded.pending \subseteq Artifacts /\ Loaded.completed \subseteq Artifacts
    BY LoadedType DEF Stored
  <2>2. CASE Loaded.status \in {"none", "completed"}
    <3>1. step' = [step EXCEPT ![r] = "ended"] /\ UNCHANGED <<store, vfs, checkpoint, running, flows, bounds, history>>
      BY <1>4, <2>2 DEF Load, Goto
    <3> QED BY <1>0, <3>1 DEF TypeOK, Steps
  <2>3. CASE Loaded.status \notin {"none", "completed"}
    <3>1. /\ status' = [status EXCEPT ![r] = "running"]
          /\ pending' = [pending EXCEPT ![r] = Loaded.pending]
          /\ completed' = [completed EXCEPT ![r] = Loaded.completed]
          /\ step' = [step EXCEPT ![r] = "saveStore"]
          /\ UNCHANGED <<store, vfs, running, flows, bounds, history>>
      BY <1>4, <2>3 DEF Load, Goto
    <3> HIDE DEF Loaded
    <3> QED BY <1>0, <2>1, <3>1 DEF TypeOK, Statuses, Steps
  <2> QED BY <2>2, <2>3
<1>5. ASSUME NEW r \in Runs, LoadFails(r) PROVE TypeOK'
  BY <1>0, <1>5 DEF TypeOK, LoadFails, Fault, Goto, Steps
<1>6. ASSUME NEW r \in Runs, SaveStore(r) PROVE TypeOK'
  BY <1>0, <1>6, SnapshotType DEF TypeOK, SaveStore, Goto, Steps
<1>7. ASSUME NEW r \in Runs, SaveVfs(r) PROVE TypeOK'
  BY <1>0, <1>7, SnapshotType DEF TypeOK, SaveVfs, AfterSave, Goto, Steps
<1>8. ASSUME NEW r \in Runs, SaveFails(r) PROVE TypeOK'
  <2>1. exec' \in [Runs -> [Artifacts -> Phases]]
    BY <1>8, CancelType DEF SaveFails
  <2>2. /\ step' = [step EXCEPT ![r] = "ended"] /\ faults < MaxFaults /\ faults' = faults + 1
        /\ UNCHANGED <<store, vfs, checkpoint, running, job, flow, history, crashes>>
    BY <1>8 DEF SaveFails, Fault, Goto
  <2> QED BY <1>0, <2>1, <2>2 DEF TypeOK, Steps
<1>9. ASSUME NEW r \in Runs, StartsOf(r, ReadyIn(deps, r)) PROVE TypeOK'
  <2>1. PICK S \in SUBSET ReadyIn(deps, r) :
          /\ running' = [running EXCEPT ![r] = @ \cup S]
          /\ exec' = [exec EXCEPT ![r] = [a \in Artifacts |->
                        IF a \in S \ running[r] THEN "submit" ELSE exec[r][a]]]
    BY <1>9 DEF StartsOf
  <2>2. S \subseteq Artifacts
    BY <2>1 DEF ReadyIn, TypeOK
  <2>3. running' \in [Runs -> SUBSET Artifacts]
    BY <2>1, <2>2 DEF TypeOK
  <2>4. exec' \in [Runs -> [Artifacts -> Phases]]
    <3>1. [a \in Artifacts |-> IF a \in S \ running[r] THEN "submit" ELSE exec[r][a]]
            \in [Artifacts -> Phases]
      BY DEF TypeOK, Phases
    <3> QED BY <2>1, <3>1 DEF TypeOK
  <2> QED BY <1>0, <1>9, <2>3, <2>4 DEF TypeOK, StartsOf, Goto, Steps
<1>10. ASSUME NEW r \in Runs, BlockedOver(r, ReadyIn(deps, r)) PROVE TypeOK'
  BY <1>0, <1>10 DEF TypeOK, BlockedOver, Goto, Steps, Statuses
<1>11. ASSUME NEW r \in Runs, Finish(r) PROVE TypeOK'
  BY <1>0, <1>11 DEF TypeOK, Finish, Goto, Steps, Statuses
<1>12. ASSUME NEW r \in Runs, NEW a \in Artifacts, ConsumeSuccess(r, a) PROVE TypeOK'
  BY <1>0, <1>12 DEF TypeOK, ConsumeSuccess, RemovePending, Goto, Steps, Phases
<1>13. ASSUME NEW r \in Runs, NEW a \in Artifacts, ConsumeFailure(r, a) PROVE TypeOK'
  <2>1. exec' \in [Runs -> [Artifacts -> Phases]]
    BY <1>13, CancelType DEF ConsumeFailure
  <2> QED BY <1>0, <1>13, <2>1 DEF TypeOK, ConsumeFailure, Goto, Steps, Statuses
<1>14. ASSUME NEW r \in Runs, NEW a \in Artifacts, Look(r, a) \/ Register(r, a) PROVE TypeOK'
  <2>1. \E v \in Phases : exec' = [exec EXCEPT ![r][a] = v]
    BY <1>14 DEF Look, Register, Phases
  <2> QED BY <1>0, <1>14, <2>1 DEF TypeOK, Look, Register
<1>15. ASSUME NEW r \in Runs, NEW a \in Artifacts, Workflow(r, a) PROVE TypeOK'
  <2>1. PICK v \in {"ok", "bad"} : WorkflowEnds(r, a, v)
    BY <1>15 DEF Workflow, WorkflowSucceeds, WorkflowFails
  <2>2. exec' \in [Runs -> [Artifacts -> Phases]]
    BY <2>1, EndType
  <2>3. succeeded' \in SUBSET Artifacts
    BY <1>0, <1>15 DEF TypeOK, Workflow, WorkflowSucceeds, WorkflowFails
  <2> QED BY <1>0, <2>1, <2>2, <2>3 DEF TypeOK, WorkflowEnds
<1>16. ASSUME NEW r \in Runs, NEW a \in Artifacts, SubmitAs(m, r, a) PROVE TypeOK'
  <2>1. \E v \in Phases : exec' = [exec EXCEPT ![r][a] = v]
    BY <1>16 DEF SubmitAs, Phases
  <2>2. flow' \in [Artifacts -> {"none", "active", "ok", "bad"}]
    BY <1>0, <1>16 DEF SubmitAs, TypeOK
  <2> QED BY <1>0, <1>16, <2>1, <2>2 DEF TypeOK, SubmitAs
<1>17. ASSUME NEW r \in Runs, NEW a \in Artifacts, SubmitFailsAs(m, r, a) PROVE TypeOK'
  <2>1. \E v \in Phases : exec' = [exec EXCEPT ![r][a] = v]
    BY <1>17 DEF SubmitFailsAs, Phases
  <2>2. flow' \in [Artifacts -> {"none", "active", "ok", "bad"}]
    <3>1. flow' = flow \/ flow' = [flow EXCEPT ![a] = "active"]
      BY <1>17 DEF SubmitFailsAs
    <3> QED BY <1>0, <3>1 DEF TypeOK
  <2>3. faults' \in 0..MaxFaults /\ crashes' \in 0..MaxCrashes
    BY <1>0, <1>17 DEF SubmitFailsAs, TypeOK, Fault
  <2> QED BY <1>0, <1>17, <2>1, <2>2, <2>3 DEF TypeOK, SubmitFailsAs
<1>18. CASE Crash
  BY <1>0, <1>18 DEF TypeOK, Crash, Steps, Phases
<1>19. CASE UNCHANGED vars
  BY <1>0, <1>19 DEF TypeOK, vars
<1> QED BY <1>1, <1>2, <1>3, <1>4, <1>5, <1>6, <1>7, <1>8, <1>9, <1>10, <1>11, <1>12, <1>13, <1>14,
           <1>15, <1>16, <1>17, <1>18, <1>19 DEF PlanStep, BlindStep

LEMMA NextTypeOK == TypeOK /\ [Next]_vars => TypeOK'
  BY NextIsPlanStep, PlanStepType

\* Both copies of the checkpoint, every execution's own copy and its set of
\* running artifacts are always well typed.
THEOREM TypeCorrect == Spec => []TypeOK
<1>1. Init => TypeOK BY InitTypeOK
<1>2. TypeOK /\ [Next]_vars => TypeOK' BY NextTypeOK
<1> QED BY <1>1, <1>2, PTL DEF Spec


-----------------------------------------------------------------------------
(* Dependencies and checkpoints.                                           *)

\* A checkpoint, stored or held by a call, tells the truth.
Truthful(s, p, c) ==
  /\ c \subseteq succeeded
  /\ s # "none" => p = Artifacts \ c
  /\ s = "completed" => c = Artifacts

\* Every copy of the checkpoint is truthful, the copies held by calls
\* included, and a call that is going to save has something to save.
CopiesInv ==
  /\ Truthful(store.status, store.pending, store.completed)
  /\ Truthful(vfs.status, vfs.pending, vfs.completed)
  /\ \A r \in Runs : Truthful(status[r], pending[r], completed[r])
  /\ store.status = "none" => store = Absent
  /\ vfs.status = "none" => vfs = Absent
  /\ \A r \in Runs : step[r] \in {"saveStore", "saveVfs", "schedule", "await"}
                      => status[r] # "none"

\* A workflow recorded or reported as a success has been one.
ReportsInv ==
  /\ \A r \in Runs, a \in Artifacts : exec[r][a] = "ok" => a \in succeeded
  /\ \A a \in Artifacts : flow[a] = "ok" => a \in succeeded

\* The inductive strengthening of DependencyOrder and CheckpointSound.
PlanInv == CopiesInv /\ ReportsInv /\ DependencyOrder

LEMMA InitPlanInv == ASSUME Init PROVE PlanInv
<1>1. CopiesInv
  BY DEF Init, CopiesInv, Truthful, Absent
<1>2. ReportsInv /\ DependencyOrder
  BY DEF Init, ReportsInv, DependencyOrder
<1> QED BY <1>1, <1>2 DEF PlanInv

\* What starting artifacts does to exec.
LEMMA ExecStarts ==
  ASSUME TypeOK, NEW r \in Runs, NEW S,
         exec' = [exec EXCEPT ![r] = [a \in Artifacts |->
                    IF a \in S \ running[r] THEN "submit" ELSE exec[r][a]]]
  PROVE  \A q \in Runs, a \in Artifacts :
           exec'[q][a] = IF q = r /\ a \in S \ running[r] THEN "submit" ELSE exec[q][a]
  BY DEF TypeOK

\* Every step keeps checkpoints truthful.
LEMMA NextCopies == ASSUME TypeOK, PlanInv, [Next]_vars PROVE CopiesInv'
<1> USE DEF PlanInv, CopiesInv, Truthful, checkpoint, history, flows, bounds
<1>1. ASSUME NEW r \in Runs, Preview(r) PROVE CopiesInv'
  BY <1>1 DEF TypeOK, Preview, Begins, Goto
<1>2. ASSUME NEW r \in Runs, Resume(r) \/ PreviewFails(r) PROVE CopiesInv'
  BY <1>2 DEF TypeOK, Resume, PreviewFails, Begins, Goto
<1>3. ASSUME NEW r \in Runs, Load(r) PROVE CopiesInv'
  <2>1. Truthful(Loaded.status, Loaded.pending, Loaded.completed)
    BY DEF Loaded
  <2>2. CASE Loaded.status \in {"none", "completed"}
    <3>1. step' = [step EXCEPT ![r] = "ended"] /\ UNCHANGED <<store, vfs, checkpoint, succeeded>>
      BY <1>3, <2>2 DEF Load, Goto
    <3> QED BY <3>1 DEF TypeOK
  <2>3. CASE Loaded.status \notin {"none", "completed"}
    <3>1. /\ status' = [status EXCEPT ![r] = "running"]
          /\ pending' = [pending EXCEPT ![r] = Loaded.pending]
          /\ completed' = [completed EXCEPT ![r] = Loaded.completed]
          /\ step' = [step EXCEPT ![r] = "saveStore"]
          /\ UNCHANGED <<store, vfs, succeeded>>
      BY <1>3, <2>3 DEF Load, Goto
    <3> HIDE DEF Loaded
    <3> QED BY <2>1, <2>3, <3>1 DEF TypeOK
  <2> QED BY <2>2, <2>3
<1>4. ASSUME NEW r \in Runs, LoadFails(r) \/ SaveFails(r) PROVE CopiesInv'
  <2>1. step' = [step EXCEPT ![r] = "ended"] /\ UNCHANGED <<store, vfs, checkpoint, succeeded>>
    BY <1>4 DEF LoadFails, SaveFails, Goto
  <2> QED BY <2>1 DEF TypeOK
<1>5. ASSUME NEW r \in Runs, SaveStore(r) PROVE CopiesInv'
  BY <1>5 DEF TypeOK, SaveStore, Snapshot, Goto
<1>6. ASSUME NEW r \in Runs, SaveVfs(r) PROVE CopiesInv'
  BY <1>6 DEF TypeOK, SaveVfs, Snapshot, AfterSave, Goto
<1>7. ASSUME NEW r \in Runs, Schedule(r) PROVE CopiesInv'
  <2>1. step[r] = "schedule" /\ step' = [step EXCEPT ![r] = "await"] /\ UNCHANGED <<store, vfs, checkpoint, succeeded>>
    BY <1>7 DEF Schedule, Goto
  <2> QED BY <2>1 DEF TypeOK
<1>8. ASSUME NEW r \in Runs, Blocked(r) PROVE CopiesInv'
  BY <1>8 DEF TypeOK, Blocked, Goto
<1>9. ASSUME NEW r \in Runs, Finish(r) PROVE CopiesInv'
  <2>1. completed[r] = Artifacts
    <3>1. pending[r] = {} /\ step[r] = "schedule"
      BY <1>9 DEF Finish, Working
    <3>2. {} = Artifacts \ completed[r]
      BY <3>1
    <3>3. completed[r] \subseteq Artifacts
      BY DEF TypeOK
    <3> QED BY <3>2, <3>3
  <2> QED BY <1>9, <2>1 DEF TypeOK, Finish, Goto
<1>10. ASSUME NEW r \in Runs, NEW a \in Artifacts, ConsumeSuccess(r, a) PROVE CopiesInv'
  <2>1. a \in succeeded
    BY <1>10 DEF ConsumeSuccess, ReportsInv
  <2> QED BY <1>10, <2>1 DEF TypeOK, ConsumeSuccess, RemovePending, Goto
<1>11. ASSUME NEW r \in Runs, NEW a \in Artifacts, ConsumeFailure(r, a) PROVE CopiesInv'
  <2>1. /\ step[r] = "await" /\ step' = [step EXCEPT ![r] = "saveStore"]
        /\ status' = [status EXCEPT ![r] = "failed"]
        /\ UNCHANGED <<store, vfs, pending, completed, succeeded>>
    BY <1>11 DEF ConsumeFailure, Goto
  <2> QED BY <2>1 DEF TypeOK
<1>12. ASSUME NEW r \in Runs, NEW a \in Artifacts, Goroutine(r, a) \/ SubmitFails(r, a) PROVE CopiesInv'
  <2>1. UNCHANGED <<store, vfs, checkpoint, step, succeeded>>
    BY <1>12 DEF Goroutine, SubmitArtifact, Look, Register, SubmitFails
  <2> QED BY <2>1
<1>13. ASSUME NEW r \in Runs, NEW a \in Artifacts, Workflow(r, a) PROVE CopiesInv'
  <2>1. UNCHANGED <<store, vfs, checkpoint, step>> /\ succeeded \subseteq succeeded'
    BY <1>13 DEF Workflow, WorkflowSucceeds, WorkflowFails, WorkflowEnds
  <2> QED BY <2>1
<1>14. CASE Crash
  BY <1>14 DEF TypeOK, Crash
<1>15. CASE UNCHANGED vars
  BY <1>15 DEF vars
<1> HIDE DEF PlanInv, CopiesInv
<1> QED BY <1>1, <1>2, <1>3, <1>4, <1>5, <1>6, <1>7, <1>8, <1>9, <1>10, <1>11, <1>12,
           <1>13, <1>14, <1>15 DEF Next, Advance

\* Every step reports only successes that have been, and obeys dependencies.
LEMMA NextReports == ASSUME TypeOK, PlanInv, [Next]_vars PROVE ReportsInv' /\ DependencyOrder'
<1> USE DEF PlanInv, ReportsInv, DependencyOrder, checkpoint, history, flows, bounds
<1>1. ASSUME NEW r \in Runs,
             \/ Preview(r) \/ Resume(r) \/ PreviewFails(r) \/ Load(r) \/ LoadFails(r)
             \/ SaveStore(r) \/ SaveVfs(r) \/ Blocked(r) \/ Finish(r)
      PROVE  UNCHANGED <<exec, job, flow, succeeded>>
  BY <1>1 DEF Preview, Resume, PreviewFails, Begins, Load, LoadFails, SaveStore, SaveVfs, Blocked, Finish
<1>2. ASSUME UNCHANGED <<exec, job, flow, succeeded>> PROVE ReportsInv' /\ DependencyOrder'
  BY <1>2
<1>3. ASSUME NEW r \in Runs, NEW a \in Artifacts, SaveFails(r) \/ ConsumeFailure(r, a)
      PROVE  ReportsInv' /\ DependencyOrder'
  <2>1. Cancel(r) /\ UNCHANGED <<job, flow, succeeded>>
    BY <1>3 DEF SaveFails, ConsumeFailure
  <2> QED BY <2>1, CancelType
<1>4. ASSUME NEW r \in Runs, Schedule(r) PROVE ReportsInv' /\ DependencyOrder'
  <2>1. PICK S \in SUBSET Ready(r) :
          exec' = [exec EXCEPT ![r] = [a \in Artifacts |->
                     IF a \in S \ running[r] THEN "submit" ELSE exec[r][a]]]
    BY <1>4 DEF Schedule
  <2>2. \A q \in Runs, a \in Artifacts :
          exec'[q][a] = IF q = r /\ a \in S \ running[r] THEN "submit" ELSE exec[q][a]
    BY <2>1, ExecStarts
  <2>3. \A a \in S : Deps[a] \subseteq succeeded
    BY DEF Ready, CopiesInv, Truthful
  <2>4. UNCHANGED <<job, flow, succeeded>>
    BY <1>4 DEF Schedule
  <2> QED BY <2>2, <2>3, <2>4
<1>5. ASSUME NEW r \in Runs, NEW a \in Artifacts,
             ConsumeSuccess(r, a) \/ Goroutine(r, a) \/ SubmitFails(r, a)
      PROVE  ReportsInv' /\ DependencyOrder'
  <2>1. PICK v \in Phases : exec' = [exec EXCEPT ![r][a] = v] /\ (v = "ok" => flow[a] = "ok")
    <3>1. ConsumeSuccess(r, a) => exec' = [exec EXCEPT ![r][a] = "none"]
      BY DEF ConsumeSuccess
    <3>2. SubmitArtifact(r, a) => \E v \in {"none", "look", "own"} : exec' = [exec EXCEPT ![r][a] = v]
      BY DEF SubmitArtifact
    <3>3. SubmitFails(r, a) => \E v \in {"none", "bad"} : exec' = [exec EXCEPT ![r][a] = v]
      BY DEF SubmitFails
    <3>4. Look(r, a) => \E v \in Phases : exec' = [exec EXCEPT ![r][a] = v] /\ (v = "ok" => flow[a] = "ok")
      BY DEF Look, Phases
    <3>5. Register(r, a) => exec' = [exec EXCEPT ![r][a] = "waiting"]
      BY DEF Register
    <3> QED BY <1>5, <3>1, <3>2, <3>3, <3>4, <3>5 DEF Goroutine, Phases
  <2>2. \A q \in Runs, b \in Artifacts : exec'[q][b] = IF q = r /\ b = a THEN v ELSE exec[q][b]
    BY <2>1 DEF TypeOK
  <2>3. exec[r][a] # "none" /\ succeeded' = succeeded
    BY <1>5 DEF ConsumeSuccess, Goroutine, SubmitArtifact, Look, Register, SubmitFails
  <2>4. flow' = flow \/ flow' = [flow EXCEPT ![a] = "active"]
    <3>1. SubmitFails(r, a) => flow' = flow \/ flow' = [flow EXCEPT ![a] = "active"]
      BY DEF SubmitFails
    <3>2. SubmitArtifact(r, a) => flow' = flow \/ flow' = [flow EXCEPT ![a] = "active"]
      BY DEF SubmitArtifact
    <3> QED BY <1>5, <3>1, <3>2 DEF ConsumeSuccess, Goroutine, Look, Register
  <2>5. job' = job \/ job' = [job EXCEPT ![r] = @ \cup {a}]
    BY <1>5 DEF ConsumeSuccess, Goroutine, SubmitArtifact, Look, Register, SubmitFails
  <2>6. ReportsInv'
    BY <2>1, <2>2, <2>3, <2>4 DEF TypeOK
  <2>7. \A q \in Runs, b \in Artifacts : b \in job'[q] => b \in job[q] \/ (q = r /\ b = a)
    BY <2>5 DEF TypeOK
  <2>8. DependencyOrder'
    BY <2>2, <2>3, <2>7
  <2> QED BY <2>6, <2>8
<1>6. ASSUME NEW r \in Runs, NEW a \in Artifacts, Workflow(r, a) PROVE ReportsInv' /\ DependencyOrder'
  <2>1. PICK v \in {"ok", "bad"} : /\ WorkflowEnds(r, a, v)
                                   /\ succeeded' = IF v = "ok" THEN succeeded \cup {a} ELSE succeeded
    BY <1>6 DEF Workflow, WorkflowSucceeds, WorkflowFails
  <2>2. \A q \in Runs, b \in Artifacts :
          exec'[q][b] = exec[q][b] \/ (b = a /\ exec'[q][b] = v /\ exec[q][b] # "none")
    BY <2>1, EndType
  <2>3. /\ job' = [job EXCEPT ![r] = @ \ {a}]
        /\ flow' = [flow EXCEPT ![a] = v]
    BY <2>1 DEF WorkflowEnds
  <2>4. ReportsInv'
    BY <2>1, <2>2, <2>3 DEF TypeOK
  <2>5. \A q \in Runs : job'[q] \subseteq job[q]
    BY <2>3 DEF TypeOK
  <2>6. DependencyOrder'
    BY <2>1, <2>2, <2>5
  <2> QED BY <2>4, <2>6
<1>7. CASE Crash
  BY <1>7 DEF TypeOK, Crash
<1>8. CASE UNCHANGED vars
  BY <1>8 DEF vars
<1> HIDE DEF PlanInv, ReportsInv, DependencyOrder
<1>9. ASSUME NEW r \in Runs, SaveFails(r) PROVE ReportsInv' /\ DependencyOrder'
  <2>1. CASE Artifacts = {}
    BY <2>1 DEF ReportsInv, DependencyOrder
  <2> QED BY <1>3, <1>9, <2>1
<1> QED BY <1>1, <1>2, <1>3, <1>4, <1>5, <1>6, <1>7, <1>8, <1>9 DEF Next, Advance

LEMMA NextPlanInv == TypeOK /\ PlanInv /\ [Next]_vars => PlanInv'
  BY NextCopies, NextReports DEF PlanInv

\* Whatever calls overlap, fail, or are cut off by a restart, no artifact is
\* started before its dependencies have succeeded.
THEOREM DependencyOrderCorrect == Spec => []DependencyOrder
<1>1. Init => TypeOK /\ PlanInv BY InitTypeOK, InitPlanInv
<1>2. (TypeOK /\ PlanInv) /\ [Next]_vars => (TypeOK /\ PlanInv)'
  BY NextTypeOK, NextPlanInv
<1>3. TypeOK /\ PlanInv => DependencyOrder BY DEF PlanInv
<1> QED BY <1>1, <1>2, <1>3, PTL DEF Spec

\* Both stored copies always tell the truth about what has succeeded.
THEOREM CheckpointSoundCorrect == Spec => []CheckpointSound
<1>1. Init => TypeOK /\ PlanInv BY InitTypeOK, InitPlanInv
<1>2. (TypeOK /\ PlanInv) /\ [Next]_vars => (TypeOK /\ PlanInv)'
  BY NextTypeOK, NextPlanInv
<1>3. TypeOK /\ PlanInv => CheckpointSound
  <2> SUFFICES ASSUME TypeOK, PlanInv, NEW c \in {store, vfs}, c # Absent
               PROVE  /\ c.completed \subseteq succeeded
                      /\ c.pending = Artifacts \ c.completed
                      /\ c.status = "completed" => succeeded = Artifacts
    BY DEF CheckpointSound
  <2>1. c.status # "none" /\ Truthful(c.status, c.pending, c.completed)
    BY DEF PlanInv, CopiesInv
  <2>2. succeeded \subseteq Artifacts
    BY DEF TypeOK
  <2> QED BY <2>1, <2>2 DEF Truthful
<1> QED BY <1>1, <1>2, <1>3, PTL DEF Spec

-----------------------------------------------------------------------------
(* Conflict keys.                                                          *)

\* Another call has submitted the artifact to the queue as well.
Mixed(r, a) == Async /\ tried[a] \ {r} # {}

\* The inductive strengthening of ConflictFree.  What a call started and has
\* not consumed is in its running map, which holds disjoint keys only; it takes
\* a workflow for ended, or starts it again, while one of its own executes only
\* if another call submitted the same artifact.
KeysInv ==
  /\ \A r \in Runs : \A a, b \in running[r] : a # b => Keys[a] \cap Keys[b] = {}
  /\ \A r \in Runs, a \in Artifacts : step[r] # "ended" /\ exec[r][a] # "none" => a \in running[r]
  /\ \A r \in Runs, a \in Artifacts : step[r] # "ended" /\ a \in job[r] => a \in running[r] \/ Mixed(r, a)
  /\ \A r \in Runs, a \in Artifacts :
       step[r] # "ended" /\ a \in job[r] /\ exec[r][a] \in {"submit", "ok", "bad"} => Mixed(r, a)
  /\ \A r \in Runs, a \in Artifacts : Async /\ a \in job[r] /\ flow[a] \in {"ok", "bad"} => Mixed(r, a)
  /\ \A r \in Runs, a \in Artifacts : a \in job[r] => r \in tried[a]
  /\ \A r \in Runs, a \in Artifacts : exec[r][a] \in {"look", "looked", "waiting"} => Async

\* The greedy choice never takes two artifacts with a common key, nor one
\* whose key is in use.
LEMMA ScheduleDisjoint ==
  ASSUME NEW ready \in SUBSET Artifacts, NEW active, NEW S, IsSchedule(S, ready, active)
  PROVE  /\ S \subseteq ready
         /\ \A a \in S : Keys[a] \cap active = {}
         /\ \A a, b \in S : a # b => Keys[a] \cap Keys[b] = {}
<1>1. S \subseteq ready /\ \A a \in S : Keys[a] \cap active = {}
  BY DEF IsSchedule
<1>2. ASSUME NEW a \in S, NEW b \in S, a # b PROVE Keys[a] \cap Keys[b] = {}
  <2>1. Rank[a] \in Int /\ Rank[b] \in Int /\ Rank[a] # Rank[b]
    BY <1>1, <1>2, PlanAssumption
  <2>2. Rank[a] < Rank[b] \/ Rank[b] < Rank[a]
    BY <2>1
  <2> QED BY <1>1, <2>2 DEF IsSchedule
<1> QED BY <1>1, <1>2

LEMMA InitKeysInv == Init => KeysInv
  BY DEF Init, KeysInv

LEMMA NextKeysInv == TypeOK /\ KeysInv /\ [Next]_vars => KeysInv'
<1> SUFFICES ASSUME TypeOK, KeysInv, [Next]_vars PROVE KeysInv'
  OBVIOUS
<1> USE DEF checkpoint, history, flows, bounds
<1>1. ASSUME NEW r \in Runs, NEW s \in Steps, step[r] # "ended",
             step' = [step EXCEPT ![r] = s], UNCHANGED <<running, exec, job, flow, tried>>
      PROVE  KeysInv'
  BY <1>1 DEF TypeOK, KeysInv, Mixed
<1>2. ASSUME NEW r \in Runs,
             Preview(r) \/ Resume(r) \/ PreviewFails(r) \/ Load(r) \/ LoadFails(r) \/ SaveStore(r)
             \/ SaveVfs(r) \/ Blocked(r) \/ Finish(r)
      PROVE  KeysInv'
  <2>1. step[r] # "ended" /\ UNCHANGED <<running, exec, job, flow, tried>>
    BY <1>2 DEF Preview, Resume, PreviewFails, Begins, Load, LoadFails, SaveStore, SaveVfs,
                Blocked, Finish
  <2>2. \E s \in Steps : step' = [step EXCEPT ![r] = s]
    BY <1>2 DEF Preview, Resume, PreviewFails, Load, LoadFails, SaveStore, SaveVfs,
                Blocked, Finish, AfterSave, Goto, Steps
  <2> QED BY <1>1, <2>1, <2>2
<1>3. ASSUME NEW r \in Runs, SaveFails(r) PROVE KeysInv'
  <2>1. /\ step[r] # "ended" /\ step' = [step EXCEPT ![r] = "ended"]
        /\ Cancel(r) /\ UNCHANGED <<running, job, flow, tried>>
    BY <1>3 DEF SaveFails, Goto
  <2>2. \A q \in Runs, a \in Artifacts : exec'[q][a] = exec[q][a] \/ exec'[q][a] = "none"
    BY <2>1, CancelType
  <2>3. \A q \in Runs : step'[q] # "ended" => step[q] # "ended"
    BY <2>1 DEF TypeOK
  <2> QED BY <2>1, <2>2, <2>3 DEF KeysInv, Mixed
<1>4. ASSUME NEW r \in Runs, Schedule(r) PROVE KeysInv'
  <2>1. PICK S \in SUBSET Ready(r) :
          /\ IsSchedule(S, Ready(r), ActiveKeys(r))
          /\ running' = [running EXCEPT ![r] = @ \cup S]
          /\ exec' = [exec EXCEPT ![r] = [a \in Artifacts |->
                        IF a \in S \ running[r] THEN "submit" ELSE exec[r][a]]]
    BY <1>4 DEF Schedule
  <2>2. /\ \A a \in S : Keys[a] \cap ActiveKeys(r) = {}
        /\ \A a, b \in S : a # b => Keys[a] \cap Keys[b] = {}
    <3>1. Ready(r) \in SUBSET Artifacts
      BY DEF Ready, TypeOK
    <3> QED BY <2>1, <3>1, ScheduleDisjoint
  <2>3. \A a \in S, b \in running[r] : Keys[a] \cap Keys[b] = {}
    BY <2>2 DEF ActiveKeys
  <2>4. \A a, b \in running[r] \cup S : a # b => Keys[a] \cap Keys[b] = {}
    BY <2>2, <2>3 DEF KeysInv
  <2>5. \A q \in Runs : running'[q] = IF q = r THEN running[r] \cup S ELSE running[q]
    BY <2>1 DEF TypeOK
  <2>6. \A q \in Runs, a \in Artifacts :
          exec'[q][a] = IF q = r /\ a \in S \ running[r] THEN "submit" ELSE exec[q][a]
    BY <2>1, ExecStarts
  <2>7. /\ step[r] = "schedule" /\ step' = [step EXCEPT ![r] = "await"]
        /\ UNCHANGED <<job, flow, tried>>
    BY <1>4 DEF Schedule, Goto
  <2>8. \A q \in Runs : step'[q] # "ended" => step[q] # "ended"
    BY <2>7 DEF TypeOK
  <2> QED BY <2>4, <2>5, <2>6, <2>7, <2>8 DEF KeysInv, Mixed
<1>5. ASSUME NEW r \in Runs, NEW a \in Artifacts,
             ConsumeSuccess(r, a) \/ ConsumeFailure(r, a)
      PROVE  KeysInv'
  <2>1. /\ step[r] = "await" /\ exec[r][a] \in {"ok", "bad"}
        /\ step' = [step EXCEPT ![r] = "saveStore"]
        /\ running' = [running EXCEPT ![r] = @ \ {a}]
        /\ UNCHANGED <<job, flow, tried>>
    BY <1>5 DEF ConsumeSuccess, ConsumeFailure, Goto
  <2>2. \A q \in Runs, b \in Artifacts : exec'[q][b] = exec[q][b] \/ exec'[q][b] = "none"
    <3>1. CASE ConsumeSuccess(r, a)
      BY <3>1 DEF ConsumeSuccess, TypeOK
    <3>2. CASE ConsumeFailure(r, a)
      BY <3>2, CancelType DEF ConsumeFailure
    <3> QED BY <1>5, <3>1, <3>2
  <2>3. exec'[r][a] = "none"
    <3>1. CASE ConsumeSuccess(r, a)
      BY <3>1 DEF ConsumeSuccess, TypeOK
    <3>2. CASE ConsumeFailure(r, a)
      BY <3>2 DEF ConsumeFailure, Cancel, TypeOK
    <3> QED BY <1>5, <3>1, <3>2
  <2>4. \A q \in Runs : /\ step'[q] # "ended" => step[q] # "ended"
                        /\ running'[q] = IF q = r THEN running[r] \ {a} ELSE running[q]
    BY <2>1 DEF TypeOK
  <2> QED BY <2>1, <2>2, <2>3, <2>4 DEF KeysInv, Mixed
<1>6. ASSUME NEW r \in Runs, NEW a \in Artifacts, SubmitArtifact(r, a) PROVE KeysInv'
  <2>1. PICK v \in {"none", "look", "own"} : exec' = [exec EXCEPT ![r][a] = v] /\ (v = "look" => Async)
    BY <1>6 DEF SubmitArtifact
  <2>2. \A q \in Runs, b \in Artifacts : exec'[q][b] = IF q = r /\ b = a THEN v ELSE exec[q][b]
    BY <2>1 DEF TypeOK
  <2>3. /\ exec[r][a] = "submit" /\ UNCHANGED <<step, running>>
        /\ job' = [job EXCEPT ![r] = @ \cup {a}]
        /\ tried' = [tried EXCEPT ![a] = @ \cup {r}]
        /\ flow' = IF Async THEN [flow EXCEPT ![a] = "active"] ELSE flow
    BY <1>6 DEF SubmitArtifact
  <2>4. \A q \in Runs, b \in Artifacts :
          /\ b \in job'[q] <=> b \in job[q] \/ (q = r /\ b = a)
          /\ tried[b] \subseteq tried'[b]
          /\ Async /\ flow'[b] \in {"ok", "bad"} => b # a /\ flow[b] \in {"ok", "bad"}
    BY <2>3 DEF TypeOK
  <2>5. r \in tried'[a]
    BY <2>3 DEF TypeOK
  <2>6. \A q \in Runs, b \in Artifacts : Mixed(q, b) => Mixed(q, b)'
    BY <2>4 DEF Mixed
  <2> HIDE DEF Mixed
  <2> QED BY <2>1, <2>2, <2>3, <2>4, <2>5, <2>6 DEF KeysInv
<1>7. ASSUME NEW r \in Runs, NEW a \in Artifacts, SubmitFails(r, a) PROVE KeysInv'
  <2>1. PICK v \in {"none", "bad"} : exec' = [exec EXCEPT ![r][a] = v]
    BY <1>7 DEF SubmitFails
  <2>2. \A q \in Runs, b \in Artifacts : exec'[q][b] = IF q = r /\ b = a THEN v ELSE exec[q][b]
    BY <2>1 DEF TypeOK
  <2>3. exec[r][a] = "submit" /\ UNCHANGED <<step, running, job, tried>>
    BY <1>7 DEF SubmitFails
  <2>4. flow' = flow \/ flow' = [flow EXCEPT ![a] = "active"]
    BY <1>7 DEF SubmitFails
  <2>5. \A b \in Artifacts : flow'[b] \in {"ok", "bad"} => flow[b] \in {"ok", "bad"}
    BY <2>4 DEF TypeOK
  <2> QED BY <2>1, <2>2, <2>3, <2>5 DEF KeysInv, Mixed
<1>8. ASSUME NEW r \in Runs, NEW a \in Artifacts, Look(r, a) \/ Register(r, a) PROVE KeysInv'
  <2>1. PICK v \in {"ok", "bad", "looked", "waiting"} :
          exec' = [exec EXCEPT ![r][a] = v] /\ (v \in {"ok", "bad"} => flow[a] \in {"ok", "bad"})
    BY <1>8 DEF Look, Register
  <2>2. \A q \in Runs, b \in Artifacts : exec'[q][b] = IF q = r /\ b = a THEN v ELSE exec[q][b]
    BY <2>1 DEF TypeOK
  <2>3. exec[r][a] \in {"look", "looked"} /\ UNCHANGED <<step, running, job, flow, tried>>
    BY <1>8 DEF Look, Register
  <2>4. Async
    BY <2>3 DEF KeysInv
  <2> QED BY <2>1, <2>2, <2>3, <2>4 DEF KeysInv, Mixed
<1>9. ASSUME NEW r \in Runs, NEW a \in Artifacts, Workflow(r, a) PROVE KeysInv'
  <2>1. PICK v \in {"ok", "bad"} : WorkflowEnds(r, a, v)
    BY <1>9 DEF Workflow, WorkflowSucceeds, WorkflowFails
  <2>2. \A q \in Runs, b \in Artifacts :
          \/ exec'[q][b] = exec[q][b]
          \/ /\ b = a /\ exec'[q][b] = v
             /\ exec[q][b] = "waiting" \/ (q = r /\ exec[q][b] = "own")
    BY <2>1, EndType
  <2>3. /\ a \in job[r] /\ job' = [job EXCEPT ![r] = @ \ {a}]
        /\ flow' = [flow EXCEPT ![a] = v]
        /\ UNCHANGED <<step, running, tried>>
    BY <2>1 DEF WorkflowEnds
  <2>4. \A q \in Runs, b \in Artifacts :
          /\ b \in job'[q] <=> b \in job[q] /\ ~(q = r /\ b = a)
          /\ flow'[b] = IF b = a THEN v ELSE flow[b]
    BY <2>3 DEF TypeOK
  <2>5. r \in tried[a]
    BY <2>3 DEF KeysInv
  <2>6. \A q \in Runs : q # r /\ Async => Mixed(q, a)
    BY <2>5 DEF Mixed
  <2>7. \A q \in Runs, b \in Artifacts : Mixed(q, b)' <=> Mixed(q, b)
    BY <2>3 DEF Mixed
  <2> HIDE DEF Mixed
  <2>8. \A q \in Runs, b \in Artifacts :
          step'[q] # "ended" /\ b \in job'[q] /\ exec'[q][b] \in {"submit", "ok", "bad"} => Mixed(q, b)
    BY <2>2, <2>3, <2>4, <2>6 DEF KeysInv
  <2>9. \A q \in Runs, b \in Artifacts : Async /\ b \in job'[q] /\ flow'[b] \in {"ok", "bad"} => Mixed(q, b)
    BY <2>4, <2>6 DEF KeysInv
  <2>10. \A q \in Runs, b \in Artifacts :
           /\ exec'[q][b] \in {"look", "looked", "waiting"} => Async
           /\ step'[q] # "ended" /\ exec'[q][b] # "none" => b \in running'[q]
    BY <2>2, <2>3 DEF KeysInv
  <2>11. \A q \in Runs, b \in Artifacts :
           /\ step'[q] # "ended" /\ b \in job'[q] => b \in running'[q] \/ Mixed(q, b)
           /\ b \in job'[q] => q \in tried'[b]
    BY <2>3, <2>4 DEF KeysInv
  <2>12. \A q \in Runs : \A b, c \in running'[q] : b # c => Keys[b] \cap Keys[c] = {}
    BY <2>3 DEF KeysInv
  <2> QED BY <2>7, <2>8, <2>9, <2>10, <2>11, <2>12 DEF KeysInv
<1>10. CASE Crash
  BY <1>10 DEF TypeOK, KeysInv, Mixed, Crash
<1>11. CASE UNCHANGED vars
  BY <1>11 DEF KeysInv, Mixed, vars
<1> QED BY <1>2, <1>3, <1>4, <1>5, <1>6, <1>7, <1>8, <1>9, <1>10, <1>11 DEF Next, Advance, Goroutine

\* For any plan, an execution never has two workflows with a common conflict
\* key running, unless tasks are queued and another call has submitted one of
\* the two.
THEOREM ConflictFreeCorrect == Spec => []ConflictFree
<1>1. Init => TypeOK /\ KeysInv BY InitTypeOK, InitKeysInv
<1>2. (TypeOK /\ KeysInv) /\ [Next]_vars => (TypeOK /\ KeysInv)'
  BY NextTypeOK, NextKeysInv
<1>3. TypeOK /\ KeysInv => ConflictFree
  <2> SUFFICES ASSUME TypeOK, KeysInv, NEW r \in Runs, step[r] # "ended", NEW a \in job[r], NEW b \in job[r]
               PROVE  \/ a = b \/ Keys[a] \cap Keys[b] = {}
                      \/ Async /\ \E c \in {a, b} : tried[c] \ {r} # {}
    BY DEF ConflictFree
  <2>1. a \in Artifacts /\ b \in Artifacts
    BY DEF TypeOK
  <2>2. (a \in running[r] \/ Mixed(r, a)) /\ (b \in running[r] \/ Mixed(r, b))
    BY <2>1 DEF KeysInv
  <2> QED BY <2>2 DEF KeysInv, Mixed
<1> QED BY <1>1, <1>2, <1>3, PTL DEF Spec

-----------------------------------------------------------------------------
(* Refinement.                                                             *)

\* Only a save to the VFS changes that copy, only a success what is done.
LEMMA VfsStep ==
  ASSUME [Next]_vars
  PROVE  \/ UNCHANGED <<vfs, succeeded>>
         \/ \E r \in Runs : SaveVfs(r)
         \/ \E r \in Runs, a \in Artifacts : WorkflowSucceeds(r, a)
<1> USE DEF checkpoint, history, flows, bounds
<1>1. ASSUME NEW r \in Runs,
             \/ Preview(r) \/ Resume(r) \/ PreviewFails(r) \/ Load(r) \/ LoadFails(r) \/ SaveStore(r)
             \/ SaveFails(r) \/ Schedule(r) \/ Blocked(r) \/ Finish(r)
      PROVE  UNCHANGED <<vfs, succeeded>>
  BY <1>1 DEF Preview, Resume, PreviewFails, Begins, Load, LoadFails, SaveStore, SaveFails, Schedule,
              Blocked, Finish
<1>2. ASSUME NEW r \in Runs, NEW a \in Artifacts,
             \/ ConsumeSuccess(r, a) \/ ConsumeFailure(r, a) \/ Goroutine(r, a) \/ SubmitFails(r, a)
             \/ WorkflowFails(r, a)
      PROVE  UNCHANGED <<vfs, succeeded>>
  BY <1>2 DEF ConsumeSuccess, ConsumeFailure, Goroutine, SubmitArtifact, Look, Register, SubmitFails,
              WorkflowFails, WorkflowEnds
<1>3. Crash \/ UNCHANGED vars => UNCHANGED <<vfs, succeeded>>
  BY DEF Crash, vars
<1> QED BY <1>1, <1>2, <1>3 DEF Next, Advance, Workflow

\* A step of the code is a step of the plan graph or leaves it alone: a
\* workflow's success does an artifact, writing "completed" to the VFS finishes,
\* writing anything else there takes the report back.
LEMMA NextRefines ==
  TypeOK /\ PlanInv /\ [Next]_vars
    => [Graph!Next]_<<succeeded, IF vfs.status = "completed" THEN 1 ELSE 0>>
<1> SUFFICES ASSUME TypeOK, PlanInv, [Next]_vars
             PROVE [Graph!Next]_<<succeeded, IF vfs.status = "completed" THEN 1 ELSE 0>>
  OBVIOUS
<1>1. ASSUME NEW r \in Runs, NEW a \in Artifacts, WorkflowSucceeds(r, a)
      PROVE  Graph!Next
  <2>1. a \in job[r] /\ vfs' = vfs /\ succeeded' = succeeded \cup {a}
    BY <1>1 DEF WorkflowSucceeds, WorkflowEnds
  <2>2. Deps[a] \subseteq succeeded
    BY <2>1 DEF PlanInv, DependencyOrder
  <2> QED BY <2>1, <2>2 DEF Graph!Next, Graph!Do
<1>2. ASSUME NEW r \in Runs, SaveVfs(r) PROVE Graph!Next
  <2>1. vfs'.status = status[r] /\ succeeded' = succeeded
    BY <1>2 DEF SaveVfs, Snapshot, history
  <2>2. CASE status[r] = "completed"
    <3>1. succeeded = Artifacts
      <4>1. completed[r] = Artifacts /\ completed[r] \subseteq succeeded
        BY <2>2 DEF PlanInv, CopiesInv, Truthful
      <4> QED BY <4>1 DEF TypeOK
    <3> QED BY <2>1, <2>2, <3>1 DEF Graph!Next, Graph!Finish
  <2>3. CASE status[r] # "completed"
    BY <2>1, <2>3 DEF Graph!Next, Graph!Withdraw
  <2> QED BY <2>2, <2>3
<1> QED BY <1>1, <1>2, VfsStep

\* Executing a plan with failures, lost saves, restarts, resumptions and
\* overlapping calls implements the plan graph.
THEOREM Refinement == Spec => ImplementsPlanGraph
<1>1. Init => TypeOK /\ PlanInv
  BY InitTypeOK, InitPlanInv
<1>2. (TypeOK /\ PlanInv) /\ [Next]_vars => (TypeOK /\ PlanInv)'
  BY NextTypeOK, NextPlanInv
<1>3. Init => Graph!Init
  BY DEF Init, Graph!Init, Absent
<1>4. TypeOK /\ PlanInv /\ [Next]_vars
        => [Graph!Next]_<<succeeded, IF vfs.status = "completed" THEN 1 ELSE 0>>
  BY NextRefines
<1> QED BY <1>1, <1>2, <1>3, <1>4, PTL DEF Spec, ImplementsPlanGraph, Graph!Spec

-----------------------------------------------------------------------------
(* Nothing is tried again.                                                 *)

AtWork == {"saveStore", "saveVfs", "schedule", "await"}

\* Until calls overlap, one at a time is busy, and unless it is planning the
\* task anew it knows of everything the copy that is read back shows.
KeptInv ==
  /\ \A r \in Runs : step[r] \in {"schedule", "await"} => status[r] = "running"
  /\ ~overlap =>
       /\ \A r, q \in Runs : step[r] \notin {"idle", "ended"} /\ step[q] \notin {"idle", "ended"} => r = q
       /\ \A r \in Runs : step[r] \in AtWork /\ status[r] # "planned" => vfs.completed \subseteq completed[r]

PlanKept == TypeOK /\ PlanInv /\ KeptInv

LEMMA InitPlanKept == Init => PlanKept
  BY InitTypeOK, InitPlanInv DEF PlanKept, KeptInv, Init, AtWork

LEMMA NextKeptInv == ASSUME PlanKept, [Next]_vars PROVE KeptInv'
<1> USE DEF PlanKept, KeptInv, AtWork, checkpoint, history, flows, bounds
<1>1. ASSUME NEW r \in Runs, Preview(r) \/ Resume(r) \/ PreviewFails(r) PROVE KeptInv'
  <2>1. /\ vfs' = vfs /\ step[r] = "idle"
        /\ overlap' = (overlap \/ ~Alone(r))
        /\ \E s \in {"saveStore", "load", "ended"} :
             /\ step' = [step EXCEPT ![r] = s]
             /\ s = "saveStore" => status' = [status EXCEPT ![r] = "planned"]
    BY <1>1 DEF Preview, Resume, PreviewFails, Begins, Goto
  <2>2. \A q \in Runs \ {r} : status'[q] = status[q] /\ completed'[q] = completed[q]
    BY <1>1 DEF TypeOK, Preview, Resume, PreviewFails
  <2>3. ~overlap' => ~overlap /\ \A q \in Runs \ {r} : step[q] \in {"idle", "ended"}
    BY <2>1 DEF Alone
  <2>4. \A q \in Runs \ {r} : step'[q] = step[q]
    BY <2>1 DEF TypeOK
  <2>5. step'[r] \in {"load", "ended"} \/ (step'[r] = "saveStore" /\ status'[r] = "planned")
    BY <2>1 DEF TypeOK
  <2> QED BY <2>1, <2>2, <2>3, <2>4, <2>5
<1>2. ASSUME NEW r \in Runs, Load(r) PROVE KeptInv'
  <2>1. vfs.completed \subseteq Loaded.completed
    BY DEF Loaded, Absent
  <2>2. CASE Loaded.status \in {"none", "completed"}
    <3>1. step[r] = "load" /\ step' = [step EXCEPT ![r] = "ended"] /\ UNCHANGED <<vfs, checkpoint, overlap>>
      BY <1>2, <2>2 DEF Load, Goto
    <3> QED BY <3>1 DEF TypeOK
  <2>3. CASE Loaded.status \notin {"none", "completed"}
    <3>1. /\ completed' = [completed EXCEPT ![r] = Loaded.completed]
          /\ status' = [status EXCEPT ![r] = "running"]
          /\ step[r] = "load" /\ step' = [step EXCEPT ![r] = "saveStore"]
          /\ vfs' = vfs /\ overlap' = overlap
      BY <1>2, <2>3 DEF Load, Goto
    <3> HIDE DEF Loaded
    <3> QED BY <2>1, <3>1 DEF TypeOK
  <2> QED BY <2>2, <2>3
<1>3. ASSUME NEW r \in Runs, LoadFails(r) \/ SaveFails(r) PROVE KeptInv'
  <2>1. step' = [step EXCEPT ![r] = "ended"] /\ UNCHANGED <<vfs, checkpoint, overlap>>
    BY <1>3 DEF LoadFails, SaveFails, Goto
  <2> QED BY <2>1 DEF TypeOK
<1>4. ASSUME NEW r \in Runs, SaveStore(r) PROVE KeptInv'
  <2>1. step[r] = "saveStore" /\ step' = [step EXCEPT ![r] = "saveVfs"] /\ UNCHANGED <<vfs, checkpoint, overlap>>
    BY <1>4 DEF SaveStore, Goto
  <2> QED BY <2>1 DEF TypeOK
<1>5. ASSUME NEW r \in Runs, SaveVfs(r) PROVE KeptInv'
  <2>1. /\ step[r] = "saveVfs" /\ vfs'.completed = completed[r]
        /\ UNCHANGED <<checkpoint, overlap>>
        /\ step' = [step EXCEPT ![r] = AfterSave(status[r])]
    BY <1>5 DEF SaveVfs, Snapshot, Goto
  <2>2. \A q \in Runs \ {r} : step'[q] = step[q]
    BY <2>1 DEF TypeOK
  <2>3. (step'[r] = "schedule" /\ status[r] = "running") \/ step'[r] \in {"load", "ended"}
    BY <2>1 DEF TypeOK, AfterSave
  <2>4. ~overlap => \A q \in Runs \ {r} : step[q] \in {"idle", "ended"}
    BY <2>1
  <2> QED BY <2>1, <2>2, <2>3, <2>4
<1>6. ASSUME NEW r \in Runs, Schedule(r) PROVE KeptInv'
  <2>1. step[r] = "schedule" /\ step' = [step EXCEPT ![r] = "await"] /\ UNCHANGED <<vfs, checkpoint, overlap>>
    BY <1>6 DEF Schedule, Goto
  <2> QED BY <2>1 DEF TypeOK
<1>7. ASSUME NEW r \in Runs, NEW a \in Artifacts,
             ConsumeSuccess(r, a) \/ ConsumeFailure(r, a)
      PROVE  KeptInv'
  <2>1. /\ step[r] = "await" /\ step' = [step EXCEPT ![r] = "saveStore"]
        /\ UNCHANGED <<vfs, overlap>>
    BY <1>7 DEF ConsumeSuccess, ConsumeFailure, Goto
  <2>2. CASE ConsumeSuccess(r, a)
    BY <2>1, <2>2 DEF ConsumeSuccess, TypeOK
  <2>3. CASE ConsumeFailure(r, a)
    <3>1. status' = [status EXCEPT ![r] = "failed"] /\ completed' = completed
      BY <2>3 DEF ConsumeFailure
    <3> QED BY <2>1, <3>1 DEF TypeOK
  <2> QED BY <1>7, <2>2, <2>3
<1>8. ASSUME NEW r \in Runs, NEW a \in Artifacts, Goroutine(r, a) \/ SubmitFails(r, a) \/ Workflow(r, a)
      PROVE  KeptInv'
  <2>1. UNCHANGED <<vfs, checkpoint, step, overlap>>
    BY <1>8 DEF Goroutine, SubmitArtifact, Look, Register, SubmitFails, Workflow, WorkflowSucceeds,
                WorkflowFails, WorkflowEnds
  <2> QED BY <2>1
<1>9. CASE Crash
  BY <1>9 DEF TypeOK, Crash
<1>10. CASE UNCHANGED vars
  BY <1>10 DEF vars
<1>11. ASSUME NEW r \in Runs, Blocked(r) \/ Finish(r) PROVE KeptInv'
  <2>1. /\ step[r] = "schedule" /\ step' = [step EXCEPT ![r] = "saveStore"]
        /\ UNCHANGED <<vfs, overlap, completed>>
        /\ \A q \in Runs \ {r} : status'[q] = status[q]
    BY <1>11 DEF Blocked, Finish, Goto, TypeOK
  <2> QED BY <2>1 DEF TypeOK
<1> HIDE DEF PlanKept, KeptInv
<1> QED BY <1>1, <1>2, <1>3, <1>4, <1>5, <1>6, <1>7, <1>8, <1>9, <1>10, <1>11 DEF Next, Advance

LEMMA NextPlanKept ==
  ASSUME PlanKept, [Next]_vars
  PROVE  PlanKept'
  BY NextTypeOK, NextPlanInv, NextKeptInv DEF PlanKept

\* Only Schedule starts artifacts.
LEMMA StartStep ==
  ASSUME TypeOK, [Next]_vars, NEW r \in Runs, NEW a \in Artifacts,
         exec[r][a] = "none", exec'[r][a] = "submit"
  PROVE  \E q \in Runs : Schedule(q)
<1> USE DEF checkpoint, history, flows, bounds
<1>1. ASSUME NEW q \in Runs,
             \/ Preview(q) \/ Resume(q) \/ PreviewFails(q) \/ Load(q) \/ LoadFails(q) \/ SaveStore(q)
             \/ SaveVfs(q) \/ Blocked(q) \/ Finish(q)
      PROVE  exec' = exec
  BY <1>1 DEF Preview, Resume, PreviewFails, Load, LoadFails, SaveStore, SaveVfs, Blocked, Finish
<1>2. ASSUME NEW q \in Runs, NEW b \in Artifacts, SaveFails(q) \/ ConsumeFailure(q, b) PROVE FALSE
  <2>1. Cancel(q)
    BY <1>2 DEF SaveFails, ConsumeFailure
  <2> QED BY <2>1, CancelType
<1>3. ASSUME NEW q \in Runs, NEW b \in Artifacts, ConsumeSuccess(q, b) \/ Goroutine(q, b) \/ SubmitFails(q, b)
      PROVE  FALSE
  <2>1. \E v : exec' = [exec EXCEPT ![q][b] = v] /\ v # "submit"
    <3>1. ConsumeSuccess(q, b) \/ Register(q, b) => \E v \in {"none", "waiting"} : exec' = [exec EXCEPT ![q][b] = v]
      BY DEF ConsumeSuccess, Register
    <3>2. SubmitArtifact(q, b) => \E v \in {"none", "look", "own"} : exec' = [exec EXCEPT ![q][b] = v]
      BY DEF SubmitArtifact
    <3>3. SubmitFails(q, b) => \E v \in {"none", "bad"} : exec' = [exec EXCEPT ![q][b] = v]
      BY DEF SubmitFails
    <3>4. Look(q, b) => \E v \in {"ok", "bad", "looked"} : exec' = [exec EXCEPT ![q][b] = v]
      BY DEF Look
    <3> QED BY <1>3, <3>1, <3>2, <3>3, <3>4 DEF Goroutine
  <2> QED BY <2>1 DEF TypeOK
<1>4. ASSUME NEW q \in Runs, NEW b \in Artifacts, Workflow(q, b) PROVE FALSE
  <2>1. PICK v \in {"ok", "bad"} : WorkflowEnds(q, b, v)
    BY <1>4 DEF Workflow, WorkflowSucceeds, WorkflowFails
  <2> QED BY <2>1, EndType
<1>5. ~Crash
  BY DEF Crash
<1>6. exec' # exec
  OBVIOUS
<1> QED BY <1>1, <1>2, <1>3, <1>4, <1>5, <1>6 DEF Next, Advance, vars

\* A step of a plan undoes no recorded progress and starts nothing it shows.
LEMMA PlanStepKeeps == ASSUME PlanKept, [Next]_vars PROVE NoRework /\ ProgressKept
<1>1. ProgressKept
  <2>1. ASSUME NEW r \in Runs, SaveVfs(r) PROVE ProgressKept
    <3>1. step[r] = "saveVfs" /\ vfs'.completed = completed[r] /\ vfs'.status = status[r] /\ overlap' = overlap
      BY <2>1 DEF SaveVfs, Snapshot, history
    <3> QED BY <3>1 DEF PlanKept, KeptInv, AtWork, ProgressKept
  <2>2. ASSUME NEW r \in Runs, NEW a \in Artifacts, WorkflowSucceeds(r, a) PROVE vfs' = vfs
    BY <2>2 DEF WorkflowSucceeds, WorkflowEnds
  <2>3. vfs' = vfs => ProgressKept
    BY DEF ProgressKept
  <2> QED BY <2>1, <2>2, <2>3, VfsStep
<1>2. NoRework
  <2> SUFFICES ASSUME ~overlap', NEW r \in Runs, NEW a \in Artifacts, exec[r][a] = "none", exec'[r][a] = "submit"
               PROVE  a \notin vfs.completed
    BY DEF NoRework
  <2>1. PICK q \in Runs : Schedule(q)
    BY StartStep DEF PlanKept
  <2>2. PICK S \in SUBSET Ready(q) :
          exec' = [exec EXCEPT ![q] = [b \in Artifacts |->
                     IF b \in S \ running[q] THEN "submit" ELSE exec[q][b]]]
    BY <2>1 DEF Schedule
  <2>3. q = r /\ a \in Ready(r)
    BY <2>2, ExecStarts DEF PlanKept
  <2>4. a \in pending[r] /\ step[r] = "schedule" /\ ~overlap
    BY <2>1, <2>3 DEF Ready, Schedule, history
  <2>5. a \notin completed[r]
    BY <2>4 DEF PlanKept, PlanInv, CopiesInv, Truthful
  <2> QED BY <2>4, <2>5 DEF PlanKept, KeptInv, AtWork
<1> QED BY <1>1, <1>2

-----------------------------------------------------------------------------
(* Why a plan is blocked.                                                  *)

\* Of a checkpoint with dependencies deps.
HasCause(deps, s, p, c) == s = "blocked" => p # {} /\ \A a \in p : ~ deps[a] \subseteq c

\* The inductive strengthening of BlockedHasCause: it holds of the calls' own
\* copies too, and a call that starts or awaits artifacts is not blocked.
CauseInv(deps) ==
  /\ HasCause(deps, store.status, store.pending, store.completed)
  /\ HasCause(deps, vfs.status, vfs.pending, vfs.completed)
  /\ \A r \in Runs : HasCause(deps, status[r], pending[r], completed[r])
  /\ \A r \in Runs : step[r] \in {"schedule", "await"} => status[r] = "running"

LEMMA PlanStepCause ==
  ASSUME TypeOK, NEW deps, NEW m, CauseInv(deps), PlanStep(deps, m)
  PROVE  CauseInv(deps)'
<1> USE DEF CauseInv, HasCause, checkpoint, history, flows, bounds
<1>1. ASSUME NEW r \in Runs, Preview(r) PROVE CauseInv(deps)'
  BY <1>1 DEF TypeOK, Preview, Goto
<1>2. ASSUME NEW r \in Runs, Resume(r) \/ PreviewFails(r) PROVE CauseInv(deps)'
  <2>1. /\ \E s \in {"load", "ended"} : step' = [step EXCEPT ![r] = s]
        /\ UNCHANGED <<store, vfs, checkpoint>>
    BY <1>2 DEF Resume, PreviewFails, Goto
  <2> QED BY <2>1 DEF TypeOK
<1>3. ASSUME NEW r \in Runs, Load(r) PROVE CauseInv(deps)'
  <2>1. CASE UNCHANGED checkpoint /\ step' = [step EXCEPT ![r] = "ended"]
    BY <1>3, <2>1 DEF TypeOK, Load
  <2>2. CASE /\ status' = [status EXCEPT ![r] = "running"]
             /\ \E p, c : /\ pending' = [pending EXCEPT ![r] = p]
                          /\ completed' = [completed EXCEPT ![r] = c]
             /\ step' = [step EXCEPT ![r] = "saveStore"]
    <3>1. store' = store /\ vfs' = vfs
      BY <1>3 DEF Load
    <3> QED BY <2>2, <3>1 DEF TypeOK
  <2> QED BY <1>3, <2>1, <2>2 DEF Load, Goto
<1>4. ASSUME NEW r \in Runs, LoadFails(r) \/ SaveFails(r) PROVE CauseInv(deps)'
  <2>1. step' = [step EXCEPT ![r] = "ended"] /\ UNCHANGED <<store, vfs, checkpoint>>
    BY <1>4 DEF LoadFails, SaveFails, Goto
  <2> QED BY <2>1 DEF TypeOK
<1>5. ASSUME NEW r \in Runs, SaveStore(r) PROVE CauseInv(deps)'
  BY <1>5 DEF TypeOK, SaveStore, Snapshot, Goto
<1>6. ASSUME NEW r \in Runs, SaveVfs(r) PROVE CauseInv(deps)'
  BY <1>6 DEF TypeOK, SaveVfs, Snapshot, AfterSave, Goto
<1>7. ASSUME NEW r \in Runs, Finish(r) PROVE CauseInv(deps)'
  BY <1>7 DEF TypeOK, Finish, Goto
<1>8. ASSUME NEW r \in Runs, NEW a \in Artifacts, ConsumeSuccess(r, a) PROVE CauseInv(deps)'
  <2>1. step[r] = "await" /\ status[r] = "running" /\ UNCHANGED <<store, vfs, status>>
    BY <1>8 DEF ConsumeSuccess
  <2> QED BY <1>8, <2>1 DEF TypeOK, ConsumeSuccess, Goto
<1>9. ASSUME NEW r \in Runs, NEW a \in Artifacts, ConsumeFailure(r, a) PROVE CauseInv(deps)'
  <2>1. /\ status' = [status EXCEPT ![r] = "failed"] /\ step' = [step EXCEPT ![r] = "saveStore"]
        /\ UNCHANGED <<store, vfs, pending, completed>>
    BY <1>9 DEF ConsumeFailure, Goto
  <2> QED BY <2>1 DEF TypeOK
<1>10. ASSUME NEW r \in Runs, NEW a \in Artifacts,
              \/ Look(r, a) \/ Register(r, a) \/ Workflow(r, a)
              \/ SubmitAs(m, r, a) \/ SubmitFailsAs(m, r, a)
       PROVE CauseInv(deps)'
  <2>1. UNCHANGED <<store, vfs, checkpoint, step>>
    BY <1>10 DEF Look, Register, Workflow, WorkflowSucceeds, WorkflowFails, WorkflowEnds, SubmitAs, SubmitFailsAs
  <2> QED BY <2>1
<1>11. ASSUME NEW r \in Runs, StartsOf(r, ReadyIn(deps, r)) PROVE CauseInv(deps)'
  <2>1. step[r] = "schedule" /\ step' = [step EXCEPT ![r] = "await"] /\ UNCHANGED <<store, vfs, checkpoint>>
    BY <1>11 DEF StartsOf, Goto
  <2> QED BY <2>1 DEF TypeOK
<1>12. ASSUME NEW r \in Runs, BlockedOver(r, ReadyIn(deps, r)) PROVE CauseInv(deps)'
  <2>1. ActiveKeys(r) = {} /\ pending[r] # {}
    BY <1>12 DEF BlockedOver, ActiveKeys, Working
  <2>2. ReadyIn(deps, r) = {}
    BY <1>12, <2>1 DEF BlockedOver, IsSchedule
  <2>3. \A a \in pending[r] : ~ deps[a] \subseteq completed[r]
    BY <2>2 DEF ReadyIn
  <2> QED BY <1>12, <2>1, <2>3 DEF TypeOK, BlockedOver, Goto
<1>13. CASE Crash
  BY <1>13 DEF TypeOK, Crash
<1>14. CASE UNCHANGED vars
  BY <1>14 DEF vars
<1> HIDE DEF CauseInv
<1> QED BY <1>1, <1>2, <1>3, <1>4, <1>5, <1>6, <1>7, <1>8, <1>9, <1>10, <1>11, <1>12, <1>13, <1>14
        DEF PlanStep, BlindStep

LEMMA BrokenIsPlanStep == ASSUME Broken!Next PROVE PlanStep(Dangling, FALSE)
<1> USE DEF Broken!checkpoint, Broken!history, Broken!flows, Broken!bounds, checkpoint, history, flows, bounds
<1>1. CASE Broken!Crash
  BY <1>1 DEF Broken!Crash, Crash, PlanStep
<1>2. ASSUME NEW r \in Runs, Broken!Preview(r) \/ Broken!Resume(r) \/ Broken!PreviewFails(r)
      PROVE  BlindStep(r)
  BY <1>2 DEF Broken!Preview, Broken!Resume, Broken!PreviewFails, Broken!Begins, Broken!Fault, Broken!Alone,
              Broken!Goto, BlindStep, Preview, Resume, PreviewFails, Begins, Fault, Alone, Goto
<1>3. ASSUME NEW r \in Runs, Broken!LoadFails(r) \/ Broken!SaveFails(r)
      PROVE  BlindStep(r)
  BY <1>3 DEF Broken!LoadFails, Broken!SaveFails, Broken!Fault, Broken!Cancel, Broken!Goto,
              BlindStep, LoadFails, SaveFails, Fault, Cancel, Goto
<1>4. ASSUME NEW r \in Runs, Broken!Load(r) \/ Broken!SaveStore(r) \/ Broken!SaveVfs(r) \/ Broken!Finish(r)
      PROVE  BlindStep(r)
  BY <1>4 DEF Broken!Load, Broken!SaveStore, Broken!SaveVfs, Broken!Finish, Broken!Goto, Broken!Loaded,
              Broken!Snapshot, Broken!AfterSave, Broken!Working, Broken!Absent, BlindStep, Load, SaveStore,
              SaveVfs, Finish, Goto, Loaded, Snapshot, AfterSave, Working, Absent
<1>5. ASSUME NEW r \in Runs, NEW a \in Artifacts, Broken!ConsumeSuccess(r, a) \/ Broken!ConsumeFailure(r, a)
      PROVE  BlindStep(r)
  BY <1>5 DEF Broken!ConsumeSuccess, Broken!ConsumeFailure, Broken!Cancel, Broken!RemovePending, Broken!Goto,
              BlindStep, ConsumeSuccess, ConsumeFailure, Cancel, RemovePending, Goto
<1>6. ASSUME NEW r \in Runs, NEW a \in Artifacts, Broken!Look(r, a) \/ Broken!Register(r, a)
      PROVE  BlindStep(r)
  BY <1>6 DEF Broken!Look, Broken!Register, BlindStep, Look, Register
<1>7. ASSUME NEW r \in Runs, NEW a \in Artifacts, Broken!Workflow(r, a)
      PROVE  BlindStep(r)
  BY <1>7 DEF Broken!Workflow, Broken!WorkflowSucceeds, Broken!WorkflowFails, Broken!WorkflowEnds,
              BlindStep, Workflow, WorkflowSucceeds, WorkflowFails, WorkflowEnds
<1>8. ASSUME NEW r \in Runs, NEW a \in Artifacts, Broken!SubmitArtifact(r, a) PROVE SubmitAs(FALSE, r, a)
  BY <1>8 DEF Broken!SubmitArtifact, Broken!Cancelled, SubmitAs, Cancelled
<1>9. ASSUME NEW r \in Runs, NEW a \in Artifacts, Broken!SubmitFails(r, a) PROVE SubmitFailsAs(FALSE, r, a)
  BY <1>9 DEF Broken!SubmitFails, Broken!Cancelled, Broken!Fault, SubmitFailsAs, Cancelled, Fault
<1>10. ASSUME NEW r \in Runs, Broken!Schedule(r) PROVE StartsOf(r, ReadyIn(Dangling, r))
  BY <1>10 DEF Broken!Schedule, Broken!Ready, Broken!IsSchedule, Broken!ActiveKeys, Broken!Goto, StartsOf,
               ReadyIn, IsSchedule, ActiveKeys, Goto
<1>11. ASSUME NEW r \in Runs, Broken!Blocked(r) PROVE BlockedOver(r, ReadyIn(Dangling, r))
  BY <1>11 DEF Broken!Blocked, Broken!Ready, Broken!IsSchedule, Broken!ActiveKeys, Broken!Working, Broken!Goto,
               BlockedOver, ReadyIn, IsSchedule, ActiveKeys, Working, Goto
<1> QED BY <1>1, <1>2, <1>3, <1>4, <1>5, <1>6, <1>7, <1>8, <1>9, <1>10, <1>11
        DEF Broken!Next, Broken!Advance, Broken!Goroutine, PlanStep

-----------------------------------------------------------------------------
(* Synchronous submissions.                                                *)

\* One element may come or go: the size follows.
LEMMA SizeStep ==
  ASSUME NEW S, NEW T, NEW e, IsFiniteSet(S), S \ {e} = T \ {e}
  PROVE  /\ IsFiniteSet(T) /\ Cardinality(S) \in Nat /\ Cardinality(T) \in Nat
         /\ (e \in S <=> e \in T) => Cardinality(T) = Cardinality(S)
         /\ e \in T /\ e \notin S => Cardinality(T) = Cardinality(S) + 1
         /\ e \in S /\ e \notin T => Cardinality(T) = Cardinality(S) - 1
<1>1. CASE e \in S <=> e \in T
  <2>1. S = T
    BY <1>1
  <2> QED BY <1>1, <2>1, FS_CardinalityType
<1>2. CASE e \in T /\ e \notin S
  <2>1. T = S \cup {e}
    BY <1>2
  <2> QED BY <1>2, <2>1, FS_AddElement, FS_CardinalityType
<1>3. CASE e \in S /\ e \notin T
  <2>1. T = S \ {e}
    BY <1>3
  <2> QED BY <1>3, <2>1, FS_RemoveElement, FS_CardinalityType
<1> QED BY <1>1, <1>2, <1>3

Ledgers == [PsAgents -> Nat]

Submissions ==
  [pc : Pcs, task : Nat, assigned : SUBSET PsAgents, override : BOOLEAN, agent : SUBSET PsAgents,
   tried : SUBSET PsAgents, over : SUBSET PsAgents, copy : SUBSET Ledgers,
   status : {"none", "completed", "failed"}]

PsTyped ==
  /\ psCall \in [PsCallers -> Submissions]
  /\ psMail \in [PsAgents -> Seq(Nat)]
  /\ psErr \in [PsAgents -> 0 .. 4]
  /\ psShut \in SUBSET PsAgents
  /\ psUsage \in Ledgers /\ psSpent \in Ledgers
  /\ psStopped \in BOOLEAN /\ psFailed \in BOOLEAN /\ psConcurrent \in BOOLEAN
  /\ psHelped \in SUBSET PsAgents
  /\ psCalls \in Nat /\ psFaults \in Nat

Early == {"idle", "check", "adapt", "route"}
First == Early \cup {"policy", "budget"}
Holding == {"attached", "used", "kept"}

\* What holds of a submission wherever it is.
CallSound(k) ==
  /\ k.pc \in Early => k.agent = {}
  /\ k.pc \notin Early => \E a \in PsAgents : k.agent = {a}
  /\ k.pc \in First => k.tried = {}
  /\ k.agent \cap k.tried = {}
  /\ k.pc \in {"usage", "used"} => k.status = "completed"
  /\ k.pc \in Holding => \E u \in Ledgers : k.copy = {u}

Fetching(c, a) == psCall[c].pc = "fetch" /\ psCall[c].agent = {a}
Pending(a) == {c \in PsCallers : psCall[c].pc \in {"usage", "used"} /\ psCall[c].agent = {a}}

\* A ledger, the session's or a copy of it, shows no more than was used, the
\* executions not recorded yet left out.
Modest(u) == \A a \in PsAgents : u[a] + Cardinality(Pending(a)) <= psSpent[a]

LedgersSound ==
  /\ Modest(psUsage)
  /\ \A c \in PsCallers : psCall[c].pc \in Holding => \A u \in psCall[c].copy : Modest(u)

\* As long as submissions come one after another, nothing fails and no one else
\* is at the mailboxes.
SerialSound ==
  Undisturbed =>
    /\ \A c, d \in PsCallers : c # d => psCall[c].pc = "idle" \/ psCall[d].pc = "idle"
    /\ \A c \in PsCallers : psCall[c].pc # "misled"
    /\ \A a \in PsAgents : (\A c \in PsCallers : ~Fetching(c, a)) => psMail[a] = <<>>
    /\ \A c \in PsCallers, a \in PsAgents : Fetching(c, a) => psMail[a] = <<psCall[c].task>>
    /\ \A a \in PsAgents : psUsage[a] + Cardinality(Pending(a)) = psSpent[a]
    /\ \A c \in PsCallers : psCall[c].pc \in Holding => psCall[c].copy = {psUsage}

FailureKnown ==
  /\ psStopped => psFailed
  /\ \A c \in PsCallers : psCall[c].pc = "outcome" /\ psCall[c].status = "failed" => psFailed

\* Between a submission's look at the lanes and its routing.
RouteSound ==
  \A c \in PsCallers, a \in PsAgents :
    psCall[c].pc = "route" /\ psErr[a] >= 3 => a \in psShut \/ a \in psHelped

SubmissionInv ==
  /\ PsTyped
  /\ \A c \in PsCallers : CallSound(psCall[c])
  /\ LedgersSound /\ SerialSound /\ FailureKnown /\ RouteSound

LEMMA PendingFinite ==
  \A a \in PsAgents : IsFiniteSet(Pending(a)) /\ Cardinality(Pending(a)) \in Nat
<1> TAKE a \in PsAgents
<1>1. Pending(a) \subseteq PsCallers
  BY DEF Pending
<1>2. IsFiniteSet(Pending(a))
  BY <1>1, FS_Subset, SubmissionAssumption
<1> QED BY <1>2, FS_CardinalityType

LEMMA InvSound == ASSUME SubmissionInv PROVE SubmissionSound
<1>1. PsTypeOK
  <2>1. ASSUME NEW c \in PsCallers
        PROVE  /\ psCall[c].pc \in Pcs
               /\ psCall[c].agent \cup psCall[c].tried \cup psCall[c].over \subseteq PsAgents
               /\ Cardinality(psCall[c].agent) <= 1
               /\ psCall[c].status \in {"none", "completed", "failed"}
    <3>1. psCall[c] \in Submissions /\ CallSound(psCall[c])
      BY DEF SubmissionInv, PsTyped
    <3>2. psCall[c].agent = {} \/ \E a \in PsAgents : psCall[c].agent = {a}
      BY <3>1 DEF CallSound
    <3>3. \A a \in PsAgents : Cardinality({a}) = 1
      BY FS_Singleton
    <3>4. Cardinality({}) = 0
      BY FS_EmptySet
    <3>5. Cardinality(psCall[c].agent) <= 1
      BY <3>2, <3>3, <3>4
    <3> QED BY <3>1, <3>5 DEF Submissions
  <2>2. \A a \in PsAgents : ToSet(psMail[a]) \subseteq Nat
    BY DEF SubmissionInv, PsTyped, ToSet
  <2> QED BY <2>1, <2>2 DEF PsTypeOK, SubmissionInv, PsTyped
<1>3. SerialExact
  <2> SUFFICES ASSUME Undisturbed, \A c \in PsCallers : At(c, "idle")
               PROVE  psUsage = psSpent /\ \A a \in PsAgents : psMail[a] = <<>>
    BY DEF SubmissionInv, SerialSound, SerialExact, At
  <2>1. \A a \in PsAgents : Pending(a) = {} /\ \A c \in PsCallers : ~Fetching(c, a)
    BY DEF Pending, Fetching, At
  <2>2. \A a \in PsAgents : psUsage[a] + 0 = psSpent[a]
    BY <2>1, FS_EmptySet DEF SubmissionInv, SerialSound
  <2>3. psUsage \in [PsAgents -> Nat] /\ psSpent \in [PsAgents -> Nat]
    BY DEF SubmissionInv, PsTyped, Ledgers
  <2>4. \A a \in PsAgents : psUsage[a] = psSpent[a]
    BY <2>2, <2>3
  <2>5. \A a \in PsAgents : psMail[a] = <<>>
    BY <2>1 DEF SubmissionInv, SerialSound
  <2> QED BY <2>3, <2>4, <2>5
<1>4. UsageNotOverstated
  <2>1. psUsage \in [PsAgents -> Nat] /\ psSpent \in [PsAgents -> Nat]
    BY DEF SubmissionInv, PsTyped, Ledgers
  <2> QED BY <2>1, PendingFinite DEF SubmissionInv, LedgersSound, Modest, UsageNotOverstated
<1>5. StopHasFailure /\ NeverTwice
  BY DEF SubmissionInv, FailureKnown, CallSound, StopHasFailure, NeverTwice
<1> QED BY <1>1, <1>3, <1>4, <1>5 DEF SubmissionSound

LEMMA PsInitInv == ASSUME PsInit PROVE SubmissionInv
<1>1. PsTyped
  <2>1. Resting \in Submissions
    BY DEF Resting, Submissions, Pcs
  <2>2. psErr \in [PsAgents -> 0 .. 4] /\ psShut \in SUBSET PsAgents
    BY DEF PsInit
  <2> QED BY <2>1, <2>2, EmptySeq DEF PsInit, PsTyped, Ledgers
<1>2. \A c \in PsCallers : psCall[c] = Resting
  BY DEF PsInit
<1>3. \A a \in PsAgents : Pending(a) = {}
  BY <1>2 DEF Pending, Resting
<1>4. \A a \in PsAgents : psMail[a] = <<>> /\ psUsage[a] = 0 /\ psSpent[a] = 0
  BY DEF PsInit
<1>0. \A a \in PsAgents : Cardinality(Pending(a)) = 0
  BY <1>3, FS_EmptySet
<1>5. LedgersSound
  BY <1>0, <1>2, <1>4 DEF LedgersSound, Modest, Resting, Holding
<1>6. SerialSound
  BY <1>0, <1>2, <1>4 DEF SerialSound, Resting, Holding, Fetching
<1>7. FailureKnown /\ RouteSound
  BY <1>2 DEF FailureKnown, RouteSound, Resting, PsInit
<1>8. \A c \in PsCallers : CallSound(psCall[c])
  BY <1>2 DEF CallSound, Resting, Early, First, Holding
<1> QED BY <1>1, <1>5, <1>6, <1>7, <1>8 DEF SubmissionInv

\* Only caller c's submission has moved.
Moves(c) ==
  /\ PsTyped'
  /\ \A d \in PsCallers \ {c} : psCall'[d] = psCall[d]

\* Who is pending changes by the caller that moved at most.
LEMMA PendingStep ==
  ASSUME NEW c \in PsCallers, Moves(c), NEW a \in PsAgents
  PROVE  /\ Cardinality(Pending(a)) \in Nat /\ Cardinality(Pending(a)') \in Nat
         /\ (c \in Pending(a) <=> c \in Pending(a)') => Cardinality(Pending(a)') = Cardinality(Pending(a))
         /\ c \notin Pending(a) /\ c \in Pending(a)' => Cardinality(Pending(a)') = Cardinality(Pending(a)) + 1
         /\ c \in Pending(a) /\ c \notin Pending(a)' => Cardinality(Pending(a)') = Cardinality(Pending(a)) - 1
<1>1. Pending(a) \ {c} = Pending(a)' \ {c}
  BY DEF Moves, Pending
<1>2. IsFiniteSet(Pending(a))
  BY PendingFinite
<1> QED BY <1>1, <1>2, SizeStep

\* A step of caller c that touches neither mailboxes nor ledgers.
Quiet(c) ==
  /\ Moves(c)
  /\ UNCHANGED <<psMail, psUsage, psSpent>>
  /\ psCall[c].pc \notin {"fetch", "usage", "used"}
  /\ psCall'[c].pc \notin {"fetch", "usage", "used", "misled"} \cup Holding
  /\ Undisturbed' => /\ Undisturbed
                     /\ psCall[c].pc = "idle" => \A d \in PsCallers \ {c} : psCall[d].pc = "idle"

\* Nobody else fetches while caller c is the only one under way.
LEMMA Boxes ==
  ASSUME NEW c \in PsCallers, Moves(c), \A d \in PsCallers \ {c} : psCall[d].pc = "idle"
  PROVE  \A a \in PsAgents, d \in PsCallers :
           /\ Fetching(d, a) => d = c /\ psCall[c].pc = "fetch"
           /\ Fetching(d, a)' => d = c /\ psCall'[c].pc = "fetch"
  BY DEF Moves, Fetching

LEMMA QuietKeeps ==
  ASSUME SubmissionInv, NEW c \in PsCallers, Quiet(c)
  PROVE  LedgersSound' /\ SerialSound'
<1>0. /\ Moves(c) /\ psMail' = psMail /\ psUsage' = psUsage /\ psSpent' = psSpent
      /\ psCall[c].pc \notin {"fetch", "usage", "used"}
      /\ psCall'[c].pc \notin {"fetch", "usage", "used", "misled"} \cup Holding
      /\ \A d \in PsCallers \ {c} : psCall'[d] = psCall[d]
  BY DEF Quiet, Moves
<1>2. \A a \in PsAgents : Cardinality(Pending(a)') = Cardinality(Pending(a)) /\ Cardinality(Pending(a)) \in Nat
  <2> TAKE a \in PsAgents
  <2>1. c \notin Pending(a) /\ c \notin Pending(a)'
    BY <1>0 DEF Pending
  <2> QED BY <1>0, <2>1, PendingStep
<1>4. LedgersSound'
  BY <1>0, <1>2 DEF SubmissionInv, LedgersSound, Modest
<1>5. SerialSound'
  <2> SUFFICES ASSUME Undisturbed'
               PROVE  /\ \A d, e \in PsCallers : d # e => psCall'[d].pc = "idle" \/ psCall'[e].pc = "idle"
                      /\ \A d \in PsCallers : psCall'[d].pc # "misled"
                      /\ \A a \in PsAgents : psMail'[a] = <<>>
                      /\ \A d \in PsCallers, a \in PsAgents : ~Fetching(d, a)'
                      /\ \A a \in PsAgents : psUsage'[a] + Cardinality(Pending(a)') = psSpent'[a]
                      /\ \A d \in PsCallers : psCall'[d].pc \in Holding => psCall'[d].copy = {psUsage'}
    BY DEF SerialSound
  <2>1. /\ Undisturbed /\ SerialSound
        /\ psCall[c].pc = "idle" => \A d \in PsCallers \ {c} : psCall[d].pc = "idle"
    BY DEF Quiet, SubmissionInv
  <2>2. \A d \in PsCallers \ {c} : psCall[d].pc = "idle"
    BY <2>1 DEF SerialSound
  <2>3. \A d, e \in PsCallers : d # e => psCall'[d].pc = "idle" \/ psCall'[e].pc = "idle"
    BY <1>0, <2>2
  <2>4. \A d \in PsCallers : psCall'[d].pc # "misled"
    BY <1>0, <2>2
  <2>5. \A d \in PsCallers, a \in PsAgents : ~Fetching(d, a) /\ ~Fetching(d, a)'
    BY <1>0, <2>2, Boxes
  <2>6. \A a \in PsAgents : psMail'[a] = <<>>
    BY <1>0, <2>1, <2>5 DEF SerialSound
  <2>7. \A a \in PsAgents : psUsage'[a] + Cardinality(Pending(a)') = psSpent'[a]
    BY <1>0, <1>2, <2>1 DEF SerialSound
  <2>8. \A d \in PsCallers : psCall'[d].pc \in Holding => psCall'[d].copy = {psUsage'}
    BY <1>0, <2>2 DEF Holding
  <2> QED BY <2>3, <2>4, <2>5, <2>6, <2>7, <2>8
<1> QED BY <1>4, <1>5

\* What a step of caller c leaves as it should be besides.
Steady(c) ==
  /\ Moves(c)
  /\ CallSound(psCall'[c])
  /\ psFailed => psFailed'
  /\ psStopped' => psFailed'
  /\ psCall'[c].pc = "outcome" /\ psCall'[c].status = "failed" => psFailed'
  /\ psHelped \subseteq psHelped' /\ psShut \subseteq psShut'
  /\ \A a \in PsAgents : psErr'[a] >= 3 => psErr[a] >= 3 \/ a \in psShut'
  /\ \A a \in PsAgents : psCall'[c].pc = "route" /\ psErr'[a] >= 3 => a \in psShut'

LEMMA SteadyKeeps ==
  ASSUME SubmissionInv, NEW c \in PsCallers, Steady(c),
         LedgersSound', SerialSound'
  PROVE  SubmissionInv'
<1>1. \A d \in PsCallers : CallSound(psCall'[d])
  BY DEF SubmissionInv, Steady, Moves
<1>2. FailureKnown'
  BY DEF SubmissionInv, FailureKnown, Steady, Moves
<1>3. RouteSound'
  BY DEF SubmissionInv, RouteSound, Steady, Moves
<1>4. \A d \in PsCallers : CallSound(psCall[d])'
  BY <1>1 DEF CallSound
<1> QED BY <1>2, <1>3, <1>4 DEF SubmissionInv, Steady, Moves

LEMMA NowIs ==
  ASSUME SubmissionInv, NEW c \in PsCallers, psCall[c].pc \notin Early
  PROVE  Now(c) \in PsAgents /\ psCall[c].agent = {Now(c)}
  BY DEF SubmissionInv, CallSound, Now

\* The submission c is put at k.
LEMMA GoesTo ==
  ASSUME SubmissionInv, NEW c \in PsCallers, NEW k \in Submissions, Goes(c, k)
  PROVE  /\ psCall' \in [PsCallers -> Submissions]
         /\ psCall'[c] = k
         /\ \A d \in PsCallers \ {c} : psCall'[d] = psCall[d]
  BY DEF SubmissionInv, PsTyped, Goes

LEMMA RestingSound == Resting \in Submissions /\ CallSound(Resting)
  BY DEF Resting, Submissions, Pcs, CallSound, Early, First, Holding

LEMMA SubmitKeeps == ASSUME SubmissionInv, NEW c \in PsCallers, Submit(c) PROVE SubmissionInv'
<1>1. PICK p \in SUBSET PsAgents : Goes(c, [Resting EXCEPT !.pc = "check", !.task = psCalls', !.assigned = p])
  BY DEF Submit
<1>0. psCalls' \in Nat
  BY DEF Submit, SubmissionInv, PsTyped
<1> DEFINE k == [Resting EXCEPT !.pc = "check", !.task = psCalls', !.assigned = p]
<1>2. k \in Submissions /\ k.pc = "check" /\ CallSound(k)
  BY <1>0 DEF Resting, Submissions, Pcs, CallSound, Early, First, Holding
<1> HIDE DEF k
<1>3. /\ psCall' \in [PsCallers -> Submissions] /\ psCall'[c] = k
      /\ \A d \in PsCallers \ {c} : psCall'[d] = psCall[d]
  BY <1>1, <1>2, GoesTo DEF k
<1>4. /\ UNCHANGED <<psMail, psErr, psShut, psUsage, psStopped, psSpent, psFailed, psHelped>>
      /\ psConcurrent' = (psConcurrent \/ \E d \in PsCallers \ {c} : psCall[d].pc # "idle")
      /\ psCall[c].pc = "idle" /\ psFaults' = psFaults
  BY DEF Submit, At
<1>5. Moves(c)
  BY <1>0, <1>3, <1>4 DEF Moves, SubmissionInv, PsTyped
<1>6. Steady(c)
  BY <1>2, <1>3, <1>4, <1>5 DEF Steady, SubmissionInv, FailureKnown
<1>7. Quiet(c)
  BY <1>2, <1>3, <1>4, <1>5 DEF Quiet, Holding, Undisturbed
<1> QED BY <1>6, <1>7, QuietKeeps, SteadyKeeps

\* Steps that write the submission alone.
LEMMA SilentKeeps ==
  ASSUME SubmissionInv, NEW c \in PsCallers, NEW k \in Submissions, Goes(c, k), CallSound(k),
         UNCHANGED <<psMail, psErr, psUsage, psStopped, psSpent, psHelped, psConcurrent, psCalls>>,
         psFaults' \in Nat, psFaults' = 0 => psFaults = 0,
         psShut' \in SUBSET PsAgents, psShut \subseteq psShut',
         psFailed' \in BOOLEAN, psFailed => psFailed',
         psCall[c].pc \notin {"idle", "fetch", "usage", "used"},
         k.pc \notin {"fetch", "usage", "used", "misled"} \cup Holding,
         k.pc = "outcome" /\ k.status = "failed" => psFailed',
         \A a \in PsAgents : k.pc = "route" /\ psErr[a] >= 3 => a \in psShut'
  PROVE  SubmissionInv'
<1>1. /\ psCall' \in [PsCallers -> Submissions] /\ psCall'[c] = k
      /\ \A d \in PsCallers \ {c} : psCall'[d] = psCall[d]
  BY GoesTo
<1>2. Moves(c)
  BY <1>1 DEF Moves, SubmissionInv, PsTyped
<1>3. Steady(c)
  BY <1>1, <1>2 DEF Steady, SubmissionInv, FailureKnown
<1>4. Quiet(c)
  BY <1>1, <1>2 DEF Quiet, Undisturbed
<1> QED BY <1>3, <1>4, QuietKeeps, SteadyKeeps


\* A submission that ends.
LEMMA EndsKeeps ==
  ASSUME SubmissionInv, NEW c \in PsCallers, Ends(c), psCall[c].pc \notin {"idle", "fetch", "usage", "used"},
         UNCHANGED <<psMail, psErr, psUsage, psStopped, psSpent, psHelped, psConcurrent,
                     psShut, psFailed, psCalls>>,
         psFaults' \in Nat, psFaults' = 0 => psFaults = 0
  PROVE  SubmissionInv'
<1>1. PICK k : k = Resting
  OBVIOUS
<1>2. k \in Submissions /\ CallSound(k) /\ k.pc = "idle"
  BY <1>1, RestingSound DEF Resting
<1>3. Goes(c, k)
  BY <1>1 DEF Ends
<1>4. psShut \in SUBSET PsAgents /\ psFailed \in BOOLEAN
  BY DEF SubmissionInv, PsTyped
<1> QED BY <1>2, <1>3, <1>4, SilentKeeps DEF Holding

\* A submission that goes on to pc and is otherwise as it was.
LEMMA OnlyPc ==
  ASSUME SubmissionInv, NEW c \in PsCallers, NEW pc \in Pcs
  PROVE  /\ [psCall[c] EXCEPT !.pc = pc] \in Submissions
         /\ [psCall[c] EXCEPT !.pc = pc].pc = pc
         /\ [psCall[c] EXCEPT !.pc = pc].agent = psCall[c].agent
         /\ [psCall[c] EXCEPT !.pc = pc].tried = psCall[c].tried
         /\ [psCall[c] EXCEPT !.pc = pc].copy = psCall[c].copy
         /\ [psCall[c] EXCEPT !.pc = pc].status = psCall[c].status
<1>1. psCall[c] \in Submissions
  BY DEF SubmissionInv, PsTyped
<1> QED BY <1>1 DEF Submissions

LEMMA PreflightKeeps == ASSUME SubmissionInv, NEW c \in PsCallers, Preflight(c) PROVE SubmissionInv'
<1>1. /\ psCall[c].pc = "check"
      /\ UNCHANGED <<psMail, psErr, psUsage, psStopped, psSpent, psHelped, psConcurrent,
                     psShut, psFailed, psCalls>>
      /\ psFaults' \in Nat /\ (psFaults' = 0 => psFaults = 0)
  <2>1. psFaults \in Nat /\ (psFaults' = psFaults \/ psFaults' = psFaults + 1)
    BY DEF Preflight, SubmissionInv, PsTyped
  <2> QED BY <2>1 DEF Preflight, At, psGhosts
<1>2. CASE Ends(c)
  BY <1>1, <1>2, EndsKeeps
<1>3. CASE Goes(c, [psCall[c] EXCEPT !.pc = "adapt"])
  <2>1. PICK k : k = [psCall[c] EXCEPT !.pc = "adapt"]
    OBVIOUS
  <2>2. k \in Submissions /\ k.pc = "adapt" /\ k.agent = psCall[c].agent /\ k.tried = psCall[c].tried
    BY <2>1, OnlyPc, ZenonT(60) DEF Pcs
  <2>3. CallSound(k)
    BY <1>1, <2>2 DEF SubmissionInv, CallSound, Early, First, Holding
  <2>4. Goes(c, k)
    BY <1>3, <2>1
  <2>5. psShut \in SUBSET PsAgents /\ psFailed \in BOOLEAN
    BY DEF SubmissionInv, PsTyped
  <2> QED BY <1>1, <2>2, <2>3, <2>4, <2>5, SilentKeeps DEF Holding
<1> QED BY <1>2, <1>3 DEF Preflight

LEMMA AdaptKeeps == ASSUME SubmissionInv, NEW c \in PsCallers, Adapt(c) PROVE SubmissionInv'
<1>1. /\ psCall[c].pc = "adapt"
      /\ psShut' = psShut \cup {a \in PsAgents : psErr[a] >= 3}
      /\ UNCHANGED <<psMail, psErr, psUsage, psStopped, psSpent, psHelped, psConcurrent,
                     psFailed, psCalls, psFaults>>
      /\ psFaults \in Nat
  BY DEF Adapt, At, psGhosts, psBounds, SubmissionInv, PsTyped
<1>2. PICK o \in BOOLEAN : Goes(c, [psCall[c] EXCEPT !.pc = "route", !.override = o])
  BY DEF Adapt
<1>3. PICK k : k = [psCall[c] EXCEPT !.pc = "route", !.override = o]
  OBVIOUS
<1>4. psCall[c] \in Submissions /\ CallSound(psCall[c])
  BY DEF SubmissionInv, PsTyped
<1>5. k \in Submissions /\ k.pc = "route" /\ k.agent = psCall[c].agent /\ k.tried = psCall[c].tried
  BY <1>3, <1>4 DEF Submissions, Pcs
<1>6. CallSound(k)
  BY <1>1, <1>4, <1>5 DEF CallSound, Early, First, Holding
<1>7. psShut' \in SUBSET PsAgents /\ psFailed \in BOOLEAN
  BY <1>1 DEF SubmissionInv, PsTyped
<1> QED BY <1>1, <1>2, <1>3, <1>5, <1>6, <1>7, SilentKeeps DEF Holding

\* Routing offers registered agents that are not suppressed nor excluded.
LEMMA CandidatesOpen ==
  ASSUME NEW k, NEW exclude, NEW a \in Candidates(k, exclude)
  PROVE  a \in PsAgents /\ a \notin psShut /\ a \notin exclude
  BY SubmissionAssumption DEF Candidates

LEMMA RouteKeeps == ASSUME SubmissionInv, NEW c \in PsCallers, Route(c) PROVE SubmissionInv'
<1>1. /\ psCall[c].pc = "route"
      /\ UNCHANGED <<psMail, psErr, psUsage, psStopped, psSpent, psHelped, psConcurrent,
                     psShut, psFailed, psCalls, psFaults>>
      /\ psFaults \in Nat
  BY DEF Route, At, psGhosts, psBounds, SubmissionInv, PsTyped
<1>2. CASE Ends(c)
  BY <1>1, <1>2, EndsKeeps
<1>3. ASSUME NEW a \in Candidates(psCall[c], {}), Goes(c, [psCall[c] EXCEPT !.pc = "policy", !.agent = {a}])
      PROVE  SubmissionInv'
  <2>1. PICK k : k = [psCall[c] EXCEPT !.pc = "policy", !.agent = {a}]
    OBVIOUS
  <2>2. psCall[c] \in Submissions /\ CallSound(psCall[c])
    BY DEF SubmissionInv, PsTyped
  <2>3. a \in PsAgents
    BY <1>3, CandidatesOpen
  <2>4. k \in Submissions /\ k.pc = "policy" /\ k.agent = {a} /\ k.tried = psCall[c].tried
    BY <2>1, <2>2, <2>3 DEF Submissions, Pcs
  <2>5. CallSound(k)
    BY <1>1, <2>2, <2>3, <2>4 DEF CallSound, Early, First, Holding
  <2>6. psShut \in SUBSET PsAgents /\ psFailed \in BOOLEAN
    BY DEF SubmissionInv, PsTyped
  <2> QED BY <1>1, <1>3, <2>1, <2>4, <2>5, <2>6, SilentKeeps DEF Holding
<1> QED BY <1>2, <1>3 DEF Route

LEMMA AssignKeeps == ASSUME SubmissionInv, NEW c \in PsCallers, Assign(c) PROVE SubmissionInv'
<1>1. /\ psCall[c].pc = "policy"
      /\ UNCHANGED <<psMail, psErr, psUsage, psStopped, psSpent, psHelped, psConcurrent,
                     psShut, psFailed, psCalls, psFaults>>
      /\ psFaults \in Nat
  BY DEF Assign, At, psGhosts, psBounds, SubmissionInv, PsTyped
<1>2. CASE Ends(c)
  BY <1>1, <1>2, EndsKeeps
<1>3. CASE Goes(c, [psCall[c] EXCEPT !.pc = "budget"])
  <2>1. PICK k : k = [psCall[c] EXCEPT !.pc = "budget"]
    OBVIOUS
  <2>2. k \in Submissions /\ k.pc = "budget" /\ k.agent = psCall[c].agent /\ k.tried = psCall[c].tried
    BY <2>1, OnlyPc, ZenonT(60) DEF Pcs
  <2>3. CallSound(k)
    BY <1>1, <2>2 DEF SubmissionInv, CallSound, Early, First, Holding
  <2>5. psShut \in SUBSET PsAgents /\ psFailed \in BOOLEAN
    BY DEF SubmissionInv, PsTyped
  <2> QED BY <1>1, <1>3, <2>1, <2>2, <2>3, <2>5, SilentKeeps DEF Holding
<1> QED BY <1>2, <1>3 DEF Assign

LEMMA BudgetKeeps == ASSUME SubmissionInv, NEW c \in PsCallers, Budget(c) PROVE SubmissionInv'
<1>1. /\ psCall[c].pc = "budget"
      /\ UNCHANGED <<psMail, psErr, psUsage, psStopped, psSpent, psHelped, psConcurrent,
                     psShut, psFailed, psCalls, psFaults>>
      /\ psFaults \in Nat
  BY DEF Budget, At, psGhosts, psBounds, SubmissionInv, PsTyped
<1>2. psCall[c] \in Submissions /\ CallSound(psCall[c])
  BY DEF SubmissionInv, PsTyped
<1>3. psShut \in SUBSET PsAgents /\ psFailed \in BOOLEAN
  BY DEF SubmissionInv, PsTyped
<1>4. Now(c) \in PsAgents /\ psCall[c].agent = {Now(c)}
  BY <1>1, NowIs DEF Early
<1>5. CASE Ends(c)
  BY <1>1, <1>5, EndsKeeps
<1>6. ASSUME NEW p \in SUBSET PsAgents,
             Goes(c, [psCall[c] EXCEPT !.pc = "attach", !.over = {}, !.assigned = p])
      PROVE  SubmissionInv'
  <2>1. PICK k : k = [psCall[c] EXCEPT !.pc = "attach", !.over = {}, !.assigned = p]
    OBVIOUS
  <2>2. k \in Submissions /\ k.pc = "attach" /\ k.agent = psCall[c].agent /\ k.tried = psCall[c].tried
    BY <1>2, <2>1 DEF Submissions, Pcs
  <2>3. CallSound(k)
    BY <1>1, <1>2, <2>2 DEF CallSound, Early, First, Holding
  <2> QED BY <1>1, <1>3, <1>6, <2>1, <2>2, <2>3, SilentKeeps DEF Holding
<1>7. ASSUME NEW a \in PsListed \ (psShut \cup psCall[c].over \cup psCall[c].agent),
             Goes(c, [psCall[c] EXCEPT !.agent = {a}, !.over = @ \cup psCall[c].agent])
      PROVE  SubmissionInv'
  <2>1. PICK k : k = [psCall[c] EXCEPT !.agent = {a}, !.over = @ \cup psCall[c].agent]
    OBVIOUS
  <2>2. a \in PsAgents
    BY <1>7, SubmissionAssumption
  <2>3. k \in Submissions /\ k.pc = "budget" /\ k.agent = {a} /\ k.tried = psCall[c].tried
    BY <1>1, <1>2, <2>1, <2>2 DEF Submissions, Pcs
  <2>4. CallSound(k)
    BY <1>1, <1>2, <2>2, <2>3 DEF CallSound, Early, First, Holding
  <2> QED BY <1>1, <1>3, <1>7, <2>1, <2>3, <2>4, SilentKeeps DEF Holding
<1>8. psCall[c].assigned \in SUBSET PsAgents /\ psCall[c].agent \in SUBSET PsAgents
  BY <1>2 DEF Submissions
<1> QED BY <1>5, <1>6, <1>7, <1>8 DEF Budget


LEMMA MisledKeeps == ASSUME SubmissionInv, NEW c \in PsCallers, Misled(c) PROVE SubmissionInv'
<1>1. /\ psCall[c].pc = "misled"
      /\ UNCHANGED <<psMail, psErr, psUsage, psStopped, psSpent, psHelped, psConcurrent,
                     psShut, psFailed, psCalls, psFaults>>
      /\ psFaults \in Nat
  BY DEF Misled, At, psGhosts, psBounds, SubmissionInv, PsTyped
<1>2. psCall[c] \in Submissions /\ CallSound(psCall[c])
  BY DEF SubmissionInv, PsTyped
<1>3. psShut \in SUBSET PsAgents /\ psFailed \in BOOLEAN
  BY DEF SubmissionInv, PsTyped
<1>4. PICK k : k = [psCall[c] EXCEPT !.pc = "keep", !.status = "failed"]
  OBVIOUS
<1>5. k \in Submissions /\ k.pc = "keep" /\ k.agent = psCall[c].agent /\ k.tried = psCall[c].tried
  BY <1>2, <1>4 DEF Submissions, Pcs
<1>6. CallSound(k)
  BY <1>1, <1>2, <1>5 DEF CallSound, Early, First, Holding
<1>7. Goes(c, k)
  BY <1>4 DEF Misled
<1> QED BY <1>1, <1>3, <1>5, <1>6, <1>7, SilentKeeps DEF Holding

\* The agent fails, reports no usage, or is not executed at all.
LEMMA RunPlainKeeps ==
  ASSUME SubmissionInv, NEW c \in PsCallers, psCall[c].pc = "run", NEW pc \in {"outcome", "next"},
         NEW outcome \in {"completed", "failed"},
         pc = "outcome" /\ outcome = "failed" => psFailed', psFailed' \in BOOLEAN, psFailed => psFailed',
         Goes(c, [psCall[c] EXCEPT !.pc = pc, !.status = outcome]),
         UNCHANGED <<psMail, psErr, psUsage, psStopped, psSpent, psHelped, psConcurrent, psShut, psCalls, psFaults>>
  PROVE  SubmissionInv'
<1>2. psCall[c] \in Submissions /\ CallSound(psCall[c])
  BY DEF SubmissionInv, PsTyped
<1>3. psShut \in SUBSET PsAgents /\ psFaults \in Nat
  BY DEF SubmissionInv, PsTyped
<1>4. PICK k : k = [psCall[c] EXCEPT !.pc = pc, !.status = outcome]
  OBVIOUS
<1>5. /\ k \in Submissions /\ k.pc = pc /\ k.agent = psCall[c].agent /\ k.tried = psCall[c].tried
      /\ k.status = outcome
  BY <1>2, <1>4 DEF Submissions, Pcs
<1>6. CallSound(k)
  BY <1>2, <1>5 DEF CallSound, Early, First, Holding
<1> QED BY <1>3, <1>4, <1>5, <1>6, SilentKeeps DEF Holding

LEMMA FallbackKeeps == ASSUME SubmissionInv, NEW c \in PsCallers, Fallback(c) PROVE SubmissionInv'
<1>1. /\ psCall[c].pc = "next"
      /\ UNCHANGED <<psMail, psErr, psUsage, psStopped, psSpent, psHelped, psConcurrent, psShut, psFailed,
                     psCalls, psFaults>>
      /\ psFaults \in Nat
  BY DEF Fallback, At, psGhosts, psBounds, SubmissionInv, PsTyped
<1>2. psCall[c] \in Submissions /\ CallSound(psCall[c])
  BY DEF SubmissionInv, PsTyped
<1>3. psShut \in SUBSET PsAgents /\ psFailed \in BOOLEAN
  BY DEF SubmissionInv, PsTyped
<1>4. CASE Ends(c)
  BY <1>1, <1>4, EndsKeeps
<1>5. ASSUME NEW a \in Candidates(psCall[c], psCall[c].tried \cup psCall[c].agent),
             Goes(c, [psCall[c] EXCEPT !.pc = "attach", !.agent = {a}, !.tried = @ \cup psCall[c].agent,
                                       !.assigned = {a}, !.status = "none"])
      PROVE  SubmissionInv'
  <2>1. PICK k : k = [psCall[c] EXCEPT !.pc = "attach", !.agent = {a}, !.tried = @ \cup psCall[c].agent,
                                       !.assigned = {a}, !.status = "none"]
    OBVIOUS
  <2>2. a \in PsAgents /\ a \notin psCall[c].tried \cup psCall[c].agent
    BY <1>5, CandidatesOpen
  <2>3. /\ k \in Submissions /\ k.pc = "attach" /\ k.agent = {a}
        /\ k.tried = psCall[c].tried \cup psCall[c].agent
    BY <1>2, <2>1, <2>2 DEF Submissions, Pcs
  <2>4. CallSound(k)
    BY <2>2, <2>3 DEF CallSound, Early, First, Holding
  <2> QED BY <1>1, <1>3, <1>5, <2>1, <2>3, <2>4, SilentKeeps DEF Holding
<1> QED BY <1>4, <1>5 DEF Fallback

LEMMA OutcomeKeeps == ASSUME SubmissionInv, NEW c \in PsCallers, Outcome(c) PROVE SubmissionInv'
<1> DEFINE a == Now(c)
           k == [psCall[c] EXCEPT !.pc = "keep"]
<1>1. /\ psCall[c].pc = "outcome"
      /\ UNCHANGED <<psMail, psUsage, psSpent, psHelped, psConcurrent, psFailed, psCalls, psFaults>>
  BY DEF Outcome, At, psGhosts, psBounds
<1>2. psCall[c] \in Submissions /\ CallSound(psCall[c])
  BY DEF SubmissionInv, PsTyped
<1>3. a \in PsAgents /\ psErr[a] \in 0 .. 4
  BY <1>1, NowIs DEF Early, SubmissionInv, PsTyped
<1>4. PICK e : /\ e = (IF psCall[c].status = "failed" THEN Least(4, psErr[a] + 1)
                       ELSE IF psErr[a] > 2 THEN psErr[a] - 2 ELSE 0)
               /\ psErr' = [psErr EXCEPT ![a] = e]
               /\ psShut' = IF psCall[c].status = "failed" /\ e >= 3 THEN psShut \cup {a} ELSE psShut
  BY DEF Outcome
<1>5. e \in 0 .. 4 /\ (e >= 3 => psCall[c].status = "failed")
  BY <1>3, <1>4 DEF Least
<1>6. /\ psErr' \in [PsAgents -> 0 .. 4] /\ psErr'[a] = e
      /\ \A b \in PsAgents \ {a} : psErr'[b] = psErr[b]
  BY <1>3, <1>4, <1>5 DEF SubmissionInv, PsTyped
<1>7. psShut' \in SUBSET PsAgents /\ psShut \subseteq psShut' /\ (e >= 3 => a \in psShut')
  BY <1>3, <1>4, <1>5 DEF SubmissionInv, PsTyped
<1>8. psStopped' \in BOOLEAN /\ (psStopped' => psFailed)
  BY <1>1 DEF Outcome, SubmissionInv, PsTyped, FailureKnown
<1>9. /\ k \in Submissions /\ k.pc = "keep" /\ k.agent = psCall[c].agent /\ k.tried = psCall[c].tried
  BY OnlyPc DEF Pcs
<1>10. CallSound(k)
  BY <1>1, <1>2, <1>9 DEF CallSound, Early, First, Holding
<1>11. Goes(c, k)
  BY DEF Outcome
<1> HIDE DEF k, a
<1>12. /\ psCall' \in [PsCallers -> Submissions] /\ psCall'[c] = k
       /\ \A d \in PsCallers \ {c} : psCall'[d] = psCall[d]
  BY <1>9, <1>11, GoesTo
<1>13. Moves(c)
  BY <1>1, <1>6, <1>7, <1>8, <1>12 DEF Moves, SubmissionInv, PsTyped
<1>14. \A b \in PsAgents : psErr'[b] >= 3 => psErr[b] >= 3 \/ b \in psShut'
  BY <1>6, <1>7
<1>15. Steady(c)
  BY <1>1, <1>7, <1>8, <1>9, <1>10, <1>12, <1>13, <1>14 DEF Steady
<1>16. Quiet(c)
  BY <1>1, <1>9, <1>12, <1>13 DEF Quiet, Holding, Undisturbed
<1> QED BY <1>15, <1>16, QuietKeeps, SteadyKeeps


\* As long as nothing disturbs them, whoever moves is alone.
LEMMA OthersIdle ==
  ASSUME SubmissionInv, NEW c \in PsCallers, psCall[c].pc # "idle", Undisturbed
  PROVE  \A d \in PsCallers \ {c} : psCall[d].pc = "idle"
  BY DEF SubmissionInv, SerialSound

\* What a step of the only submission under way has to show.
SerialStep(c) ==
  /\ psCall'[c].pc # "misled"
  /\ \A a \in PsAgents : ~Fetching(c, a)' => psMail'[a] = <<>>
  /\ \A a \in PsAgents : Fetching(c, a)' => psMail'[a] = <<psCall'[c].task>>
  /\ \A a \in PsAgents : psUsage'[a] + Cardinality(Pending(a)') = psSpent'[a]
  /\ psCall'[c].pc \in Holding => psCall'[c].copy = {psUsage'}

LEMMA SerialKeeps ==
  ASSUME SubmissionInv, NEW c \in PsCallers, Moves(c), psCall[c].pc # "idle",
         Undisturbed' => Undisturbed /\ SerialStep(c)
  PROVE  SerialSound'
<1> SUFFICES ASSUME Undisturbed' PROVE SerialSound'
  BY DEF SerialSound
<1>0. Undisturbed /\ \A d \in PsCallers \ {c} : psCall[d].pc = "idle"
  BY OthersIdle
<1>1. \A d \in PsCallers \ {c} : psCall'[d].pc = "idle"
  BY <1>0 DEF Moves
<1>2. SerialStep(c)
  OBVIOUS
<1>3. \A d, e \in PsCallers : d # e => psCall'[d].pc = "idle" \/ psCall'[e].pc = "idle"
  BY <1>1
<1>4. \A d \in PsCallers : psCall'[d].pc # "misled"
  BY <1>1, <1>2 DEF SerialStep
<1>5. \A d \in PsCallers : psCall'[d].pc \in Holding => psCall'[d].copy = {psUsage'}
  BY <1>1, <1>2 DEF SerialStep, Holding
<1>6. /\ \A a \in PsAgents : (\A d \in PsCallers : ~Fetching(d, a)') => psMail'[a] = <<>>
      /\ \A d \in PsCallers, a \in PsAgents : Fetching(d, a)' => psMail'[a] = <<psCall'[d].task>>
  BY <1>0, <1>2, Boxes DEF SerialStep
<1>7. \A a \in PsAgents : psUsage'[a] + Cardinality(Pending(a)') = psSpent'[a]
  BY <1>2 DEF SerialStep
<1> QED BY <1>3, <1>4, <1>5, <1>6, <1>7 DEF SerialSound

\* Mailboxes stay empty while the only submission does not fetch.
LEMMA MailStays ==
  ASSUME SubmissionInv, NEW c \in PsCallers, Moves(c), psMail' = psMail, Undisturbed,
         psCall[c].pc \notin {"idle", "fetch"}, psCall'[c].pc # "fetch"
  PROVE  \A a \in PsAgents : psMail'[a] = <<>> /\ ~Fetching(c, a)'
<1>1. \A a \in PsAgents, d \in PsCallers : ~Fetching(d, a) /\ ~Fetching(d, a)'
  BY OthersIdle, Boxes
<1>2. \A a \in PsAgents : psMail[a] = <<>>
  BY <1>1 DEF SubmissionInv, SerialSound
<1> QED BY <1>1, <1>2

\* A step that may fail: the bound's counter stays or rises.
LEMMA FailsStep ==
  ASSUME SubmissionInv, UNCHANGED psFaults \/ Fails
  PROVE  psFaults' \in Nat /\ (psFaults' = 0 => psFaults' = psFaults)
<1>1. psFaults \in Nat
  BY DEF SubmissionInv, PsTyped
<1> QED BY <1>1 DEF Fails

LEMMA BlankModest ==
  ASSUME SubmissionInv
  PROVE  Blank \in Ledgers /\ \A a \in PsAgents : Blank[a] + Cardinality(Pending(a)) <= psSpent[a]
<1>1. Blank \in Ledgers
  BY DEF Blank, Ledgers
<1>2. ASSUME NEW a \in PsAgents PROVE Blank[a] + Cardinality(Pending(a)) <= psSpent[a]
  <2>1. psUsage[a] \in Nat /\ psSpent[a] \in Nat /\ Blank[a] = 0 /\ Cardinality(Pending(a)) \in Nat
    BY PendingFinite DEF SubmissionInv, PsTyped, Ledgers, Blank
  <2>2. psUsage[a] + Cardinality(Pending(a)) <= psSpent[a]
    BY DEF SubmissionInv, LedgersSound, Modest
  <2> QED BY <2>1, <2>2
<1> QED BY <1>1, <1>2

Readings == {<<"attach", "attached">>, <<"usage", "used">>, <<"keep", "kept">>}

LEMMA ReadKeeps ==
  ASSUME SubmissionInv, NEW c \in PsCallers, NEW pc, NEW next, <<pc, next>> \in Readings, Read(c, pc, next)
  PROVE  SubmissionInv'
<1>1. /\ psCall[c].pc = pc
      /\ UNCHANGED <<psMail, psErr, psShut, psUsage, psStopped, psSpent, psHelped, psConcurrent, psCalls, psFailed>>
      /\ UNCHANGED psFaults \/ Fails
  BY DEF Read, At, psGhosts
<1>0. psFaults' \in Nat /\ (psFaults' = 0 => psFaults' = psFaults)
  BY <1>1, FailsStep
<1>2. psCall[c] \in Submissions /\ CallSound(psCall[c]) /\ psUsage \in Ledgers /\ Blank \in Ledgers
  BY BlankModest DEF SubmissionInv, PsTyped
<1>3. PICK u \in {psUsage, Blank} :
        /\ Goes(c, [psCall[c] EXCEPT !.pc = next, !.copy = {u}])
        /\ psFaults' = psFaults => u = psUsage
  <2>1. Fails => psFaults' # psFaults
    BY DEF Fails, SubmissionInv, PsTyped
  <2> QED BY <2>1 DEF Read
<1>31. PICK k : k = [psCall[c] EXCEPT !.pc = next, !.copy = {u}]
  OBVIOUS
<1>4. \/ pc = "attach" /\ next = "attached"
      \/ pc = "usage" /\ next = "used"
      \/ pc = "keep" /\ next = "kept"
  BY DEF Readings
<1>5. next \in Pcs
  BY <1>4 DEF Pcs
<1>6. /\ k \in Submissions /\ k.pc = next /\ k.agent = psCall[c].agent /\ k.tried = psCall[c].tried
      /\ k.copy = {u} /\ k.status = psCall[c].status
  BY <1>2, <1>3, <1>31, <1>5 DEF Submissions
<1>7. CallSound(k)
  BY <1>1, <1>2, <1>3, <1>4, <1>6 DEF CallSound, Early, First, Holding
<1>8. /\ psCall' \in [PsCallers -> Submissions] /\ psCall'[c] = k
      /\ \A d \in PsCallers \ {c} : psCall'[d] = psCall[d]
  <2>1. Goes(c, k)
    BY <1>3, <1>31
  <2> QED BY <1>6, <2>1, GoesTo
<1>9. Moves(c)
  BY <1>0, <1>1, <1>8 DEF Moves, SubmissionInv, PsTyped
<1>10. Steady(c)
  BY <1>1, <1>4, <1>6, <1>7, <1>8, <1>9 DEF Steady, SubmissionInv, FailureKnown
<1>11. \A a \in PsAgents : Cardinality(Pending(a)') = Cardinality(Pending(a)) /\ Cardinality(Pending(a)) \in Nat
  <2> TAKE a \in PsAgents
  <2>1. c \in Pending(a) <=> c \in Pending(a)'
    BY <1>1, <1>4, <1>6, <1>8 DEF Pending
  <2> QED BY <1>9, <2>1, PendingStep
<1>12. LedgersSound'
  <2>2. Modest(psUsage) /\ Modest(u)
    BY <1>3, BlankModest DEF SubmissionInv, LedgersSound, Modest
  <2>3. ASSUME NEW d \in PsCallers, psCall'[d].pc \in Holding, NEW v \in psCall'[d].copy
        PROVE  \A a \in PsAgents : v[a] + Cardinality(Pending(a)') <= psSpent'[a]
    <3>1. CASE d = c
      BY <1>1, <1>6, <1>8, <1>11, <2>2, <2>3, <3>1 DEF Modest
    <3>2. CASE d # c
      <4>1. Modest(v)
        BY <1>8, <2>3, <3>2 DEF SubmissionInv, LedgersSound
      <4> QED BY <1>1, <1>11, <4>1 DEF Modest
    <3> QED BY <3>1, <3>2
  <2>4. \A a \in PsAgents : psUsage'[a] + Cardinality(Pending(a)') <= psSpent'[a]
    BY <1>1, <1>11, <2>2 DEF Modest
  <2> QED BY <2>3, <2>4 DEF LedgersSound, Modest
<1>13. psCall[c].pc \notin {"idle", "fetch"} /\ psCall'[c].pc # "fetch" /\ psCall'[c].pc # "misled"
  BY <1>1, <1>4, <1>6, <1>8
<1>15. ASSUME Undisturbed' PROVE Undisturbed /\ SerialStep(c)
  <2>01. psFaults' = psFaults /\ Undisturbed
    BY <1>0, <1>1, <1>15 DEF Undisturbed
  <2>0. Undisturbed /\ u = psUsage
    BY <1>3, <2>01
  <2>1. \A a \in PsAgents : psMail'[a] = <<>> /\ ~Fetching(c, a)'
    BY <1>1, <1>9, <1>13, <2>0, MailStays
  <2>2. SerialSound
    BY DEF SubmissionInv
  <2>3. \A a \in PsAgents : psUsage'[a] + Cardinality(Pending(a)') = psSpent'[a]
    BY <1>1, <1>11, <2>0, <2>2 DEF SerialSound
  <2> QED BY <1>1, <1>6, <1>8, <1>13, <2>0, <2>1, <2>3 DEF SerialStep
<1>16. SerialSound'
  BY <1>9, <1>13, <1>15, SerialKeeps
<1> QED BY <1>10, <1>12, <1>16, SteadyKeeps


Savings == {<<"attached", "dispatch">>, <<"kept", "next">>, <<"used", "outcome">>}

\* What is saved counts no more than what was read, and one more for a usage
\* that is recorded with it.
Saved(c, w, u) ==
  /\ w \in Ledgers
  /\ psCall[c].pc # "used" => w = u
  /\ psCall[c].pc = "used" => /\ w[Now(c)] = u[Now(c)] + 1
                              /\ \A b \in PsAgents \ {Now(c)} : w[b] = u[b]

LEMMA SaveKeeps ==
  ASSUME SubmissionInv, NEW c \in PsCallers, NEW pc, NEW next, <<pc, next>> \in Savings,
         NEW u \in Ledgers, psCall[c].copy = {u}, NEW w, Saved(c, w, u), Save(c, pc, next, w)
  PROVE  SubmissionInv'
<1>1. /\ psCall[c].pc = pc
      /\ UNCHANGED <<psMail, psErr, psShut, psStopped, psSpent, psHelped, psConcurrent, psCalls, psFailed>>
      /\ UNCHANGED psFaults \/ Fails
  BY DEF Save, At, psGhosts
<1>0. psFaults' \in Nat /\ (psFaults' = 0 => psFaults' = psFaults)
  BY <1>1, FailsStep
<1>2. psCall[c] \in Submissions /\ CallSound(psCall[c])
  BY DEF SubmissionInv, PsTyped
<1>3. PICK k : k = [psCall[c] EXCEPT !.pc = next, !.copy = {}]
  OBVIOUS
<1>4. \/ pc = "attached" /\ next = "dispatch"
      \/ pc = "kept" /\ next = "next"
      \/ pc = "used" /\ next = "outcome"
  BY DEF Savings
<1>5. next \in Pcs
  BY <1>4 DEF Pcs
<1>6. /\ k \in Submissions /\ k.pc = next /\ k.agent = psCall[c].agent /\ k.tried = psCall[c].tried
      /\ k.status = psCall[c].status
  BY <1>2, <1>3, <1>5 DEF Submissions
<1>7. CallSound(k)
  BY <1>1, <1>2, <1>4, <1>6 DEF CallSound, Early, First, Holding
<1>8. /\ psCall' \in [PsCallers -> Submissions] /\ psCall'[c] = k
      /\ \A d \in PsCallers \ {c} : psCall'[d] = psCall[d]
  <2>1. Goes(c, k)
    BY <1>3 DEF Save
  <2> QED BY <1>6, <2>1, GoesTo
<1>9. PICK a : a = Now(c)
  OBVIOUS
<1>91. a \in PsAgents /\ psCall[c].agent = {a}
  BY <1>1, <1>4, <1>9, NowIs DEF Early
<1>10. psUsage' \in {psUsage, w} /\ (psFaults' = psFaults => psUsage' = w)
  <2>1. Fails => psFaults' # psFaults
    BY DEF Fails, SubmissionInv, PsTyped
  <2> QED BY <2>1 DEF Save
<1>11. Modest(u) /\ Modest(psUsage)
  BY <1>1, <1>4 DEF SubmissionInv, LedgersSound, Holding
<1>12. Moves(c)
  BY <1>0, <1>1, <1>8, <1>10 DEF Moves, SubmissionInv, PsTyped, Saved
<1>13. Steady(c)
  BY <1>1, <1>2, <1>4, <1>6, <1>7, <1>8, <1>12 DEF Steady, SubmissionInv, FailureKnown, CallSound
<1>14. \A b \in PsAgents : /\ Cardinality(Pending(b)') \in Nat /\ Cardinality(Pending(b)) \in Nat
                           /\ Cardinality(Pending(b)')
                                = Cardinality(Pending(b)) - (IF b = a /\ pc = "used" THEN 1 ELSE 0)
  <2> TAKE b \in PsAgents
  <2>1. (c \in Pending(b) <=> b = a /\ pc = "used") /\ c \notin Pending(b)'
    BY <1>1, <1>4, <1>6, <1>8, <1>91 DEF Pending
  <2> QED BY <1>12, <2>1, PendingStep
<1>15. /\ u \in [PsAgents -> Nat] /\ psSpent \in [PsAgents -> Nat] /\ psUsage \in [PsAgents -> Nat]
       /\ w \in [PsAgents -> Nat]
  BY DEF SubmissionInv, PsTyped, Ledgers, Saved
<1>16. \A b \in PsAgents : w[b] = u[b] + (IF b = a /\ pc = "used" THEN 1 ELSE 0)
  BY <1>1, <1>9, <1>15 DEF Saved
<1>17. LedgersSound'
  <2>1. ASSUME NEW d \in PsCallers, psCall'[d].pc \in Holding, NEW v \in psCall'[d].copy, NEW b \in PsAgents
        PROVE  v[b] + Cardinality(Pending(b)') <= psSpent'[b]
    <3>1. d # c
      BY <1>4, <1>6, <1>8, <2>1 DEF Holding
    <3>2. v[b] + Cardinality(Pending(b)) <= psSpent[b]
      BY <1>8, <2>1, <3>1 DEF SubmissionInv, LedgersSound, Modest
    <3>3. v \in Ledgers
      BY <1>8, <2>1, <3>1 DEF SubmissionInv, PsTyped, Submissions
    <3>4. v[b] \in Nat
      BY <3>3 DEF Ledgers
    <3> QED BY <1>1, <1>14, <1>15, <3>2, <3>4
  <2>2. ASSUME NEW b \in PsAgents
        PROVE  psUsage'[b] + Cardinality(Pending(b)') <= psSpent'[b]
    <3>1. u[b] + Cardinality(Pending(b)) <= psSpent[b] /\ psUsage[b] + Cardinality(Pending(b)) <= psSpent[b]
      BY <1>11 DEF Modest
    <3>2. u[b] \in Nat /\ psUsage[b] \in Nat /\ psSpent[b] \in Nat
      BY <1>15
    <3>3. CASE psUsage' = w
      BY <1>1, <1>14, <1>16, <3>1, <3>2, <3>3
    <3>4. CASE psUsage' = psUsage
      BY <1>1, <1>14, <3>1, <3>2, <3>4
    <3> QED BY <1>10, <3>3, <3>4
  <2> QED BY <2>1, <2>2 DEF LedgersSound, Modest
<1>18. psCall[c].pc \notin {"idle", "fetch"} /\ psCall'[c].pc \notin {"fetch", "misled"} \cup Holding
  BY <1>1, <1>4, <1>6, <1>8 DEF Holding
<1>19. ASSUME Undisturbed' PROVE Undisturbed /\ SerialStep(c)
  <2>0. Undisturbed /\ psUsage' = w
    BY <1>0, <1>1, <1>10, <1>19 DEF Undisturbed
  <2>1. \A b \in PsAgents : psMail'[b] = <<>> /\ ~Fetching(c, b)'
    BY <1>1, <1>12, <1>18, <2>0, MailStays
  <2>2. SerialSound
    BY DEF SubmissionInv
  <2>3. psUsage = u
    <3>1. psCall[c].copy = {psUsage}
      BY <1>1, <1>4, <2>0, <2>2 DEF SerialSound, Holding
    <3> QED BY <3>1
  <2>4. ASSUME NEW b \in PsAgents PROVE psUsage'[b] + Cardinality(Pending(b)') = psSpent'[b]
    <3>1. psUsage[b] + Cardinality(Pending(b)) = psSpent[b]
      BY <2>0, <2>2 DEF SerialSound
    <3>2. u[b] \in Nat /\ psSpent[b] \in Nat
      BY <1>15
    <3> QED BY <1>1, <1>14, <1>16, <2>0, <2>3, <3>1, <3>2
  <2> QED BY <1>18, <2>0, <2>1, <2>4 DEF SerialStep
<1>20. SerialSound'
  BY <1>12, <1>18, <1>19, SerialKeeps
<1> QED BY <1>13, <1>17, <1>20, SteadyKeeps

\* What was read is saved as it is, or with one more.
LEMMA CopySaved ==
  ASSUME SubmissionInv, NEW c \in PsCallers, psCall[c].pc \in Holding
  PROVE  /\ Copy(c) \in Ledgers /\ psCall[c].copy = {Copy(c)}
         /\ psCall[c].pc # "used" => Saved(c, Copy(c), Copy(c))
         /\ psCall[c].pc = "used" => Saved(c, [Copy(c) EXCEPT ![Now(c)] = @ + 1], Copy(c))
<1>1. Copy(c) \in Ledgers /\ psCall[c].copy = {Copy(c)}
  BY DEF SubmissionInv, CallSound, Copy
<1>2. Now(c) \in PsAgents
  BY NowIs DEF Holding, Early
<1>3. PICK u, a : u = Copy(c) /\ a = Now(c)
  OBVIOUS
<1>4. PICK w : w = [u EXCEPT ![a] = @ + 1]
  OBVIOUS
<1>5. w \in Ledgers /\ w[a] = u[a] + 1 /\ \A b \in PsAgents \ {a} : w[b] = u[b]
  BY <1>1, <1>2, <1>3, <1>4 DEF Ledgers
<1> QED BY <1>1, <1>3, <1>4, <1>5 DEF Saved


\* The agent executes.
LEMMA RunsKeeps ==
  ASSUME SubmissionInv, NEW c \in PsCallers, psCall[c].pc = "run",
         psSpent' = [psSpent EXCEPT ![Now(c)] = @ + 1],
         Goes(c, [psCall[c] EXCEPT !.pc = "usage", !.status = "completed"]),
         UNCHANGED <<psMail, psErr, psUsage, psStopped, psHelped, psConcurrent, psShut, psFailed, psCalls, psFaults>>
  PROVE  SubmissionInv'
<1>2. psCall[c] \in Submissions /\ CallSound(psCall[c])
  BY DEF SubmissionInv, PsTyped
<1>3. PICK k : k = [psCall[c] EXCEPT !.pc = "usage", !.status = "completed"]
  OBVIOUS
<1>4. PICK a : a = Now(c)
  OBVIOUS
<1>5. a \in PsAgents /\ psCall[c].agent = {a}
  BY <1>4, NowIs DEF Early
<1>6. /\ k \in Submissions /\ k.pc = "usage" /\ k.agent = psCall[c].agent /\ k.tried = psCall[c].tried
      /\ k.status = "completed"
  BY <1>2, <1>3 DEF Submissions, Pcs
<1>7. CallSound(k)
  BY <1>2, <1>6 DEF CallSound, Early, First, Holding
<1>8. /\ psCall' \in [PsCallers -> Submissions] /\ psCall'[c] = k
      /\ \A d \in PsCallers \ {c} : psCall'[d] = psCall[d]
  BY <1>3, <1>6, GoesTo
<1>9. /\ psSpent \in [PsAgents -> Nat] /\ psUsage \in [PsAgents -> Nat]
      /\ psSpent' \in [PsAgents -> Nat] /\ psSpent'[a] = psSpent[a] + 1
      /\ \A b \in PsAgents \ {a} : psSpent'[b] = psSpent[b]
  BY <1>4, <1>5 DEF SubmissionInv, PsTyped, Ledgers
<1>12. Moves(c)
  BY <1>8, <1>9 DEF Moves, SubmissionInv, PsTyped, Ledgers
<1>13. Steady(c)
  BY <1>6, <1>7, <1>8, <1>12 DEF Steady, SubmissionInv, FailureKnown
<1>14. \A b \in PsAgents : /\ Cardinality(Pending(b)') \in Nat /\ Cardinality(Pending(b)) \in Nat
                           /\ Cardinality(Pending(b)') = Cardinality(Pending(b)) + (IF b = a THEN 1 ELSE 0)
  <2> TAKE b \in PsAgents
  <2>1. c \notin Pending(b) /\ (c \in Pending(b)' <=> b = a)
    BY <1>5, <1>6, <1>8 DEF Pending
  <2> QED BY <1>12, <2>1, PendingStep
<1>15. LedgersSound'
  <2>1. ASSUME NEW d \in PsCallers, psCall'[d].pc \in Holding, NEW v \in psCall'[d].copy, NEW b \in PsAgents
        PROVE  v[b] + Cardinality(Pending(b)') <= psSpent'[b]
    <3>1. d # c
      BY <1>6, <1>8, <2>1 DEF Holding
    <3>2. v[b] + Cardinality(Pending(b)) <= psSpent[b]
      BY <1>8, <2>1, <3>1 DEF SubmissionInv, LedgersSound, Modest
    <3>3. v \in Ledgers
      BY <1>8, <2>1, <3>1 DEF SubmissionInv, PsTyped, Submissions
    <3>4. v[b] \in Nat
      BY <3>3 DEF Ledgers
    <3> QED BY <1>9, <1>14, <3>2, <3>4
  <2>2. ASSUME NEW b \in PsAgents
        PROVE  psUsage'[b] + Cardinality(Pending(b)') <= psSpent'[b]
    <3>1. psUsage[b] + Cardinality(Pending(b)) <= psSpent[b]
      BY DEF SubmissionInv, LedgersSound, Modest
    <3> QED BY <1>9, <1>14, <3>1
  <2> QED BY <2>1, <2>2 DEF LedgersSound, Modest
<1>16. psCall[c].pc \notin {"idle", "fetch"} /\ psCall'[c].pc \notin {"fetch", "misled"} \cup Holding
  BY <1>6, <1>8 DEF Holding
<1>18. ASSUME Undisturbed' PROVE Undisturbed /\ SerialStep(c)
  <2>0. Undisturbed
    BY <1>18 DEF Undisturbed
  <2>1. \A b \in PsAgents : psMail'[b] = <<>> /\ ~Fetching(c, b)'
    BY <1>12, <1>16, <2>0, MailStays
  <2>2. SerialSound
    BY DEF SubmissionInv
  <2>4. ASSUME NEW b \in PsAgents PROVE psUsage'[b] + Cardinality(Pending(b)') = psSpent'[b]
    <3>1. psUsage[b] + Cardinality(Pending(b)) = psSpent[b]
      BY <2>0, <2>2 DEF SerialSound
    <3> QED BY <1>9, <1>14, <3>1
  <2> QED BY <1>16, <2>0, <2>1, <2>4 DEF SerialStep
<1>19. SerialSound'
  BY <1>12, <1>16, <1>18, SerialKeeps
<1> QED BY <1>13, <1>15, <1>19, SteadyKeeps

LEMMA RunKeeps == ASSUME SubmissionInv, NEW c \in PsCallers, Run(c) PROVE SubmissionInv'
<1>1. /\ psCall[c].pc = "run" /\ psFailed \in BOOLEAN
      /\ UNCHANGED <<psMail, psErr, psUsage, psStopped, psHelped, psConcurrent, psShut, psCalls, psFaults>>
  BY DEF Run, At, psBounds, SubmissionInv, PsTyped
<1>2. CASE /\ psSpent' = [psSpent EXCEPT ![Now(c)] = @ + 1] /\ UNCHANGED psFailed
           /\ Goes(c, [psCall[c] EXCEPT !.pc = "usage", !.status = "completed"])
  BY <1>1, <1>2, RunsKeeps
<1>3. CASE /\ psFailed' = TRUE /\ UNCHANGED psSpent
           /\ Goes(c, [psCall[c] EXCEPT !.pc = "outcome", !.status = "failed"])
  <2>1. PICK pc, outcome : pc = "outcome" /\ outcome = "failed"
    OBVIOUS
  <2> QED BY <1>1, <1>3, <2>1, RunPlainKeeps
<1>4. CASE /\ Goes(c, [psCall[c] EXCEPT !.pc = "next", !.status = "failed"])
           /\ UNCHANGED <<psSpent, psFailed>>
  <2>1. PICK pc, outcome : pc = "next" /\ outcome = "failed"
    OBVIOUS
  <2> QED BY <1>1, <1>4, <2>1, RunPlainKeeps
<1>5. CASE /\ Goes(c, [psCall[c] EXCEPT !.pc = "outcome", !.status = "completed"])
           /\ UNCHANGED <<psSpent, psFailed>>
  <2>1. PICK pc, outcome : pc = "outcome" /\ outcome = "completed"
    OBVIOUS
  <2> QED BY <1>1, <1>5, <2>1, RunPlainKeeps
<1> QED BY <1>2, <1>3, <1>4, <1>5 DEF Run

\* A step that moves the submission in or out of a mailbox leaves ledgers alone.
LEMMA LedgersStay ==
  ASSUME SubmissionInv, NEW c \in PsCallers, Moves(c), UNCHANGED <<psUsage, psSpent>>,
         psCall[c].pc \notin {"usage", "used"}, psCall'[c].pc \notin {"usage", "used"} \cup Holding
  PROVE  /\ LedgersSound'
         /\ \A a \in PsAgents : Cardinality(Pending(a)') = Cardinality(Pending(a))
<1>1. \A a \in PsAgents : Cardinality(Pending(a)') = Cardinality(Pending(a))
  <2> TAKE a \in PsAgents
  <2>1. c \notin Pending(a) /\ c \notin Pending(a)'
    BY DEF Pending
  <2> QED BY <2>1, PendingStep
<1>2. LedgersSound'
  BY <1>1 DEF SubmissionInv, LedgersSound, Modest, Moves
<1> QED BY <1>1, <1>2

LEMMA DispatchKeeps == ASSUME SubmissionInv, NEW c \in PsCallers, Dispatch(c) PROVE SubmissionInv'
<1>1. /\ psCall[c].pc = "dispatch"
      /\ UNCHANGED <<psErr, psShut, psUsage, psStopped, psSpent, psHelped, psConcurrent, psFailed, psCalls, psFaults>>
  BY DEF Dispatch, At, psGhosts, psBounds
<1>2. PICK k : k = [psCall[c] EXCEPT !.pc = "fetch"]
  OBVIOUS
<1>3. /\ k \in Submissions /\ k.pc = "fetch" /\ k.agent = psCall[c].agent /\ k.tried = psCall[c].tried
      /\ k.task = psCall[c].task
  <2>1. psCall[c] \in Submissions
    BY DEF SubmissionInv, PsTyped
  <2> QED BY <1>2, <2>1 DEF Submissions, Pcs
<1>4. CallSound(k)
  BY <1>1, <1>3 DEF SubmissionInv, CallSound, Early, First, Holding
<1>5. /\ psCall' \in [PsCallers -> Submissions] /\ psCall'[c] = k
      /\ \A d \in PsCallers \ {c} : psCall'[d] = psCall[d]
  <2>1. Goes(c, k)
    BY <1>2 DEF Dispatch
  <2> QED BY <1>3, <2>1, GoesTo
<1>6. PICK a : a = Now(c)
  OBVIOUS
<1>7. a \in PsAgents /\ psCall[c].agent = {a}
  BY <1>1, <1>6, NowIs DEF Early
<1>8. psMail[a] \in Seq(Nat) /\ psCall[c].task \in Nat
  BY <1>7 DEF SubmissionInv, PsTyped, Submissions
<1>9. PICK m : m = Append(psMail[a], psCall[c].task)
  OBVIOUS
<1>10. m \in Seq(Nat)
  BY <1>8, <1>9, AppendProperties
<1>11. /\ psMail' \in [PsAgents -> Seq(Nat)] /\ psMail'[a] = m
       /\ \A b \in PsAgents \ {a} : psMail'[b] = psMail[b]
  BY <1>6, <1>7, <1>9, <1>10 DEF Dispatch, SubmissionInv, PsTyped
<1>12. Moves(c)
  BY <1>1, <1>5, <1>11 DEF Moves, SubmissionInv, PsTyped
<1>13. Steady(c)
  BY <1>1, <1>3, <1>4, <1>5, <1>12 DEF Steady, SubmissionInv, FailureKnown
<1>15. psCall[c].pc \notin {"usage", "used"} /\ psCall'[c].pc \notin {"usage", "used", "misled"} \cup Holding
  BY <1>1, <1>3, <1>5 DEF Holding
<1>16. LedgersSound' /\ \A b \in PsAgents : Cardinality(Pending(b)') = Cardinality(Pending(b))
  BY <1>1, <1>12, <1>15, LedgersStay
<1>17. ASSUME Undisturbed' PROVE Undisturbed /\ SerialStep(c)
  <2>0. Undisturbed
    BY <1>1, <1>17 DEF Undisturbed
  <2>1. SerialSound
    BY DEF SubmissionInv
  <2>2. \A d \in PsCallers \ {c} : psCall[d].pc = "idle"
    BY <1>1, <2>0, OthersIdle
  <2>3. \A b \in PsAgents, d \in PsCallers : ~Fetching(d, b)
    BY <1>1, <1>12, <2>2, Boxes
  <2>4. \A b \in PsAgents : psMail[b] = <<>>
    BY <2>0, <2>1, <2>3 DEF SerialSound
  <2>5. m = <<psCall[c].task>>
    <3>1. psMail[a] = <<>>
      BY <1>7, <2>4
    <3>2. Append(<<>>, psCall[c].task) = <<psCall[c].task>>
      BY <1>8
    <3> QED BY <1>9, <3>1, <3>2
  <2>6. \A b \in PsAgents : Fetching(c, b)' <=> b = a
    BY <1>3, <1>5, <1>7 DEF Fetching
  <2>7. \A b \in PsAgents : ~Fetching(c, b)' => psMail'[b] = <<>>
    BY <1>11, <2>4, <2>6
  <2>8. \A b \in PsAgents : Fetching(c, b)' => psMail'[b] = <<psCall'[c].task>>
    BY <1>3, <1>5, <1>11, <2>5, <2>6
  <2>9. \A b \in PsAgents : psUsage'[b] + Cardinality(Pending(b)') = psSpent'[b]
    BY <1>1, <1>16, <2>0, <2>1 DEF SerialSound
  <2> QED BY <1>15, <2>0, <2>7, <2>8, <2>9 DEF SerialStep
<1>18. SerialSound'
  BY <1>1, <1>12, <1>17, SerialKeeps
<1> QED BY <1>13, <1>16, <1>18, SteadyKeeps


LEMMA FetchKeepsInv == ASSUME SubmissionInv, NEW c \in PsCallers, Fetch(c) PROVE SubmissionInv'
<1>1. /\ psCall[c].pc = "fetch"
      /\ UNCHANGED <<psErr, psShut, psUsage, psStopped, psSpent, psHelped, psConcurrent, psFailed, psCalls, psFaults>>
  BY DEF Fetch, At, psGhosts, psBounds
<1>6. PICK a : a = Now(c)
  OBVIOUS
<1>7. a \in PsAgents /\ psCall[c].agent = {a}
  BY <1>1, <1>6, NowIs DEF Early
<1>8. psMail[a] \in Seq(Nat) /\ psCall[c].task \in Nat
  BY <1>7 DEF SubmissionInv, PsTyped, Submissions
<1>3. PICK pc \in {"run", "misled"} :
        /\ psMail[a] # <<>> /\ Head(psMail[a]) = psCall[c].task => pc = "run"
        /\ Goes(c, [psCall[c] EXCEPT !.pc = pc])
  BY <1>6 DEF Fetch
<1>4. PICK k : k = [psCall[c] EXCEPT !.pc = pc]
  OBVIOUS
<1>5. /\ k \in Submissions /\ k.pc = pc /\ k.agent = psCall[c].agent /\ k.tried = psCall[c].tried
  <2>1. pc \in Pcs
    BY <1>3 DEF Pcs
  <2> QED BY <1>4, <2>1, OnlyPc
<1>9. CallSound(k)
  BY <1>1, <1>3, <1>5 DEF SubmissionInv, CallSound, Early, First, Holding
<1>10. /\ psCall' \in [PsCallers -> Submissions] /\ psCall'[c] = k
       /\ \A d \in PsCallers \ {c} : psCall'[d] = psCall[d]
  BY <1>3, <1>4, <1>5, GoesTo
<1>11. PICK m : m = IF psMail[a] = <<>> THEN psMail[a] ELSE Tail(psMail[a])
  OBVIOUS
<1>12. m \in Seq(Nat)
  <2>1. psMail[a] # <<>> => Tail(psMail[a]) \in Seq(Nat)
    BY <1>8, HeadTailProperties
  <2> QED BY <1>8, <1>11, <2>1
<1>13. /\ psMail' \in [PsAgents -> Seq(Nat)] /\ psMail'[a] = m
       /\ \A b \in PsAgents \ {a} : psMail'[b] = psMail[b]
  BY <1>6, <1>7, <1>11, <1>12 DEF Fetch, SubmissionInv, PsTyped
<1>14. Moves(c)
  BY <1>1, <1>10, <1>13 DEF Moves, SubmissionInv, PsTyped
<1>15. Steady(c)
  BY <1>1, <1>3, <1>5, <1>9, <1>10, <1>14 DEF Steady, SubmissionInv, FailureKnown
<1>18. psCall[c].pc \notin {"usage", "used"} /\ psCall'[c].pc \notin {"fetch", "usage", "used"} \cup Holding
  BY <1>1, <1>3, <1>5, <1>10 DEF Holding
<1>19. LedgersSound' /\ \A b \in PsAgents : Cardinality(Pending(b)') = Cardinality(Pending(b))
  BY <1>1, <1>14, <1>18, LedgersStay
<1>20. ASSUME Undisturbed' PROVE Undisturbed /\ SerialStep(c)
  <2>0. Undisturbed
    BY <1>1, <1>20 DEF Undisturbed
  <2>1. SerialSound
    BY DEF SubmissionInv
  <2>2. \A d \in PsCallers \ {c} : psCall[d].pc = "idle"
    BY <1>1, <2>0, OthersIdle
  <2>3. \A b \in PsAgents : Fetching(c, b) <=> b = a
    BY <1>1, <1>7 DEF Fetching
  <2>4. \A b \in PsAgents \ {a} : psMail[b] = <<>>
    <3>1. \A b \in PsAgents \ {a}, d \in PsCallers : ~Fetching(d, b)
      BY <1>14, <2>2, <2>3, Boxes
    <3> QED BY <2>0, <2>1, <3>1 DEF SerialSound
  <2>5. psMail[a] = <<psCall[c].task>>
    BY <1>7, <2>0, <2>1, <2>3 DEF SerialSound
  <2>6. pc = "run" /\ m = <<>>
    <3>1. PICK t \in Nat : t = psCall[c].task
      BY <1>8
    <3>2. <<t>> # <<>> /\ Head(<<t>>) = t /\ Tail(<<t>>) = <<>>
      BY <3>1
    <3> QED BY <1>3, <1>11, <2>5, <3>1, <3>2
  <2>7. \A b \in PsAgents : ~Fetching(c, b)' /\ psMail'[b] = <<>>
    BY <1>13, <1>18, <2>4, <2>6 DEF Fetching
  <2>8. \A b \in PsAgents : psUsage'[b] + Cardinality(Pending(b)') = psSpent'[b]
    BY <1>1, <1>19, <2>0, <2>1 DEF SerialSound
  <2>9. psCall'[c].pc # "misled"
    BY <1>5, <1>10, <2>6
  <2> QED BY <1>18, <2>0, <2>7, <2>8, <2>9 DEF SerialStep
<1>21. SerialSound'
  BY <1>1, <1>14, <1>20, SerialKeeps
<1> QED BY <1>15, <1>19, <1>21, SteadyKeeps

\* Others at the mailboxes.
LEMMA OthersKeep ==
  ASSUME SubmissionInv, Fails, psMail' \in [PsAgents -> Seq(Nat)],
         UNCHANGED <<psCall, psErr, psShut, psUsage, psStopped, psCalls, psSpent, psFailed, psHelped, psConcurrent>>
  PROVE  SubmissionInv'
<1>0. psFaults' \in Nat /\ psFaults' # 0
  BY DEF Fails, SubmissionInv, PsTyped
<1>1. PsTyped'
  BY <1>0 DEF SubmissionInv, PsTyped
<1>2. \A a \in PsAgents : Pending(a)' = Pending(a)
  BY DEF Pending
<1>3. LedgersSound' /\ SerialSound'
  BY <1>0, <1>2 DEF SubmissionInv, LedgersSound, SerialSound, Modest, Undisturbed
<1>4. FailureKnown' /\ RouteSound'
  BY DEF SubmissionInv, FailureKnown, RouteSound
<1>5. \A c \in PsCallers : CallSound(psCall[c])'
  BY DEF SubmissionInv, CallSound
<1> QED BY <1>1, <1>3, <1>4, <1>5 DEF SubmissionInv

LEMMA TakeKeeps == ASSUME SubmissionInv, NEW a \in PsAgents, Take(a) PROVE SubmissionInv'
<1>1. psMail[a] \in Seq(Nat) /\ psMail[a] # <<>>
  BY DEF SubmissionInv, PsTyped, Take
<1>2. Tail(psMail[a]) \in Seq(Nat)
  BY <1>1, HeadTailProperties
<1>3. psMail' \in [PsAgents -> Seq(Nat)]
  BY <1>2 DEF SubmissionInv, PsTyped, Take
<1> QED BY <1>3, OthersKeep DEF Take, psGhosts

LEMMA AgainKeeps == ASSUME SubmissionInv, NEW c \in PsCallers, Again(c) PROVE SubmissionInv'
<1>1. Now(c) \in PsAgents
  BY NowIs DEF Again, Early
<1>2. psMail[Now(c)] \in Seq(Nat) /\ psCall[c].task \in Nat
  BY <1>1 DEF SubmissionInv, PsTyped, Submissions
<1>3. Append(psMail[Now(c)], psCall[c].task) \in Seq(Nat)
  BY <1>2, AppendProperties
<1>4. psMail' \in [PsAgents -> Seq(Nat)]
  BY <1>3 DEF SubmissionInv, PsTyped, Again
<1> QED BY <1>4, OthersKeep DEF Again, psGhosts

\* Nothing but the lanes changes.
LEMMA LanesKeep ==
  ASSUME SubmissionInv,
         UNCHANGED <<psCall, psMail, psErr, psUsage, psStopped, psSpent, psFailed, psConcurrent, psCalls, psFaults>>,
         psShut' \in SUBSET PsAgents, psHelped' \in SUBSET PsAgents, psHelped \subseteq psHelped',
         \/ \A c \in PsCallers : psCall[c].pc # "route"
         \/ psShut \subseteq psShut' \cup psHelped'
  PROVE  SubmissionInv'
<1>1. PsTyped'
  BY DEF SubmissionInv, PsTyped
<1>2. \A a \in PsAgents : Pending(a)' = Pending(a) /\ \A c \in PsCallers : Fetching(c, a)' = Fetching(c, a)
  BY DEF Fetching, Pending
<1>3. LedgersSound' /\ SerialSound'
  BY <1>2 DEF SubmissionInv, LedgersSound, SerialSound, Modest, Undisturbed
<1>4. FailureKnown' /\ RouteSound'
  BY DEF SubmissionInv, FailureKnown, RouteSound
<1>5. \A c \in PsCallers : CallSound(psCall[c])'
  BY DEF SubmissionInv, CallSound
<1> QED BY <1>1, <1>3, <1>4, <1>5 DEF SubmissionInv

LEMMA PsNextInv == ASSUME SubmissionInv, [PsNext]_psVars PROVE SubmissionInv'
<1>0. psShut \in SUBSET PsAgents /\ psHelped \in SUBSET PsAgents
  BY DEF SubmissionInv, PsTyped
<1>1. ASSUME NEW c \in PsCallers, Submit(c) PROVE SubmissionInv'
  BY <1>1, SubmitKeeps
<1>2. ASSUME NEW c \in PsCallers, PsStep(c) PROVE SubmissionInv'
  <2>1. CASE Preflight(c) BY <2>1, PreflightKeeps
  <2>2. CASE Adapt(c) BY <2>2, AdaptKeeps
  <2>3. CASE Route(c) BY <2>3, RouteKeeps
  <2>4. CASE Assign(c) BY <2>4, AssignKeeps
  <2>5. CASE Budget(c) BY <2>5, BudgetKeeps
  <2>6. CASE Attach(c)
    <3>1. CASE Read(c, "attach", "attached")
      <4>1. PICK pc, next : pc = "attach" /\ next = "attached" OBVIOUS
      <4> QED BY <3>1, <4>1, ReadKeeps DEF Readings
    <3>2. CASE Save(c, "attached", "dispatch", Copy(c))
      <4>1. PICK pc, next : pc = "attached" /\ next = "dispatch" OBVIOUS
      <4>2. psCall[c].pc = pc
        BY <3>2, <4>1 DEF Save, At
      <4>3. PICK u : u = Copy(c)
        OBVIOUS
      <4>4. u \in Ledgers /\ psCall[c].copy = {u} /\ Saved(c, u, u)
        BY <4>1, <4>2, <4>3, CopySaved DEF Holding
      <4> QED BY <3>2, <4>1, <4>3, <4>4, SaveKeeps DEF Savings
    <3> QED BY <2>6, <3>1, <3>2 DEF Attach
  <2>7. CASE Dispatch(c) BY <2>7, DispatchKeeps
  <2>8. CASE Fetch(c) BY <2>8, FetchKeepsInv
  <2>9. CASE Misled(c) BY <2>9, MisledKeeps
  <2>10. CASE Run(c) BY <2>10, RunKeeps
  <2>11. CASE Usage(c)
    <3>1. CASE Read(c, "usage", "used")
      <4>1. PICK pc, next : pc = "usage" /\ next = "used" OBVIOUS
      <4> QED BY <3>1, <4>1, ReadKeeps DEF Readings
    <3>2. CASE Save(c, "used", "outcome", [Copy(c) EXCEPT ![Now(c)] = @ + 1])
      <4>1. PICK pc, next : pc = "used" /\ next = "outcome" OBVIOUS
      <4>2. psCall[c].pc = pc
        BY <3>2, <4>1 DEF Save, At
      <4>3. PICK u, w : u = Copy(c) /\ w = [Copy(c) EXCEPT ![Now(c)] = @ + 1]
        OBVIOUS
      <4>4. u \in Ledgers /\ psCall[c].copy = {u} /\ Saved(c, w, u)
        BY <4>1, <4>2, <4>3, CopySaved DEF Holding
      <4> QED BY <3>2, <4>1, <4>3, <4>4, SaveKeeps DEF Savings
    <3> QED BY <2>11, <3>1, <3>2 DEF Usage
  <2>12. CASE Outcome(c) BY <2>12, OutcomeKeeps
  <2>13. CASE Keep(c)
    <3>1. CASE Read(c, "keep", "kept")
      <4>1. PICK pc, next : pc = "keep" /\ next = "kept" OBVIOUS
      <4> QED BY <3>1, <4>1, ReadKeeps DEF Readings
    <3>2. CASE Save(c, "kept", "next", Copy(c))
      <4>1. PICK pc, next : pc = "kept" /\ next = "next" OBVIOUS
      <4>2. psCall[c].pc = pc
        BY <3>2, <4>1 DEF Save, At
      <4>3. PICK u : u = Copy(c)
        OBVIOUS
      <4>4. u \in Ledgers /\ psCall[c].copy = {u} /\ Saved(c, u, u)
        BY <4>1, <4>2, <4>3, CopySaved DEF Holding
      <4> QED BY <3>2, <4>1, <4>3, <4>4, SaveKeeps DEF Savings
    <3> QED BY <2>13, <3>1, <3>2 DEF Keep
  <2>14. CASE Fallback(c) BY <2>14, FallbackKeeps
  <2> QED BY <1>2, <2>1, <2>2, <2>3, <2>4, <2>5, <2>6, <2>7, <2>8, <2>9, <2>10, <2>11, <2>12,
             <2>13, <2>14 DEF PsStep
<1>3. ASSUME NEW a \in PsAgents, Expire(a) PROVE SubmissionInv'
  <2>1. /\ UNCHANGED <<psCall, psMail, psErr, psUsage, psStopped, psSpent, psFailed, psConcurrent, psHelped, psCalls, psFaults>>
        /\ psShut' = psShut \ {a} /\ \A c \in PsCallers : psCall[c].pc # "route"
    BY <1>3 DEF Expire, psGhosts, At
  <2> QED BY <1>0, <2>1, LanesKeep
<1>4. ASSUME NEW a \in PsAgents, Recover(a) PROVE SubmissionInv'
  <2>1. /\ UNCHANGED <<psCall, psMail, psErr, psUsage, psStopped, psSpent, psFailed, psConcurrent, psCalls, psFaults>>
        /\ psShut' = psShut \ {a} /\ psHelped' = psHelped \cup {a}
    BY <1>4 DEF Recover
  <2>2. psShut \subseteq psShut' \cup psHelped' /\ psShut' \in SUBSET PsAgents /\ psHelped' \in SUBSET PsAgents
    BY <1>0, <2>1
  <2> QED BY <2>1, <2>2, LanesKeep
<1>6. ASSUME NEW c \in PsCallers, Again(c) PROVE SubmissionInv'
  BY <1>6, AgainKeeps
<1>7. ASSUME NEW a \in PsAgents, Take(a) PROVE SubmissionInv'
  BY <1>7, TakeKeeps
<1>5. CASE UNCHANGED psVars
  BY <1>0, <1>5, LanesKeep DEF psVars, psGhosts, psBounds
<1> QED BY <1>1, <1>2, <1>3, <1>4, <1>5, <1>6, <1>7 DEF PsNext

\* For any agents, callers and number of failures, what a submission does to its
\* session and to its agents' mailboxes comes out even, however submissions
\* interleave and attempts fail.
THEOREM SubmissionSoundCorrect == PsSpec => []SubmissionSound
<1>1. PsInit => SubmissionInv BY PsInitInv
<1>2. SubmissionInv /\ [PsNext]_psVars => SubmissionInv' BY PsNextInv
<1>3. SubmissionInv => SubmissionSound BY InvSound
<1> QED BY <1>1, <1>2, <1>3, PTL DEF PsSpec

\* A step that routes a first attempt routes it to a lane that did not fail too
\* often, or that an operator has helped.
LEMMA StruckLane == ASSUME SubmissionInv, [PsNext]_psVars PROVE StruckLaneNeedsHelp
<1> SUFFICES ASSUME NEW c \in PsCallers, NEW a \in PsAgents, psCall[c].pc = "route",
                    psCall'[c].pc = "policy", psCall'[c].agent = {a}
             PROVE  psErr[a] < 3 \/ a \in psHelped
  BY DEF StruckLaneNeedsHelp, At
<1>1. psErr[a] \in 0 .. 4 /\ psCall \in [PsCallers -> Submissions]
  BY DEF SubmissionInv, PsTyped
<1>2. ASSUME NEW d \in PsCallers, Submit(d) \/ PsStep(d), d # c PROVE psCall'[c] = psCall[c]
  <2>1. \E k : Goes(d, k)
    <3>1. CASE Submit(d) BY <3>1 DEF Submit
    <3>2. CASE Preflight(d) BY <3>2 DEF Preflight, Ends
    <3>3. CASE Adapt(d) BY <3>3 DEF Adapt
    <3>4. CASE Route(d) BY <3>4 DEF Route, Ends
    <3>5. CASE Assign(d) BY <3>5 DEF Assign, Ends
    <3>6. CASE Budget(d) BY <3>6 DEF Budget, Ends
    <3>7. CASE Attach(d) \/ Keep(d) \/ Usage(d) BY <3>7 DEF Attach, Keep, Usage, Read, Save
    <3>8. CASE Dispatch(d) \/ Fetch(d) \/ Misled(d) BY <3>8 DEF Dispatch, Fetch, Misled
    <3>9. CASE Run(d) BY <3>9 DEF Run
    <3>10. CASE Outcome(d) BY <3>10 DEF Outcome
    <3>11. CASE Fallback(d) BY <3>11 DEF Fallback, Ends
    <3> QED BY <1>2, <3>1, <3>2, <3>3, <3>4, <3>5, <3>6, <3>7, <3>8, <3>9, <3>10, <3>11 DEF PsStep
  <2> QED BY <1>1, <1>2, <2>1 DEF Goes
<1>3. psCall' # psCall
  OBVIOUS
<1>4. PICK d \in PsCallers : Submit(d) \/ PsStep(d)
  BY <1>3 DEF PsNext, Expire, Recover, Take, Again, psVars
<1>5. d = c
  BY <1>2, <1>4, SMTT(40)
<1>6. Route(c)
  BY <1>4, <1>5 DEF Submit, PsStep, Preflight, Adapt, Assign, Budget, Attach, Read, Save, Dispatch, Fetch,
     Misled, Run, Usage, Outcome, Keep, Fallback, At
<1>7. a \in Candidates(psCall[c], {})
  <2>1. CASE Ends(c)
    BY <1>1, <2>1 DEF Ends, Goes, Resting
  <2>2. ASSUME NEW b \in Candidates(psCall[c], {}), Goes(c, [psCall[c] EXCEPT !.pc = "policy", !.agent = {b}])
        PROVE  a \in Candidates(psCall[c], {})
    <3>1. psCall'[c].agent = {b}
      BY <1>1, <2>2 DEF Goes, Submissions
    <3> QED BY <2>2, <3>1
  <2> QED BY <1>6, <2>1, <2>2 DEF Route
<1>8. a \notin psShut
  BY <1>7, CandidatesOpen
<1> QED BY <1>1, <1>8 DEF SubmissionInv, RouteSound

-----------------------------------------------------------------------------
(* Drafts.                                                                 *)

\* A function on 1 .. n is a sequence of length n.
LEMMA SeqOfFun ==
  ASSUME NEW S, NEW n \in Nat, NEW s \in [1 .. n -> S]
  PROVE  s \in Seq(S) /\ Len(s) = n
<1>1. s \in Seq(S)
  BY SeqDef
<1>2. DOMAIN s = 1 .. Len(s) /\ Len(s) \in Nat
  BY <1>1, LenProperties
<1>3. 1 .. n = 1 .. Len(s)
  BY <1>2
<1>4. Len(s) = n
  <2>1. n <= Len(s)
    BY <1>2, <1>3
  <2>2. Len(s) <= n
    BY <1>2, <1>3
  <2> QED BY <1>2, <2>1, <2>2
<1> QED BY <1>1, <1>4

Row(s, n, S) == s \in [1 .. n -> S]
Concat(q, s, u) == q = s \o u

\* Two functions on 1 .. n and 1 .. m, one after the other.
LEMMA ConcatFun ==
  ASSUME NEW n \in Nat, NEW m \in Nat, NEW S, NEW s, Row(s, n, S), NEW u, Row(u, m, S),
         NEW q, Concat(q, s, u)
  PROVE  /\ Row(q, n + m, S)
         /\ \A i \in 1 .. n : q[i] = s[i]
         /\ \A i \in 1 .. m : q[n + i] = u[i]
<1>1. s \in Seq(S) /\ u \in Seq(S) /\ Len(s) = n /\ Len(u) = m
  BY SeqOfFun DEF Row
<1>2. /\ s \o u \in Seq(S) /\ Len(s \o u) = n + m
      /\ \A i \in 1 .. (n + m) : (s \o u)[i] = IF i <= n THEN s[i] ELSE u[i - n]
  BY <1>1, ConcatProperties
<1>3. q \in Seq(S) /\ Len(q) = n + m /\ \A i \in 1 .. (n + m) : q[i] = IF i <= n THEN s[i] ELSE u[i - n]
  BY <1>2 DEF Concat
<1>4. Row(q, n + m, S)
  BY <1>3, LenProperties DEF Row
<1>5. \A i \in 1 .. m : n + i \in 1 .. (n + m) /\ ~(n + i <= n) /\ (n + i) - n = i
  OBVIOUS
<1>6. \A i \in 1 .. n : i \in 1 .. (n + m) /\ i <= n
  OBVIOUS
<1> QED BY <1>3, <1>4, <1>5, <1>6

\* A sequence whose elements' ids differ has as many ids as elements.
LEMMA IdsCounted ==
  ASSUME NEW n \in Nat, NEW p, DOMAIN p = 1 .. n,
         \A i, j \in 1 .. n : p[i].id = p[j].id => i = j
  PROVE  Cardinality({p[i].id : i \in DOMAIN p}) = n
<1> DEFINE T == {p[i].id : i \in 1 .. n}
           f == [i \in 1 .. n |-> p[i].id]
<1>1. f \in Surjection(1 .. n, T)
  BY DEF Surjection
<1>2. f \in Injection(1 .. n, T)
  BY DEF Injection, IsInjective
<1>3. IsFiniteSet(1 .. n) /\ Cardinality(1 .. n) = n
  BY FS_Interval
<1>4. Cardinality(T) = Cardinality(1 .. n)
  BY <1>1, <1>2, <1>3, FS_Surjection
<1> QED BY <1>3, <1>4

\* What the properties ask of a draft, as a predicate of the task and the plan.
JoinsIn(p) ==
  /\ Cardinality({p[i].id : i \in DOMAIN p}) = Len(p)
  /\ \A i \in DOMAIN p : p[i].after \subseteq {p[j].id : j \in 1..(i - 1)}
  /\ \A i \in DOMAIN p \ {1} : p[i].after # {}
  /\ \A i \in DOMAIN p \ {Len(p)} : \E j \in DOMAIN p : p[i].id \in p[j].after

\* Of the places of the list: no two branches are given the same one.
ApartIn(p) ==
  \A i, j \in DOMAIN p : i # j /\ p[i].after = p[j].after => p[i].files \cap p[j].files = {}

Typed(head, n) ==
  /\ head.files \subseteq 1..n
  /\ head.keys = {DrPath[k] : k \in head.files}
  /\ head.budget \in 6..18

TypedIn(t, p) == \A i \in DOMAIN p : Typed(p[i], t.files)

CoveredBy(p) == UNION {p[i].files : i \in {j \in DOMAIN p : p[j].id[1] \in {"implement", "branch"}}}

CoversIn(t, p) ==
  \/ CoveredBy(p) = 1..t.files
  \/ /\ Parallelizable(t) /\ t.files > DrClusterLimit
     /\ CoveredBy(p) = 1..DrClusterLimit

\* A plan whose steps wait for one another in a row: the names after "analyze".
Linear(p, names, n) ==
  /\ n \in Nat /\ n >= 1
  /\ DOMAIN p = 1 .. (n + 1) /\ Len(p) = n + 1
  /\ p[1].id = <<"analyze", 0>> /\ p[1].after = {}
  /\ \A i \in 1 .. n : p[i + 1].id = <<names[i], 0>>
  /\ p[2].after = {<<"analyze", 0>>}
  /\ \A i \in 2 .. n : p[i + 1].after = {<<names[i - 1], 0>>}
  /\ \A i \in 1 .. n : names[i] # "analyze"
  /\ \A i, j \in 1 .. n : names[i] = names[j] => i = j

LEMMA LinearJoins ==
  ASSUME NEW p, NEW names, NEW n, Linear(p, names, n)
  PROVE  JoinsIn(p) /\ ApartIn(p)
<1>0. n \in Nat /\ n >= 1 /\ DOMAIN p = 1 .. (n + 1) /\ Len(p) = n + 1
  BY DEF Linear
<1>1. \A i \in 1 .. (n + 1) : p[i].id = IF i = 1 THEN <<"analyze", 0>> ELSE <<names[i - 1], 0>>
  <2> TAKE i \in 1 .. (n + 1)
  <2>1. CASE i = 1 BY <2>1 DEF Linear
  <2>2. CASE i # 1
    <3>1. i - 1 \in 1 .. n /\ (i - 1) + 1 = i
      BY <1>0, <2>2
    <3>2. p[(i - 1) + 1].id = <<names[i - 1], 0>>
      BY <3>1 DEF Linear
    <3> QED BY <2>2, <3>1, <3>2
  <2> QED BY <2>1, <2>2
<1>2. ASSUME NEW i \in 1 .. (n + 1), NEW j \in 1 .. (n + 1), p[i].id = p[j].id PROVE i = j
  <2>1. CASE i = 1 /\ j # 1
    BY <1>0, <1>1, <1>2, <2>1 DEF Linear
  <2>2. CASE i # 1 /\ j = 1
    BY <1>0, <1>1, <1>2, <2>2 DEF Linear
  <2>3. CASE i # 1 /\ j # 1
    <3>0. i - 1 \in 1 .. n /\ j - 1 \in 1 .. n
      BY <1>0, <2>3
    <3>3. <<names[i - 1], 0>> = <<names[j - 1], 0>>
      BY <1>1, <1>2, <2>3
    <3>1. i - 1 \in 1 .. n /\ j - 1 \in 1 .. n /\ names[i - 1] = names[j - 1]
      BY <3>0, <3>3
    <3>2. i - 1 = j - 1
      BY <3>1 DEF Linear
    <3> QED BY <3>2
  <2> QED BY <2>1, <2>2, <2>3
\* each head waits for the one before it
<1>3. \A i \in 2 .. (n + 1) : p[i].after = {p[i - 1].id}
  <2> TAKE i \in 2 .. (n + 1)
  <2>1. CASE i = 2
    BY <2>1, <1>0, <1>1 DEF Linear
  <2>2. CASE i # 2
    <3>1. i - 1 \in 2 .. n /\ (i - 1) + 1 = i /\ i - 1 \in 1 .. (n + 1) /\ i - 1 # 1
      BY <1>0, <2>2
    <3>2. p[(i - 1) + 1].after = {<<names[(i - 1) - 1], 0>>}
      BY <3>1 DEF Linear
    <3>3. p[i - 1].id = <<names[(i - 1) - 1], 0>>
      BY <1>1, <3>1
    <3> QED BY <3>1, <3>2, <3>3
  <2> QED BY <2>1, <2>2
<1>4. Cardinality({p[i].id : i \in DOMAIN p}) = n + 1
  BY <1>0, <1>2, IdsCounted
<1>5. \A i \in DOMAIN p : p[i].after \subseteq {p[j].id : j \in 1..(i - 1)}
  <2> TAKE i \in DOMAIN p
  <2>1. CASE i = 1
    BY <2>1 DEF Linear
  <2>2. CASE i # 1
    <3>1. i \in 2 .. (n + 1) /\ i - 1 \in 1 .. (i - 1)
      BY <1>0, <2>2
    <3> QED BY <1>3, <3>1
  <2> QED BY <2>1, <2>2
<1>6. \A i \in DOMAIN p \ {1} : p[i].after # {}
  <2> TAKE i \in DOMAIN p \ {1}
  <2>1. i \in 2 .. (n + 1)
    BY <1>0
  <2> QED BY <1>3, <2>1
<1>7. \A i \in DOMAIN p \ {Len(p)} : \E j \in DOMAIN p : p[i].id \in p[j].after
  <2> TAKE i \in DOMAIN p \ {Len(p)}
  <2>1. i + 1 \in 2 .. (n + 1) /\ i + 1 \in DOMAIN p /\ (i + 1) - 1 = i
    BY <1>0
  <2>2. p[i + 1].after = {p[i].id}
    BY <1>3, <2>1
  <2> QED BY <2>1, <2>2
<1>8. JoinsIn(p)
  BY <1>0, <1>4, <1>5, <1>6, <1>7 DEF JoinsIn
<1>9. ASSUME NEW i \in 1 .. (n + 1), NEW j \in 1 .. (n + 1), i # j PROVE p[i].after # p[j].after
  <2>1. CASE i = 1
    <3>1. j \in 2 .. (n + 1)
      BY <1>0, <1>9, <2>1
    <3> QED BY <1>3, <2>1, <3>1 DEF Linear
  <2>2. CASE j = 1
    <3>1. i \in 2 .. (n + 1)
      BY <1>0, <1>9, <2>2
    <3> QED BY <1>3, <2>2, <3>1 DEF Linear
  <2>3. CASE i # 1 /\ j # 1
    <3>1. /\ i \in 2 .. (n + 1) /\ j \in 2 .. (n + 1) /\ i - 1 \in 1 .. (n + 1) /\ j - 1 \in 1 .. (n + 1)
          /\ i - 1 # j - 1
      BY <1>0, <1>9, <2>3
    <3>2. p[i - 1].id # p[j - 1].id
      BY <1>2, <3>1
    <3> QED BY <1>3, <3>1, <3>2
  <2> QED BY <2>1, <2>2, <2>3
<1>10. ApartIn(p)
  BY <1>0, <1>9 DEF ApartIn
<1> QED BY <1>8, <1>10

\* The analysis comes first.
Analysis(t) == Step(<<"analyze", 0>>, "plan", {}, 1..t.files)

LEMMA BudgetBounded ==
  ASSUME NEW capability, NEW n \in Nat
  PROVE  StepContextBudget(capability, n) \in 6 .. 18
<1> DEFINE b == CASE WorkerClass(capability) \in {"planner", "review", "merge"} -> 10
                  [] WorkerClass(capability) \in {"test", "retrieval"} -> 8
                  [] OTHER -> 6
<1>1. b \in {6, 8, 10}
  OBVIOUS
<1>2. StepContextBudget(capability, n) = IF b + 2 * n > 18 THEN 18 ELSE b + 2 * n
  BY DEF StepContextBudget
<1> HIDE DEF b
<1> QED BY <1>1, <1>2

\* A head over the files lo .. hi.
OfFiles(head, n) == \E id, capability, after : \E lo, hi \in Int :
  lo >= 1 /\ hi <= n /\ head = Step(id, capability, after, lo .. hi)

LEMMA OverTyped ==
  ASSUME NEW n \in Nat, NEW head, OfFiles(head, n)
  PROVE  Typed(head, n)
<1>1. PICK id, capability, after : \E lo, hi \in Int :
        lo >= 1 /\ hi <= n /\ head = Step(id, capability, after, lo .. hi)
  BY DEF OfFiles
<1>2. PICK lo \in Int, hi \in Int : lo >= 1 /\ hi <= n /\ head = Step(id, capability, after, lo .. hi)
  BY <1>1
<1>3. PICK files : files = lo .. hi
  OBVIOUS
<1>4. /\ head.files = files /\ head.keys = {DrPath[i] : i \in files}
      /\ head.budget = StepContextBudget(capability, Cardinality(files))
  BY <1>2, <1>3 DEF Step
<1>5. Cardinality(files) \in Nat
  <2>1. Cardinality(lo .. hi) = IF lo > hi THEN 0 ELSE hi - lo + 1
    BY <1>2, FS_Interval
  <2> QED BY <1>2, <1>3, <2>1
<1>6. files \subseteq 1 .. n
  BY <1>2, <1>3
<1>7. head.budget \in 6 .. 18
  BY <1>4, <1>5, BudgetBounded
<1> QED BY <1>4, <1>6, <1>7 DEF Typed

\* A head over all the files.
LEMMA OverAll ==
  ASSUME NEW n \in Nat, NEW id, NEW capability, NEW after, NEW all, all = 1 .. n,
         NEW a, a = Step(id, capability, after, all)
  PROVE  OfFiles(a, n)
<1>1. PICK lo : lo = 1
  OBVIOUS
<1>2. lo \in Int /\ n \in Int /\ lo >= 1 /\ n <= n /\ a = Step(id, capability, after, lo .. n)
  BY <1>1
<1> QED BY <1>2 DEF OfFiles

\* A task lists a number of files.
LEMMA DraftFiles ==
  ASSUME NEW t \in DraftTasks
  PROVE  t.files \in Nat
<1>1. t.files \in 0 .. DrMaxFiles
  BY DEF DraftTasks
<1>2. DrMaxFiles \in Nat
  BY DraftAssumption
<1> QED BY <1>1, <1>2

\* Names of a row.
Names(names, n) ==
  /\ n \in Nat /\ n >= 1 /\ DOMAIN names = 1 .. n
  /\ \A i \in 1 .. n : names[i] # "analyze"
  /\ \A i, j \in 1 .. n : names[i] = names[j] => i = j

\* One head, and others after it.
Heads(p, head, rest) == p = <<head>> \o rest

LEMMA HeadsIs ==
  ASSUME NEW n \in Nat, NEW head, NEW rest, rest = [i \in 1 .. n |-> rest[i]], NEW p, Heads(p, head, rest)
  PROVE  /\ DOMAIN p = 1 .. (n + 1) /\ Len(p) = n + 1 /\ p[1] = head
         /\ \A i \in 1 .. n : p[i + 1] = rest[i]
<1>1. PICK S : S = {rest[i] : i \in 1 .. n} \cup {head}
  OBVIOUS
<1>2. PICK h : h = <<head>>
  OBVIOUS
<1>3. Row(rest, n, S)
  BY <1>1 DEF Row
<1>0. PICK m : m = 1
  OBVIOUS
<1>4. Row(h, m, S) /\ h[1] = head /\ 1 \in 1 .. m /\ m \in Nat
  BY <1>0, <1>1, <1>2 DEF Row
<1>5. PICK q : Concat(q, h, rest)
  BY DEF Concat
<1>6. /\ Row(q, m + n, S)
      /\ \A i \in 1 .. m : q[i] = h[i]
      /\ \A i \in 1 .. n : q[m + i] = rest[i]
  BY <1>3, <1>4, <1>5, ConcatFun
<1>7. p = q
  BY <1>2, <1>5 DEF Heads, Concat
<1>8. m + n \in Nat /\ m + n = n + 1 /\ \A i \in 1 .. n : m + i = i + 1
  BY <1>0
<1>9. Len(q) = m + n
  BY <1>6, <1>8, SeqOfFun DEF Row
<1> QED BY <1>4, <1>6, <1>7, <1>8, <1>9 DEF Row

\* A row of steps after the analysis.
LEMMA ChainDrafts ==
  ASSUME NEW t \in DraftTasks, NEW names, NEW n, Names(names, n), NEW capabilities,
         NEW p, Heads(p, Analysis(t), Chain(t, names, capabilities))
  PROVE  JoinsIn(p) /\ ApartIn(p) /\ TypedIn(t, p)
<1>0. n \in Nat /\ n >= 1 /\ DOMAIN names = 1 .. n /\ t.files \in Nat
  BY DraftFiles DEF Names
<1>1. PICK c : c = Chain(t, names, capabilities)
  OBVIOUS
<1>2. /\ c = [i \in 1 .. n |-> c[i]]
      /\ \A i \in 1 .. n :
           c[i] = Step(<<names[i], 0>>, capabilities[i],
                       {<<IF i = 1 THEN "analyze" ELSE names[i - 1], 0>>}, 1..t.files)
  BY <1>0, <1>1 DEF Chain
<1>3. /\ DOMAIN p = 1 .. (n + 1) /\ Len(p) = n + 1 /\ p[1] = Analysis(t)
      /\ \A i \in 1 .. n : p[i + 1] = c[i]
  BY <1>0, <1>1, <1>2, HeadsIs
<1>7. p[1].id = <<"analyze", 0>> /\ p[1].after = {}
  BY <1>3 DEF Analysis, Step
<1>8. ASSUME NEW i \in 1 .. n
      PROVE  /\ p[i + 1].id = <<names[i], 0>>
             /\ p[i + 1].after = {<<IF i = 1 THEN "analyze" ELSE names[i - 1], 0>>}
  BY <1>2, <1>3 DEF Step
<1>9. Linear(p, names, n)
  <2>0. PICK k : k = 1
    OBVIOUS
  <2>3. k \in 1 .. n /\ k + 1 = 2
    BY <1>0, <2>0
  <2>1. p[2].after = {<<"analyze", 0>>}
    BY <1>8, <2>0, <2>3
  <2>2. \A i \in 2 .. n : p[i + 1].after = {<<names[i - 1], 0>>}
    <3> TAKE i \in 2 .. n
    <3>1. i \in 1 .. n /\ i # 1
      BY <1>0
    <3> QED BY <1>8, <3>1
  <2> QED BY <1>0, <1>3, <1>7, <1>8, <2>1, <2>2 DEF Linear, Names
<1>10. TypedIn(t, p)
  <2> SUFFICES ASSUME NEW i \in DOMAIN p PROVE Typed(p[i], t.files)
    BY DEF TypedIn
  <2>1. \E id, capability, after : p[i] = Step(id, capability, after, 1..t.files)
    <3>1. CASE i = 1
      BY <1>3, <3>1 DEF Analysis
    <3>2. CASE i # 1
      <4>1. i - 1 \in 1 .. n /\ (i - 1) + 1 = i
        BY <1>0, <1>3, <3>2
      <4>2. p[(i - 1) + 1] = c[i - 1]
        BY <1>3, <4>1
      <4>3. c[i - 1] = Step(<<names[i - 1], 0>>, capabilities[i - 1],
                            {<<IF i - 1 = 1 THEN "analyze" ELSE names[i - 1 - 1], 0>>}, 1..t.files)
        BY <1>2, <4>1
      <4> QED BY <4>1, <4>2, <4>3
    <3> QED BY <3>1, <3>2
  <2>3. PICK id, capability, after : p[i] = Step(id, capability, after, 1..t.files)
    BY <2>1
  <2>4. OfFiles(p[i], t.files)
    BY <1>0, <2>3, OverAll
  <2> QED BY <1>0, <2>4, OverTyped
<1> QED BY <1>9, <1>10, LinearJoins

LEMMA NamesOfTwo ==
  ASSUME NEW a, NEW b, a # "analyze", b # "analyze", a # b
  PROVE  Names(<<a, b>>, 2)
  BY DEF Names

LEMMA NamesOfThree ==
  ASSUME NEW a, NEW b, NEW c, a # "analyze", b # "analyze", c # "analyze", a # b, b # c, a # c
  PROVE  Names(<<a, b, c>>, 3)
  BY DEF Names

\* The row of Sourcecraft work, with or without the validation.
LEMMA SourcecraftNames ==
  ASSUME NEW checked \in BOOLEAN
  PROVE  \E n : Names(<<"repo-context", "workflow-policy", "draft-sourcecraft", "review-sourcecraft">>
                        \o (IF checked THEN <<"validate-sourcecraft">> ELSE <<>>), n)
<1>1. PICK s : s = <<"repo-context", "workflow-policy", "draft-sourcecraft", "review-sourcecraft">>
  OBVIOUS
<1>2. PICK u : u = IF checked THEN <<"validate-sourcecraft">> ELSE <<>>
  OBVIOUS
<1>0. PICK S : S = {"repo-context", "workflow-policy", "draft-sourcecraft", "review-sourcecraft", "validate-sourcecraft"}
  OBVIOUS
<1>3. PICK m : m = IF checked THEN 1 ELSE 0
  OBVIOUS
<1>4. PICK k : k = 4
  OBVIOUS
<1>5. PICK q : Concat(q, s, u)
  BY DEF Concat
<1>6. k \in Nat /\ m \in Nat /\ Row(s, k, S) /\ Row(u, m, S)
  <2>1. Row(s, k, S)
    BY <1>0, <1>1, <1>4 DEF Row
  <2>2. CASE checked
    <3>1. u = <<"validate-sourcecraft">> /\ m = 1
      BY <1>2, <1>3, <2>2
    <3>2. Row(<<"validate-sourcecraft">>, 1, S)
      BY <1>0 DEF Row
    <3> QED BY <1>4, <2>1, <3>1, <3>2
  <2>3. CASE ~checked
    <3>1. u = <<>> /\ m = 0
      BY <1>2, <1>3, <2>3
    <3>2. Row(<<>>, 0, S)
      BY DEF Row
    <3> QED BY <1>4, <2>1, <3>1, <3>2
  <2> QED BY <2>2, <2>3
<1>7. /\ Row(q, k + m, S)
      /\ \A i \in 1 .. k : q[i] = s[i]
      /\ \A i \in 1 .. m : q[k + i] = u[i]
  BY <1>5, <1>6, ConcatFun
<1>8. DOMAIN q = 1 .. (k + m)
  BY <1>7 DEF Row
<1>9. q[1] = "repo-context" /\ q[2] = "workflow-policy" /\ q[3] = "draft-sourcecraft" /\ q[4] = "review-sourcecraft"
  BY <1>1, <1>4, <1>7
<1>10. m = 1 => q[5] = "validate-sourcecraft"
  BY <1>2, <1>3, <1>4, <1>7
<1>11. Names(q, k + m)
  <2>1. CASE m = 0
    <3>1. \A i \in 1 .. (k + m) : i \in {1, 2, 3, 4}
      BY <1>4, <2>1
    <3> QED BY <1>4, <1>8, <1>9, <2>1, <3>1 DEF Names
  <2>2. CASE m = 1
    <3>1. \A i \in 1 .. (k + m) : i \in {1, 2, 3, 4, 5}
      BY <1>4, <2>2
    <3> QED BY <1>4, <1>8, <1>9, <1>10, <2>2, <3>1 DEF Names
  <2> QED BY <1>3, <2>1, <2>2
<1> QED BY <1>1, <1>2, <1>5, <1>11 DEF Concat

\* Work that is not code is a row of steps.
LEMMA RowDrafts ==
  ASSUME NEW t \in DraftTasks, Sourcecraft(t) \/ t.type \notin {"code", "fix"},
         NEW p, p = DefaultSteps(t)
  PROVE  JoinsIn(p) /\ ApartIn(p) /\ TypedIn(t, p)
<1> SUFFICES \E names, n, capabilities :
               Names(names, n) /\ Heads(p, Analysis(t), Chain(t, names, capabilities))
  BY ChainDrafts
<1>1. CASE Sourcecraft(t)
  <2>1. \E names, n, capabilities : Names(names, n) /\ SourcecraftSteps(t) = Chain(t, names, capabilities)
    <3>1. PICK s : s = <<"repo-context", "workflow-policy", "draft-sourcecraft", "review-sourcecraft">>
      OBVIOUS
    <3>2. CASE t.type \in {"code", "fix", "test"}
      <4>1. \E n : Names(s \o <<"validate-sourcecraft">>, n)
        BY <3>1, SourcecraftNames
      <4>2. \E capabilities : SourcecraftSteps(t) = Chain(t, s \o <<"validate-sourcecraft">>, capabilities)
        BY <3>1, <3>2 DEF SourcecraftSteps
      <4> QED BY <4>1, <4>2
    <3>3. CASE t.type \notin {"code", "fix", "test"}
      <4>1. \E n : Names(s \o <<>>, n)
        BY <3>1, SourcecraftNames
      <4>2. \E capabilities : SourcecraftSteps(t) = Chain(t, s \o <<>>, capabilities)
        BY <3>1, <3>3 DEF SourcecraftSteps
      <4> QED BY <4>1, <4>2
    <3> QED BY <3>2, <3>3
  <2>5. Heads(p, Analysis(t), SourcecraftSteps(t))
    BY <1>1 DEF DefaultSteps, Heads, Analysis
  <2> QED BY <2>1, <2>5
<1>2. CASE ~Sourcecraft(t)
  <2>0. PICK c : c = CapabilityOf(t)
    OBVIOUS
  <2>1. CASE t.type = "plan"
    <3>1. Heads(p, Analysis(t), Chain(t, <<"draft-plan", "review-plan">>, <<c, "review">>))
      BY <1>2, <2>0, <2>1 DEF DefaultSteps, Heads, Analysis
    <3>2. Names(<<"draft-plan", "review-plan">>, 2)
      BY NamesOfTwo
    <3> QED BY <3>1, <3>2
  <2>2. CASE t.type = "review"
    <3>1. Heads(p, Analysis(t), Chain(t, <<"audit", "report">>, <<c, "docs">>))
      BY <1>2, <2>0, <2>2 DEF DefaultSteps, Heads, Analysis
    <3>2. Names(<<"audit", "report">>, 2)
      BY NamesOfTwo
    <3> QED BY <3>1, <3>2
  <2>3. CASE t.type = "test"
    <3>1. Heads(p, Analysis(t), Chain(t, <<"run-tests", "verify-results">>, <<c, "review">>))
      BY <1>2, <2>0, <2>3 DEF DefaultSteps, Heads, Analysis
    <3>2. Names(<<"run-tests", "verify-results">>, 2)
      BY NamesOfTwo
    <3> QED BY <3>1, <3>2
  <2>4. CASE t.type \in {"docs", "research"}
    <3>1. Heads(p, Analysis(t), Chain(t, <<"collect-context", "write-output", "review-output">>, <<c, c, "review">>))
      BY <1>2, <2>0, <2>4 DEF DefaultSteps, Heads, Analysis
    <3>2. Names(<<"collect-context", "write-output", "review-output">>, 3)
      BY NamesOfThree
    <3> QED BY <3>1, <3>2, SMTT(40)
  <2>5. CASE t.type = "other"
    <3>1. Heads(p, Analysis(t), Chain(t, <<"execute", "verify">>, <<c, "review">>))
      BY <1>2, <2>0, <2>5 DEF DefaultSteps, Heads, Analysis
    <3>2. Names(<<"execute", "verify">>, 2)
      BY NamesOfTwo
    <3> QED BY <3>1, <3>2
  <2> QED BY <1>2, <2>1, <2>2, <2>3, <2>4, <2>5 DEF DraftTasks, TaskTypes
<1> QED BY <1>1, <1>2 DEF DraftTasks


\* The part of the files that is clustered.
ClusterLimit(n) == IF DrClusterLimit > 0 /\ n > DrClusterLimit THEN DrClusterLimit ELSE n

\* clusterPlanFiles cuts the files up to the limit into runs without overlap.
Partition(c, k, n) ==
  /\ k \in Nat /\ k >= 1 /\ DOMAIN c = 1 .. k
  /\ \A i \in 1 .. k : \E lo, hi \in Int : lo >= 1 /\ hi <= n /\ c[i] = lo .. hi
  /\ \A i, j \in 1 .. k : i # j => c[i] \cap c[j] = {}
  /\ UNION {c[i] : i \in 1 .. k} = 1 .. ClusterLimit(n)

LEMMA ClustersPartition ==
  ASSUME NEW n \in Nat, n >= 1, NEW size \in {1, 2, 3}, NEW c, c = ClusterPlanFiles(n, size)
  PROVE  \E k : Partition(c, k, n)
<1>1. PICK limit : limit = ClusterLimit(n)
  OBVIOUS
<1>2. limit \in Nat /\ limit >= 1 /\ limit <= n
  BY <1>1, DraftAssumption DEF ClusterLimit
<1>3. PICK k : k = (limit + size - 1) \div size
  OBVIOUS
<1>4. /\ k \in Nat /\ k >= 1
      /\ \A i \in 1 .. k : (i - 1) * size + 1 <= limit
      /\ k * size >= limit
  <2>1. CASE size = 1 BY <1>2, <1>3, <2>1
  <2>2. CASE size = 2 BY <1>2, <1>3, <2>2
  <2>3. CASE size = 3 BY <1>2, <1>3, <2>3
  <2> QED BY <2>1, <2>2, <2>3
<1> DEFINE e(i) == IF i * size > limit THEN limit ELSE i * size
<1>5. c = [i \in 1 .. k |-> ((i - 1) * size + 1) .. e(i)]
  BY <1>1, <1>3 DEF ClusterPlanFiles, ClusterLimit
<1>6. \A i \in 1 .. k : /\ e(i) \in Int /\ e(i) <= limit /\ e(i) <= i * size
                        /\ (i - 1) * size + 1 \in Int /\ (i - 1) * size + 1 >= 1
                        /\ c[i] = ((i - 1) * size + 1) .. e(i)
  <2>1. CASE size = 1 BY <1>2, <1>4, <1>5, <2>1
  <2>2. CASE size = 2 BY <1>2, <1>4, <1>5, <2>2
  <2>3. CASE size = 3 BY <1>2, <1>4, <1>5, <2>3
  <2> QED BY <2>1, <2>2, <2>3
<1>7. \A i \in 1 .. k : \E lo, hi \in Int : lo >= 1 /\ hi <= n /\ c[i] = lo .. hi
  <2> TAKE i \in 1 .. k
  <2>1. e(i) <= n
    BY <1>2, <1>6
  <2> HIDE DEF e
  <2> QED BY <1>6, <2>1
<1>8. ASSUME NEW i \in 1 .. k, NEW j \in 1 .. k, i < j PROVE c[i] \cap c[j] = {}
  <2>1. i * size <= (j - 1) * size
    <3>1. CASE size = 1 BY <1>4, <1>8, <3>1
    <3>2. CASE size = 2 BY <1>4, <1>8, <3>2
    <3>3. CASE size = 3 BY <1>4, <1>8, <3>3
    <3> QED BY <3>1, <3>2, <3>3
  <2>2. PICK a, b : a = i * size /\ b = (j - 1) * size
    OBVIOUS
  <2>3. a \in Int /\ b \in Int /\ a <= b
    BY <2>1, <2>2, <1>4
  <2>4. \A y \in c[i] : y \in Int /\ y <= a
    BY <1>6, <2>2, <2>3
  <2>5. \A y \in c[j] : y \in Int /\ y >= b + 1
    BY <1>6, <2>2, <2>3
  <2> QED BY <2>3, <2>4, <2>5
<1>9. \A i, j \in 1 .. k : i # j => c[i] \cap c[j] = {}
  <2> SUFFICES ASSUME NEW i \in 1 .. k, NEW j \in 1 .. k, i # j PROVE c[i] \cap c[j] = {}
    OBVIOUS
  <2>1. i < j \/ j < i
    BY <1>4
  <2> QED BY <1>8, <2>1
<1>10. UNION {c[i] : i \in 1 .. k} = 1 .. limit
  <2>1. ASSUME NEW i \in 1 .. k, NEW v \in c[i] PROVE v \in 1 .. limit
    BY <1>2, <1>6, <2>1
  <2>2. ASSUME NEW v \in 1 .. limit PROVE \E i \in 1 .. k : v \in c[i]
    <3>1. PICK i : i = ((v - 1) \div size) + 1
      OBVIOUS
    <3>2. i \in 1 .. k /\ (i - 1) * size + 1 <= v /\ v <= i * size
      <4>1. CASE size = 1 BY <1>2, <1>3, <3>1, <4>1
      <4>2. CASE size = 2 BY <1>2, <1>3, <3>1, <4>2
      <4>3. CASE size = 3 BY <1>2, <1>3, <3>1, <4>3
      <4> QED BY <4>1, <4>2, <4>3
    <3>3. v <= e(i)
      BY <3>2
    <3> QED BY <1>6, <3>2, <3>3
  <2> QED BY <2>1, <2>2
<1>11. DOMAIN c = 1 .. k
  BY <1>5
<1>12. Partition(c, k, n)
  BY <1>1, <1>4, <1>7, <1>9, <1>10, <1>11 DEF Partition
<1> QED BY <1>12


LEMMA AnalysisIs ==
  ASSUME NEW t \in DraftTasks
  PROVE  /\ Analysis(t).id = <<"analyze", 0>> /\ Analysis(t).after = {}
         /\ Analysis(t).files = 1 .. t.files /\ Typed(Analysis(t), t.files)
<1>0. t.files \in Nat
  BY DraftFiles
<1>1. OfFiles(Analysis(t), t.files)
  BY <1>0, OverAll DEF Analysis
<1>2. Typed(Analysis(t), t.files)
  BY <1>0, <1>1, OverTyped
<1> QED BY <1>2 DEF Analysis, Step

\* Code work that is not split.
LEMMA PlainDrafts ==
  ASSUME NEW t \in DraftTasks, ~Sourcecraft(t), t.type \in {"code", "fix"}, ~Parallelizable(t),
         NEW p, Heads(p, Analysis(t), CodeSteps(t))
  PROVE  JoinsIn(p) /\ ApartIn(p) /\ TypedIn(t, p) /\ CoversIn(t, p)
<1>0. t.files \in Nat
  BY DraftFiles
<1>c. PICK cap : cap = CapabilityOf(t)
  OBVIOUS
<1>1. PICK all : all = 1 .. t.files
  OBVIOUS
<1>2. PICK a, b, c : /\ a = Step(<<"implement", 0>>, cap, {<<"analyze", 0>>}, all)
                     /\ b = Step(<<"review", 0>>, "review", {<<"implement", 0>>}, all)
                     /\ c = Step(<<"test", 0>>, "test", {<<"review", 0>>}, all)
  OBVIOUS
<1>3. PICK s : s = <<a, b, c>>
  OBVIOUS
<1>4. CodeSteps(t) = s
  BY <1>0, <1>c, <1>1, <1>2, <1>3 DEF CodeSteps
<1>5. PICK n : n = 3
  OBVIOUS
<1>6. n \in Nat /\ s = [i \in 1 .. n |-> s[i]] /\ s[1] = a /\ s[2] = b /\ s[3] = c
  BY <1>3, <1>5
<1>7. /\ DOMAIN p = 1 .. (n + 1) /\ Len(p) = n + 1 /\ p[1] = Analysis(t)
      /\ \A i \in 1 .. n : p[i + 1] = s[i]
  BY <1>4, <1>6, HeadsIs
<1>8. p[2] = a /\ p[3] = b /\ p[4] = c /\ DOMAIN p = 1 .. 4 /\ Len(p) = 4
  BY <1>5, <1>6, <1>7
<1>9. /\ a.id = <<"implement", 0>> /\ a.after = {<<"analyze", 0>>} /\ a.files = all
      /\ b.id = <<"review", 0>> /\ b.after = {<<"implement", 0>>} /\ b.files = all
      /\ c.id = <<"test", 0>> /\ c.after = {<<"review", 0>>} /\ c.files = all
  BY <1>2 DEF Step
<1>10. PICK names : names = <<"implement", "review", "test">>
  OBVIOUS
<1>11. Linear(p, names, n)
  <2>1. \A i \in 1 .. n : i \in {1, 2, 3}
    BY <1>5
  <2>2. /\ \A i \in 1 .. n : p[i + 1].id = <<names[i], 0>>
    <3>1. p[1 + 1].id = <<names[1], 0>> /\ p[2 + 1].id = <<names[2], 0>> /\ p[3 + 1].id = <<names[3], 0>>
      BY <1>8, <1>9, <1>10
    <3> QED BY <2>1, <3>1
  <2>3. \A i \in 2 .. n : p[i + 1].after = {<<names[i - 1], 0>>}
    <3>1. p[2 + 1].after = {<<names[2 - 1], 0>>} /\ p[3 + 1].after = {<<names[3 - 1], 0>>}
      BY <1>8, <1>9, <1>10
    <3>2. \A i \in 2 .. n : i \in {2, 3}
      BY <1>5
    <3> QED BY <3>1, <3>2
  <2>4. /\ \A i \in 1 .. n : names[i] # "analyze"
        /\ \A i, j \in 1 .. n : names[i] = names[j] => i = j
    BY <1>10, <2>1
  <2>5. p[1].id = <<"analyze", 0>> /\ p[1].after = {} /\ p[2].after = {<<"analyze", 0>>}
    BY <1>7, <1>8, <1>9, AnalysisIs
  <2>6. n \in Nat /\ n >= 1
    BY <1>5
  <2> QED BY <1>7, <2>2, <2>3, <2>4, <2>5, <2>6 DEF Linear
<1>12. OfFiles(a, t.files) /\ OfFiles(b, t.files) /\ OfFiles(c, t.files)
  <2>1. OfFiles(a, t.files)
    BY <1>0, <1>1, <1>2, OverAll
  <2>2. OfFiles(b, t.files)
    BY <1>0, <1>1, <1>2, OverAll
  <2>3. OfFiles(c, t.files)
    BY <1>0, <1>1, <1>2, OverAll
  <2> QED BY <2>1, <2>2, <2>3
<1>13. \A i \in DOMAIN p : i \in {1, 2, 3, 4}
  BY <1>8
<1>14. TypedIn(t, p)
  <2>1. Typed(p[1], t.files)
    BY <1>7, AnalysisIs
  <2>2. \A i \in {2, 3, 4} : Typed(p[i], t.files)
    BY <1>0, <1>8, <1>12, OverTyped
  <2> QED BY <1>13, <2>1, <2>2 DEF TypedIn
<1>15. CoveredBy(p) = 1 .. t.files
  <2>1. 2 \in {j \in DOMAIN p : p[j].id[1] \in {"implement", "branch"}} /\ p[2].files = 1 .. t.files
    BY <1>0, <1>1, <1>8, <1>9
  <2>2. \A i \in DOMAIN p : p[i].files \subseteq 1 .. t.files
    BY <1>14 DEF TypedIn, Typed
  <2> QED BY <2>1, <2>2 DEF CoveredBy
<1> QED BY <1>11, <1>14, <1>15, LinearJoins DEF CoversIn

\* Code work that is split into branches.
LEMMA SplitDrafts ==
  ASSUME NEW t \in DraftTasks, ~Sourcecraft(t), t.type \in {"code", "fix"}, Parallelizable(t),
         NEW p, Heads(p, Analysis(t), CodeSteps(t))
  PROVE  JoinsIn(p) /\ ApartIn(p) /\ TypedIn(t, p) /\ CoversIn(t, p)
<1>0. t.files \in Nat /\ t.files >= 1
  BY DraftFiles DEF Parallelizable
<1>c. PICK cap : cap = CapabilityOf(t)
  OBVIOUS
<1>1. MaxFilesPerCluster(t) \in {1, 2, 3}
  BY DEF MaxFilesPerCluster, DraftTasks
<1>2. PICK c : c = ClusterPlanFiles(t.files, MaxFilesPerCluster(t))
  OBVIOUS
<1>p. PICK k \in Nat : Partition(c, k, t.files)
  <2>1. \E k : Partition(c, k, t.files)
    BY <1>0, <1>1, <1>2, ClustersPartition
  <2> QED BY <2>1 DEF Partition
<1>3. /\ k \in Nat /\ k >= 1 /\ DOMAIN c = 1 .. k
      /\ \A i \in 1 .. k : \E lo, hi \in Int : lo >= 1 /\ hi <= t.files /\ c[i] = lo .. hi
      /\ \A i, j \in 1 .. k : i # j => c[i] \cap c[j] = {}
      /\ UNION {c[i] : i \in 1 .. k} = 1 .. ClusterLimit(t.files)
  BY <1>p DEF Partition
<1>4. PICK branches : branches = [i \in 1 .. k |-> Step(<<"branch", i>>, cap, {<<"analyze", 0>>}, c[i])]
  OBVIOUS
<1>5. PICK all : all = 1 .. t.files
  OBVIOUS
<1>6. PICK m, v : /\ m = Step(<<"merge-review", 0>>, "review", {<<"branch", i>> : i \in 1 .. k}, all)
                  /\ v = Step(<<"test", 0>>, "test", {<<"merge-review", 0>>}, all)
  OBVIOUS
<1>7. PICK u : u = <<m, v>>
  OBVIOUS
<1>8. Concat(CodeSteps(t), branches, u)
  BY <1>0, <1>c, <1>2, <1>3, <1>4, <1>5, <1>6, <1>7 DEF CodeSteps, Concat
<1>9. PICK S : S = {branches[i] : i \in 1 .. k} \cup {m, v}
  OBVIOUS
<1>10. PICK two : two = 2
  OBVIOUS
<1>11. two \in Nat /\ Row(branches, k, S) /\ Row(u, two, S) /\ u[1] = m /\ u[2] = v
  <2>1. Row(branches, k, S)
    <3>1. branches \in [1 .. k -> {branches[i] : i \in 1 .. k}]
      BY <1>4
    <3> QED BY <1>9, <3>1 DEF Row
  <2>2. Row(<<m, v>>, 2, S)
    BY <1>9 DEF Row
  <2>3. two \in Nat /\ u[1] = m /\ u[2] = v
    BY <1>7, <1>10
  <2> QED BY <1>7, <1>10, <2>1, <2>2, <2>3
<1>12. PICK q : q = CodeSteps(t)
  OBVIOUS
<1>13. /\ Row(q, k + two, S)
       /\ \A i \in 1 .. k : q[i] = branches[i]
       /\ \A i \in 1 .. two : q[k + i] = u[i]
  <2>1. Concat(q, branches, u)
    BY <1>8, <1>12
  <2> QED BY <1>11, <2>1, ConcatFun
<1>14. PICK n \in Nat : n = k + 2
  BY <1>3
<1>15. n \in Nat /\ q = [i \in 1 .. n |-> q[i]] /\ q[k + 1] = m /\ q[k + 2] = v
  BY <1>10, <1>11, <1>13, <1>14 DEF Row
<1>16. /\ DOMAIN p = 1 .. (n + 1) /\ Len(p) = n + 1 /\ p[1] = Analysis(t)
       /\ \A i \in 1 .. n : p[i + 1] = q[i]
  <2>1. PICK first : first = Analysis(t)
    OBVIOUS
  <2>2. Heads(p, first, q)
    BY <1>12, <2>1
  <2>3. q = [i \in 1 .. n |-> q[i]]
    BY <1>15
  <2>4. /\ DOMAIN p = 1 .. (n + 1) /\ Len(p) = n + 1 /\ p[1] = first
        /\ \A i \in 1 .. n : p[i + 1] = q[i]
    BY <2>2, <2>3, HeadsIs
  <2> QED BY <2>1, <2>4
<1>17. /\ DOMAIN p = 1 .. (k + 3) /\ Len(p) = k + 3
       /\ \A i \in 2 .. (k + 1) : p[i] = branches[i - 1]
       /\ p[k + 2] = m /\ p[k + 3] = v
  <2>1. DOMAIN p = 1 .. (k + 3) /\ Len(p) = k + 3
    BY <1>14, <1>16
  <2>2. ASSUME NEW i \in 2 .. (k + 1) PROVE p[i] = branches[i - 1]
    <3>1. i - 1 \in 1 .. n /\ i - 1 \in 1 .. k /\ (i - 1) + 1 = i
      BY <1>14
    <3>2. p[(i - 1) + 1] = q[i - 1]
      BY <1>16, <3>1
    <3> QED BY <1>13, <3>1, <3>2
  <2>3. k + 1 \in 1 .. n /\ k + 2 \in 1 .. n /\ (k + 1) + 1 = k + 2 /\ (k + 2) + 1 = k + 3
    BY <1>14
  <2>4. p[(k + 1) + 1] = q[k + 1] /\ p[(k + 2) + 1] = q[k + 2]
    BY <1>16, <2>3
  <2> QED BY <1>15, <2>1, <2>2, <2>3, <2>4
<1>18. /\ m.id = <<"merge-review", 0>> /\ m.after = {<<"branch", i>> : i \in 1 .. k} /\ m.files = all
       /\ v.id = <<"test", 0>> /\ v.after = {<<"merge-review", 0>>} /\ v.files = all
  BY <1>6 DEF Step
<1>19. ASSUME NEW i \in 2 .. (k + 1)
       PROVE  /\ i - 1 \in 1 .. k
              /\ p[i].id = <<"branch", i - 1>> /\ p[i].after = {<<"analyze", 0>>}
              /\ p[i].files = c[i - 1]
  <2>1. i - 1 \in 1 .. k
    OBVIOUS
  <2>2. branches[i - 1] = Step(<<"branch", i - 1>>, cap, {<<"analyze", 0>>}, c[i - 1])
    BY <1>4, <2>1
  <2> QED BY <1>17, <2>1, <2>2 DEF Step
<1>20. /\ p[1].id = <<"analyze", 0>> /\ p[1].after = {} /\ p[1].files = 1 .. t.files
       /\ Typed(p[1], t.files)
  BY <1>16, AnalysisIs
<1>21. \A i \in 1 .. (k + 3) : i = 1 \/ i \in 2 .. (k + 1) \/ i = k + 2 \/ i = k + 3
  BY <1>3
<1>22. ASSUME NEW i \in 1 .. (k + 3), NEW j \in 1 .. (k + 3), p[i].id = p[j].id PROVE i = j
  <2>0. \A a \in 1 .. k : /\ <<"branch", a>> # <<"analyze", 0>> /\ <<"branch", a>> # <<"test", 0>>
                          /\ <<"branch", a>> # <<"merge-review", 0>>
    OBVIOUS
  <2>1. CASE i \in 2 .. (k + 1) /\ j \in 2 .. (k + 1)
    <3>1. <<"branch", i - 1>> = <<"branch", j - 1>>
      BY <1>19, <1>22, <2>1
    <3> QED BY <2>1, <3>1
  <2>2. CASE i \in 2 .. (k + 1) /\ j \notin 2 .. (k + 1)
    <3>0. j = 1 \/ j = k + 2 \/ j = k + 3
      BY <1>21, <2>2
    <3>1. i - 1 \in 1 .. k /\ p[i].id = <<"branch", i - 1>>
      BY <1>19, <2>2
    <3>2. p[j].id \in {<<"analyze", 0>>, <<"merge-review", 0>>, <<"test", 0>>}
      BY <1>17, <1>18, <1>20, <3>0
    <3> QED BY <1>22, <2>0, <3>1, <3>2
  <2>3. CASE i \notin 2 .. (k + 1) /\ j \in 2 .. (k + 1)
    <3>0. i = 1 \/ i = k + 2 \/ i = k + 3
      BY <1>21, <2>3
    <3>1. j - 1 \in 1 .. k /\ p[j].id = <<"branch", j - 1>>
      BY <1>19, <2>3
    <3>2. p[i].id \in {<<"analyze", 0>>, <<"merge-review", 0>>, <<"test", 0>>}
      BY <1>17, <1>18, <1>20, <3>0
    <3> QED BY <1>22, <2>0, <3>1, <3>2
  <2>4. CASE i \notin 2 .. (k + 1) /\ j \notin 2 .. (k + 1)
    <3>1. (i = 1 \/ i = k + 2 \/ i = k + 3) /\ (j = 1 \/ j = k + 2 \/ j = k + 3)
      BY <1>21, <2>4
    <3> QED BY <1>17, <1>18, <1>20, <1>22, <3>1
  <2> QED BY <2>1, <2>2, <2>3, <2>4
<1>23. Cardinality({p[i].id : i \in DOMAIN p}) = Len(p)
  <2>1. PICK w \in Nat : w = k + 3
    BY <1>3
  <2>2. DOMAIN p = 1 .. w /\ Len(p) = w
    BY <1>17, <2>1
  <2>3. \A i, j \in 1 .. w : p[i].id = p[j].id => i = j
    BY <1>22, <2>1
  <2>4. Cardinality({p[i].id : i \in DOMAIN p}) = w
    BY <2>2, <2>3, IdsCounted
  <2> QED BY <2>2, <2>4
<1>24. ASSUME NEW i \in DOMAIN p PROVE p[i].after \subseteq {p[j].id : j \in 1..(i - 1)}
  <2>1. CASE i = 1
    BY <1>20, <2>1
  <2>2. CASE i \in 2 .. (k + 1)
    <3>1. 1 \in 1 .. (i - 1)
      BY <2>2
    <3> QED BY <1>19, <1>20, <2>2, <3>1
  <2>3. CASE i = k + 2
    <3>1. ASSUME NEW a \in 1 .. k PROVE <<"branch", a>> \in {p[j].id : j \in 1..(i - 1)}
      <4>1. a + 1 \in 2 .. (k + 1) /\ a + 1 \in 1 .. (i - 1) /\ (a + 1) - 1 = a
        BY <2>3
      <4>2. p[a + 1].id = <<"branch", a>>
        BY <1>19, <4>1
      <4> QED BY <4>1, <4>2
    <3>2. \A w \in m.after : w \in {p[j].id : j \in 1..(i - 1)}
      BY <1>18, <3>1
    <3>3. p[i].after = m.after
      BY <1>17, <2>3
    <3> QED BY <3>2, <3>3
  <2>4. CASE i = k + 3
    <3>1. k + 2 \in 1 .. (i - 1)
      BY <2>4
    <3> QED BY <1>17, <1>18, <2>4, <3>1
  <2> QED BY <1>17, <1>21, <2>1, <2>2, <2>3, <2>4
<1>25. ASSUME NEW i \in DOMAIN p \ {1} PROVE p[i].after # {}
  <2>1. 1 \in 1 .. k
    BY <1>3
  <2>2. m.after # {} /\ v.after # {}
    <3>1. <<"branch", 1>> \in m.after
      BY <1>18, <2>1
    <3> QED BY <1>18, <3>1
  <2>3. i \in 2 .. (k + 1) \/ i = k + 2 \/ i = k + 3
    BY <1>17, <1>21
  <2> QED BY <1>17, <1>19, <2>2, <2>3
<1>26. ASSUME NEW i \in DOMAIN p \ {Len(p)} PROVE \E j \in DOMAIN p : p[i].id \in p[j].after
  <2>0. i = 1 \/ i \in 2 .. (k + 1) \/ i = k + 2
    BY <1>17, <1>21
  <2>1. CASE i = 1
    <3>1. 2 \in 2 .. (k + 1) /\ 2 \in DOMAIN p
      BY <1>3, <1>17
    <3>2. p[2].after = {<<"analyze", 0>>}
      BY <1>19, <3>1
    <3> QED BY <1>20, <2>1, <3>1, <3>2
  <2>2. CASE i \in 2 .. (k + 1)
    <3>0. i - 1 \in 1 .. k /\ p[i].id = <<"branch", i - 1>>
      BY <1>19, <2>2
    <3>1. p[i].id \in p[k + 2].after
      BY <1>17, <1>18, <3>0
    <3>2. k + 2 \in DOMAIN p
      BY <1>17
    <3> QED BY <3>1, <3>2
  <2>3. CASE i = k + 2
    <3>1. k + 3 \in DOMAIN p
      BY <1>17
    <3> QED BY <1>17, <1>18, <2>3, <3>1
  <2> QED BY <2>0, <2>1, <2>2, <2>3
<1>27. JoinsIn(p)
  BY <1>23, <1>24, <1>25, <1>26 DEF JoinsIn
<1>28. ASSUME NEW i \in DOMAIN p, NEW j \in DOMAIN p, i # j, p[i].after = p[j].after
       PROVE  p[i].files \cap p[j].files = {}
  <2>1. CASE i \in 2 .. (k + 1) /\ j \in 2 .. (k + 1)
    <3>1. i - 1 # j - 1
      BY <1>28, <2>1
    <3> QED BY <1>3, <1>19, <2>1, <3>1
  <2>2. <<"branch", 1>> \in m.after /\ <<"branch", 1>> # <<"analyze", 0>> /\ <<"branch", 1>> # <<"merge-review", 0>>
    BY <1>3, <1>18
  <2>3. <<"merge-review", 0>> # <<"analyze", 0>>
    OBVIOUS
  <2>4. CASE i \notin 2 .. (k + 1) \/ j \notin 2 .. (k + 1)
    <3>1. i = 1 \/ i \in 2 .. (k + 1) \/ i = k + 2 \/ i = k + 3
      BY <1>17, <1>21
    <3>2. j = 1 \/ j \in 2 .. (k + 1) \/ j = k + 2 \/ j = k + 3
      BY <1>17, <1>21
    <3>3. m.after # v.after /\ m.after # {<<"analyze", 0>>} /\ v.after # {<<"analyze", 0>>} /\ m.after # {} /\ v.after # {}
      BY <1>18, <2>2, <2>3
    <3>4. \A h \in 2 .. (k + 1) : p[h].after = {<<"analyze", 0>>}
      BY <1>19
    <3>5. p[1].after = {} /\ p[k + 2] = m /\ p[k + 3] = v /\ p[i].after = p[j].after /\ i # j
      BY <1>17, <1>20, <1>28
    <3>6. {<<"analyze", 0>>} # {}
      OBVIOUS
    <3>7. CASE i = 1
      BY <3>2, <3>3, <3>4, <3>5, <3>6, <3>7
    <3>8. CASE i \in 2 .. (k + 1)
      BY <2>4, <3>2, <3>3, <3>4, <3>5, <3>6, <3>8
    <3>9. CASE i = k + 2
      BY <3>2, <3>3, <3>4, <3>5, <3>9
    <3>10. CASE i = k + 3
      BY <3>2, <3>3, <3>4, <3>5, <3>10
    <3> QED BY <3>1, <3>7, <3>8, <3>9, <3>10
  <2> QED BY <2>1, <2>4
<1>29. ApartIn(p)
  BY <1>28 DEF ApartIn
<1>30. TypedIn(t, p)
  <2>0. OfFiles(m, t.files)
    BY <1>0, <1>5, <1>6, OverAll
  <2>1. OfFiles(v, t.files)
    BY <1>0, <1>5, <1>6, OverAll
  <2>2. ASSUME NEW i \in 2 .. (k + 1) PROVE OfFiles(p[i], t.files)
    <3>1. i - 1 \in 1 .. k /\ p[i] = branches[i - 1]
      BY <1>17
    <3>2. p[i] = Step(<<"branch", i - 1>>, cap, {<<"analyze", 0>>}, c[i - 1])
      BY <1>4, <3>1
    <3>3. PICK lo \in Int, hi \in Int : lo >= 1 /\ hi <= t.files /\ c[i - 1] = lo .. hi
      BY <1>3, <3>1
    <3> QED BY <3>2, <3>3 DEF OfFiles
  <2>3. ASSUME NEW i \in DOMAIN p, i # 1 PROVE OfFiles(p[i], t.files)
    BY <1>17, <1>21, <2>0, <2>1, <2>2, <2>3
  <2>4. ASSUME NEW i \in DOMAIN p PROVE Typed(p[i], t.files)
    <3>1. CASE i = 1
      BY <1>20, <3>1
    <3>2. CASE i # 1
      BY <1>0, <2>3, <3>2, OverTyped
    <3> QED BY <3>1, <3>2
  <2> QED BY <2>4 DEF TypedIn
<1>31. CoveredBy(p) = 1 .. ClusterLimit(t.files)
  <2>1. {j \in DOMAIN p : p[j].id[1] \in {"implement", "branch"}} = 2 .. (k + 1)
    <3>1. \A j \in 2 .. (k + 1) : j \in DOMAIN p /\ p[j].id[1] = "branch"
      BY <1>17, <1>19
    <3>2. p[1].id[1] = "analyze" /\ p[k + 2].id[1] = "merge-review" /\ p[k + 3].id[1] = "test"
      BY <1>17, <1>18, <1>20
    <3> QED BY <1>0, <1>17, <1>21, <3>1, <3>2
  <2>2. {p[i].files : i \in 2 .. (k + 1)} = {c[i] : i \in 1 .. k}
    <3>1. \A i \in 2 .. (k + 1) : i - 1 \in 1 .. k /\ p[i].files = c[i - 1]
      BY <1>19
    <3>2. \A i \in 1 .. k : i + 1 \in 2 .. (k + 1) /\ (i + 1) - 1 = i
      OBVIOUS
    <3>3. \A i \in 1 .. k : p[i + 1].files = c[i]
      BY <3>1, <3>2
    <3> QED BY <3>1, <3>2, <3>3
  <2> QED BY <1>3, <2>1, <2>2 DEF CoveredBy
<1>32. CoversIn(t, p)
  <2>1. CASE DrClusterLimit > 0 /\ t.files > DrClusterLimit
    BY <1>31, <2>1 DEF CoversIn, ClusterLimit
  <2>2. CASE ~(DrClusterLimit > 0 /\ t.files > DrClusterLimit)
    <3>1. ClusterLimit(t.files) = t.files
      BY <2>2 DEF ClusterLimit
    <3> QED BY <1>31, <3>1 DEF CoversIn
  <2> QED BY <2>1, <2>2
<1> QED BY <1>27, <1>29, <1>30, <1>32

\* Whatever the task, its draft is as it should be.
LEMMA DraftsSound ==
  ASSUME NEW t \in DraftTasks, NEW p, p = DefaultSteps(t)
  PROVE  /\ JoinsIn(p) /\ ApartIn(p) /\ TypedIn(t, p)
         /\ t.type \in {"code", "fix"} /\ ~Sourcecraft(t) => CoversIn(t, p)
<1>1. CASE Sourcecraft(t) \/ t.type \notin {"code", "fix"}
  BY <1>1, RowDrafts
<1>2. CASE ~Sourcecraft(t) /\ t.type \in {"code", "fix"}
  <2>1. Heads(p, Analysis(t), CodeSteps(t))
    BY <1>2 DEF DefaultSteps, Heads, Analysis
  <2> QED BY <1>2, <2>1, PlainDrafts, SplitDrafts, SMTT(40)
<1> QED BY <1>1, <1>2

DraftInv == drTask \in DraftTasks /\ (drPlan = <<>> \/ drPlan = DefaultSteps(drTask))

LEMMA DraftInvSound ==
  ASSUME DraftInv
  PROVE  DrTypeOK /\ DraftJoins /\ BranchesApart /\ FilesHaveAStep
<1>1. CASE drPlan = <<>>
  BY <1>1 DEF DraftInv, DrTypeOK, DraftJoins, BranchesApart, FilesHaveAStep, Drafted
<1>2. CASE drPlan = DefaultSteps(drTask)
  <2>1. /\ JoinsIn(drPlan) /\ ApartIn(drPlan) /\ TypedIn(drTask, drPlan)
        /\ drTask.type \in {"code", "fix"} /\ ~Sourcecraft(drTask) => CoversIn(drTask, drPlan)
    BY <1>2, DraftsSound DEF DraftInv
  <2>2. DrTypeOK
    BY <2>1 DEF DraftInv, DrTypeOK, TypedIn, Typed
  <2>3. DraftJoins
    BY <2>1 DEF DraftJoins, JoinsIn, StepIds
  <2>4. BranchesApart
    <3> SUFFICES ASSUME NEW i \in DOMAIN drPlan, NEW j \in DOMAIN drPlan, i # j, drPlan[i].after = drPlan[j].after,
                        NEW path \in drPlan[i].keys \cap drPlan[j].keys
                 PROVE  \E m, n \in 1..drTask.files : m # n /\ DrPath[m] = path /\ DrPath[n] = path
      BY DEF BranchesApart
    <3>1. Typed(drPlan[i], drTask.files) /\ Typed(drPlan[j], drTask.files)
      BY <2>1 DEF TypedIn
    <3>2. PICK m \in drPlan[i].files, n \in drPlan[j].files : DrPath[m] = path /\ DrPath[n] = path
      BY <3>1 DEF Typed
    <3>3. m # n
      BY <2>1, <3>2 DEF ApartIn
    <3> QED BY <3>1, <3>2, <3>3 DEF Typed
  <2>5. FilesHaveAStep
    BY <2>1 DEF FilesHaveAStep, CoversIn, CoveredBy
  <2> QED BY <2>2, <2>3, <2>4, <2>5
<1> QED BY <1>1, <1>2 DEF DraftInv

LEMMA DraftNext == ASSUME DraftInv, [DrNext]_drVars PROVE DraftInv'
  BY DEF DraftInv, DrNext, BuildPlan, drVars

-----------------------------------------------------------------------------
(* Plans and submissions as the runs put them together.                    *)

RoutingInv == SubmissionInv /\ (part = "plan" => PlanKept)

LEMMA RoutingNext ==
  ASSUME RoutingInv, [MCNext]_mcVars
  PROVE  /\ RoutingInv'
         /\ part = "plan" => NoRework /\ ProgressKept
         /\ StruckLaneNeedsHelp
<1>1. [PsNext]_psVars
  BY DEF MCNext, mcVars, OfPlan, OfBroken, OfRouting, OfDraft, OfSubmission
<1>2. part' = part /\ (part = "plan" => [Next]_vars)
  BY DEF MCNext, mcVars, OfPlan, OfBroken, OfRouting, OfDraft, OfSubmission
<1>3. SubmissionInv' /\ StruckLaneNeedsHelp
  BY <1>1, PsNextInv, StruckLane DEF RoutingInv
<1>4. part = "plan" => PlanKept' /\ NoRework /\ ProgressKept
  BY <1>2, NextPlanKept, PlanStepKeeps DEF RoutingInv
<1> QED BY <1>2, <1>3, <1>4 DEF RoutingInv

\* When calls for a plan do not overlap, the progress a resume reads is kept
\* until the task is planned again and an artifact completed there is not run
\* again; and whether or not submissions overlap, a lane that failed too often
\* gets first attempts only after an operator's help.
THEOREM NothingTriedAgainCorrect == MCSpec => NothingTriedAgain
<1>1. MCInit => RoutingInv
  BY InitPlanKept, PsInitInv DEF MCInit, RoutingInv
<1>2. RoutingInv /\ [MCNext]_mcVars
        => /\ RoutingInv'
           /\ part = "plan" => NoRework /\ ProgressKept
           /\ StruckLaneNeedsHelp
  BY RoutingNext
<1> QED BY <1>1, <1>2, PTL DEF MCSpec, NothingTriedAgain

\* The plan's own state, the draft's, and why a plan is blocked.
PlansInv ==
  /\ TypeOK /\ DraftInv
  /\ part = "broken" => CauseInv(Dangling)
  /\ part # "broken" => CauseInv(Deps)

LEMMA PlansInvHolds == ASSUME PlansInv PROVE PlansHold
<1>1. DrTypeOK /\ DraftJoins /\ BranchesApart /\ FilesHaveAStep
  BY DraftInvSound DEF PlansInv
<1>2. CASE part = "broken"
  <2>1. CauseInv(Dangling)
    BY <1>2 DEF PlansInv
  <2>2. Broken!BlockedHasCause
    BY <2>1 DEF CauseInv, HasCause, Broken!BlockedHasCause
  <2> QED BY <1>1, <1>2, <2>2 DEF PlansHold, PlansInv
<1>3. CASE part # "broken"
  <2>1. CauseInv(Deps)
    BY <1>3 DEF PlansInv
  <2>2. BlockedHasCause
    BY <2>1 DEF CauseInv, HasCause, BlockedHasCause
  <2> QED BY <1>1, <1>3, <2>2 DEF PlansHold, PlansInv
<1> QED BY <1>2, <1>3

LEMMA InitPlansInv == ASSUME MCInit PROVE PlansInv
<1>1. TypeOK
  BY InitTypeOK DEF MCInit
<1>2. DraftInv
  <2>1. CASE part = "draft"
    BY <2>1 DEF MCInit, DrInit, DraftInv
  <2>2. CASE part # "draft"
    <3>1. drTask = [type |-> "code", required |-> "", keyword |-> FALSE, files |-> 0, criteria |-> 0,
                    complexity |-> "low"]
          /\ drPlan = <<>>
      BY <2>2 DEF MCInit
    <3>2. 0 \in 0 .. DrMaxFiles
      BY DraftAssumption
    <3>3. [type |-> "code", required |-> "", keyword |-> FALSE, files |-> 0, criteria |-> 0,
                    complexity |-> "low"] \in DraftTasks
      BY <3>2 DEF DraftTasks, TaskTypes
    <3> QED BY <3>1, <3>3 DEF DraftInv
  <2> QED BY <2>1, <2>2
<1>3. ASSUME NEW deps PROVE CauseInv(deps)
  BY DEF MCInit, Init, CauseInv, HasCause, Absent
<1> QED BY <1>1, <1>2, <1>3 DEF PlansInv

LEMMA NextPlansInv == ASSUME PlansInv, [MCNext]_mcVars PROVE PlansInv'
<1>1. part' = part /\ [DrNext]_drVars
  BY DEF MCNext, mcVars, OfPlan, OfBroken, OfRouting, OfDraft, OfSubmission
<1>2. DraftInv'
  BY <1>1, DraftNext DEF PlansInv
<1>3. CASE part = "broken" /\ Broken!Next
  <2>1. PlanStep(Dangling, FALSE)
    BY <1>3, BrokenIsPlanStep
  <2>2. TypeOK' /\ CauseInv(Dangling)'
    BY <1>3, <2>1, PlanStepType, PlanStepCause DEF PlansInv
  <2> QED BY <1>1, <1>2, <1>3, <2>2 DEF PlansInv
<1>4. CASE part # "broken" /\ [Next]_vars
  <2>1. PlanStep(Deps, Async)
    BY <1>4, NextIsPlanStep
  <2>2. TypeOK' /\ CauseInv(Deps)'
    BY <1>4, <2>1, PlanStepType, PlanStepCause DEF PlansInv
  <2> QED BY <1>1, <1>2, <1>4, <2>2 DEF PlansInv
<1>5. CASE UNCHANGED vars
  <2>1. PlanStep(Deps, Async) /\ PlanStep(Dangling, FALSE)
    BY <1>5 DEF PlanStep
  <2>2. TypeOK'
    BY <2>1, PlanStepType DEF PlansInv
  <2>3. part = "broken" => CauseInv(Dangling)'
    BY <2>1, PlanStepCause DEF PlansInv
  <2>4. part # "broken" => CauseInv(Deps)'
    BY <2>1, PlanStepCause DEF PlansInv
  <2> QED BY <1>1, <1>2, <2>2, <2>3, <2>4 DEF PlansInv
<1> QED BY <1>3, <1>4, <1>5 DEF MCNext, mcVars, OfPlan, OfBroken, OfRouting, OfDraft, OfSubmission

\* For tasks of any number of files and any limit on clusters, a draft joins its
\* steps, keeps branches apart but for files listed twice and gives every file a
\* step; and for any plan,
\* with unknown dependencies and overlapping calls too, one that is reported
\* blocked lacks dependencies: conflict keys alone never block it.
THEOREM PlansHoldCorrect == MCSpec => []PlansHold
<1>1. MCInit => PlansInv BY InitPlansInv
<1>2. PlansInv /\ [MCNext]_mcVars => PlansInv' BY NextPlansInv
<1>3. PlansInv => PlansHold BY PlansInvHolds
<1> QED BY <1>1, <1>2, <1>3, PTL DEF MCSpec


-----------------------------------------------------------------------------
(* Induction over the natural numbers, with a set in place of a predicate,  *)
(* from the well-foundedness of <.                                         *)

LEMMA NumbersInduction ==
  ASSUME NEW T \in SUBSET Nat, 0 \in T, \A n \in T : n + 1 \in T
  PROVE  \A n \in Nat : n \in T
<1> DEFINE R == {q \in Nat \X Nat : q[1] < q[2]}
           C == Nat \ T
<1>1. IsWellFoundedOn(R, Nat)
  BY NatLessThanWellFounded DEF OpToRel
<1> SUFFICES ASSUME C # {} PROVE FALSE
  OBVIOUS
<1>2. \E u \in C : \A y \in C : ~(<<y, u>> \in R)
  <2> HIDE DEF R
  <2>1. C \subseteq Nat
    OBVIOUS
  <2> HIDE DEF C
  <2> QED BY <1>1, <2>1, WFMin
<1>3. PICK u \in C : \A y \in C : ~(<<y, u>> \in R)
  BY <1>2
<1>4. u \in Nat /\ u # 0 /\ u - 1 \in Nat /\ u - 1 < u /\ (u - 1) + 1 = u
  OBVIOUS
<1>5. PICK z \in Nat : z = u - 1
  BY <1>4
<1>6. <<z, u>> \in R
  BY <1>4, <1>5
<1>7. z \notin C
  BY <1>3, <1>6
<1>8. z + 1 \in T
  BY <1>5, <1>7
<1> QED BY <1>4, <1>5, <1>8


\* One turn of the router's loop.
BestStep(ids, t, c, g, i) ==
  IF i = 0 THEN 0
  ELSE IF RtAgents[i].id \in ids
          /\ (g[i - 1] = 0 \/ ScoreAgent(RtAgents[i].id, t, c) > ScoreAgent(RtAgents[g[i - 1]].id, t, c)) THEN i
  ELSE g[i - 1]

LEMMA BestExists ==
  ASSUME NEW ids, NEW t, NEW c, NEW n \in Nat
  PROVE  \E g : g = [i \in 0..n |-> BestStep(ids, t, c, g, i)]
<1> DEFINE T == {k \in Nat : \E g : g = [i \in 0..k |-> BestStep(ids, t, c, g, i)]}
<1>1. 0 \in T
  <2> DEFINE g == [i \in 0..0 |-> 0]
  <2>1. g = [i \in 0..0 |-> BestStep(ids, t, c, g, i)]
    BY DEF BestStep
  <2> HIDE DEF g
  <2> QED BY <2>1
<1>2. ASSUME NEW k \in T PROVE k + 1 \in T
  <2>1. k \in Nat
    OBVIOUS
  <2>2. PICK g : g = [i \in 0..k |-> BestStep(ids, t, c, g, i)]
    OBVIOUS
  <2> DEFINE h == [i \in 0..(k + 1) |-> BestStep(ids, t, c, g, i)]
  <2>3. ASSUME NEW i \in 0..k PROVE h[i] = g[i]
    <3>1. h[i] = BestStep(ids, t, c, g, i)
      BY <2>1
    <3>2. g[i] = BestStep(ids, t, c, g, i)
      BY <2>2
    <3> QED BY <3>1, <3>2
  <2>4. ASSUME NEW i \in 0..(k + 1) PROVE BestStep(ids, t, c, g, i) = BestStep(ids, t, c, h, i)
    <3>1. CASE i = 0
      BY <3>1 DEF BestStep
    <3>2. CASE i # 0
      <4>1. i - 1 \in 0..k
        BY <2>1, <3>2
      <4>2. h[i - 1] = g[i - 1]
        <5> HIDE DEF h
        <5> QED BY <2>3, <4>1
      <4> HIDE DEF h
      <4> QED BY <3>2, <4>2 DEF BestStep
    <3> QED BY <3>1, <3>2
  <2>5. h = [i \in 0..(k + 1) |-> BestStep(ids, t, c, h, i)]
    <3>1. h = [i \in 0..(k + 1) |-> BestStep(ids, t, c, g, i)]
      OBVIOUS
    <3> HIDE DEF h
    <3> QED BY <2>4, <3>1
  <2> HIDE DEF h
  <2> QED BY <2>1, <2>5
<1>3. n \in T
  <2>1. T \in SUBSET Nat
    OBVIOUS
  <2> HIDE DEF T
  <2> QED BY <1>1, <1>2, <2>1, NumbersInduction
<1> QED BY <1>3

LEMMA AgentsListed == RtAgents \in Seq(AgentRecords) /\ Len(RtAgents) \in Nat /\ DOMAIN RtAgents = 1..Len(RtAgents)
<1>1. RtAgents \in Seq(AgentRecords)
  BY RoutingAssumption, Zenon
<1>2. PICK S : S = AgentRecords
  OBVIOUS
<1>3. RtAgents \in Seq(S)
  BY <1>1, <1>2
<1>4. Len(RtAgents) \in Nat /\ DOMAIN RtAgents = 1..Len(RtAgents)
  BY <1>3
<1> QED BY <1>1, <1>4

BestFun(ids, t, c) == CHOOSE g : g = [i \in 0..Len(RtAgents) |-> BestStep(ids, t, c, g, i)]

LEMMA BestUnfold ==
  ASSUME NEW ids, NEW t, NEW c
  PROVE  /\ Best(ids, t, c) = RtAgents[BestFun(ids, t, c)[Len(RtAgents)]].id
         /\ \A i \in 0..Len(RtAgents) : BestFun(ids, t, c)[i] = BestStep(ids, t, c, BestFun(ids, t, c), i)
<1>1. Best(ids, t, c) = RtAgents[BestFun(ids, t, c)[Len(RtAgents)]].id
  BY Zenon DEF Best, BestFun, BestStep
<1>2. PICK n \in Nat : n = Len(RtAgents)
  BY AgentsListed
<1>4. BestFun(ids, t, c) = [i \in 0..Len(RtAgents) |-> BestStep(ids, t, c, BestFun(ids, t, c), i)]
  BY <1>2, BestExists, SMTT(40) DEF BestFun
<1>5. \A i \in 0..Len(RtAgents) : BestFun(ids, t, c)[i] = BestStep(ids, t, c, BestFun(ids, t, c), i)
  BY <1>4
<1> QED BY <1>1, <1>5

Scored(t, c) == \A id \in Ids : ScoreAgent(id, t, c) \in Int
AgentPlace(id) == CHOOSE i \in DOMAIN RtAgents : RtAgents[i].id = id

LEMMA AgentIds ==
  /\ \A i \in 1..Len(RtAgents) : /\ RtAgents[i].id \in Ids /\ RtAgents[i].id # "" /\ AgentPlace(RtAgents[i].id) = i
                                 /\ RtAgents[i] \in AgentRecords
  /\ \A id \in Ids : \E i \in 1..Len(RtAgents) : RtAgents[i].id = id
  /\ \A id \in Ids : AgentOf(id) \in AgentRecords /\ AgentOf(id).id = id
<1>1. RtAgents \in Seq(AgentRecords) /\ DOMAIN RtAgents = 1..Len(RtAgents) /\ Len(RtAgents) \in Nat
  BY AgentsListed
<1>2. \A i, j \in 1..Len(RtAgents) : RtAgents[i].id = RtAgents[j].id => i = j
  BY <1>1, RoutingAssumption DEF IsInjective
<1>3. ToSet(RtAgents) = {RtAgents[i] : i \in 1..Len(RtAgents)}
  BY <1>1 DEF ToSet
<1>4. \A i \in 1..Len(RtAgents) : RtAgents[i] \in AgentRecords
  BY <1>1
<1>5. \A i \in 1..Len(RtAgents) : RtAgents[i].id \in Ids /\ RtAgents[i].id # "" /\ AgentPlace(RtAgents[i].id) = i
  <2>1. \A r \in AgentRecords : r.id # ""
    BY DEF AgentRecords
  <2>2. \A i \in 1..Len(RtAgents) : RtAgents[i].id \in Ids /\ RtAgents[i].id # ""
    BY <1>3, <1>4, <2>1 DEF Ids
  <2>3. \A i \in 1..Len(RtAgents) : AgentPlace(RtAgents[i].id) = i
    BY <1>1, <1>2 DEF AgentPlace
  <2> QED BY <2>2, <2>3
<1>6. \A id \in Ids : \E i \in 1..Len(RtAgents) : RtAgents[i].id = id
  BY <1>3 DEF Ids
<1>7. \A id \in Ids : AgentOf(id) \in ToSet(RtAgents) /\ AgentOf(id).id = id
  BY DEF Ids, AgentOf
<1>8. \A id \in Ids : AgentOf(id) \in AgentRecords
  BY <1>3, <1>4, <1>7
<1> QED BY <1>4, <1>5, <1>6, <1>7, <1>8

\* The best of the first k agents: A are the candidates, sc the scores.
Leads(A, sc, b, k) ==
  \/ b = 0 /\ \A l \in 1..k : l \notin A
  \/ b \in 1..k /\ b \in A /\ \A l \in 1..k : l \in A => sc[b] > sc[l] \/ (sc[b] = sc[l] /\ b <= l)

LEMMA LeadsStep ==
  ASSUME NEW n \in Nat, NEW A \in SUBSET (1..n), NEW sc \in [1..n -> Int], NEW k \in Nat, k + 1 <= n,
         NEW b, Leads(A, sc, b, k), NEW d,
         d = IF k + 1 \in A /\ (b = 0 \/ sc[k + 1] > sc[b]) THEN k + 1 ELSE b
  PROVE  Leads(A, sc, d, k + 1)
<1>1. CASE b = 0 /\ \A l \in 1..k : l \notin A
  BY <1>1 DEF Leads
<1>2. CASE b \in 1..k /\ b \in A /\ \A l \in 1..k : l \in A => sc[b] > sc[l] \/ (sc[b] = sc[l] /\ b <= l)
  <2>1. b # 0 /\ b \in 1..n /\ k + 1 \in 1..n /\ \A l \in 1..(k + 1) : l \in 1..n /\ (l \in 1..k \/ l = k + 1)
    BY <1>2
  <2>2. CASE k + 1 \in A /\ sc[k + 1] > sc[b]
    <3>1. d = k + 1
      BY <2>2
    <3>2. ASSUME NEW l \in 1..(k + 1), l \in A PROVE sc[d] > sc[l] \/ (sc[d] = sc[l] /\ d <= l)
      <4>1. CASE l = k + 1
        <5>1. d = l
          BY <3>1, <4>1, Zenon
        <5>2. l <= l
          OBVIOUS
        <5> QED BY <5>1, <5>2, Zenon
      <4>2. CASE l # k + 1
        <5>1. sc[b] >= sc[l] /\ sc[b] \in Int /\ sc[l] \in Int /\ sc[d] \in Int
          BY <1>2, <2>1, <3>1, <3>2, <4>2
        <5> QED BY <2>2, <3>1, <5>1
      <4> QED BY <4>1, <4>2
    <3> QED BY <2>2, <3>1, <3>2 DEF Leads
  <2>3. CASE ~(k + 1 \in A /\ sc[k + 1] > sc[b])
    <3>1. d = b
      BY <2>1, <2>3
    <3>2. ASSUME NEW l \in 1..(k + 1), l \in A PROVE sc[d] > sc[l] \/ (sc[d] = sc[l] /\ d <= l)
      <4>1. CASE l = k + 1
        <5>1. sc[b] \in Int /\ sc[l] \in Int /\ ~(sc[l] > sc[b]) /\ b <= l
          BY <1>2, <2>1, <2>3, <3>2, <4>1
        <5> QED BY <3>1, <5>1
      <4>2. CASE l # k + 1
        BY <1>2, <2>1, <3>1, <3>2, <4>2
      <4> QED BY <4>1, <4>2
    <3> QED BY <1>2, <3>1, <3>2 DEF Leads
  <2> QED BY <2>2, <2>3
<1> QED BY <1>1, <1>2 DEF Leads

\* The loop's result is the first of the agents no candidate beats.
LEMMA BestFacts ==
  ASSUME NEW ids \in SUBSET Ids, ids # {}, NEW t, NEW c, Scored(t, c)
  PROVE  /\ Best(ids, t, c) \in ids
         /\ \A o \in ids : \/ ScoreAgent(Best(ids, t, c), t, c) > ScoreAgent(o, t, c)
                           \/ /\ ScoreAgent(Best(ids, t, c), t, c) = ScoreAgent(o, t, c)
                              /\ AgentPlace(Best(ids, t, c)) <= AgentPlace(o)
<1>1. PICK F : /\ Best(ids, t, c) = RtAgents[F[Len(RtAgents)]].id
               /\ \A i \in 0..Len(RtAgents) : F[i] = BestStep(ids, t, c, F, i)
  BY BestUnfold, SMTT(40)
<1>2. PICK n \in Nat : n = Len(RtAgents)
  BY AgentsListed
<1>3. PICK A \in SUBSET (1..n) : A = {i \in 1..n : RtAgents[i].id \in ids}
  OBVIOUS
<1>4. PICK sc \in [1..n -> Int] : sc = [i \in 1..n |-> ScoreAgent(RtAgents[i].id, t, c)]
  <2>1. \A i \in 1..n : ScoreAgent(RtAgents[i].id, t, c) \in Int
    BY <1>2, AgentIds DEF Scored
  <2> QED BY <2>1
<1>5. F[0] = 0
  BY <1>1, <1>2 DEF BestStep
<1>6. ASSUME NEW i \in 1..n, F[i - 1] = 0 \/ F[i - 1] \in 1..n
      PROVE  F[i] = IF i \in A /\ (F[i - 1] = 0 \/ sc[i] > sc[F[i - 1]]) THEN i ELSE F[i - 1]
  <2>1. i \in 0..Len(RtAgents) /\ i # 0
    BY <1>2
  <2>2. F[i] = BestStep(ids, t, c, F, i)
    BY <1>1, <2>1
  <2>3. PICK p : p = F[i - 1]
    OBVIOUS
  <2>4. F[i] = IF RtAgents[i].id \in ids
                  /\ (p = 0 \/ ScoreAgent(RtAgents[i].id, t, c) > ScoreAgent(RtAgents[p].id, t, c)) THEN i ELSE p
    BY <2>1, <2>2, <2>3, Zenon DEF BestStep
  <2>5. (i \in A <=> RtAgents[i].id \in ids) /\ sc[i] = ScoreAgent(RtAgents[i].id, t, c)
    BY <1>3, <1>4
  <2>6. p \in 1..n => sc[p] = ScoreAgent(RtAgents[p].id, t, c)
    BY <1>4
  <2>7. p = 0 \/ p \in 1..n
    BY <1>6, <2>3
  <2>8. F[i] = IF i \in A /\ (p = 0 \/ sc[i] > sc[p]) THEN i ELSE p
    BY <2>4, <2>5, <2>6, <2>7, Zenon
  <2> QED BY <2>3, <2>8
<1> DEFINE T == {k \in Nat : k <= n => Leads(A, sc, F[k], k)}
<1>7. 0 \in T
  <2>1. Leads(A, sc, F[0], 0)
    BY <1>5 DEF Leads
  <2> QED BY <2>1
<1>8. ASSUME NEW k \in T PROVE k + 1 \in T
  <2>0. k \in Nat
    OBVIOUS
  <2> SUFFICES ASSUME k + 1 <= n PROVE Leads(A, sc, F[k + 1], k + 1)
    OBVIOUS
  <2>1. Leads(A, sc, F[k], k)
    BY <2>0
  <2>2. k + 1 \in 1..n /\ (k + 1) - 1 = k /\ (F[k] = 0 \/ F[k] \in 1..n)
    BY <2>0, <2>1 DEF Leads
  <2>3. F[k + 1] = IF k + 1 \in A /\ (F[k] = 0 \/ sc[k + 1] > sc[F[k]]) THEN k + 1 ELSE F[k]
    <3>1. PICK i \in 1..n : i = k + 1 /\ i - 1 = k
      BY <2>2
    <3> HIDE DEF T
    <3> QED BY <1>6, <2>2, <3>1
  <2>4. PICK b : b = F[k]
    OBVIOUS
  <2>5. PICK d : d = F[k + 1]
    OBVIOUS
  <2>6. Leads(A, sc, d, k + 1)
    <3>1. Leads(A, sc, b, k) /\ d = IF k + 1 \in A /\ (b = 0 \/ sc[k + 1] > sc[b]) THEN k + 1 ELSE b
      BY <2>1, <2>3, <2>4, <2>5
    <3> HIDE DEF T
    <3> QED BY <2>0, <3>1, LeadsStep
  <2> QED BY <2>5, <2>6
<1>9. n \in T
  <2>1. T \in SUBSET Nat
    OBVIOUS
  <2> HIDE DEF T
  <2> QED BY <1>7, <1>8, <2>1, NumbersInduction
<1>10. PICK b \in 1..n : /\ b = F[n] /\ b \in A
                         /\ \A l \in 1..n : l \in A => sc[b] > sc[l] \/ (sc[b] = sc[l] /\ b <= l)
  <2>1. \E l \in 1..n : l \in A
    BY <1>2, <1>3, AgentIds
  <2>2. Leads(A, sc, F[n], n)
    BY <1>9
  <2> QED BY <2>1, <2>2 DEF Leads
<1>11. Best(ids, t, c) = RtAgents[b].id /\ RtAgents[b].id \in ids /\ sc[b] = ScoreAgent(RtAgents[b].id, t, c)
  BY <1>1, <1>2, <1>3, <1>4, <1>10
<1>12. ASSUME NEW o \in ids
       PROVE  \/ ScoreAgent(RtAgents[b].id, t, c) > ScoreAgent(o, t, c)
              \/ /\ ScoreAgent(RtAgents[b].id, t, c) = ScoreAgent(o, t, c)
                 /\ AgentPlace(RtAgents[b].id) <= AgentPlace(o)
  <2>1. PICK l \in 1..n : o = RtAgents[l].id
    BY <1>2, AgentIds
  <2>2. AgentPlace(RtAgents[l].id) = l /\ AgentPlace(RtAgents[b].id) = b
    BY <1>2, AgentIds
  <2>3. l \in A /\ sc[l] = ScoreAgent(o, t, c)
    BY <1>3, <1>4, <2>1
  <2>4. sc[b] > sc[l] \/ (sc[b] = sc[l] /\ b <= l)
    BY <1>10, <2>3
  <2> QED BY <1>11, <2>1, <2>2, <2>3, <2>4
<1> QED BY <1>11, <1>12

\* u comes before y: a higher score, or the same and not a later name.
Ahead(sc, od, u, y) == sc[u] > sc[y] \/ (sc[u] = sc[y] /\ od[u] <= od[y])

\* In a finite set of models one comes before all the others.
LEMMA FirstExists ==
  ASSUME NEW S, IsFiniteSet(S), NEW sc \in [S -> Int], NEW od \in [S -> Nat], S # {}
  PROVE  \E m \in S : \A o \in S : Ahead(sc, od, m, o)
<1> DEFINE Leader(s, m) == m \in s /\ \A o \in s : Ahead(sc, od, m, o)
           T == {n \in Nat : \A s \in SUBSET S : s # {} /\ Cardinality(s) <= n => \E m \in s : Leader(s, m)}
<1>1. \A s \in SUBSET S : IsFiniteSet(s) /\ Cardinality(s) \in Nat
  <2> TAKE s \in SUBSET S
  <2>1. IsFiniteSet(s)
    BY FS_Subset
  <2> QED BY <2>1, FS_CardinalityType
<1>2. T \in SUBSET Nat
  OBVIOUS
<1>3. 0 \in T
  <2> SUFFICES ASSUME NEW s \in SUBSET S, s # {}, Cardinality(s) <= 0 PROVE FALSE
    OBVIOUS
  <2>1. IsFiniteSet(s) /\ Cardinality(s) = 0
    BY <1>1
  <2> QED BY <2>1, FS_EmptySet
<1>4. ASSUME NEW n \in T PROVE n + 1 \in T
  <2>0. n \in Nat /\ \A s \in SUBSET S : s # {} /\ Cardinality(s) <= n => \E m \in s : Leader(s, m)
    BY <1>4
  <2> SUFFICES ASSUME NEW s \in SUBSET S, s # {}, Cardinality(s) <= n + 1 PROVE \E m \in s : Leader(s, m)
    BY <2>0
  <2>1. PICK a \in s : TRUE
    OBVIOUS
  <2>2. PICK r \in SUBSET S : r = s \ {a}
    OBVIOUS
  <2>3. Cardinality(r) = Cardinality(s) - 1
    <3>1. IsFiniteSet(s)
      BY <1>1
    <3>2. Cardinality(s \ {a}) = Cardinality(s) - 1
      BY <3>1, FS_RemoveElement
    <3> QED BY <2>2, <3>2
  <2>4. Cardinality(r) <= n
    <3>1. Cardinality(s) \in Nat
      BY <1>1
    <3> QED BY <2>0, <2>3, <3>1
  <2>5. a \in S /\ sc[a] \in Int /\ od[a] \in Nat /\ Ahead(sc, od, a, a)
    BY DEF Ahead
  <2>6. CASE r = {}
    <3>1. s = {a}
      BY <2>2, <2>6
    <3> QED BY <2>5, <3>1
  <2>7. CASE r # {}
    <3>1. PICK b \in r : Leader(r, b)
      BY <2>0, <2>4, <2>7
    <3>2. b \in S /\ b \in s /\ sc[b] \in Int /\ od[b] \in Nat
      BY <2>2
    <3>3. CASE Ahead(sc, od, b, a)
      <4>1. \A o \in s : Ahead(sc, od, b, o)
        BY <2>2, <3>1, <3>3
      <4> QED BY <3>2, <4>1
    <3>4. CASE ~Ahead(sc, od, b, a)
      <4>1. ASSUME NEW o \in s PROVE Ahead(sc, od, a, o)
        <5>1. CASE o = a
          BY <2>5, <5>1
        <5>2. CASE o # a
          <6>1. o \in S /\ sc[o] \in Int /\ od[o] \in Nat
            OBVIOUS
          <6>2. Ahead(sc, od, b, o)
            BY <2>2, <3>1, <5>2
          <6> QED BY <2>5, <3>2, <3>4, <6>1, <6>2 DEF Ahead
        <5> QED BY <5>1, <5>2
      <4> QED BY <4>1
    <3> QED BY <3>3, <3>4
  <2> QED BY <2>6, <2>7
<1>5. Cardinality(S) \in T
  <2>1. Cardinality(S) \in Nat
    BY <1>1
  <2> HIDE DEF T
  <2> QED BY <1>2, <1>3, <1>4, <2>1, NumbersInduction
<1>6. Cardinality(S) <= Cardinality(S) /\ S \in SUBSET S
  BY <1>1
<1> QED BY <1>5, <1>6

LEMMA ClampInt == ASSUME NEW n \in Int, NEW low \in Int, NEW high \in Int PROVE Clamp(n, low, high) \in Int
  BY DEF Clamp

\* The largest of four numbers, or of two.
LEMMA MaxOfFour ==
  ASSUME NEW i \in Int, NEW j \in Int, NEW k \in Int, NEW l \in Int
  PROVE  /\ Max({i, j, k, l}) \in Int /\ Max({i, j, k, l}) \in {i, j, k, l}
         /\ \A z \in {i, j, k, l} : z <= Max({i, j, k, l})
<1> DEFINE S == {i, j, k, l}
<1>1. S \subseteq Int /\ \E m \in S : \A y \in S : m >= y
  <2>1. CASE i >= j /\ i >= k /\ i >= l
    BY <2>1
  <2>2. CASE j >= i /\ j >= k /\ j >= l
    BY <2>2
  <2>3. CASE k >= i /\ k >= j /\ k >= l
    BY <2>3
  <2>4. CASE l >= i /\ l >= j /\ l >= k
    BY <2>4
  <2> QED BY <2>1, <2>2, <2>3, <2>4
<1> HIDE DEF S
<1>2. Max(S) \in S /\ \A y \in S : Max(S) >= y
  BY <1>1 DEF Max
<1>3. Max(S) \in Int /\ \A y \in S : y <= Max(S)
  BY <1>1, <1>2
<1> QED BY <1>2, <1>3 DEF S

LEMMA ClusterInt == ASSUME NEW a, NEW t, NEW c PROVE ClusterPolicyDelta(a, t, c) \in Int
  BY DEF ClusterPolicyDelta, When

LEMMA PolicyInt == ASSUME NEW id, NEW t, NEW c PROVE PolicyScore(id, t, c) \in Int
<1> DEFINE a == AgentOf(id)
           strict == c \in {"high", "critical"} \/ HighRisk(t)
           w1 == When(a.status = "ready", 20)
           w2 == When(a.status = "busy", 5)
           w3 == When(t.provider = a.provider, 35)
           w4 == When(t.model # "" /\ MatchesModel(id, t), 15)
           w5 == When(t.preferred = id, 120)
           w6 == When(strict /\ a.provider \in PaidOnes, 40)
           w7 == When(strict /\ "review" \in a.kinds, 12)
           w8 == When(~strict /\ a.provider \in LocalOnes, 25)
           w9 == When(~strict /\ a.provider \in {"mistral", "antigravity", "mimo"}, 15)
           w10 == When(~strict /\ a.provider \in PaidOnes, 20)
           w11 == When(t.sourcecraft /\ id = "orchestrator", 100)
           w12 == When(t.type \in a.kinds, 10)
           w13 == When(c = "low" /\ a.provider = "local", 10)
           d == ClusterPolicyDelta(a, t, c)
<1>1. RawPolicyScore(id, t, c) =
        100 + w1 + w2 + 40 + w3 + w4 + w5 + w6 + w7 + w8 + w9 - w10 + w11 + w12 + w13 + d
  BY Zenon DEF RawPolicyScore
<1>2. w1 \in Int /\ w2 \in Int /\ w3 \in Int /\ w4 \in Int /\ w5 \in Int /\ w6 \in Int /\ w7 \in Int
  BY DEF When
<1>3. w8 \in Int /\ w9 \in Int /\ w10 \in Int /\ w11 \in Int /\ w12 \in Int /\ w13 \in Int /\ d \in Int
  BY ClusterInt DEF When
<1> HIDE DEF w1, w2, w3, w4, w5, w6, w7, w8, w9, w10, w11, w12, w13, d
<1>4. RawPolicyScore(id, t, c) \in Int
  BY <1>1, <1>2, <1>3
<1> QED BY <1>4, ClampInt DEF PolicyScore

LEMMA RetrievalInt == ASSUME NEW id, NEW t, NEW c PROVE RetrievalScore(id, t, c) \in Int
<1> DEFINE a == AgentOf(id)
           high == rtSignals.retrieval = "high"
           w1 == When(a.provider \in PaidOnes, 25)
           w2 == When(a.provider \in LocalOnes, 8)
           w3 == When(a.kinds \cap {"research", "review", "analysis"} # {}, 18)
           w4 == When(a.family \in {"gpt", "claude", "gemini", "qwen", "mistral"}, 18)
           w5 == When(a.small, 12)
           w6 == When(high, 10 + 8 + 6)
           w == 35 + w1 + w2 + w3 + w4 - w5 + w6
<1>1. RetrievalScore(id, t, c) =
        IF c \notin {"high", "critical"} /\ t.type \notin {"research", "review"} /\ ~high THEN 50
        ELSE Clamp(w, 0, 100)
  BY Zenon DEF RetrievalScore
<1>2. w1 \in Int /\ w2 \in Int /\ w3 \in Int /\ w4 \in Int /\ w5 \in Int /\ w6 \in Int
  BY DEF When
<1> HIDE DEF w1, w2, w3, w4, w5, w6
<1>3. w \in Int
  BY <1>2
<1> HIDE DEF w
<1>4. Clamp(w, 0, 100) \in Int
  BY <1>3, ClampInt
<1> QED BY <1>1, <1>4

LEMMA WeightInt ==
  ASSUME NEW l \in LaneStates
  PROVE  Weight(l) \in Int
<1>1. l.err \in Int /\ l.load \in {0, 100}
  BY DEF LaneStates
<1>2. PICK p \in Int : p = CASE l.status = "ready" -> 100 [] l.status = "busy" -> 80 [] l.status = "degraded" -> 45
                          [] OTHER -> 0
  OBVIOUS
<1>3. PICK q \in Int : q = Clamp(100 - l.err, 5, 100)
  BY <1>1 DEF Clamp
<1>4. PICK r \in Int : r = Clamp(100 - (65 * l.load) \div 100, 10, 100)
  <2>1. 100 - (65 * l.load) \div 100 \in Int
    BY <1>1
  <2> QED BY <2>1 DEF Clamp
<1>5. Weight(l) = p * q * r
  BY <1>2, <1>3, <1>4, Zenon DEF Weight
<1> QED BY <1>5

LEMMA IdsFinite == IsFiniteSet(Ids)
<1> DEFINE N == 1..Len(RtAgents)
           f == [i \in N |-> RtAgents[i].id]
<1>1. IsFiniteSet(N)
  BY AgentsListed, FS_Interval
<1>2. f \in Surjection(N, Ids)
  BY AgentIds DEF Surjection
<1> HIDE DEF f, N
<1> QED BY <1>1, <1>2, FS_Surjection

LEMMA PressureInt ==
  ASSUME NEW ids \in SUBSET Ids, NEW share \in Nat
  PROVE  Pressure(ids, share) \in Int
<1>1. PICK full \in SUBSET ids : full = {id \in ids : rtLanes[id].load = 100}
  OBVIOUS
<1>2. CASE full = {}
  <2>1. Pressure(ids, share) = 0
    BY <1>1, <1>2, Zenon DEF Pressure
  <2> QED BY <2>1
<1>3. CASE full # {}
  <2>1. IsFiniteSet(ids)
    BY IdsFinite, FS_Subset
  <2>2. IsFiniteSet(full)
    BY <2>1, FS_Subset
  <2>3. PICK n \in Nat : n = Cardinality(ids)
    BY <2>1, FS_CardinalityType
  <2>4. n # 0
    <3>1. ids # {}
      BY <1>3
    <3> QED BY <2>1, <2>3, <3>1, FS_EmptySet
  <2>5. PICK k \in Nat : k = Cardinality(full)
    BY <2>2, FS_CardinalityType
  <2>6. (100 * k) \div n \in Int
    BY <2>4
  <2>7. PICK r \in Int : r = (100 * k) \div n
    BY <2>6
  <2>8. Pressure(ids, share) = Max({share, (100 * Cardinality(full)) \div Cardinality(ids)})
    BY <1>1, <1>3, Zenon DEF Pressure
  <2>9. {share, (100 * Cardinality(full)) \div Cardinality(ids)} = {share, r, share, r}
    BY <2>3, <2>5, <2>7
  <2>10. Max({share, r, share, r}) \in Int
    <3>1. share \in Int
      OBVIOUS
    <3> QED BY <3>1, MaxOfFour
  <2> QED BY <2>8, <2>9, <2>10
<1> QED BY <1>2, <1>3

\* What the lanes may look like: every agent has one.
LanesOK == rtLanes \in [Ids -> LaneStates]

LEMMA ScoresAreNumbers ==
  ASSUME LanesOK, NEW t, NEW c
  PROVE  Scored(t, c)
<1> SUFFICES ASSUME NEW id \in Ids PROVE ScoreAgent(id, t, c) \in Int
  BY DEF Scored
<1>1. PICK l \in LaneStates : l = rtLanes[id]
  BY DEF LanesOK
<1>2. l.err \in Int /\ l.load \in Int
  BY DEF LaneStates
<1>3. PICK e \in Int : e = l.err
  BY <1>2
<1>4. PICK d \in Int : d = l.load
  BY <1>2
<1>5. PICK w \in Int : w = Weight(l)
  BY WeightInt
<1> DEFINE peers == {o \in Ids : AgentOf(o).provider = AgentOf(id).provider}
           class == {o \in peers : t.class \in AgentOf(o).classes}
<1>6. peers \in SUBSET Ids /\ class \in SUBSET Ids
  OBVIOUS
<1>7. Capacity(id, t) = 100 - Max({rtLanes[id].load, rtLanes[id].err, Pressure(peers, 65), Pressure(class, 60)})
  BY Zenon DEF Capacity
<1> HIDE DEF peers, class
<1>8. PICK p \in Int : p = Pressure(peers, 65)
  BY <1>6, PressureInt
<1>9. PICK q \in Int : q = Pressure(class, 60)
  BY <1>6, PressureInt
<1>10. Capacity(id, t) = 100 - Max({d, e, p, q})
  BY <1>1, <1>3, <1>4, <1>7, <1>8, <1>9, Zenon
<1>11. Max({d, e, p, q}) \in Int
  BY MaxOfFour
<1>12. PICK v \in Int : v = Capacity(id, t)
  BY <1>10, <1>11
<1>13. PICK s \in Int : s = PolicyScore(id, t, c)
  BY PolicyInt
<1>14. RuntimeScore(id, t) = (50 * w) \div 10000 + 18 * (100 - e) + 16 * (100 - d) + 16 * v
  <2>1. RuntimeScore(id, t) = (50 * Weight(rtLanes[id])) \div 10000 + 18 * (100 - rtLanes[id].err)
                                + 16 * (100 - rtLanes[id].load) + 16 * Capacity(id, t)
    BY Zenon DEF RuntimeScore
  <2> QED BY <1>1, <1>3, <1>4, <1>5, <1>12, <2>1, SMTT(40)
<1>15. PICK r \in Int : r = RuntimeScore(id, t)
  BY <1>14
<1>16. PICK g \in Int : g = RetrievalScore(id, t, c)
  BY RetrievalInt
<1>17. ScoreAgent(id, t, c) = 39 * 10000 * s + 20 * 160 * r + 11 * 16000 * g
  BY <1>13, <1>15, <1>16 DEF ScoreAgent
<1> QED BY <1>17

\* The agents that may take a task, and those the provider filter leaves.
Able(t, ex) == {id \in Ids : id \in Ids \ ex /\ CanRoute(id, t)}
Field(t, ex) == Filtered(t, Able(t, ex), Relaxed(t, ex))

\* What the router answers with: an agent that can take the task if the filter
\* leaves one, and the best of them unless something else decides.
RoutedWell(t, ex) ==
  /\ Routed(t, ex) = {} \/ \E a \in Able(t, ex) : Routed(t, ex) = {a}
  /\ Routed(t, ex) = {} => Field(t, ex) = {}
  /\ Routed(t, ex) # {} /\ Routed(t, ex) # {t.preferred} /\ Routed(t, ex) # {"orchestrator"} =>
       Field(t, ex) # {} /\ Routed(t, ex) = {Best(Field(t, ex), t, Classify(t))}

LEMMA RoutedFacts ==
  ASSUME LanesOK, NEW t, NEW ex
  PROVE  RoutedWell(t, ex)
<1> DEFINE able(id) == id \in Ids \ ex /\ CanRoute(id, t)
           asked == (t.override \/ t.sourcecraft) /\ able("orchestrator")
           b == Best(Field(t, ex), t, Classify(t))
<1>1. PICK p : p = t.preferred
  OBVIOUS
<1>2. \A id : able(id) <=> id \in Able(t, ex)
  BY DEF Able
<1>3. Field(t, ex) \in SUBSET Ids /\ Field(t, ex) \subseteq Able(t, ex)
  BY DEF Field, Filtered, Able
<1>4. Field(t, ex) # {} => b \in Able(t, ex)
  <2> SUFFICES ASSUME Field(t, ex) # {} PROVE b \in Able(t, ex)
    OBVIOUS
  <2>1. Scored(t, Classify(t))
    BY ScoresAreNumbers
  <2>2. Best(Field(t, ex), t, Classify(t)) \in Field(t, ex)
    <3>1. PICK A \in SUBSET Ids : A = Field(t, ex)
      BY <1>3
    <3>2. PICK c : c = Classify(t)
      OBVIOUS
    <3> QED BY <2>1, <3>1, <3>2, BestFacts
  <2> QED BY <1>3, <2>2
<1>5. Routed(t, ex) = CASE able(p) -> {p}
                        [] ~able(p) /\ asked -> {"orchestrator"}
                        [] ~able(p) /\ ~asked /\ Field(t, ex) # {} -> {b}
                        [] OTHER -> {}
  BY <1>1, Zenon DEF Routed, Field, Able
<1> HIDE DEF b
<1>6. CASE able(p)
  <2>1. Routed(t, ex) = {p}
    BY <1>5, <1>6, Zenon
  <2> QED BY <1>1, <1>2, <1>6, <2>1, Zenon DEF RoutedWell
<1>7. CASE ~able(p) /\ asked
  <2>1. Routed(t, ex) = {"orchestrator"}
    BY <1>5, <1>7, Zenon
  <2> QED BY <1>2, <1>7, <2>1, Zenon DEF RoutedWell
<1>8. CASE ~able(p) /\ ~asked /\ Field(t, ex) # {}
  <2>1. Routed(t, ex) = {b}
    BY <1>5, <1>8, Zenon
  <2> QED BY <1>2, <1>4, <1>8, <2>1, Zenon DEF RoutedWell, b
<1>9. CASE ~able(p) /\ ~asked /\ Field(t, ex) = {}
  <2>1. Routed(t, ex) = {}
    BY <1>5, <1>9, Zenon
  <2> QED BY <1>9, <2>1, Zenon DEF RoutedWell
<1> QED BY <1>6, <1>7, <1>8, <1>9

Paths == {"cloud", "code", "analysis", "docs", "research", "default"}

\* A preference over the providers that leaves none out.
LEMMA PreferenceComplete ==
  ASSUME NEW path \in Paths
  PROVE  /\ DOMAIN ProviderPreference(path) = 1..7
         /\ \A q \in Providers : \E i \in 1..7 : ProviderPreference(path)[i] = q
<1>1. CASE path = "cloud"
  <2>1. ProviderPreference(path) = <<"codexsale", "openai", "mistral", "mimo", "antigravity", "ai_kernel", "local">>
    BY <1>1 DEF ProviderPreference
  <2> QED BY <2>1 DEF Providers
<1>2. CASE path = "code"
  <2>1. ProviderPreference(path) = <<"ai_kernel", "local", "antigravity", "codexsale", "openai", "mistral", "mimo">>
    BY <1>2 DEF ProviderPreference
  <2> QED BY <2>1 DEF Providers
<1>3. CASE path = "analysis"
  <2>1. ProviderPreference(path) = <<"mistral", "codexsale", "openai", "mimo", "antigravity", "ai_kernel", "local">>
    BY <1>3 DEF ProviderPreference
  <2> QED BY <2>1 DEF Providers
<1>4. CASE path = "docs"
  <2>1. ProviderPreference(path) = <<"ai_kernel", "local", "mistral", "mimo", "antigravity", "codexsale", "openai">>
    BY <1>4 DEF ProviderPreference
  <2> QED BY <2>1 DEF Providers
<1>5. CASE path = "research"
  <2>1. ProviderPreference(path) = <<"mistral", "mimo", "codexsale", "openai", "antigravity", "ai_kernel", "local">>
    BY <1>5 DEF ProviderPreference
  <2> QED BY <2>1 DEF Providers
<1>6. CASE path = "default"
  <2>1. ProviderPreference(path) = <<"local", "ai_kernel", "mistral", "codexsale", "openai", "mimo", "antigravity">>
    BY <1>6 DEF ProviderPreference
  <2> QED BY <2>1 DEF Providers
<1> QED BY <1>1, <1>2, <1>3, <1>4, <1>5, <1>6 DEF Paths

\* A policy's lists: at most nine families and six models, and every provider.
PolicyOK(p) ==
  /\ p.provider \in Providers
  /\ DOMAIN p.families \subseteq 1..9
  /\ Len(p.models) \in 0..6 /\ DOMAIN p.models = 1..Len(p.models)
  /\ DOMAIN p.providers = 1..7 /\ \A q \in Providers : \E i \in 1..7 : p.providers[i] = q

Built(p, path, review) == PolicyOK(p) /\ p.cloud = (path = "cloud") /\ p.review = review

LEMMA PolicyBuilt ==
  ASSUME NEW path \in Paths, NEW provider \in Providers, NEW model, NEW families, NEW models, NEW review,
         DOMAIN families \subseteq 1..9, Len(models) \in 0..6, DOMAIN models = 1..Len(models)
  PROVE  Built(Policy(path, provider, model, families, models, review), path, review)
<1>1. PICK pref : pref = ProviderPreference(path)
  OBVIOUS
<1>2. DOMAIN pref = 1..7 /\ \A q \in Providers : \E i \in 1..7 : pref[i] = q
  BY <1>1, PreferenceComplete
<1>3. PICK cl : cl = (path = "cloud")
  OBVIOUS
<1>4. Policy(path, provider, model, families, models, review) =
        [path |-> path, provider |-> provider, model |-> model, review |-> review,
         cloud |-> cl, families |-> families, models |-> models, providers |-> pref]
  BY <1>1, <1>3, Zenon DEF Policy
<1>5. PICK p : p = [path |-> path, provider |-> provider, model |-> model, review |-> review,
                    cloud |-> cl, families |-> families, models |-> models, providers |-> pref]
  OBVIOUS
<1>6. p.provider = provider /\ p.families = families /\ p.models = models /\ p.providers = pref
  BY <1>5
<1>7. p.cloud = cl /\ p.review = review
  BY <1>5, Zenon
<1>8. PolicyOK(p)
  BY <1>2, <1>6, Zenon DEF PolicyOK
<1> QED BY <1>3, <1>4, <1>5, <1>7, <1>8, Zenon DEF Built

\* Every task has a policy with such lists, and one that escalates goes the
\* cloud way with a review.
LEMMA PolicyFacts ==
  ASSUME NEW t
  PROVE  /\ PolicyOK(SelectionPolicy(t))
         /\ Escalates(t) => SelectionPolicy(t).cloud /\ SelectionPolicy(t).review
<1> DEFINE E == Escalates(t)
           W == t.type
<1>0. RtCloud \in Providers /\ "ai_kernel" \in Providers /\ "mistral" \in Providers
  BY RoutingAssumption, Zenon DEF Providers
<1>1. CASE E
  <2> DEFINE fs == <<"gpt", "claude", "gemini", "deepseek", "mistral", "kimi", "glm", "qwen", "llama">>
             ms == <<"gpt-5.6-sol", "gpt-5.5", "gpt-5.4", "gpt-5.4-mini", "claude-sonnet-4-6",
                     "mistral-large-latest">>
  <2>1. SelectionPolicy(t) = Policy("cloud", RtCloud, "gpt-5.5", fs, ms, TRUE)
    BY <1>1, Zenon DEF SelectionPolicy
  <2>2. DOMAIN fs \subseteq 1..9 /\ Len(ms) \in 0..6 /\ DOMAIN ms = 1..Len(ms)
    OBVIOUS
  <2>3. "cloud" \in Paths
    BY DEF Paths
  <2> HIDE DEF fs, ms
  <2>4. PICK g : g = "gpt-5.5"
    OBVIOUS
  <2>5. PICK yes : yes = TRUE
    OBVIOUS
  <2>6. PICK way \in Paths : way = "cloud"
    BY <2>3
  <2>7. Built(Policy(way, RtCloud, g, fs, ms, yes), way, yes)
    BY <1>0, <2>2, PolicyBuilt
  <2> QED BY <2>1, <2>4, <2>5, <2>6, <2>7, Zenon DEF Built
<1>2. CASE ~E /\ W \in {"code", "fix", "test"}
  <2> DEFINE fs == <<"gemma", "deepseek", "llama", "glm", "gpt", "claude", "mistral", "gemini">>
             ms == <<Gemma, "deepseek-coder", "claude-sonnet-4-6", "gpt-5.5">>
             rv == t.type = "test"
  <2>1. SelectionPolicy(t) = Policy("code", "ai_kernel", Gemma, fs, ms, rv)
    BY <1>2, Zenon DEF SelectionPolicy
  <2>2. DOMAIN fs \subseteq 1..9 /\ Len(ms) \in 0..6 /\ DOMAIN ms = 1..Len(ms)
    OBVIOUS
  <2>3. "code" \in Paths
    BY DEF Paths
  <2> HIDE DEF fs, ms, rv
  <2>4. PICK g : g = Gemma
    OBVIOUS
  <2>5. Built(Policy("code", "ai_kernel", g, fs, ms, rv), "code", rv)
    BY <1>0, <2>2, <2>3, PolicyBuilt
  <2> QED BY <1>2, <2>1, <2>4, <2>5, Zenon DEF Built
<1>3. CASE ~E /\ W \in {"plan", "review"}
  <2> DEFINE fs == <<"claude", "gpt", "mistral", "gemini", "kimi", "qwen", "deepseek", "llama">>
             ms == <<"claude-sonnet-4-6", "gpt-5.6-sol", "gpt-5.5", "mistral-large-latest">>
             rv == t.type = "review"
  <2>1. SelectionPolicy(t) = Policy("analysis", "mistral", "mistral-large-latest", fs, ms, rv)
    <3>1. ~(W \in {"code", "fix", "test"})
      BY <1>3
    <3> QED BY <1>3, <3>1, Zenon DEF SelectionPolicy
  <2>2. DOMAIN fs \subseteq 1..9 /\ Len(ms) \in 0..6 /\ DOMAIN ms = 1..Len(ms)
    OBVIOUS
  <2>3. "analysis" \in Paths
    BY DEF Paths
  <2> HIDE DEF fs, ms, rv
  <2>4. PICK g : g = "mistral-large-latest"
    OBVIOUS
  <2>5. Built(Policy("analysis", "mistral", g, fs, ms, rv), "analysis", rv)
    BY <1>0, <2>2, <2>3, PolicyBuilt
  <2> QED BY <1>3, <2>1, <2>4, <2>5, Zenon DEF Built
<1>4. CASE ~E /\ W = "docs"
  <2> DEFINE fs == <<"gemma", "llama", "mistral", "gpt", "claude", "gemini">>
             ms == <<Gemma, "mistral-large-latest">>
             rv == FALSE
  <2>1. SelectionPolicy(t) = Policy("docs", "ai_kernel", Gemma, fs, ms, rv)
    BY <1>4, SMT DEF SelectionPolicy
  <2>2. DOMAIN fs \subseteq 1..9 /\ Len(ms) \in 0..6 /\ DOMAIN ms = 1..Len(ms)
    OBVIOUS
  <2>3. "docs" \in Paths
    BY DEF Paths
  <2> HIDE DEF fs, ms, rv
  <2>4. PICK g : g = Gemma
    OBVIOUS
  <2>5. Built(Policy("docs", "ai_kernel", g, fs, ms, rv), "docs", rv)
    BY <1>0, <2>2, <2>3, PolicyBuilt
  <2> QED BY <1>4, <2>1, <2>4, <2>5, Zenon DEF Built
<1>5. CASE ~E /\ W = "research"
  <2> DEFINE fs == <<"claude", "gpt", "mistral", "gemini", "kimi", "deepseek", "gemma">>
             ms == <<"claude-sonnet-4-6", "gpt-5.5", "mistral-large-latest">>
             rv == FALSE
  <2>1. SelectionPolicy(t) = Policy("research", "mistral", "mistral-large-latest", fs, ms, rv)
    BY <1>5, SMT DEF SelectionPolicy
  <2>2. DOMAIN fs \subseteq 1..9 /\ Len(ms) \in 0..6 /\ DOMAIN ms = 1..Len(ms)
    OBVIOUS
  <2>3. "research" \in Paths
    BY DEF Paths
  <2> HIDE DEF fs, ms, rv
  <2>4. PICK g : g = "mistral-large-latest"
    OBVIOUS
  <2>5. Built(Policy("research", "mistral", g, fs, ms, rv), "research", rv)
    BY <1>0, <2>2, <2>3, PolicyBuilt
  <2> QED BY <1>5, <2>1, <2>4, <2>5, Zenon DEF Built
<1>6. CASE ~E /\ ~(W \in {"code", "fix", "test"}) /\ ~(W \in {"plan", "review"}) /\ W # "docs" /\ W # "research"
  <2> DEFINE fs == <<"gemma", "llama", "gpt", "claude", "mistral">>
             ms == <<Gemma, "gpt-5.5">>
             rv == FALSE
  <2>1. SelectionPolicy(t) = Policy("default", "ai_kernel", Gemma, fs, ms, rv)
    BY <1>6, SMT DEF SelectionPolicy
  <2>2. DOMAIN fs \subseteq 1..9 /\ Len(ms) \in 0..6 /\ DOMAIN ms = 1..Len(ms)
    OBVIOUS
  <2>3. "default" \in Paths
    BY DEF Paths
  <2> HIDE DEF fs, ms, rv
  <2>4. PICK g : g = Gemma
    OBVIOUS
  <2>5. Built(Policy("default", "ai_kernel", g, fs, ms, rv), "default", rv)
    BY <1>0, <2>2, <2>3, PolicyBuilt
  <2> QED BY <1>6, <2>1, <2>4, <2>5, Zenon DEF Built
<1> QED BY <1>1, <1>2, <1>3, <1>4, <1>5, <1>6

LEMMA IndexFacts ==
  ASSUME NEW list, NEW v, NEW n \in Nat, DOMAIN list \subseteq 1..n, v \in ToSet(list)
  PROVE  IndexIn(list, v) \in 1..n /\ IndexIn(list, v) \in DOMAIN list
<1>1. \E i \in DOMAIN list : list[i] = v
  BY DEF ToSet
<1>2. IndexIn(list, v) \in DOMAIN list
  BY <1>1 DEF IndexIn
<1> QED BY <1>2

\* Seven providers and the policy's own in front: eight places.
LEMMA PlaceFacts ==
  ASSUME NEW p, PolicyOK(p), NEW q \in Providers
  PROVE  ProviderPlace(p, q) \in 1..8
<1>1. CASE q = p.provider
  BY <1>1 DEF ProviderPlace
<1>2. CASE q # p.provider
  <2>1. PICK list : list = p.providers
    OBVIOUS
  <2>2. DOMAIN list = 1..7 /\ \A r \in Providers : \E i \in 1..7 : list[i] = r
    BY <2>1, Zenon DEF PolicyOK
  <2>3. q \in ToSet(list)
    BY <2>2 DEF ToSet
  <2>4. PICK k \in 1..7 : k = IndexIn(list, q)
    BY <2>2, <2>3, IndexFacts
  <2>5. PICK S \in SUBSET (1..7) : S = {i \in 1..k : list[i] # p.provider}
    <3>1. 1..k \subseteq 1..7
      OBVIOUS
    <3>2. {i \in 1..k : list[i] # p.provider} \subseteq 1..7
      BY <3>1, Zenon
    <3> QED BY <3>2, Zenon
  <2>6. ProviderPlace(p, q) = 1 + Cardinality(S)
    <3>1. ProviderPlace(p, q) = 1 + Cardinality({i \in 1..IndexIn(p.providers, q) : p.providers[i] # p.provider})
      BY <1>2, Zenon DEF ProviderPlace
    <3> QED BY <2>1, <2>4, <2>5, <3>1
  <2>7. IsFiniteSet(1..7) /\ Cardinality(1..7) = 7
    <3>1. PICK a \in Int, b \in Int : a = 1 /\ b = 7
      OBVIOUS
    <3>2. IsFiniteSet(a..b)
      BY FS_Interval
    <3>3. Cardinality(a..b) = IF a > b THEN 0 ELSE b - a + 1
      BY FS_Interval
    <3>4. Cardinality(a..b) = 7
      BY <3>1, <3>3
    <3> QED BY <3>1, <3>2, <3>4
  <2>8. Cardinality(S) <= Cardinality(1..7) /\ IsFiniteSet(S)
    BY <2>7, FS_Subset
  <2>9. Cardinality(S) \in Nat
    BY <2>8, FS_CardinalityType
  <2> QED BY <2>6, <2>7, <2>8, <2>9
<1> QED BY <1>1, <1>2

LEMMA ModelsKnown ==
  /\ IsFiniteSet(RtModels) /\ RtModels \subseteq ModelRecords
  /\ \A m, o \in RtModels : m.provider = o.provider /\ m.name = o.name => m = o
  BY RoutingAssumption, Zenon

LEMMA ModelFields ==
  ASSUME NEW m \in RtModels
  PROVE  m.provider \in Providers /\ m.order \in Nat
<1>1. m \in ModelRecords
  BY ModelsKnown
<1> QED BY <1>1 DEF ModelRecords

\* Where a model stands in the expanded list: nowhere, or at a place that a
\* model of a wanted family finds not too far down.
ListedOK(m, p, healthy, crowd, E) ==
  /\ E = {} \/ \E n \in Nat : E = {n}
  /\ m.family \in ToSet(p.families) =>
       \E n \in Nat : E = {n} /\ n <= 5 + crowd + Cardinality(healthy)

LEMMA ExpandedFacts ==
  ASSUME NEW p, PolicyOK(p), NEW healthy \in SUBSET RtModels, NEW crowd \in Nat, NEW m \in healthy
  PROVE  ListedOK(m, p, healthy, crowd, Expanded(p, healthy, crowd)[m])
<1> DEFINE wanted == {o \in healthy : o.family \in ToSet(p.families) /\ o.name \notin ToSet(p.models)}
           before == {o \in wanted : ProviderPlace(p, o.provider) < ProviderPlace(p, m.provider)}
<1>1. PICK E : E = Expanded(p, healthy, crowd)[m]
  OBVIOUS
<1>2. E = CASE m.name \in ToSet(p.models) -> {IndexIn(p.models, m.name) - 1}
            [] m \in wanted -> {Len(p.models) + crowd + Cardinality(before)}
            [] OTHER -> {}
  BY <1>1, Zenon DEF Expanded
<1>3. PICK L \in 0..6 : L = Len(p.models) /\ DOMAIN p.models = 1..L
  BY Zenon DEF PolicyOK
<1>4. IsFiniteSet(healthy)
  BY ModelsKnown, FS_Subset
<1>5. PICK h \in Nat : h = Cardinality(healthy)
  BY <1>4, FS_CardinalityType
<1>6. CASE m.name \in ToSet(p.models)
  <2>1. PICK list : list = p.models
    OBVIOUS
  <2>2. PICK v : v = m.name
    OBVIOUS
  <2>3. IndexIn(list, v) \in 1..6
    <3>1. DOMAIN list \subseteq 1..6 /\ v \in ToSet(list) /\ 6 \in Nat
      BY <1>3, <1>6, <2>1, <2>2
    <3> QED BY <3>1, IndexFacts
  <2>4. PICK n \in Nat : n = IndexIn(list, v) - 1 /\ n <= 5
    BY <2>3
  <2>5. E = {n}
    BY <1>2, <1>6, <2>1, <2>2, <2>4, Zenon
  <2>6. n <= 5 + crowd + Cardinality(healthy)
    BY <1>5, <2>4
  <2> QED BY <1>1, <2>5, <2>6, Zenon DEF ListedOK
<1>7. CASE m.name \notin ToSet(p.models) /\ m.family \in ToSet(p.families)
  <2>1. m \in wanted
    BY <1>7, Zenon
  <2>2. E = {Len(p.models) + crowd + Cardinality(before)}
    BY <1>2, <1>7, <2>1, Zenon
  <2>3. PICK B \in SUBSET healthy : B = before
    OBVIOUS
  <2>4. m \notin B
    <3>1. PICK k \in 1..8 : k = ProviderPlace(p, m.provider)
      BY ModelFields, PlaceFacts
    <3> QED BY <2>3, <3>1
  <2>5. B \subseteq healthy \ {m}
    BY <2>4
  <2>6. Cardinality(healthy \ {m}) = Cardinality(healthy) - 1
    BY <1>4, FS_RemoveElement
  <2>7. IsFiniteSet(healthy \ {m})
    BY <1>4, FS_Subset
  <2>8. Cardinality(B) <= Cardinality(healthy \ {m}) /\ IsFiniteSet(B)
    BY <2>5, <2>7, FS_Subset
  <2>9. PICK b \in Nat : b = Cardinality(B)
    BY <2>8, FS_CardinalityType
  <2>10. PICK n \in Nat : n = L + crowd + b
    OBVIOUS
  <2>11. E = {n}
    BY <1>3, <2>2, <2>3, <2>9, <2>10, Zenon
  <2>12. n <= 5 + crowd + Cardinality(healthy)
    <3>1. b <= h - 1
      BY <1>5, <2>6, <2>8, <2>9
    <3> QED BY <1>5, <2>10, <3>1
  <2> QED BY <1>1, <2>11, <2>12, Zenon DEF ListedOK
<1>8. CASE m.name \notin ToSet(p.models) /\ m.family \notin ToSet(p.families)
  <2>1. m \notin wanted
    BY <1>8, Zenon
  <2>2. E = {}
    BY <1>2, <1>8, <2>1, Zenon
  <2> QED BY <1>1, <1>8, <2>2, Zenon DEF ListedOK
<1> QED BY <1>6, <1>7, <1>8

LEMMA PointsOf ==
  ASSUME NEW top \in Int, NEW fall \in Int
  PROVE  /\ Points({}, top, fall) = 0
         /\ \A n \in Nat : Points({n}, top, fall) = top - fall * n
<1>1. Points({}, top, fall) = 0
  BY DEF Points
<1>2. ASSUME NEW n \in Nat PROVE Points({n}, top, fall) = top - fall * n
  <2>1. (CHOOSE i \in {n} : TRUE) = n
    OBVIOUS
  <2>2. {n} # {}
    OBVIOUS
  <2> QED BY <2>1, <2>2, Zenon DEF Points
<1> QED BY <1>1, <1>2

\* What the policy's own rating of a confirmed model is: a number, and a
\* positive one for a wanted family when not too many models are listed first.
LEMMA BaseFacts ==
  ASSUME NEW p, PolicyOK(p), NEW healthy \in SUBSET RtModels, NEW crowd \in Nat, NEW m \in healthy
  PROVE  /\ HealthyModel(m, p, Expanded(p, healthy, crowd)[m]) \in Int
         /\ m.family \in ToSet(p.families) /\ crowd + Cardinality(healthy) <= 62
              => HealthyModel(m, p, Expanded(p, healthy, crowd)[m]) > 0
<1>1. PICK E : E = Expanded(p, healthy, crowd)[m]
  OBVIOUS
<1>2. ListedOK(m, p, healthy, crowd, E)
  BY <1>1, ExpandedFacts
<1>3. PICK F : F = PlacesIn(m.family, p.families)
  OBVIOUS
<1> DEFINE d == IF m.default THEN 60 ELSE 0
           e == IF m.name = p.model THEN 80 ELSE 0
<1>4. d \in {0, 60} /\ e \in {0, 80}
  OBVIOUS
<1>5. HealthyModel(m, p, E) = Points(E, 1000, 25) + Points(PlacesIn(m.family, p.families), 700, 20) + 150 + d + e
  BY Zenon DEF HealthyModel
<1> HIDE DEF d, e
<1>6. HealthyModel(m, p, E) = Points(E, 1000, 25) + Points(F, 700, 20) + 150 + d + e
  BY <1>3, <1>5
<1>7. PICK h \in Nat : h = Cardinality(healthy)
  <2>1. IsFiniteSet(healthy)
    BY ModelsKnown, FS_Subset
  <2> QED BY <2>1, FS_CardinalityType
<1>8. E = {} \/ \E n \in Nat : E = {n}
  BY <1>2, Zenon DEF ListedOK
<1>9. PICK u \in Int : u = Points(E, 1000, 25)
  <2>1. 1000 \in Int /\ 25 \in Int
    OBVIOUS
  <2>2. CASE E = {}
    BY <2>1, <2>2, PointsOf
  <2>3. CASE \E n \in Nat : E = {n}
    BY <2>1, <2>3, PointsOf
  <2> QED BY <1>8, <2>2, <2>3
<1>10. m.family \in ToSet(p.families) => \E i \in 0..8 : F = {i}
  <2> SUFFICES ASSUME m.family \in ToSet(p.families) PROVE \E i \in 0..8 : F = {i}
    OBVIOUS
  <2>1. PICK list : list = p.families
    OBVIOUS
  <2>2. PICK v : v = m.family
    OBVIOUS
  <2>3. DOMAIN list \subseteq 1..9 /\ v \in ToSet(list) /\ 9 \in Nat
    <3>1. DOMAIN p.families \subseteq 1..9
      BY Zenon DEF PolicyOK
    <3> QED BY <2>1, <2>2, <3>1
  <2>4. IndexIn(list, v) \in 1..9
    BY <2>3, IndexFacts
  <2>5. PICK i \in 0..8 : i = IndexIn(list, v) - 1
    BY <2>4
  <2>6. F = {i}
    BY <1>3, <2>1, <2>2, <2>3, <2>5, Zenon DEF PlacesIn
  <2> QED BY <2>6
<1>11. m.family \notin ToSet(p.families) => F = {}
  BY <1>3, Zenon DEF PlacesIn
<1>12. PICK y \in Int : y = Points(F, 700, 20) /\ (m.family \in ToSet(p.families) => y >= 540)
  <2>1. 700 \in Int /\ 20 \in Int
    OBVIOUS
  <2>2. CASE m.family \in ToSet(p.families)
    <3>1. PICK i \in 0..8 : F = {i}
      BY <1>10, <2>2
    <3>2. Points(F, 700, 20) = 700 - 20 * i
      BY <2>1, <3>1, PointsOf
    <3> QED BY <3>2
  <2>3. CASE m.family \notin ToSet(p.families)
    <3>1. Points(F, 700, 20) = 0
      BY <1>11, <2>3, Zenon DEF Points
    <3> QED BY <2>3, <3>1
  <2> QED BY <2>2, <2>3
<1>13. HealthyModel(m, p, E) = u + y + 150 + d + e
  BY <1>6, <1>9, <1>12
<1>14. HealthyModel(m, p, E) \in Int
  BY <1>4, <1>13
<1>15. ASSUME m.family \in ToSet(p.families), crowd + Cardinality(healthy) <= 62
       PROVE  HealthyModel(m, p, E) > 0
  <2>1. PICK n \in Nat : E = {n} /\ n <= 5 + crowd + Cardinality(healthy)
    BY <1>2, <1>15, Zenon DEF ListedOK
  <2>2. n <= 67
    BY <1>7, <1>15, <2>1
  <2>3. u = 1000 - 25 * n
    <3>1. 1000 \in Int /\ 25 \in Int
      OBVIOUS
    <3> QED BY <1>9, <2>1, <3>1, PointsOf
  <2>4. y >= 540
    BY <1>12, <1>15
  <2> QED BY <1>4, <1>13, <2>2, <2>3, <2>4
<1> QED BY <1>1, <1>14, <1>15

SignalsOK(s) == s.history \in [Providers -> 0..740]

\* History, budget, retrieval and failures together are worth between -330 and
\* 1115, in hundredths.
LEMMA RetrievalArithmetic ==
  ASSUME NEW v \in -50..0, NEW w \in 0..90, NEW y \in 0..85
  PROVE  20 + v + w + y \in -30..195
  OBVIOUS

LEMMA SignalBounds ==
  ASSUME NEW m \in RtModels, NEW p, NEW s, SignalsOK(s)
  PROVE  Signal(m, p, s) \in -330..1115
<1>1. PICK h \in 0..740 : h = s.history[m.provider]
  <2>1. PICK q \in Providers : q = m.provider
    BY ModelFields
  <2>2. PICK f \in [Providers -> 0..740] : f = s.history
    BY DEF SignalsOK
  <2>3. f[q] \in 0..740
    OBVIOUS
  <2> QED BY <2>1, <2>2, <2>3
<1>2. PICK b \in -80..180 : b = BudgetFit(m, s)
  <2>1. \/ BudgetFit(m, s) = 180 \/ BudgetFit(m, s) = 100 \/ BudgetFit(m, s) = -80
        \/ BudgetFit(m, s) = 80 \/ BudgetFit(m, s) = 0
    <3> DEFINE red == s.budget = "reduce"
               loc == m.provider \in LocalOnes
               big == m.family \in {"gpt", "claude", "gemini"}
               inc == s.budget = "expand"
    <3>1. BudgetFit(m, s) = CASE red /\ loc -> 180
                              [] red /\ ~loc /\ m.small -> 100
                              [] red /\ ~loc /\ ~m.small /\ big -> -80
                              [] inc /\ big -> 80
                              [] OTHER -> 0
      BY Zenon DEF BudgetFit
    <3>2. ~(red /\ inc)
      OBVIOUS
    <3> HIDE DEF red, loc, big, inc
    <3>3. CASE red /\ loc
      BY <3>1, <3>2, <3>3, Zenon
    <3>4. CASE red /\ ~loc /\ m.small
      BY <3>1, <3>2, <3>4, Zenon
    <3>5. CASE red /\ ~loc /\ ~m.small
      BY <3>1, <3>2, <3>5, Zenon
    <3>6. CASE ~red
      BY <3>1, <3>6, Zenon
    <3> QED BY <3>3, <3>4, <3>5, <3>6, Zenon
  <2> QED BY <2>1
<1> DEFINE v == IF m.small THEN -50 ELSE 0
           w == IF p.path \in {"analysis", "research", "cloud"}
                    /\ m.family \in {"gpt", "claude", "gemini", "qwen", "mistral"} THEN 90 ELSE 0
           u == IF s.retrieval = "high" THEN 40 + 30 + 15 ELSE 0
           f == IF m.provider \in s.failed THEN 220 ELSE 0
<1>3. v \in -50..0 /\ w \in 0..90 /\ u \in 0..85 /\ f \in 0..220
  OBVIOUS
<1>4. RetrievalFit(m, p, s) = IF s.retrieval = "none" THEN 0 ELSE 20 + v + w + u
  BY Zenon DEF RetrievalFit
<1>5. Signal(m, p, s) = s.history[m.provider] + BudgetFit(m, s) + RetrievalFit(m, p, s) - f
  BY Zenon DEF Signal
<1> HIDE DEF v, w, u, f
<1>6. PICK r \in -30..195 : r = RetrievalFit(m, p, s)
  <2>1. CASE s.retrieval = "none"
    <3>1. RetrievalFit(m, p, s) = 0
      BY <1>4, <2>1, Zenon
    <3> QED BY <3>1
  <2>2. CASE s.retrieval # "none"
    <3>1. RetrievalFit(m, p, s) = 20 + v + w + u
      BY <1>4, <2>2, Zenon
    <3>2. 20 + v + w + u \in -30..195
      BY <1>3, RetrievalArithmetic, Zenon
    <3> QED BY <3>1, <3>2
  <2> QED BY <2>1, <2>2
<1>7. Signal(m, p, s) = h + b + r - f
  BY <1>1, <1>2, <1>5, <1>6
<1> QED BY <1>3, <1>7

LEMMA PriorityBounds ==
  ASSUME NEW m \in RtModels, NEW p, PolicyOK(p)
  PROVE  ProviderPriority(m, p) \in 0..245
<1>1. PICK q \in Providers : q = m.provider
  BY ModelFields
<1>2. PICK k \in 1..8 : k = ProviderPlace(p, q)
  BY PlaceFacts
<1>3. ProviderPriority(m, p) = 35 * (8 - k)
  BY <1>1, <1>2 DEF ProviderPriority
<1> QED BY <1>3

\* What the selector settles on: the policy's own model when none is rated, or
\* a rated model that no other comes before.
Settled(p, healthy, crowd, s) ==
  LET c == ResolveAvailableModel(p, healthy, crowd, s)
      rated == Rated(p, healthy, crowd)
  IN  \/ rated = {} /\ c = [provider |-> p.provider, name |-> p.model]
      \/ \E m \in rated :
           /\ c = [provider |-> m.provider, name |-> m.name]
           /\ \A o \in rated : ModelScore(m, p, healthy, crowd, s) >= ModelScore(o, p, healthy, crowd, s)

LEMMA ResolveFacts ==
  ASSUME NEW p, PolicyOK(p), NEW healthy \in SUBSET RtModels, NEW crowd \in Nat, NEW s, SignalsOK(s)
  PROVE  /\ Settled(p, healthy, crowd, s)
         /\ \A m \in healthy : ModelScore(m, p, healthy, crowd, s) \in Int
<1> DEFINE R == Rated(p, healthy, crowd)
           score(m) == ModelScore(m, p, healthy, crowd, s)
           better(m, o) == score(m) > score(o) \/ (score(m) = score(o) /\ m.order <= o.order)
           best == CHOOSE m \in R : \A o \in R : better(m, o)
<1>1. R \in SUBSET healthy /\ R \in SUBSET RtModels
  BY DEF Rated
<1>2. ASSUME NEW m \in healthy PROVE score(m) \in Int
  <2>1. PICK b \in Int : b = HealthyModel(m, p, Expanded(p, healthy, crowd)[m])
    BY BaseFacts
  <2>2. PICK g \in 0..245 : g = ProviderPriority(m, p)
    BY PriorityBounds
  <2>3. PICK e \in -330..1115 : e = Signal(m, p, s)
    BY SignalBounds
  <2>4. score(m) = 100 * b + g + e
    BY <2>1, <2>2, <2>3 DEF ModelScore
  <2> QED BY <2>4
<1>3. ResolveAvailableModel(p, healthy, crowd, s) =
        IF R = {} THEN [provider |-> p.provider, name |-> p.model]
        ELSE [provider |-> best.provider, name |-> best.name]
  BY Zenon DEF ResolveAvailableModel
<1>4. CASE R = {}
  <2>1. ResolveAvailableModel(p, healthy, crowd, s) = [provider |-> p.provider, name |-> p.model]
    BY <1>3, <1>4, Zenon
  <2>2. Settled(p, healthy, crowd, s)
    BY <1>4, <2>1, Zenon DEF Settled
  <2> QED BY <1>2, <2>2
<1>5. CASE R # {}
  <2>1. PICK S \in SUBSET RtModels : S = R
    BY <1>1
  <2>2. IsFiniteSet(S)
    BY ModelsKnown, FS_Subset
  <2>3. \A m \in S : score(m) \in Int
    BY <1>1, <1>2, <2>1
  <2>4. \A m \in S : m.order \in Nat
    BY ModelFields
  <2>5. PICK sc \in [S -> Int] : sc = [m \in S |-> score(m)]
    <3> HIDE DEF score
    <3> QED BY <2>3
  <2>6. PICK od \in [S -> Nat] : od = [m \in S |-> m.order]
    BY <2>4
  <2>7. PICK f \in S : \A o \in S : Ahead(sc, od, f, o)
    BY <1>5, <2>1, <2>2, FirstExists
  <2>8. \A m, o \in S : Ahead(sc, od, m, o) <=> better(m, o)
    <3> HIDE DEF score
    <3> QED BY <2>5, <2>6 DEF Ahead
  <2>9. f \in R /\ \A o \in R : better(f, o)
    <3> HIDE DEF better, R
    <3> QED BY <2>1, <2>7, <2>8
  <2>10. best \in R /\ \A o \in R : better(best, o)
    <3> HIDE DEF better, R
    <3> QED BY <2>9
  <2>11. ResolveAvailableModel(p, healthy, crowd, s) = [provider |-> best.provider, name |-> best.name]
    BY <1>3, <1>5, Zenon
  <2> HIDE DEF best
  <2>12. PICK m \in R : m = best
    BY <2>10
  <2>13. ASSUME NEW o \in R PROVE score(m) >= score(o)
    <3>1. score(m) \in Int /\ score(o) \in Int
      BY <2>1, <2>3
    <3>2. score(m) > score(o) \/ score(m) = score(o)
      BY <2>10, <2>12
    <3> HIDE DEF score
    <3> QED BY <3>1, <3>2
  <2>14. Settled(p, healthy, crowd, s)
    BY <2>11, <2>12, <2>13, Zenon DEF Settled
  <2> QED BY <1>2, <2>14
<1> QED BY <1>4, <1>5

LEMMA LeadArithmetic ==
  ASSUME NEW i \in Int, NEW j \in Int, NEW g \in Int, NEW h \in Int, NEW d \in Int, NEW e \in Int,
         0 <= g, g <= 245, 0 <= h, h <= 245, 0 <= d + 330, d <= 1115, 0 <= e + 330, e <= 1115,
         100 * i + g + d >= 100 * j + h + e
  PROVE  i > j - 20
  OBVIOUS

\* The selector's choice is at most 20 behind in the policy's own rating.
LEMMA PolicyLeads ==
  ASSUME NEW p, PolicyOK(p), NEW healthy \in SUBSET RtModels, NEW crowd \in Nat, NEW s, SignalsOK(s),
         NEW m \in Rated(p, healthy, crowd), NEW o \in Rated(p, healthy, crowd),
         m.provider = ResolveAvailableModel(p, healthy, crowd, s).provider,
         m.name = ResolveAvailableModel(p, healthy, crowd, s).name
  PROVE  HealthyModel(m, p, Expanded(p, healthy, crowd)[m]) > HealthyModel(o, p, Expanded(p, healthy, crowd)[o]) - 20
<1>1. m \in healthy /\ o \in healthy /\ m \in RtModels /\ o \in RtModels
  BY DEF Rated
<1>2. Settled(p, healthy, crowd, s)
  BY ResolveFacts
<1>3. PICK f \in Rated(p, healthy, crowd) :
           /\ ResolveAvailableModel(p, healthy, crowd, s) = [provider |-> f.provider, name |-> f.name]
           /\ \A q \in Rated(p, healthy, crowd) :
                ModelScore(f, p, healthy, crowd, s) >= ModelScore(q, p, healthy, crowd, s)
  BY <1>2, Zenon DEF Settled
<1>4. m = f
  <2>1. f \in RtModels
    BY DEF Rated
  <2>2. m.provider = f.provider /\ m.name = f.name
    BY <1>3
  <2> QED BY <1>1, <2>1, <2>2, ModelsKnown
<1>5. PICK mb \in Int : mb = HealthyModel(m, p, Expanded(p, healthy, crowd)[m])
  BY <1>1, BaseFacts
<1>6. PICK ob \in Int : ob = HealthyModel(o, p, Expanded(p, healthy, crowd)[o])
  BY <1>1, BaseFacts
<1>7. PICK mg \in 0..245 : mg = ProviderPriority(m, p)
  BY <1>1, PriorityBounds
<1>8. PICK og \in 0..245 : og = ProviderPriority(o, p)
  BY <1>1, PriorityBounds
<1>9. PICK ms \in -330..1115 : ms = Signal(m, p, s)
  BY <1>1, SignalBounds
<1>10. PICK os \in -330..1115 : os = Signal(o, p, s)
  BY <1>1, SignalBounds
<1>11. ModelScore(m, p, healthy, crowd, s) = 100 * mb + mg + ms
  BY <1>5, <1>7, <1>9 DEF ModelScore
<1>12. ModelScore(o, p, healthy, crowd, s) = 100 * ob + og + os
  BY <1>6, <1>8, <1>10 DEF ModelScore
<1>13. 100 * mb + mg + ms >= 100 * ob + og + os
  BY <1>3, <1>4, <1>11, <1>12
<1>14. mg \in Int /\ og \in Int /\ 0 <= mg /\ mg <= 245 /\ 0 <= og /\ og <= 245
  OBVIOUS
<1>15. ms \in Int /\ os \in Int /\ 0 <= ms + 330 /\ ms <= 1115 /\ 0 <= os + 330 /\ os <= 1115
  OBVIOUS
<1>16. mb > ob - 20
  BY <1>13, <1>14, <1>15, LeadArithmetic
<1> QED BY <1>5, <1>6, <1>16

-----------------------------------------------------------------------------
(* The router reads the lanes, the confirmed models and what is remembered: *)
(* what it finds stays the same while they do.                              *)

StillLanes == rtLanes' = rtLanes /\ rtHealthy' = rtHealthy /\ rtSignals' = rtSignals

LEMMA MatchesStill ==
  ASSUME StillLanes, NEW CONSTANT id, NEW CONSTANT t
  PROVE  MatchesModel(id, t)' <=> MatchesModel(id, t)
  BY DEF StillLanes, MatchesModel

LEMMA CanRouteStill ==
  ASSUME StillLanes, NEW CONSTANT id, NEW CONSTANT t
  PROVE  CanRoute(id, t)' <=> CanRoute(id, t)
  BY DEF StillLanes, CanRoute, CanAccept, Open

\* The policy score with what the models it may be asked for are worth apart.
RawGiven(id, t, c, w) ==
  LET a == AgentOf(id)
      strict == c \in {"high", "critical"} \/ HighRisk(t)
  IN  100 + When(a.status = "ready", 20) + When(a.status = "busy", 5) + 40
        + When(t.provider = a.provider, 35)
        + w
        + When(t.preferred = id, 120)
        + When(strict /\ a.provider \in PaidOnes, 40)
        + When(strict /\ "review" \in a.kinds, 12)
        + When(~strict /\ a.provider \in LocalOnes, 25)
        + When(~strict /\ a.provider \in {"mistral", "antigravity", "mimo"}, 15)
        - When(~strict /\ a.provider \in PaidOnes, 20)
        + When(t.sourcecraft /\ id = "orchestrator", 100)
        + When(t.type \in a.kinds, 10)
        + When(c = "low" /\ a.provider = "local", 10)
        + ClusterPolicyDelta(a, t, c)

LEMMA RawSplit ==
  ASSUME NEW id, NEW t, NEW c
  PROVE  PolicyScore(id, t, c) =
           Clamp(RawGiven(id, t, c, When(t.model # "" /\ MatchesModel(id, t), 15)) - 80, 0, 160)
  BY Zenon DEF PolicyScore, RawPolicyScore, RawGiven

LEMMA PolicyStill ==
  ASSUME StillLanes, NEW CONSTANT id, NEW CONSTANT t, NEW CONSTANT c
  PROVE  PolicyScore(id, t, c)' = PolicyScore(id, t, c)
<1> DEFINE W == When(t.model # "" /\ MatchesModel(id, t), 15)
<1>1. MatchesModel(id, t)' <=> MatchesModel(id, t)
  BY MatchesStill
<1>2. W' = W
  BY <1>1 DEF When
<1>3. PolicyScore(id, t, c) = Clamp(RawGiven(id, t, c, W) - 80, 0, 160)
  BY RawSplit
<1>4. PolicyScore(id, t, c)' = Clamp(RawGiven(id, t, c, W') - 80, 0, 160)
  BY Zenon DEF PolicyScore, RawPolicyScore, RawGiven
<1> HIDE DEF W
<1> QED BY <1>2, <1>3, <1>4

LEMMA PressureStill ==
  ASSUME StillLanes, NEW CONSTANT ids, NEW CONSTANT share
  PROVE  Pressure(ids, share)' = Pressure(ids, share)
<1>1. {id \in ids : rtLanes'[id].load = 100} = {id \in ids : rtLanes[id].load = 100}
  BY DEF StillLanes
<1> QED BY <1>1, Zenon DEF Pressure

LEMMA CapacityStill ==
  ASSUME StillLanes, NEW CONSTANT id, NEW CONSTANT t
  PROVE  Capacity(id, t)' = Capacity(id, t)
<1> DEFINE peers == {o \in Ids : AgentOf(o).provider = AgentOf(id).provider}
           class == {o \in peers : t.class \in AgentOf(o).classes}
<1>1. Pressure(peers, 65)' = Pressure(peers, 65)
  BY PressureStill
<1>2. Pressure(class, 60)' = Pressure(class, 60)
  BY PressureStill
<1>3. rtLanes' = rtLanes
  BY DEF StillLanes
<1> QED BY <1>1, <1>2, <1>3, Zenon DEF Capacity

LEMMA ScoreStill ==
  ASSUME StillLanes, NEW CONSTANT id, NEW CONSTANT t, NEW CONSTANT c
  PROVE  ScoreAgent(id, t, c)' = ScoreAgent(id, t, c)
<1>1. Capacity(id, t)' = Capacity(id, t) /\ rtLanes' = rtLanes
  BY CapacityStill DEF StillLanes
<1>2. RuntimeScore(id, t)' = RuntimeScore(id, t)
  BY <1>1 DEF RuntimeScore
<1>3. PolicyScore(id, t, c)' = PolicyScore(id, t, c)
  BY PolicyStill
<1>4. RetrievalScore(id, t, c)' = RetrievalScore(id, t, c)
  BY Zenon DEF RetrievalScore, StillLanes
<1> QED BY <1>2, <1>3, <1>4 DEF ScoreAgent

\* The agents the filter leaves of those that can take a task.
LEMMA FieldStill ==
  ASSUME StillLanes, NEW CONSTANT t, NEW CONSTANT ex
  PROVE  Field(t, ex)' = Field(t, ex)
<1>1. \A id : CanRoute(id, t)' <=> CanRoute(id, t)
  BY CanRouteStill
<1>2. \A id : MatchesModel(id, t)' <=> MatchesModel(id, t)
  BY MatchesStill
<1>3. Able(t, ex)' = Able(t, ex)
  BY <1>1 DEF Able
<1> QED BY <1>2, <1>3 DEF Field, Filtered, Relaxed

-----------------------------------------------------------------------------
(* Agents that differ in their id alone.                                    *)

LEMMA TwinsAlike ==
  ASSUME NEW a \in Ids, NEW o \in Ids, Twins(a, o)
  PROVE  /\ AgentOf(o).provider = AgentOf(a).provider /\ AgentOf(o).model = AgentOf(a).model
         /\ AgentOf(o).family = AgentOf(a).family /\ AgentOf(o).small = AgentOf(a).small
         /\ AgentOf(o).kinds = AgentOf(a).kinds /\ AgentOf(o).classes = AgentOf(a).classes
         /\ AgentOf(o).status = AgentOf(a).status /\ AgentOf(o).overrides = AgentOf(a).overrides
<1>1. AgentOf(a) \in AgentRecords
  BY AgentIds
<1> QED BY <1>1 DEF Twins, AgentRecords

\* The policy's score of an agent, from what the policy looks at.
ClusterOf(provider, kinds, t, c) ==
  ClusterPolicyDelta([provider |-> provider, kinds |-> kinds], t, c)

LEMMA ClusterIs ==
  ASSUME NEW a, NEW t, NEW c
  PROVE  ClusterPolicyDelta(a, t, c) = ClusterOf(a.provider, a.kinds, t, c)
<1>1. PICK b : b = [provider |-> a.provider, kinds |-> a.kinds]
  OBVIOUS
<1>2. b.provider = a.provider /\ b.kinds = a.kinds
  BY <1>1
<1>3. ClusterPolicyDelta(b, t, c) = ClusterPolicyDelta(a, t, c)
  BY <1>2 DEF ClusterPolicyDelta
<1> QED BY <1>1, <1>3 DEF ClusterOf

RawOf(standing, provider, kinds, matches, first, own, cluster, t, c) ==
  LET strict == c \in {"high", "critical"} \/ HighRisk(t)
  IN  100 + When(standing = "ready", 20) + When(standing = "busy", 5) + 40
        + When(t.provider = provider, 35)
        + matches
        + first
        + When(strict /\ provider \in PaidOnes, 40)
        + When(strict /\ "review" \in kinds, 12)
        + When(~strict /\ provider \in LocalOnes, 25)
        + When(~strict /\ provider \in {"mistral", "antigravity", "mimo"}, 15)
        - When(~strict /\ provider \in PaidOnes, 20)
        + own
        + When(t.type \in kinds, 10)
        + When(c = "low" /\ provider = "local", 10)
        + cluster

LEMMA RawIs ==
  ASSUME NEW id, NEW t, NEW c
  PROVE  RawPolicyScore(id, t, c) =
           RawOf(AgentOf(id).status, AgentOf(id).provider, AgentOf(id).kinds,
                 When(t.model # "" /\ MatchesModel(id, t), 15), When(t.preferred = id, 120),
                 When(t.sourcecraft /\ id = "orchestrator", 100), ClusterPolicyDelta(AgentOf(id), t, c), t, c)
  BY Zenon DEF RawPolicyScore, RawOf

RetrievalOf(provider, kinds, family, small, t, c) ==
  LET high == rtSignals.retrieval = "high"
  IN  IF c \notin {"high", "critical"} /\ t.type \notin {"research", "review"} /\ ~high THEN 50
      ELSE Clamp(35 + When(provider \in PaidOnes, 25) + When(provider \in LocalOnes, 8)
                    + When(kinds \cap {"research", "review", "analysis"} # {}, 18)
                    + When(family \in {"gpt", "claude", "gemini", "qwen", "mistral"}, 18)
                    - When(small, 12) + When(high, 10 + 8 + 6), 0, 100)

LEMMA RetrievalIs ==
  ASSUME NEW id, NEW t, NEW c
  PROVE  RetrievalScore(id, t, c) =
           RetrievalOf(AgentOf(id).provider, AgentOf(id).kinds, AgentOf(id).family, AgentOf(id).small, t, c)
  BY Zenon DEF RetrievalScore, RetrievalOf

\* Twins are alike to the policy and to retrieval.
LEMMA TwinPolicies ==
  ASSUME NEW a \in Ids, NEW o \in Ids, Twins(a, o), NEW t, NEW c,
         a # t.preferred, o # t.preferred, a # "orchestrator", o # "orchestrator"
  PROVE  /\ PolicyScore(o, t, c) = PolicyScore(a, t, c)
         /\ RetrievalScore(o, t, c) = RetrievalScore(a, t, c)
<1>1. PICK p, k, s, f, b : /\ p = AgentOf(a).provider /\ k = AgentOf(a).kinds /\ s = AgentOf(a).status
                           /\ f = AgentOf(a).family /\ b = AgentOf(a).small
  OBVIOUS
<1>2. /\ p = AgentOf(o).provider /\ k = AgentOf(o).kinds /\ s = AgentOf(o).status
      /\ f = AgentOf(o).family /\ b = AgentOf(o).small
  BY <1>1, TwinsAlike
<1>3. PICK d : d = ClusterOf(p, k, t, c)
  OBVIOUS
<1>4. ClusterPolicyDelta(AgentOf(a), t, c) = d /\ ClusterPolicyDelta(AgentOf(o), t, c) = d
  BY <1>1, <1>2, <1>3, ClusterIs
<1>5. MatchesModel(o, t) <=> MatchesModel(a, t)
  BY TwinsAlike DEF MatchesModel
<1>6. /\ When(t.preferred = a, 120) = 0 /\ When(t.sourcecraft /\ a = "orchestrator", 100) = 0
      /\ When(t.preferred = o, 120) = 0 /\ When(t.sourcecraft /\ o = "orchestrator", 100) = 0
  BY DEF When
<1>7. PICK w : w = When(t.model # "" /\ MatchesModel(a, t), 15) /\ w = When(t.model # "" /\ MatchesModel(o, t), 15)
  BY <1>5 DEF When
<1>8. RawPolicyScore(o, t, c) = RawPolicyScore(a, t, c)
  <2>1. RawPolicyScore(a, t, c) = RawOf(s, p, k, w, 0, 0, d, t, c)
    <3>1. RawPolicyScore(a, t, c) =
            RawOf(s, p, k, When(t.model # "" /\ MatchesModel(a, t), 15), When(t.preferred = a, 120),
                  When(t.sourcecraft /\ a = "orchestrator", 100), d, t, c)
      BY <1>1, <1>4, RawIs, Zenon
    <3> QED BY <1>6, <1>7, <3>1, Zenon
  <2>2. RawPolicyScore(o, t, c) = RawOf(s, p, k, w, 0, 0, d, t, c)
    <3>1. RawPolicyScore(o, t, c) =
            RawOf(s, p, k, When(t.model # "" /\ MatchesModel(o, t), 15), When(t.preferred = o, 120),
                  When(t.sourcecraft /\ o = "orchestrator", 100), d, t, c)
      BY <1>2, <1>4, RawIs, Zenon
    <3> QED BY <1>6, <1>7, <3>1, Zenon
  <2> QED BY <2>1, <2>2
<1>9. PolicyScore(o, t, c) = PolicyScore(a, t, c)
  BY <1>8, Zenon DEF PolicyScore
<1>10. RetrievalScore(o, t, c) = RetrievalScore(a, t, c)
  BY <1>1, <1>2, RetrievalIs, Zenon
<1> QED BY <1>9, <1>10

LEMMA ProductGrows ==
  ASSUME NEW x \in Nat, NEW y \in Nat, NEW u \in Nat, NEW v \in Nat, x >= y, u >= v
  PROVE  x * u >= y * v
<1>1. PICK d \in Nat : x = y + d
  <2>1. x - y \in Nat /\ x = y + (x - y)
    OBVIOUS
  <2> QED BY <2>1
<1>2. PICK e \in Nat : u = v + e
  <2>1. u - v \in Nat /\ u = v + (u - v)
    OBVIOUS
  <2> QED BY <2>1
<1>3. x * u = y * v + y * e + d * v + d * e
  BY <1>1, <1>2
<1>4. y * e \in Nat /\ d * v \in Nat /\ d * e \in Nat /\ y * v \in Nat
  OBVIOUS
<1> QED BY <1>3, <1>4

\* What a lane's weight is made of.
StatusShare(l) ==
  CASE l.status = "ready" -> 100 [] l.status = "busy" -> 80 [] l.status = "degraded" -> 45 [] OTHER -> 0
ErrorShare(l) == Clamp(100 - l.err, 5, 100)
LoadShare(l) == Clamp(100 - (65 * l.load) \div 100, 10, 100)

LEMMA HealthierWeighs ==
  ASSUME NEW l \in LaneStates, NEW k \in LaneStates, Healthier(l, k),
         k.status \notin {"offline", "maintenance"}
  PROVE  /\ Weight(l) \in Nat /\ Weight(k) \in Nat /\ Weight(l) >= Weight(k)
         /\ l.err = k.err /\ l.load = k.load => Weight(l) >= Weight(k) + 1000
<1>1. /\ l.err \in {0, 25, 50, 75, 100} /\ k.err \in {0, 25, 50, 75, 100}
      /\ l.load \in {0, 100} /\ k.load \in {0, 100}
      /\ l.status \in {"ready", "busy", "degraded", "maintenance", "offline"}
      /\ k.status \in {"ready", "busy", "degraded"}
  BY DEF LaneStates
<1>2. /\ Standing(l) >= Standing(k) /\ l.err <= k.err /\ l.load <= k.load
      /\ Standing(l) > Standing(k) \/ l.err < k.err \/ l.load < k.load
  BY Zenon DEF Healthier
<1>3. PICK p \in {0, 45, 80, 100} : p = StatusShare(l)
  BY DEF StatusShare
<1>4. PICK q \in {45, 80, 100} : q = StatusShare(k)
  BY <1>1 DEF StatusShare
<1>5. p >= q /\ (l.err = k.err /\ l.load = k.load => p >= q + 20)
  BY <1>1, <1>2, <1>3, <1>4 DEF StatusShare, Standing
<1>6. PICK e \in {5, 25, 50, 75, 100} : e = ErrorShare(l)
  BY <1>1 DEF ErrorShare, Clamp
<1>7. PICK f \in {5, 25, 50, 75, 100} : f = ErrorShare(k)
  BY <1>1 DEF ErrorShare, Clamp
<1>8. e >= f /\ (l.err = k.err => e = f)
  BY <1>1, <1>2, <1>6, <1>7 DEF ErrorShare, Clamp
<1>9. PICK g \in {35, 100} : g = LoadShare(l)
  BY <1>1 DEF LoadShare, Clamp
<1>10. PICK h \in {35, 100} : h = LoadShare(k)
  BY <1>1 DEF LoadShare, Clamp
<1>11. g >= h /\ (l.load = k.load => g = h)
  BY <1>1, <1>2, <1>9, <1>10 DEF LoadShare, Clamp
<1>12. Weight(l) = p * e * g /\ Weight(k) = q * f * h
  <2>1. Weight(l) = StatusShare(l) * ErrorShare(l) * LoadShare(l)
    BY Zenon DEF Weight, StatusShare, ErrorShare, LoadShare
  <2>2. Weight(k) = StatusShare(k) * ErrorShare(k) * LoadShare(k)
    BY Zenon DEF Weight, StatusShare, ErrorShare, LoadShare
  <2> QED BY <1>3, <1>4, <1>6, <1>7, <1>9, <1>10, <2>1, <2>2, Zenon
<1>13. PICK m \in Nat : m = p * e
  OBVIOUS
<1>14. PICK n \in Nat : n = q * f
  OBVIOUS
<1>15. m >= n /\ (l.err = k.err /\ l.load = k.load => m >= n + 100)
  BY <1>5, <1>8, <1>13, <1>14
<1>16. Weight(l) = m * g /\ Weight(k) = n * h
  BY <1>12, <1>13, <1>14
<1>17. m * g \in Nat /\ n * h \in Nat /\ m * g >= n * h
  BY <1>11, <1>15, ProductGrows
<1>18. l.err = k.err /\ l.load = k.load => m * g >= n * h + 1000
  BY <1>11, <1>15
<1> QED BY <1>16, <1>17, <1>18

LEMMA MaxGrows ==
  ASSUME NEW i \in Int, NEW j \in Int, NEW k \in Int, NEW l \in Int, NEW m \in Int, NEW n \in Int, i <= m, j <= n
  PROVE  Max({i, j, k, l}) <= Max({m, n, k, l})
<1>1. PICK x \in Int : x = Max({i, j, k, l})
  BY MaxOfFour
<1>2. PICK y \in Int : y = Max({m, n, k, l})
  BY MaxOfFour
<1>3. x \in {i, j, k, l}
  BY <1>1, MaxOfFour
<1>4. \A z \in {m, n, k, l} : z <= y
  <2>1. \A z \in {m, n, k, l} : z <= Max({m, n, k, l})
    BY MaxOfFour, Zenon
  <2> QED BY <1>2, <2>1, Zenon
<1> QED BY <1>1, <1>2, <1>3, <1>4

\* Of twins the one on the healthier lane has the higher score.
LEMMA TwinScores ==
  ASSUME LanesOK, NEW a \in Ids, NEW o \in Ids, Twins(a, o), NEW t, NEW c, CanRoute(a, t),
         {a, o} \cap {t.preferred, "orchestrator"} = {}, Healthier(rtLanes[o], rtLanes[a])
  PROVE  ScoreAgent(o, t, c) > ScoreAgent(a, t, c)
<1>1. PICK l \in LaneStates : l = rtLanes[o]
  BY DEF LanesOK
<1>2. PICK k \in LaneStates : k = rtLanes[a]
  BY DEF LanesOK
<1>3. Healthier(l, k) /\ k.status \notin {"offline", "maintenance"}
  BY <1>1, <1>2 DEF CanRoute, Open
<1>4. PICK w \in Nat, v \in Nat :
        /\ w = Weight(l) /\ v = Weight(k) /\ w >= v
        /\ l.err = k.err /\ l.load = k.load => w >= v + 1000
  BY <1>3, HealthierWeighs
<1>5. PICK e \in Int, d \in Int : e = l.err /\ d = l.load
  BY DEF LaneStates
<1>6. PICK f \in Int, g \in Int : f = k.err /\ g = k.load
  BY DEF LaneStates
<1>7. e <= f /\ d <= g
  BY <1>3, <1>5, <1>6 DEF Healthier
<1> DEFINE peers(x) == {y \in Ids : AgentOf(y).provider = AgentOf(x).provider}
           class(x) == {y \in peers(x) : t.class \in AgentOf(y).classes}
<1>8. /\ Capacity(o, t) = 100 - Max({rtLanes[o].load, rtLanes[o].err, Pressure(peers(o), 65), Pressure(class(o), 60)})
      /\ Capacity(a, t) = 100 - Max({rtLanes[a].load, rtLanes[a].err, Pressure(peers(a), 65), Pressure(class(a), 60)})
  BY Zenon DEF Capacity
<1>9. peers(o) = peers(a) /\ class(o) = class(a)
  BY TwinsAlike
<1>10. PICK P \in SUBSET Ids : P = peers(a)
  OBVIOUS
<1>11. PICK C \in SUBSET Ids : C = class(a)
  OBVIOUS
<1> HIDE DEF peers, class
<1>12. PICK p \in Int : p = Pressure(P, 65)
  BY PressureInt
<1>13. PICK q \in Int : q = Pressure(C, 60)
  BY PressureInt
<1>14. Capacity(o, t) = 100 - Max({d, e, p, q}) /\ Capacity(a, t) = 100 - Max({g, f, p, q})
  BY <1>1, <1>2, <1>5, <1>6, <1>8, <1>9, <1>10, <1>11, <1>12, <1>13, Zenon
<1>15. Max({d, e, p, q}) <= Max({g, f, p, q})
  BY <1>7, MaxGrows
<1>16. PICK m \in Int, n \in Int : m = Capacity(o, t) /\ n = Capacity(a, t) /\ m >= n
  <2>1. PICK i \in Int : i = Max({d, e, p, q})
    BY MaxOfFour
  <2>2. PICK j \in Int : j = Max({g, f, p, q})
    BY MaxOfFour
  <2>3. i <= j /\ Capacity(o, t) = 100 - i /\ Capacity(a, t) = 100 - j
    BY <1>14, <1>15, <2>1, <2>2, Zenon
  <2> QED BY <2>3
<1>17. PICK x \in Int : x = (50 * w) \div 10000 + 18 * (100 - e) + 16 * (100 - d) + 16 * m
  OBVIOUS
<1>18. PICK y \in Int : y = (50 * v) \div 10000 + 18 * (100 - f) + 16 * (100 - g) + 16 * n
  OBVIOUS
<1>19. RuntimeScore(o, t) = x
  <2>1. RuntimeScore(o, t) = (50 * Weight(rtLanes[o])) \div 10000 + 18 * (100 - rtLanes[o].err)
                                + 16 * (100 - rtLanes[o].load) + 16 * Capacity(o, t)
    BY Zenon DEF RuntimeScore
  <2>2. Weight(rtLanes[o]) = w /\ rtLanes[o].err = e /\ rtLanes[o].load = d /\ Capacity(o, t) = m
    BY <1>1, <1>4, <1>5, <1>16, Zenon
  <2> QED BY <1>17, <2>1, <2>2, SMTT(40)
<1>20. RuntimeScore(a, t) = y
  <2>1. RuntimeScore(a, t) = (50 * Weight(rtLanes[a])) \div 10000 + 18 * (100 - rtLanes[a].err)
                                + 16 * (100 - rtLanes[a].load) + 16 * Capacity(a, t)
    BY Zenon DEF RuntimeScore
  <2>2. Weight(rtLanes[a]) = v /\ rtLanes[a].err = f /\ rtLanes[a].load = g /\ Capacity(a, t) = n
    BY <1>2, <1>4, <1>6, <1>16, Zenon
  <2> QED BY <1>18, <2>1, <2>2, SMTT(40)
<1>21. x > y
  <2>1. (50 * w) \div 10000 >= (50 * v) \div 10000
    BY <1>4
  <2>2. CASE e = f /\ d = g
    <3>1. w >= v + 1000
      BY <1>4, <1>5, <1>6, <2>2
    <3>2. (50 * w) \div 10000 >= (50 * v) \div 10000 + 1
      BY <3>1
    <3> QED BY <1>7, <1>16, <1>17, <1>18, <2>2, <3>2
  <2>3. CASE e # f \/ d # g
    BY <1>7, <1>16, <1>17, <1>18, <2>1, <2>3
  <2> QED BY <2>2, <2>3
<1>22. PICK s \in Int, r \in Int : s = PolicyScore(a, t, c) /\ r = RetrievalScore(a, t, c)
  BY PolicyInt, RetrievalInt
<1>23. PolicyScore(o, t, c) = s /\ RetrievalScore(o, t, c) = r
  <2>1. a # t.preferred /\ o # t.preferred /\ a # "orchestrator" /\ o # "orchestrator"
    OBVIOUS
  <2> QED BY <1>22, <2>1, TwinPolicies
<1>24. /\ ScoreAgent(o, t, c) = 39 * 10000 * s + 20 * 160 * x + 11 * 16000 * r
       /\ ScoreAgent(a, t, c) = 39 * 10000 * s + 20 * 160 * y + 11 * 16000 * r
  BY <1>19, <1>20, <1>22, <1>23 DEF ScoreAgent
<1> QED BY <1>21, <1>24

-----------------------------------------------------------------------------
(* The inductive invariant of a submission.                                 *)

RtStages == {"submitted", "planned", "adapted", "routed", "rejected", "accepted",
             "refused", "moved", "failed"}

\* A task has the fields the stages write.
TaskShape(t) == {"complexity", "provider", "model", "helpers", "override", "failures"} \subseteq DOMAIN t

\* Agent a takes task t: it can, and unless something else decides, the filter
\* leaves it and no agent the filter leaves beats it.
Takes(t, a) ==
  /\ a \in Ids /\ CanRoute(a, t)
  /\ a # t.preferred /\ a # "orchestrator" =>
       /\ a \in Field(t, {})
       /\ \A o \in Field(t, {}) :
            \/ ScoreAgent(a, t, Classify(t)) > ScoreAgent(o, t, Classify(t))
            \/ ScoreAgent(a, t, Classify(t)) = ScoreAgent(o, t, Classify(t)) /\ AgentPlace(a) <= AgentPlace(o)

RtInputs ==
  /\ rtHealthy \in SUBSET RtModels /\ rtCrowd \in Nat /\ SignalsOK(rtSignals)

RtTaskInv ==
  /\ rtStage \in RtStages /\ TaskShape(rtTask)
  /\ rtStage # "submitted" => rtTask.complexity \in Complexities
  /\ rtTask.provider \in Providers \cup {""}
  /\ rtStage = "submitted" => rtTask \in RtTasks

RtLaneInv ==
  /\ rtStage \notin {"moved", "failed"} => rtLanes \in [Ids -> LanesMet]
  /\ rtLanes \in [Ids -> LaneStates]

RtAgentInv ==
  /\ rtAgent = {} \/ \E a \in Ids : rtAgent = {a}
  /\ rtStage \in {"routed", "accepted", "refused"} => \E t, a : t = rtTask /\ rtAgent = {a} /\ Takes(t, a)

RtPolicyInv ==
  /\ Prepared => PolicyOK(rtPolicy)
  /\ RiskKeepsReview

RtInv ==
  /\ RtInputs /\ RtTaskInv /\ RtLaneInv /\ RtAgentInv /\ RtPolicyInv
  /\ AssignedTogether /\ FallbackReachesAll

LEMMA TasksKnown ==
  ASSUME NEW t \in RtTasks
  PROVE  /\ TaskShape(t) /\ t.complexity \in Complexities \cup {""} /\ t.provider \in Providers \cup {""}
         /\ ~t.fixed => t.provider = "" /\ t.model = ""
<1>1. t \in TaskRecords
  BY RoutingAssumption, Zenon
<1>2. ~t.fixed => t.provider = "" /\ t.model = ""
  BY RoutingAssumption, Zenon
<1>3. t.complexity \in Complexities \cup {""} /\ t.provider \in Providers \cup {""}
  BY <1>1 DEF TaskRecords
<1>4. TaskShape(t)
  BY <1>1 DEF TaskShape, TaskRecords
<1> QED BY <1>2, <1>3, <1>4, Zenon

LEMMA LanesMetAreLanes ==
  /\ LanesMet \subseteq LaneStates
  /\ \A l \in LanesMet : l.err \in {0, 25, 75} /\ (l.err >= 75 => l.status = "maintenance")
  /\ Fresh \in LanesMet
<1>1. Fresh \in LanesMet
  BY DEF LanesMet
<1>2. ASSUME NEW l \in LanesMet PROVE l \in LaneStates /\ l.err \in {0, 25, 75} /\ (l.err >= 75 => l.status = "maintenance")
  <2>1. PICK f : f = [status |-> "ready", err |-> 0, load |-> 0]
    OBVIOUS
  <2>2. Fresh = f /\ [Fresh EXCEPT !.load = 100] = [status |-> "ready", err |-> 0, load |-> 100]
    BY <2>1 DEF Fresh
  <2>3. \/ l = [status |-> "ready", err |-> 0, load |-> 0]
        \/ l = [status |-> "ready", err |-> 0, load |-> 100]
        \/ l = [status |-> "degraded", err |-> 25, load |-> 0]
        \/ l = [status |-> "maintenance", err |-> 75, load |-> 0]
    BY <2>1, <2>2 DEF LanesMet
  <2> QED BY <2>3 DEF LaneStates
<1> QED BY <1>1, <1>2

LEMMA RtInitInv == RtInit => RtInv
<1> SUFFICES ASSUME RtInit PROVE RtInv
  OBVIOUS
<1>1. rtStage = "submitted" /\ rtTask \in RtTasks /\ rtHealthy \in SUBSET RtModels /\ rtAgent = {}
  BY DEF RtInit
<1>2. \/ rtSignals \in SignalsMet /\ rtCrowd \in RtCrowds /\ rtLanes = [id \in Ids |-> Fresh]
      \/ rtSignals = Neutral /\ rtCrowd = 0 /\ rtLanes \in [Ids -> LanesMet]
  BY Zenon DEF RtInit
<1>3. rtCrowd \in Nat
  <2>1. RtCrowds \subseteq Nat
    BY RoutingAssumption, Zenon
  <2>2. rtCrowd \in RtCrowds \/ rtCrowd = 0
    BY <1>2, Zenon
  <2>3. 0 \in Nat
    OBVIOUS
  <2> QED BY <2>1, <2>2, <2>3, Zenon
<1>4. SignalsOK(rtSignals)
  <2>1. CASE rtSignals \in SignalsMet
    <3> DEFINE one(q) == [p \in Providers |-> IF p = q THEN 740 ELSE 0]
    <3>1. rtSignals.history \in {one(q) : q \in {"openai", "ai_kernel"}}
      BY <2>1 DEF SignalsMet
    <3>2. \A q : one(q) \in [Providers -> 0..740]
      OBVIOUS
    <3> HIDE DEF one
    <3>3. rtSignals.history \in [Providers -> 0..740]
      BY <3>1, <3>2
    <3> QED BY <3>3, Zenon DEF SignalsOK
  <2>2. CASE rtSignals = Neutral
    <3>1. rtSignals.history = [p \in Providers |-> 0]
      BY <2>2 DEF Neutral
    <3>2. [p \in Providers |-> 0] \in [Providers -> 0..740]
      OBVIOUS
    <3> QED BY <3>1, <3>2, Zenon DEF SignalsOK
  <2> QED BY <1>2, <2>1, <2>2, Zenon
<1>5. rtLanes \in [Ids -> LanesMet] /\ rtLanes \in [Ids -> LaneStates]
  <2>1. rtLanes \in [Ids -> LanesMet]
    BY <1>2, LanesMetAreLanes
  <2> QED BY <2>1, LanesMetAreLanes
<1>6. RtTaskInv
  BY <1>1, TasksKnown DEF RtTaskInv, RtStages
<1>7. RtAgentInv
  BY <1>1 DEF RtAgentInv
<1>8. RtPolicyInv /\ AssignedTogether /\ FallbackReachesAll
  BY <1>1 DEF RtPolicyInv, Prepared, RiskKeepsReview, AssignedTogether, FallbackReachesAll
<1> QED BY <1>1, <1>3, <1>4, <1>5, <1>6, <1>7, <1>8 DEF RtInv, RtInputs, RtLaneInv

LEMMA ClassifyIn ==
  ASSUME NEW t, t.complexity \in Complexities \cup {""}
  PROVE  Classify(t) \in Complexities
  BY DEF Classify, Complexities

\* Task u is task t with what the planner writes.
Written(t, u, c, p, m) ==
  /\ TaskShape(u) /\ u.complexity = c /\ u.provider = p /\ u.model = m
  /\ u.marks = t.marks /\ u.fixed = t.fixed

LEMMA WrittenTask ==
  ASSUME NEW t, TaskShape(t), NEW c, NEW p, NEW m, NEW h
  PROVE  Written(t, [t EXCEPT !.complexity = c, !.provider = p, !.model = m, !.helpers = h], c, p, m)
  BY DEF TaskShape, Written

LEMMA PreparePreserves == RtInv /\ Prepare => RtInv'
<1> SUFFICES ASSUME RtInv, Prepare PROVE RtInv'
  OBVIOUS
<1> DEFINE policy == SelectionPolicy(rtTask)
           choice == ResolveAvailableModel(policy, rtHealthy, rtCrowd, rtSignals)
<1>1. /\ rtStage = "submitted" /\ rtStage' = "planned" /\ rtPolicy' = policy
      /\ rtTask' = [rtTask EXCEPT !.complexity = Classify(rtTask),
                      !.provider = IF rtTask.provider = "" /\ ~rtTask.dynamic THEN choice.provider ELSE rtTask.provider,
                      !.model = IF rtTask.model = "" /\ ~rtTask.dynamic THEN choice.name ELSE rtTask.model,
                      !.helpers = SupportLanes(rtTask, policy, choice, rtHealthy)]
      /\ rtSignals' = rtSignals /\ rtHealthy' = rtHealthy /\ rtCrowd' = rtCrowd
      /\ rtLanes' = rtLanes /\ rtAgent' = rtAgent
  BY Zenon DEF Prepare
<1>2. RtInputs /\ RtTaskInv /\ RtLaneInv /\ RtAgentInv
  BY DEF RtInv
<1>3. PICK t \in RtTasks : t = rtTask
  BY <1>1, <1>2 DEF RtTaskInv
<1>4. /\ TaskShape(t) /\ t.complexity \in Complexities \cup {""} /\ t.provider \in Providers \cup {""}
      /\ ~t.fixed => t.provider = "" /\ t.model = ""
  BY TasksKnown
<1>5. PolicyOK(policy) /\ (Escalates(rtTask) => policy.cloud /\ policy.review)
  BY PolicyFacts
<1>6. policy.provider \in Providers
  BY <1>5, Zenon DEF PolicyOK
<1> HIDE DEF policy
<1>7. Settled(policy, rtHealthy, rtCrowd, rtSignals)
  BY <1>2, <1>5, ResolveFacts DEF RtInputs
<1>8. /\ choice.provider \in Providers
      /\ \E m \in RtModels \cup {[provider |-> policy.provider, name |-> policy.model]} :
           m.provider = choice.provider /\ m.name = choice.name
  <2>1. CASE choice = [provider |-> policy.provider, name |-> policy.model]
    BY <1>6, <2>1
  <2>2. CASE \E m \in Rated(policy, rtHealthy, rtCrowd) : choice = [provider |-> m.provider, name |-> m.name]
    <3>1. PICK m \in RtModels : choice = [provider |-> m.provider, name |-> m.name]
      BY <1>2, <2>2 DEF RtInputs, Rated
    <3>2. m.provider \in Providers
      BY ModelFields
    <3> HIDE DEF choice
    <3> QED BY <3>1, <3>2
  <2> QED BY <1>7, <2>1, <2>2, Zenon DEF Settled
<1> HIDE DEF choice
<1>9. PICK p \in Providers \cup {""} :
           p = IF t.provider = "" /\ ~t.dynamic THEN choice.provider ELSE t.provider
  BY <1>4, <1>8
<1>10. PICK n : n = IF t.model = "" /\ ~t.dynamic THEN choice.name ELSE t.model
  OBVIOUS
<1>11. PICK c \in Complexities : c = Classify(t)
  BY <1>4, ClassifyIn
<1>12. PICK h : h = SupportLanes(t, policy, choice, rtHealthy)
  OBVIOUS
<1>13. PICK u : u = rtTask'
  OBVIOUS
<1>14. u = [t EXCEPT !.complexity = c, !.provider = p, !.model = n, !.helpers = h]
  BY <1>1, <1>3, <1>9, <1>10, <1>11, <1>12, <1>13, Zenon
<1>15. /\ TaskShape(u) /\ u.complexity = c /\ u.provider = p /\ u.model = n
       /\ u.marks = t.marks /\ u.fixed = t.fixed
  <2>1. Written(t, [t EXCEPT !.complexity = c, !.provider = p, !.model = n, !.helpers = h], c, p, n)
    BY <1>4, WrittenTask
  <2> QED BY <1>14, <2>1, Zenon DEF Written
<1>16. RtInputs' /\ RtLaneInv'
  BY <1>1, <1>2 DEF RtInputs, RtLaneInv
<1>17. RtTaskInv'
  <2>1. rtTask' = u
    BY <1>13
  <2>2. TaskShape(rtTask)'
    BY <1>15, <2>1 DEF TaskShape
  <2> QED BY <1>1, <1>15, <2>1, <2>2 DEF RtTaskInv, RtStages
<1>18. RtAgentInv'
  <2>1. rtAgent = {} \/ \E a \in Ids : rtAgent = {a}
    BY <1>2 DEF RtAgentInv
  <2> QED BY <1>1, <2>1 DEF RtAgentInv
<1>19. RtPolicyInv'
  <2>1. PolicyOK(rtPolicy)'
    BY <1>1, <1>5, Zenon
  <2>2. RiskKeepsReview'
    <3> SUFFICES ASSUME HighRisk(rtTask)' \/ rtTask'.complexity \in {"high", "critical"}
                 PROVE  rtPolicy'.cloud /\ rtPolicy'.review
      BY DEF RiskKeepsReview
    <3>1. HighRisk(rtTask)' <=> HighRisk(t)
      BY <1>13, <1>15 DEF HighRisk
    <3>2. Escalates(t)
      BY <1>11, <1>13, <1>15, <3>1 DEF Escalates
    <3> QED BY <1>1, <1>3, <1>5, <3>2, Zenon
  <2> QED BY <2>1, <2>2 DEF RtPolicyInv
<1>20. AssignedTogether'
  <2> SUFFICES ASSUME ~rtTask'.fixed, rtTask'.model # ""
               PROVE  \E m \in RtModels \cup {[provider |-> rtPolicy'.provider, name |-> rtPolicy'.model]} :
                        m.provider = rtTask'.provider /\ m.name = rtTask'.model
    BY DEF AssignedTogether
  <2>1. ~t.fixed /\ u.model # "" /\ u.provider = rtTask'.provider /\ u.model = rtTask'.model
    BY <1>13, <1>15
  <2>2. t.provider = "" /\ t.model = ""
    BY <1>4, <2>1
  <2>3. ~t.dynamic
    BY <1>10, <1>15, <2>1, <2>2
  <2>4. u.provider = choice.provider /\ u.model = choice.name
    BY <1>9, <1>10, <1>15, <2>2, <2>3
  <2> QED BY <1>1, <1>8, <2>1, <2>4
<1>21. FallbackReachesAll'
  BY <1>1 DEF FallbackReachesAll
<1> QED BY <1>16, <1>17, <1>18, <1>19, <1>20, <1>21 DEF RtInv

\* Where the task and the policy stay, so does what was said of them.
LEMMA PolicyInvStill ==
  ASSUME RtPolicyInv, rtPolicy' = rtPolicy, rtTask' = rtTask, Prepared' => Prepared
  PROVE  RtPolicyInv'
<1>1. PolicyOK(rtPolicy)' <=> PolicyOK(rtPolicy)
  BY Zenon
<1> QED BY <1>1 DEF RtPolicyInv, RiskKeepsReview, HighRisk

LEMMA OverriddenTask ==
  ASSUME NEW t, TaskShape(t), NEW b
  PROVE  Written(t, [t EXCEPT !.override = b], t.complexity, t.provider, t.model)
  BY DEF TaskShape, Written

LEMMA AdaptPreserves == RtInv /\ AdaptTask => RtInv'
<1> SUFFICES ASSUME RtInv, AdaptTask PROVE RtInv'
  OBVIOUS
<1> DEFINE hit(id) == rtLanes[id].err >= 75 /\ rtLanes[id].status # "offline"
           ill(id) == hit(id) \/ rtLanes[id].status \in {"degraded", "maintenance"}
           mean == MapThenSumSet(LAMBDA id : rtLanes[id].err, Ids)
           over == rtTask.override \/ (\E id \in Ids : ill(id)) \/ mean >= 30 * Cardinality(Ids)
<1>1. /\ rtStage = "planned" /\ rtStage' = "adapted"
      /\ rtSignals' = rtSignals /\ rtHealthy' = rtHealthy /\ rtCrowd' = rtCrowd
      /\ rtPolicy' = rtPolicy /\ rtAgent' = rtAgent
  BY Zenon DEF AdaptTask
<1>2. rtLanes' = [id \in Ids |-> IF hit(id) THEN [rtLanes[id] EXCEPT !.status = "maintenance"] ELSE rtLanes[id]]
  BY Zenon DEF AdaptTask
<1>3. rtTask' = [rtTask EXCEPT !.override = over]
  BY Zenon DEF AdaptTask
<1> HIDE DEF over
<1>4. RtInputs /\ RtTaskInv /\ RtLaneInv /\ RtAgentInv /\ RtPolicyInv /\ AssignedTogether
  BY DEF RtInv
<1>5. PICK u : u = rtTask'
  OBVIOUS
<1>6. /\ TaskShape(u) /\ u.complexity = rtTask.complexity /\ u.provider = rtTask.provider
      /\ u.model = rtTask.model /\ u.marks = rtTask.marks /\ u.fixed = rtTask.fixed
  <2>1. TaskShape(rtTask)
    BY <1>4 DEF RtTaskInv
  <2>2. PICK t : t = rtTask
    OBVIOUS
  <2>3. PICK b : b = over
    OBVIOUS
  <2>4. Written(t, [t EXCEPT !.override = b], t.complexity, t.provider, t.model)
    BY <2>1, <2>2, OverriddenTask
  <2>5. u = [t EXCEPT !.override = b]
    BY <1>3, <1>5, <2>2, <2>3, Zenon
  <2> QED BY <2>2, <2>4, <2>5, Zenon DEF Written
<1>7. rtLanes' = rtLanes
  <2>1. rtLanes \in [Ids -> LanesMet]
    BY <1>1, <1>4 DEF RtLaneInv
  <2>2. ASSUME NEW id \in Ids, hit(id) PROVE [rtLanes[id] EXCEPT !.status = "maintenance"] = rtLanes[id]
    <3>1. PICK l \in LanesMet : l = rtLanes[id]
      BY <2>1
    <3>2. l.status = "maintenance"
      BY <2>2, <3>1, LanesMetAreLanes
    <3>3. l \in LaneStates
      BY LanesMetAreLanes
    <3>4. [l EXCEPT !.status = "maintenance"] = l
      BY <3>2, <3>3 DEF LaneStates
    <3> QED BY <3>1, <3>4
  <2>3. \A id \in Ids : rtLanes'[id] = rtLanes[id]
    <3> TAKE id \in Ids
    <3>1. rtLanes'[id] = IF hit(id) THEN [rtLanes[id] EXCEPT !.status = "maintenance"] ELSE rtLanes[id]
      BY <1>2
    <3> HIDE DEF hit
    <3> QED BY <2>2, <3>1, Zenon
  <2>4. rtLanes' = [id \in Ids |-> rtLanes'[id]]
    BY <1>2
  <2> QED BY <2>1, <2>3, <2>4
<1>8. RtInputs' /\ RtLaneInv'
  BY <1>1, <1>4, <1>7 DEF RtInputs, RtLaneInv
<1>9. RtTaskInv'
  <2>1. TaskShape(rtTask)'
    BY <1>5, <1>6 DEF TaskShape
  <2> QED BY <1>1, <1>4, <1>5, <1>6, <2>1 DEF RtTaskInv, RtStages
<1>10. RtAgentInv'
  <2>1. rtAgent = {} \/ \E a \in Ids : rtAgent = {a}
    BY <1>4 DEF RtAgentInv
  <2> QED BY <1>1, <2>1 DEF RtAgentInv
<1>11. RtPolicyInv'
  <2>1. PolicyOK(rtPolicy)' <=> PolicyOK(rtPolicy)
    BY <1>1, Zenon
  <2>2. HighRisk(rtTask)' <=> HighRisk(rtTask)
    BY <1>5, <1>6 DEF HighRisk
  <2>3. rtTask'.complexity = rtTask.complexity
    BY <1>5, <1>6
  <2> QED BY <1>1, <1>4, <2>1, <2>2, <2>3 DEF RtPolicyInv, RiskKeepsReview, Prepared
<1>12. AssignedTogether'
  <2>1. rtTask'.fixed = rtTask.fixed /\ rtTask'.model = rtTask.model /\ rtTask'.provider = rtTask.provider
    BY <1>5, <1>6
  <2> QED BY <1>1, <1>4, <2>1, Zenon DEF AssignedTogether
<1>13. FallbackReachesAll'
  BY <1>1 DEF FallbackReachesAll
<1> QED BY <1>8, <1>9, <1>10, <1>11, <1>12, <1>13 DEF RtInv

LEMMA TakesStill ==
  ASSUME StillLanes, NEW CONSTANT t, NEW CONSTANT a
  PROVE  Takes(t, a)' <=> Takes(t, a)
<1>1. CanRoute(a, t)' <=> CanRoute(a, t)
  BY CanRouteStill
<1>2. PICK F : F = Field(t, {}) /\ F = Field(t, {})'
  BY FieldStill
<1>3. PICK c : c = Classify(t)
  OBVIOUS
<1>4. \A o : ScoreAgent(o, t, c)' = ScoreAgent(o, t, c)
  BY ScoreStill
<1>5. Takes(t, a) <=> /\ a \in Ids /\ CanRoute(a, t)
                      /\ a # t.preferred /\ a # "orchestrator" =>
                           /\ a \in F
                           /\ \A o \in F :
                                \/ ScoreAgent(a, t, c) > ScoreAgent(o, t, c)
                                \/ ScoreAgent(a, t, c) = ScoreAgent(o, t, c) /\ AgentPlace(a) <= AgentPlace(o)
  BY <1>2, <1>3, Zenon DEF Takes
<1>6. Takes(t, a)' <=> /\ a \in Ids /\ CanRoute(a, t)'
                       /\ a # t.preferred /\ a # "orchestrator" =>
                            /\ a \in F
                            /\ \A o \in F :
                                 \/ ScoreAgent(a, t, c)' > ScoreAgent(o, t, c)'
                                 \/ /\ ScoreAgent(a, t, c)' = ScoreAgent(o, t, c)'
                                    /\ AgentPlace(a) <= AgentPlace(o)
  BY <1>2, <1>3, Zenon DEF Takes
<1> QED BY <1>1, <1>4, <1>5, <1>6, Zenon

\* Whom the router answers with takes the task.
LEMMA RoutedTakes ==
  ASSUME LanesOK, NEW t, Routed(t, {}) # {}
  PROVE  \E a \in Ids : Routed(t, {}) = {a} /\ Takes(t, a)
<1>1. RoutedWell(t, {})
  BY RoutedFacts
<1>2. PICK a \in Able(t, {}) : Routed(t, {}) = {a}
  BY <1>1, Zenon DEF RoutedWell
<1>3. a \in Ids /\ CanRoute(a, t)
  BY DEF Able
<1>4. ASSUME a # t.preferred, a # "orchestrator"
      PROVE  /\ a \in Field(t, {})
             /\ \A o \in Field(t, {}) :
                  \/ ScoreAgent(a, t, Classify(t)) > ScoreAgent(o, t, Classify(t))
                  \/ ScoreAgent(a, t, Classify(t)) = ScoreAgent(o, t, Classify(t)) /\ AgentPlace(a) <= AgentPlace(o)
  <2>1. {a} # {t.preferred} /\ {a} # {"orchestrator"}
    BY <1>4
  <2>2. Field(t, {}) # {} /\ {a} = {Best(Field(t, {}), t, Classify(t))}
    BY <1>1, <1>2, <1>4, <2>1, Zenon DEF RoutedWell
  <2>3. PICK c : c = Classify(t)
    OBVIOUS
  <2>4. PICK A \in SUBSET Ids : A = Field(t, {})
    BY DEF Field, Filtered, Able
  <2>5. Scored(t, c)
    BY ScoresAreNumbers
  <2>6. a = Best(A, t, c) /\ A # {}
    BY <2>2, <2>3, <2>4
  <2>7. /\ Best(A, t, c) \in A
        /\ \A o \in A : \/ ScoreAgent(Best(A, t, c), t, c) > ScoreAgent(o, t, c)
                        \/ /\ ScoreAgent(Best(A, t, c), t, c) = ScoreAgent(o, t, c)
                           /\ AgentPlace(Best(A, t, c)) <= AgentPlace(o)
    BY <2>5, <2>6, BestFacts
  <2> QED BY <2>3, <2>4, <2>6, <2>7, Zenon
<1> QED BY <1>2, <1>3, <1>4, Zenon DEF Takes

LEMMA RoutePreserves == RtInv /\ RouteTask => RtInv'
<1> SUFFICES ASSUME RtInv, RouteTask PROVE RtInv'
  OBVIOUS
<1>1. /\ rtStage = "adapted" /\ rtStage' = IF rtAgent' = {} THEN "rejected" ELSE "routed"
      /\ rtTask' = rtTask /\ rtSignals' = rtSignals /\ rtHealthy' = rtHealthy /\ rtCrowd' = rtCrowd
      /\ rtLanes' = rtLanes /\ rtPolicy' = rtPolicy
  BY Zenon DEF RouteTask
<1>2. rtAgent' = Routed(rtTask, {})
  BY Zenon DEF RouteTask
<1>3. RtInputs /\ RtTaskInv /\ RtLaneInv /\ RtAgentInv /\ RtPolicyInv
  BY DEF RtInv
<1>4. StillLanes /\ LanesOK
  BY <1>1, <1>3 DEF StillLanes, LanesOK, RtLaneInv
<1>5. RtInputs' /\ RtLaneInv'
  BY <1>1, <1>3 DEF RtInputs, RtLaneInv
<1>6. RtTaskInv'
  <2>1. TaskShape(rtTask)'
    BY <1>1, <1>3 DEF RtTaskInv, TaskShape
  <2> QED BY <1>1, <1>3, <2>1 DEF RtTaskInv, RtStages
<1>7. PICK t : t = rtTask
  OBVIOUS
<1>8. rtAgent' # {} => \E a \in Ids : rtAgent' = {a} /\ Takes(t, a)
  BY <1>2, <1>4, <1>7, RoutedTakes
<1>9. RtAgentInv'
  <2>1. CASE rtAgent' = {}
    BY <1>1, <2>1 DEF RtAgentInv
  <2>2. CASE rtAgent' # {}
    <3>1. PICK a \in Ids : rtAgent' = {a} /\ Takes(t, a)
      BY <1>8, <2>2
    <3>2. Takes(t, a)'
      BY <1>4, <3>1, TakesStill
    <3>3. t = rtTask' /\ rtStage' = "routed"
      BY <1>1, <1>7, <2>2
    <3> QED BY <3>1, <3>2, <3>3 DEF RtAgentInv
  <2> QED BY <2>1, <2>2
<1>10. RtPolicyInv'
  <2>1. Prepared
    BY <1>1 DEF Prepared
  <2> QED BY <1>1, <1>3, <2>1, PolicyInvStill
<1>11. AssignedTogether'
  BY <1>1 DEF AssignedTogether
<1>12. FallbackReachesAll'
  BY <1>1 DEF FallbackReachesAll
<1> QED BY <1>5, <1>6, <1>9, <1>10, <1>11, <1>12 DEF RtInv

LEMMA AssignmentPreserves == RtInv /\ AssignmentPolicy => RtInv'
<1> SUFFICES ASSUME RtInv, AssignmentPolicy PROVE RtInv'
  OBVIOUS
<1>1. /\ rtStage = "routed"
      /\ rtTask' = rtTask /\ rtSignals' = rtSignals /\ rtHealthy' = rtHealthy /\ rtCrowd' = rtCrowd
      /\ rtLanes' = rtLanes /\ rtPolicy' = rtPolicy /\ rtAgent' = rtAgent
  BY Zenon DEF AssignmentPolicy
<1>2. PICK b : /\ b = CHOOSE id \in rtAgent : TRUE
               /\ rtStage' = IF Open(b) /\ rtTask.provider \in {"", AgentOf(b).provider}
                             THEN "accepted" ELSE "refused"
  BY Zenon DEF AssignmentPolicy
<1>3. RtInputs /\ RtTaskInv /\ RtLaneInv /\ RtAgentInv /\ RtPolicyInv
  BY DEF RtInv
<1>4. StillLanes
  BY <1>1 DEF StillLanes
<1>5. RtInputs' /\ RtLaneInv'
  BY <1>1, <1>2, <1>3 DEF RtInputs, RtLaneInv
<1>6. RtTaskInv'
  <2>1. TaskShape(rtTask)'
    BY <1>1, <1>3 DEF RtTaskInv, TaskShape
  <2> QED BY <1>1, <1>2, <1>3, <2>1 DEF RtTaskInv, RtStages
<1>7. PICK t, a : t = rtTask /\ rtAgent = {a} /\ Takes(t, a)
  BY <1>1, <1>3 DEF RtAgentInv
<1>9. RtAgentInv'
  <2>1. Takes(t, a)' /\ t = rtTask' /\ rtAgent' = {a}
    BY <1>1, <1>4, <1>7, TakesStill
  <2>2. a \in Ids
    BY <1>7 DEF Takes
  <2> QED BY <2>1, <2>2 DEF RtAgentInv
<1>10. RtPolicyInv'
  <2>1. Prepared
    BY <1>1 DEF Prepared
  <2> QED BY <1>1, <1>3, <2>1, PolicyInvStill
<1>11. AssignedTogether'
  BY <1>1, <1>2 DEF AssignedTogether
<1>12. FallbackReachesAll'
  BY <1>1, <1>2 DEF FallbackReachesAll
<1> QED BY <1>5, <1>6, <1>9, <1>10, <1>11, <1>12 DEF RtInv

LEMMA BoundTask ==
  ASSUME NEW t, TaskShape(t), NEW n, NEW p, NEW m
  PROVE  /\ Written(t, [[t EXCEPT !.failures = n] EXCEPT !.provider = p, !.model = m], t.complexity, p, m)
         /\ [t EXCEPT !.failures = n].capability = t.capability
  BY DEF TaskShape, Written

\* The lane of an agent that failed once more.
LEMMA FailedLane ==
  ASSUME NEW l \in LanesMet, NEW e, e = l.err + 25, NEW s \in {"maintenance", "degraded"}
  PROVE  [[l EXCEPT !.err = e] EXCEPT !.status = s] \in LaneStates
<1>1. l \in LaneStates /\ l.err \in {0, 25, 75}
  BY LanesMetAreLanes
<1>2. e \in {25, 50, 100}
  BY <1>1
<1> QED BY <1>1, <1>2 DEF LaneStates

LEMMA FallbackPreserves == RtInv /\ PeerFallback => RtInv'
<1> SUFFICES ASSUME RtInv, PeerFallback PROVE RtInv'
  OBVIOUS
<1>1. RtInputs /\ RtTaskInv /\ RtLaneInv /\ RtAgentInv /\ rtStage = "accepted"
  BY DEF RtInv, PeerFallback
<1>2. PICK a \in Ids : rtAgent = {a}
  BY <1>1 DEF RtAgentInv, Takes
<1> DEFINE A == CHOOSE id \in rtAgent : TRUE
           T == [rtTask EXCEPT !.failures = @ + 1]
           X == Routed(T, {A})
           B == CHOOSE id \in X : TRUE
           E == rtLanes[A].err + 25
           S == IF E >= 75 THEN "maintenance" ELSE "degraded"
<1>3. rtLanes' = [rtLanes EXCEPT ![A].err = E, ![A].status = S]
  BY Zenon DEF PeerFallback
<1>4. /\ rtAgent' = IF X = {} THEN rtAgent ELSE X
      /\ rtTask' = IF X = {} THEN rtTask
                   ELSE [T EXCEPT !.provider = AgentOf(B).provider, !.model = ModelAt(B, T)]
      /\ rtStage' = IF X = {} THEN "failed" ELSE "moved"
      /\ rtSignals' = rtSignals /\ rtHealthy' = rtHealthy /\ rtCrowd' = rtCrowd /\ rtPolicy' = rtPolicy
  BY Zenon DEF PeerFallback
<1>5. A = a
  BY <1>2
<1>6. PICK t : t = T /\ t = [rtTask EXCEPT !.failures = rtTask.failures + 1]
  OBVIOUS
<1>7. PICK e : e = E /\ e = rtLanes[a].err + 25
  BY <1>5
<1>8. PICK s \in {"maintenance", "degraded"} : s = S
  OBVIOUS
<1> HIDE DEF A, T, E, S
<1>20. PICK next : next = X /\ next = Routed(t, {a})
  BY <1>5, <1>6
<1>21. PICK b : b = B /\ b = CHOOSE id \in next : TRUE
  BY <1>20
<1> HIDE DEF B, X
<1>9. /\ rtLanes' = [rtLanes EXCEPT ![a].err = e, ![a].status = s]
      /\ rtAgent' = IF next = {} THEN rtAgent ELSE next
      /\ rtTask' = IF next = {} THEN rtTask
                   ELSE [t EXCEPT !.provider = AgentOf(b).provider, !.model = ModelAt(b, t)]
      /\ rtStage' = IF next = {} THEN "failed" ELSE "moved"
      /\ rtSignals' = rtSignals /\ rtHealthy' = rtHealthy /\ rtCrowd' = rtCrowd /\ rtPolicy' = rtPolicy
  BY <1>3, <1>4, <1>5, <1>6, <1>7, <1>8, <1>20, <1>21
<1>10. RoutedWell(t, {a})
  <2>1. LanesOK
    BY <1>1 DEF LanesOK, RtLaneInv
  <2> QED BY <2>1, RoutedFacts
<1>11. RtInputs'
  BY <1>1, <1>9 DEF RtInputs
<1>12. rtLanes \in [Ids -> LanesMet] /\ rtLanes \in [Ids -> LaneStates]
  BY <1>1 DEF RtLaneInv
<1>13. rtLanes' \in [Ids -> LaneStates] /\ \A id \in Ids \ {a} : rtLanes'[id] = rtLanes[id]
  <2>1. PICK l \in LanesMet : l = rtLanes[a]
    BY <1>12
  <2>2. [[l EXCEPT !.err = e] EXCEPT !.status = s] \in LaneStates
    BY <1>7, <2>1, FailedLane
  <2>3. PICK k \in LaneStates : k = [[l EXCEPT !.err = e] EXCEPT !.status = s]
    BY <2>2
  <2>4. rtLanes' = [rtLanes EXCEPT ![a] = k]
    BY <1>9, <1>12, <2>1, <2>3
  <2> QED BY <1>12, <2>4
<1>14. rtStage' \in {"failed", "moved"}
  BY <1>9
<1>15. RtLaneInv'
  BY <1>13, <1>14 DEF RtLaneInv
<1>16. TaskShape(rtTask) /\ rtTask.complexity \in Complexities /\ rtTask.provider \in Providers \cup {""}
  BY <1>1 DEF RtTaskInv
<1>17. RtPolicyInv' /\ AssignedTogether'
  BY <1>14 DEF RtPolicyInv, Prepared, RiskKeepsReview, AssignedTogether
<1>18. CASE next = {}
  <2>1. rtTask' = rtTask /\ rtAgent' = rtAgent /\ rtStage' = "failed"
    BY <1>9, <1>18, Zenon
  <2>2. RtTaskInv'
    <3>1. TaskShape(rtTask)'
      BY <1>16, <2>1 DEF TaskShape
    <3> QED BY <1>16, <2>1, <3>1 DEF RtTaskInv, RtStages
  <2>3. RtAgentInv'
    BY <1>2, <2>1 DEF RtAgentInv
  <2>4. Field(t, {a}) = {}
    BY <1>20, <1>10, <1>18, Zenon DEF RoutedWell
  <2>5. \A id \in Ids \ {a} : ~CanRoute(id, t)
    BY <2>4 DEF Field, Filtered, Relaxed, Able
  <2>6. t.capability = rtTask.capability
    <3>1. PICK n : n = rtTask.failures + 1
      OBVIOUS
    <3>2. t = [rtTask EXCEPT !.failures = n]
      BY <1>6, <3>1, Zenon
    <3> QED BY <3>2
  <2>7. FallbackReachesAll'
    <3> SUFFICES ASSUME NEW id \in Ids \ rtAgent' PROVE ~CanRoute(id, rtTask)'
      BY DEF FallbackReachesAll
    <3>1. id \in Ids \ {a}
      BY <1>2, <2>1
    <3>2. ~CanRoute(id, t) /\ rtLanes'[id] = rtLanes[id]
      BY <1>13, <2>5, <3>1
    <3> QED BY <2>1, <2>6, <3>2 DEF CanRoute, CanAccept, Open
  <2> QED BY <1>11, <1>15, <1>17, <2>2, <2>3, <2>7 DEF RtInv
<1>19. CASE next # {}
  <2>1. PICK d \in Able(t, {a}) : next = {d}
    BY <1>20, <1>10, <1>19, Zenon DEF RoutedWell
  <2>2. d \in Ids /\ b = d
    BY <1>21, <2>1 DEF Able
  <2>3. PICK p \in Providers : p = AgentOf(b).provider
    <3>1. AgentOf(b) \in AgentRecords
      BY <2>2, AgentIds
    <3> QED BY <3>1 DEF AgentRecords
  <2>4. PICK m : m = ModelAt(b, t)
    OBVIOUS
  <2>5. PICK n : n = rtTask.failures + 1
    OBVIOUS
  <2>6. rtAgent' = {d} /\ rtStage' = "moved"
    BY <1>9, <1>19, <2>1, Zenon
  <2>7. rtTask' = [[rtTask EXCEPT !.failures = n] EXCEPT !.provider = p, !.model = m]
    BY <1>6, <1>9, <1>19, <2>3, <2>4, <2>5, Zenon
  <2>8. PICK q : q = rtTask
    OBVIOUS
  <2>9. PICK u : u = rtTask'
    OBVIOUS
  <2>10. Written(q, [[q EXCEPT !.failures = n] EXCEPT !.provider = p, !.model = m], q.complexity, p, m)
    BY <1>16, <2>8, BoundTask
  <2>11. TaskShape(u) /\ u.complexity = rtTask.complexity /\ u.provider = p
    BY <2>7, <2>8, <2>9, <2>10, Zenon DEF Written
  <2>12. RtTaskInv'
    <3>1. TaskShape(rtTask)'
      BY <2>9, <2>11 DEF TaskShape
    <3> QED BY <1>16, <2>6, <2>9, <2>11, <3>1 DEF RtTaskInv, RtStages
  <2>13. RtAgentInv'
    BY <2>2, <2>6 DEF RtAgentInv
  <2>14. FallbackReachesAll'
    BY <2>6 DEF FallbackReachesAll
  <2> QED BY <1>11, <1>15, <1>17, <2>12, <2>13, <2>14 DEF RtInv
<1> QED BY <1>18, <1>19

LEMMA RtStutters == RtInv /\ UNCHANGED rtVars => RtInv'
<1> SUFFICES ASSUME RtInv, UNCHANGED rtVars PROVE RtInv'
  OBVIOUS
<1>1. /\ rtStage' = rtStage /\ rtTask' = rtTask /\ rtSignals' = rtSignals /\ rtHealthy' = rtHealthy
      /\ rtCrowd' = rtCrowd /\ rtLanes' = rtLanes /\ rtPolicy' = rtPolicy /\ rtAgent' = rtAgent
  BY DEF rtVars
<1>2. RtInputs /\ RtTaskInv /\ RtLaneInv /\ RtAgentInv /\ RtPolicyInv /\ AssignedTogether /\ FallbackReachesAll
  BY DEF RtInv
<1>3. RtInputs' /\ RtLaneInv'
  BY <1>1, <1>2 DEF RtInputs, RtLaneInv
<1>4. RtTaskInv'
  <2>1. TaskShape(rtTask)'
    BY <1>1, <1>2 DEF RtTaskInv, TaskShape
  <2> QED BY <1>1, <1>2, <2>1 DEF RtTaskInv
<1>5. RtAgentInv'
  <2>1. ASSUME rtStage' \in {"routed", "accepted", "refused"}
        PROVE  \E t, a : t = rtTask' /\ rtAgent' = {a} /\ Takes(t, a)'
    <3>1. PICK t, a : t = rtTask /\ rtAgent = {a} /\ Takes(t, a)
      BY <1>1, <1>2, <2>1 DEF RtAgentInv
    <3>2. Takes(t, a)'
      BY <1>1, <3>1, TakesStill DEF StillLanes
    <3> QED BY <1>1, <3>1, <3>2
  <2> QED BY <1>1, <1>2, <2>1 DEF RtAgentInv
<1>6. RtPolicyInv'
  <2>1. Prepared' => Prepared
    BY <1>1 DEF Prepared
  <2> QED BY <1>1, <1>2, <2>1, PolicyInvStill
<1>7. AssignedTogether'
  BY <1>1, <1>2, Zenon DEF AssignedTogether
<1>8. FallbackReachesAll'
  BY <1>1, <1>2 DEF FallbackReachesAll, CanRoute, CanAccept, Open
<1> QED BY <1>3, <1>4, <1>5, <1>6, <1>7, <1>8 DEF RtInv

LEMMA RtInvSound == RtInv => RoutesSound
<1> SUFFICES ASSUME RtInv PROVE RoutesSound
  OBVIOUS
<1>1. RtInputs /\ RtTaskInv /\ RtLaneInv /\ RtAgentInv /\ RtPolicyInv /\ AssignedTogether /\ FallbackReachesAll
  BY DEF RtInv
<1>2. RtTypeOK
  <2>1. /\ rtStage \in {"submitted", "planned", "adapted", "routed", "rejected", "accepted",
                        "refused", "moved", "failed"}
        /\ rtTask.provider \in Providers \cup {""}
    BY <1>1 DEF RtTaskInv, RtStages
  <2>2. rtTask.complexity \in Complexities \cup (IF rtStage = "submitted" THEN {""} ELSE {})
    <3>1. CASE rtStage = "submitted"
      BY <1>1, <3>1, TasksKnown DEF RtTaskInv
    <3>2. CASE rtStage # "submitted"
      BY <1>1, <3>2 DEF RtTaskInv
    <3> QED BY <3>1, <3>2
  <2>3. rtHealthy \subseteq RtModels /\ rtLanes \in [Ids -> LaneStates]
    BY <1>1 DEF RtInputs, RtLaneInv
  <2>4. rtAgent \subseteq Ids /\ Cardinality(rtAgent) <= 1
    <3>1. CASE rtAgent = {}
      <4>1. Cardinality({}) = 0
        BY FS_EmptySet
      <4> QED BY <3>1, <4>1
    <3>2. CASE \E a \in Ids : rtAgent = {a}
      <4>1. PICK a \in Ids : rtAgent = {a}
        BY <3>2
      <4>2. Cardinality({a}) = 1
        BY FS_Singleton
      <4> QED BY <4>1, <4>2
    <3> QED BY <1>1, <3>1, <3>2 DEF RtAgentInv
  <2> QED BY <2>1, <2>2, <2>3, <2>4 DEF RtTypeOK
<1>3. RiskKeepsReview
  BY <1>1 DEF RtPolicyInv
<1>4. PolicyDominates
  <2> SUFFICES ASSUME Prepared, NEW m \in Rated(rtPolicy, rtHealthy, rtCrowd), NEW o \in Rated(rtPolicy, rtHealthy, rtCrowd),
                      m.provider = ResolveAvailableModel(rtPolicy, rtHealthy, rtCrowd, rtSignals).provider,
                      m.name = ResolveAvailableModel(rtPolicy, rtHealthy, rtCrowd, rtSignals).name
               PROVE  Base(m) > Base(o) - 20
    BY Zenon DEF PolicyDominates
  <2>1. PolicyOK(rtPolicy) /\ rtHealthy \in SUBSET RtModels /\ rtCrowd \in Nat /\ SignalsOK(rtSignals)
    BY <1>1 DEF RtPolicyInv, RtInputs
  <2>2. /\ Base(m) = HealthyModel(m, rtPolicy, Expanded(rtPolicy, rtHealthy, rtCrowd)[m])
        /\ Base(o) = HealthyModel(o, rtPolicy, Expanded(rtPolicy, rtHealthy, rtCrowd)[o])
    BY Zenon DEF Base
  <2>3. HealthyModel(m, rtPolicy, Expanded(rtPolicy, rtHealthy, rtCrowd)[m])
          > HealthyModel(o, rtPolicy, Expanded(rtPolicy, rtHealthy, rtCrowd)[o]) - 20
    BY <2>1, PolicyLeads
  <2> QED BY <2>2, <2>3
<1>5. FamilyStaysRated
  <2> SUFFICES ASSUME Prepared, rtCrowd + Cardinality(rtHealthy) <= 62,
                      NEW m \in rtHealthy, m.family \in ToSet(rtPolicy.families)
               PROVE  m \in Rated(rtPolicy, rtHealthy, rtCrowd)
    BY DEF FamilyStaysRated
  <2>1. PolicyOK(rtPolicy) /\ rtHealthy \in SUBSET RtModels /\ rtCrowd \in Nat
    BY <1>1 DEF RtPolicyInv, RtInputs
  <2>2. HealthyModel(m, rtPolicy, Expanded(rtPolicy, rtHealthy, rtCrowd)[m]) > 0
    BY <2>1, BaseFacts
  <2> QED BY <2>2 DEF Rated
<1>6. rtStage \in {"accepted", "refused"} => \E a : rtAgent = {a} /\ Takes(rtTask, a)
  BY <1>1 DEF RtAgentInv
<1>7. HealthierLaneTaken
  <2> SUFFICES ASSUME rtStage = "accepted", NEW a \in rtAgent, NEW o \in Ids, Twins(a, o), CanRoute(o, rtTask),
                      {a, o} \cap {rtTask.preferred, "orchestrator"} = {}, Healthier(rtLanes[o], rtLanes[a])
               PROVE  FALSE
    BY Zenon DEF HealthierLaneTaken
  <2>1. PICK t, c : t = rtTask /\ c = Classify(t)
    OBVIOUS
  <2>2. rtAgent = {a} /\ Takes(t, a)
    BY <1>6, <2>1
  <2>3. a \in Ids /\ CanRoute(a, t) /\ LanesOK
    BY <1>1, <2>2 DEF Takes, RtLaneInv, LanesOK
  <2>4. o \in Field(t, {})
    <3>1. a \in Field(t, {})
      BY <2>1, <2>2 DEF Takes
    <3>2. o \in Able(t, {})
      BY <2>1 DEF Able
    <3>3. MatchesModel(o, t) <=> MatchesModel(a, t)
      BY <2>3, TwinsAlike DEF MatchesModel
    <3>4. AgentOf(o).provider = AgentOf(a).provider
      BY <2>3, TwinsAlike
    <3> QED BY <3>1, <3>2, <3>3, <3>4 DEF Field, Filtered
  <2>5. ScoreAgent(a, t, c) >= ScoreAgent(o, t, c)
    <3>1. \/ ScoreAgent(a, t, c) > ScoreAgent(o, t, c)
          \/ ScoreAgent(a, t, c) = ScoreAgent(o, t, c)
      BY <2>1, <2>2, <2>4, Zenon DEF Takes
    <3>2. ScoreAgent(a, t, c) \in Int /\ ScoreAgent(o, t, c) \in Int
      BY <2>3, ScoresAreNumbers DEF Scored
    <3> QED BY <3>1, <3>2
  <2>6. ScoreAgent(o, t, c) > ScoreAgent(a, t, c)
    BY <2>1, <2>3, TwinScores
  <2>7. ScoreAgent(a, t, c) \in Int /\ ScoreAgent(o, t, c) \in Int
    BY <2>3, ScoresAreNumbers DEF Scored
  <2> QED BY <2>5, <2>6, <2>7
<1> QED BY <1>1, <1>2, <1>3, <1>4, <1>5, <1>7 DEF RoutesSound

\* From the task to its agent, for any agents, models, tasks and crowds: risky
\* work is reviewed, the selector's other signals never outweigh the policy,
\* provider and model belong together, of agents alike the one on the healthier
\* lane is taken, and a failed attempt ends the task only where no agent that
\* could take it is left.
THEOREM RoutesSoundCorrect == RtSpec => []RoutesSound
<1>1. RtInv /\ [RtNext]_rtVars => RtInv'
  BY PreparePreserves, AdaptPreserves, RoutePreserves, AssignmentPreserves, FallbackPreserves, RtStutters
     DEF RtNext
<1> QED BY RtInitInv, <1>1, RtInvSound, PTL DEF RtSpec

=============================================================================
