---------------------------- MODULE CodingRuntime ----------------------------
(***************************************************************************)
(* The managed coding runtime and the delegate that hands it tasks.  A     *)
(* call of the delegate starts a session, saves the workflow, attaches an  *)
(* event pump, waits for the session and saves the result; the goroutine   *)
(* it started runs the lanes of the plan as their dependencies complete, a *)
(* goroutine each.                                                         *)
(*                                                                         *)
(* All calls are for one task, so their sessions have the same id and a    *)
(* later state takes the earlier one's place in the table.  A goroutine    *)
(* looks its state up by that id when it is first scheduled, so two of     *)
(* them may run one state and none the other.  Routing, budget and         *)
(* execution of a lane end well or not; progress, messages and live        *)
(* metrics are left out.  A send on a closed channel, and a second close,  *)
(* stop the process.  Nothing calls AbortTask: a session's context does    *)
(* not end.                                                                *)
(***************************************************************************)
EXTENDS Integers, Sequences, SequencesExt, FiniteSets

CONSTANTS
  Calls,       \* calls of dispatchCodingRuntimeTaskSync and ...Async
  Steps,       \* steps of the plan
  LanePlans,   \* per call: dependency functions of its plans; without lanes, no steps
  Detached,    \* the asynchronous calls
  MaxFaults    \* bound: failed saves

VARIABLES
  plan,        \* per state, named by its call: dependencies of its steps
  table,       \* managedCodingRuntime.sessions at the task's session id
  runner,      \* per goroutine: "none", "launched", "run", "closing" or "closed"
  of,          \* per goroutine: the state it looked up
  outcome,     \* per goroutine: what executeSession returned
  begun, done, \* per goroutine: steps started, and steps whose result was taken
  results,     \* per goroutine: the buffered channel of lane results
  lane,        \* per goroutine and step: "idle", "begun", "noted", "running", "ok", "failed"
  call,        \* per call: where it is
  waitsFor,    \* per call: the session state it waits for
  answer,      \* per call: the result it has
  leaving,     \* per call: its context is done
  bound,       \* codingRuntimeSessionMapper: the call bound to the task
  workflow,    \* the saved record: status and the session it is the result of
  faults,      \* failed saves so far
  down         \* the process has stopped

None == 0
sessionVars == <<plan, table, runner, of, outcome, begun, done, results, lane>>
callVars    == <<call, waitsFor, answer, leaving, bound, workflow, faults>>
codingVars  == <<sessionVars, callVars, down>>

ASSUME CodingAssumption ==
  /\ Calls \subseteq Nat \ {None} /\ Detached \subseteq Calls /\ MaxFaults \in Nat
  /\ \A c \in Calls : \A deps \in LanePlans[c] : DOMAIN deps \subseteq Steps

\* The plan it works on, once it has looked a state up.
PlanOf(c) == IF of[c] = None THEN <<>> ELSE plan[of[c]]

CodingTypeOK ==
  /\ table \in Calls \cup {None} /\ bound \in Calls \cup {None}
  /\ \A c \in Calls :
       /\ runner[c] \in {"none", "launched", "run", "closing", "closed"}
       /\ of[c] \in IF runner[c] \in {"none", "launched"} THEN {None} ELSE Calls
       /\ outcome[c] \in {"none", "completed", "failed"}
       /\ done[c] \subseteq begun[c] /\ begun[c] \subseteq DOMAIN PlanOf(c)
       /\ ToSet(results[c]) \subseteq begun[c]
       /\ \A s \in Steps :
            lane[c][s] \in {"idle", "begun", "noted", "running", "ok", "failed"}
       /\ call[c] \in {"idle", "bind", "save", "wait", "waiting", "store", "unbind",
                       "returned"}
  /\ workflow.status \in {"none", "accepted", "completed", "failed"}
  /\ faults \in 0..MaxFaults

CodingInit ==
  /\ plan = [c \in Calls |-> <<>>] /\ table = None
  /\ runner = [c \in Calls |-> "none"] /\ outcome = [c \in Calls |-> "none"]
  /\ of = [c \in Calls |-> None]
  /\ begun = [c \in Calls |-> {}] /\ done = [c \in Calls |-> {}]
  /\ results = [c \in Calls |-> <<>>]
  /\ lane = [c \in Calls |-> [s \in Steps |-> "idle"]]
  /\ call = [c \in Calls |-> "idle"] /\ waitsFor = [c \in Calls |-> None]
  /\ answer = [c \in Calls |-> "none"]
  /\ leaving = [c \in Calls |-> FALSE] /\ bound = None
  /\ workflow = [status |-> "none", session |-> None] /\ faults = 0 /\ down = FALSE

-----------------------------------------------------------------------------
(* The goroutine of a call's session: runSession.                          *)

\* done and events of a state are closed.
Closed(state) == \E d \in Calls : of[d] = state /\ runner[d] = "closed"

\* A send or a close on a state that another goroutine has closed.
Touches(c) == down' = Closed(of[c])

Running(c) == begun[c] \ done[c]
ReadyStepsAny(c) ==
  {s \in DOMAIN PlanOf(c) \ begun[c] : PlanOf(c)[s] \subseteq done[c] \cup begun[c]}

ReadySteps(c) == {s \in DOMAIN PlanOf(c) \ begun[c] : PlanOf(c)[s] \subseteq done[c]}

\* executeSession returns; its last event goes out before.
EndSession(c, result) ==
  /\ outcome' = [outcome EXCEPT ![c] = result]
  /\ runner' = [runner EXCEPT ![c] = "closing"]

\* sessionState: whatever state the table has now.
LookUp(c) ==
  /\ runner[c] = "launched"
  /\ of' = [of EXCEPT ![c] = table] /\ runner' = [runner EXCEPT ![c] = "run"]
  /\ UNCHANGED <<plan, table, outcome, begun, done, results, lane, callVars, down>>

\* A plan without worker classes: routing, budget and execution in one.
SingleRun(c, result) ==
  /\ runner[c] = "run" /\ PlanOf(c) = <<>>
  /\ EndSession(c, result) /\ Touches(c)
  /\ UNCHANGED <<plan, table, of, begun, done, results, lane, callVars>>

\* Every ready step gets a goroutine before the loop waits.
LaunchLanes(c) ==
  /\ runner[c] = "run" /\ ReadySteps(c) # {}
  /\ begun' = [begun EXCEPT ![c] = @ \cup ReadySteps(c)]
  /\ lane' = [lane EXCEPT ![c] =
       [s \in Steps |-> IF s \in ReadySteps(c) THEN "begun" ELSE lane[c][s]]]
  /\ Touches(c)
  /\ UNCHANGED <<plan, table, runner, of, outcome, done, results, callVars>>

LanesBlocked(c) ==
  /\ runner[c] = "run" /\ PlanOf(c) # <<>>
  /\ ReadySteps(c) = {} /\ Running(c) = {} /\ done[c] # DOMAIN PlanOf(c)
  /\ EndSession(c, "failed") /\ Touches(c)
  /\ UNCHANGED <<plan, table, of, begun, done, results, lane, callVars>>

\* A failed lane ends the session at once; the other lanes are left to
\* themselves.
TakeResult(c) ==
  LET s == Head(results[c]) IN
  /\ runner[c] = "run" /\ ReadySteps(c) = {} /\ results[c] # <<>>
  /\ results' = [results EXCEPT ![c] = Tail(@)]
  /\ done' = [done EXCEPT ![c] = @ \cup {s}]
  /\ IF lane[c][s] = "failed" THEN EndSession(c, "failed") ELSE UNCHANGED <<outcome, runner>>
  /\ Touches(c)
  /\ UNCHANGED <<plan, table, of, begun, lane, callVars>>

LanesComplete(c) ==
  /\ runner[c] = "run" /\ PlanOf(c) # <<>> /\ done[c] = DOMAIN PlanOf(c)
  /\ EndSession(c, "completed") /\ Touches(c)
  /\ UNCHANGED <<plan, table, of, begun, done, results, lane, callVars>>

CloseSessionOnSuccess(c) ==
  /\ runner[c] = "closing" /\ outcome[c] = "completed"
  /\ runner' = [runner EXCEPT ![c] = "closed"] /\ Touches(c)
  /\ UNCHANGED <<plan, table, of, outcome, begun, done, results, lane, callVars>>

\* The result, and both channels closed, under the lock.
CloseSession(c) ==
  /\ runner[c] = "closing" /\ runner' = [runner EXCEPT ![c] = "closed"] /\ Touches(c)
  /\ UNCHANGED <<plan, table, of, outcome, begun, done, results, lane, callVars>>

-----------------------------------------------------------------------------
(* The goroutine of a lane.                                                *)

LaneEnds(c, s, end) ==
  /\ lane' = [lane EXCEPT ![c][s] = end]
  /\ results' = [results EXCEPT ![c] = Append(@, s)]
  /\ UNCHANGED <<plan, table, runner, of, outcome, begun, done, callVars, down>>

LaneRejected(c, s) == lane[c][s] = "begun" /\ LaneEnds(c, s, "failed")

\* emit: the live state under the lock, then the event without it.
LaneNoted(c, s) ==
  /\ lane[c][s] = "begun" /\ lane' = [lane EXCEPT ![c][s] = "noted"]
  /\ UNCHANGED <<plan, table, runner, of, outcome, begun, done, results, callVars, down>>

LaneEmits(c, s) ==
  /\ lane[c][s] = "noted" /\ lane' = [lane EXCEPT ![c][s] = "running"] /\ Touches(c)
  /\ UNCHANGED <<plan, table, runner, of, outcome, begun, done, results, callVars>>

\* Budget, timeout, cancellation or the agent itself decide.
LaneExecuted(c, s, end) == lane[c][s] = "running" /\ LaneEnds(c, s, end)

LaneGoroutine(c, s) ==
  \/ LaneRejected(c, s)
  \/ LaneNoted(c, s)
  \/ LaneEmits(c, s)
  \/ \E end \in {"ok", "failed"} : LaneExecuted(c, s, end)

SessionGoroutine(c) ==
  \/ LookUp(c)
  \/ \E result \in {"completed", "failed"} : SingleRun(c, result)
  \/ LaunchLanes(c)
  \/ LanesBlocked(c)
  \/ TakeResult(c)
  \/ LanesComplete(c)
  \/ CloseSession(c)

-----------------------------------------------------------------------------
(* The delegate.                                                           *)

GoTo(c, place) == call' = [call EXCEPT ![c] = place]

\* The new state takes the table's place before its goroutine has looked.
StartTask(c, deps) ==
  /\ call[c] = "idle" /\ GoTo(c, "bind")
  /\ plan' = [plan EXCEPT ![c] = deps] /\ runner' = [runner EXCEPT ![c] = "launched"]
  /\ table' = c
  /\ UNCHANGED <<of, outcome, begun, done, results, lane, waitsFor, answer,
                 leaving, bound, workflow, faults, down>>

BindSession(c) ==
  /\ call[c] = "bind" /\ GoTo(c, "save") /\ bound' = c
  /\ UNCHANGED <<sessionVars, waitsFor, answer, leaving, workflow, faults, down>>

SaveAccepted(c) ==
  /\ call[c] = "save" /\ GoTo(c, "wait")
  /\ workflow' = [status |-> "accepted", session |-> None]
  /\ UNCHANGED <<sessionVars, waitsFor, answer, leaving, bound, faults, down>>

\* The session goes on without anybody waiting for it.
SaveAcceptedFails(c) ==
  /\ call[c] = "save" /\ faults < MaxFaults
  /\ faults' = faults + 1 /\ bound' = None /\ GoTo(c, "returned")
  /\ UNCHANGED <<sessionVars, waitsFor, answer, leaving, workflow, down>>

\* Looks the session up by its id.  The event pump does so just before, and
\* ends when the session closes its channel.
WaitTask(c) ==
  /\ call[c] = "wait" /\ GoTo(c, "waiting") /\ waitsFor' = [waitsFor EXCEPT ![c] = table]
  /\ UNCHANGED <<sessionVars, answer, leaving, bound, workflow, faults, down>>

WaitDone(c) ==
  /\ call[c] = "waiting" /\ GoTo(c, "store")
  /\ \E d \in Calls : /\ of[d] = waitsFor[c] /\ runner[d] = "closed"
                      /\ answer' = [answer EXCEPT ![c] = outcome[d]]
  /\ UNCHANGED <<sessionVars, waitsFor, leaving, bound, workflow, faults, down>>

WaitLeaves(c) ==
  /\ call[c] = "waiting" /\ leaving[c]
  /\ answer' = [answer EXCEPT ![c] = "failed"] /\ GoTo(c, "store")
  /\ UNCHANGED <<sessionVars, waitsFor, leaving, bound, workflow, faults, down>>

SaveResult(c) ==
  /\ call[c] = "store" /\ GoTo(c, "unbind")
  /\ workflow' = [status |-> answer[c], session |-> waitsFor[c]]
  /\ UNCHANGED <<sessionVars, waitsFor, answer, leaving, bound, faults, down>>

\* A save under a context that is done may fail as well.
SaveResultFails(c) ==
  /\ call[c] = "store" /\ (leaving[c] \/ faults < MaxFaults) /\ GoTo(c, "unbind")
  /\ faults' = IF leaving[c] THEN faults ELSE faults + 1
  /\ UNCHANGED <<sessionVars, waitsFor, answer, leaving, bound, workflow, down>>

\* By the task's and the session's id, whoever is bound to them now.
UnbindSession(c) ==
  /\ call[c] = "unbind" /\ GoTo(c, "returned") /\ bound' = None
  /\ UNCHANGED <<sessionVars, waitsFor, answer, leaving, workflow, faults, down>>

\* The request's context, or for asynchronous calls the process's.
ContextEnds(cs) ==
  /\ \E c \in cs : ~leaving[c] /\ call[c] \notin {"idle", "returned"}
  /\ leaving' = [c \in Calls |-> leaving[c] \/ c \in cs]
  /\ UNCHANGED <<sessionVars, call, waitsFor, answer, bound, workflow, faults, down>>

CallStep(c) ==
  \/ BindSession(c)
  \/ SaveAccepted(c)
  \/ SaveAcceptedFails(c)
  \/ WaitTask(c)
  \/ WaitDone(c)
  \/ WaitLeaves(c)
  \/ SaveResult(c)
  \/ SaveResultFails(c)
  \/ UnbindSession(c)

CodingNext ==
  /\ ~down
  /\ \/ \E c \in Calls :
          \/ \E deps \in LanePlans[c] : StartTask(c, deps)
          \/ CallStep(c)
          \/ SessionGoroutine(c)
          \/ \E s \in Steps : LaneGoroutine(c, s)
     \/ \E c \in Calls \ Detached : ContextEnds({c})
     \/ ContextEnds(Detached)

-----------------------------------------------------------------------------
(***************************************************************************)
(* A lane runs only when every step it depends on has run and succeeded,   *)
(* and a step that depends on something the plan does not have never runs. *)
(***************************************************************************)
LaneOrder ==
  \A c \in Calls : \A s \in begun[c] : \A d \in PlanOf(c)[s] :
    d \in done[c] /\ lane[c][d] = "ok"

(***************************************************************************)
(* A workflow saved as completed is the result of a goroutine all of whose *)
(* lanes succeeded, on the state the call waited for, and such a goroutine *)
(* leaves no lane behind that could still emit.                            *)
(***************************************************************************)
CompletedIsWhole ==
  /\ workflow.status = "completed" =>
       \E c \in Calls : of[c] = workflow.session /\ runner[c] = "closed" /\ outcome[c] = "completed"
  /\ \A c \in Calls : outcome[c] = "completed" =>
       \A s \in DOMAIN PlanOf(c) : lane[c][s] = "ok"

(***************************************************************************)
(* The process stops only over a lane of a failed session that had still   *)
(* to announce itself, or over two goroutines that looked up one state.    *)
(***************************************************************************)
StopHasCause ==
  down => \/ \E c \in Calls : outcome[c] = "failed" /\ \E s \in begun[c] \ done[c] :
                                lane[c][s] = "running"
          \/ \E c, d \in Calls : c # d /\ of[c] = of[d] /\ runner[c] = "closed"

(***************************************************************************)
(* Nothing stays bound to a task once all its calls have returned.         *)
(***************************************************************************)
NothingBound ==
  (\A c \in Calls : call[c] \in {"idle", "returned"}) => bound = None

(***************************************************************************)
(* A call that has started returns, unless the process stops.  A state     *)
(* that no goroutine looked up leaves its call waiting, but then another   *)
(* state has two goroutines and the second one's close stops the process.  *)
(***************************************************************************)
CallsReturn ==
  \A c \in Calls : call[c] # "idle" ~> (down \/ call[c] = "returned")

(***************************************************************************)
(* A coding session as a whole: lanes run in their order, completed means  *)
(* all of them, the process stops only for the two reasons it can have,    *)
(* and no binding stays behind, with two calls for one task side by side.  *)
(***************************************************************************)
CodingSound == CodingTypeOK /\ LaneOrder /\ CompletedIsWhole /\ StopHasCause /\ NothingBound
=============================================================================
