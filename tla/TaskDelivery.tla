---------------------------- MODULE TaskDelivery ----------------------------
(***************************************************************************)
(* Execution of accepted tasks by the agents' worker pools.                *)
(*                                                                         *)
(* dispatchTaskAsync saves the workflow and hands an envelope to the       *)
(* delivery supervisor; a worker of the addressed agent's pool takes it    *)
(* from the mailbox, does the payload handshake, runs the agent and        *)
(* publishes a result; a result worker finalises the workflow or re-routes *)
(* a failed task to an agent not tried yet.  InspectTimeouts re-sends what *)
(* it takes for lost.                                                      *)
(*                                                                         *)
(* The supervisor's map is keyed by task, so a re-route replaces the       *)
(* record while the previous worker may still be about to acknowledge.     *)
(* Every step between two lock acquisitions is an action of its own.       *)
(***************************************************************************)
EXTENDS Integers, Sequences, FiniteSets

CONSTANTS
  Tasks,
  Agents,
  Workers,         \* goroutines of all worker pools
  AgentOf,         \* the agent whose mailbox a worker serves
  ResultWorkers,   \* goroutines running runResultWorker
  MaxFaults,       \* bound: store errors and agent handler errors
  MaxInspections,  \* bound: records InspectTimeouts finds overdue
  None             \* no record, no envelope

ASSUME DeliveryAssumption ==
  /\ IsFiniteSet(Agents) /\ Agents # {}
  /\ IsFiniteSet(Workers) /\ IsFiniteSet(ResultWorkers)
  /\ Tasks \cap ResultWorkers = {}
  /\ AgentOf \in [Workers -> Agents]
  /\ MaxFaults \in Nat
  /\ MaxInspections \in Nat

VARIABLES
  workflow,     \* the store: status, assigned agent, attempt, excluded agents
  record,       \* Supervisor.records: the delivery record of each task
  mailbox,      \* MessageBus.queues, one per agent
  results,      \* MessageBus.results
  dispatching,  \* goroutines inside Supervisor.Dispatch, with their envelope
  pc, env,      \* per pool worker: step, envelope
  outcome,      \* per pool worker: what the agent returned
  result, loaded,       \* per result worker: result taken, workflow read
  overdue,      \* the record InspectTimeouts is acting on
  faults, inspections

pool     == <<pc, env, outcome>>
intake   == <<result, loaded>>
counters == <<faults, inspections>>
vars == <<workflow, record, mailbox, results, dispatching, pool, intake,
          overdue, counters>>

Terminal == {"completed", "failed", "dead_lettered", "rejected"}
Settled  == {"accepted", "failed", "dead_lettered"}

\* buildPeerEnvelope sets MaxRetries to the number of other agents, and
\* maxRetries reads a non-positive value as 3.
MaxRetries == IF Cardinality(Agents) = 1 THEN 3 ELSE Cardinality(Agents) - 1

\* attempt identifies the payload: a re-route rewrites the routing hints, and
\* with them the checksum.
Envelope == [task : Tasks, agent : Agents, attempt : Nat]

Workflow == [status : Terminal \cup {"queued", "running"}, agent : Agents \cup {None},
             attempt : Nat, excluded : SUBSET Agents]

DeliveryStatus == Settled \cup {"sent", "queued", "validated", "retrying"}

Record == [status : DeliveryStatus,
           agent : Agents, attempt : Nat, retries : Nat, validated : {"yes", "no"}]

Result == [task : Tasks, agent : Agents, status : {"completed", "failed", "dead_lettered"}]

DispatchSteps == {"record", "publish", "status"}

\* Nothing is not one of the things there may be.
ASSUME NoneAssumption ==
  None \notin Record \cup Envelope \cup Result \cup Workflow
              \cup [step : {"act", "resend"}, task : Tasks, record : Record]

WorkerSteps == {"idle", "confirm", "ackValidated", "ackInvalid", "establish", "execute",
                "publish", "accept", "retry", "resend", "deadLetter"}

TypeOK ==
  /\ workflow \in [Tasks -> Workflow]
  /\ record \in [Tasks -> Record \cup {None}]
  /\ mailbox \in [Agents -> Seq(Envelope)]
  /\ results \in Seq(Result)
  /\ dispatching \subseteq [step : DispatchSteps, env : Envelope, by : Tasks \cup ResultWorkers]
  /\ pc \in [Workers -> WorkerSteps]
  /\ env \in [Workers -> Envelope \cup {None}]
  /\ outcome \in [Workers -> {"none", "completed", "failed"}]
  /\ result \in [ResultWorkers -> Result \cup {None}]
  /\ loaded \in [ResultWorkers -> Workflow \cup {None}]
  /\ overdue \in [step : {"act", "resend"}, task : Tasks, record : Record] \cup {None}
  /\ faults \in 0..MaxFaults
  /\ inspections \in 0..MaxInspections

Init ==
  /\ workflow = [t \in Tasks |-> [status |-> "queued", agent |-> None,
                                  attempt |-> 1, excluded |-> {}]]
  /\ record = [t \in Tasks |-> None]
  /\ mailbox = [a \in Agents |-> <<>>]
  /\ results = <<>>
  /\ dispatching = {}
  /\ pc = [w \in Workers |-> "idle"]
  /\ env = [w \in Workers |-> None]
  /\ outcome = [w \in Workers |-> "none"]
  /\ result = [r \in ResultWorkers |-> None]
  /\ loaded = [r \in ResultWorkers |-> None]
  /\ overdue = None
  /\ faults = 0 /\ inspections = 0

-----------------------------------------------------------------------------
(* dispatchTaskAsync: policy, cache guard, routing, assignment policy or   *)
(* budget reject the task, or it is saved as running and dispatched.       *)

Reject(t) ==
  /\ workflow[t].status = "queued"
  /\ \E s \in {"rejected", "failed"} : workflow' = [workflow EXCEPT ![t].status = s]
  /\ UNCHANGED <<record, mailbox, results, dispatching, pool, intake,
                 overdue, counters>>

\* A submission worker dispatches on behalf of its task, a result worker on
\* its own.
BeginDispatch(t, a, n, caller) ==
  dispatching' = dispatching \cup
    {[step |-> "record", env |-> [task |-> t, agent |-> a, attempt |-> n], by |-> caller]}

DispatchTask(t) ==
  /\ workflow[t].status = "queued"
  /\ \E a \in Agents :
       /\ workflow' = [workflow EXCEPT ![t].status = "running", ![t].agent = a]
       /\ BeginDispatch(t, a, workflow[t].attempt, t)
  /\ UNCHANGED <<record, mailbox, results, pool, intake, overdue, counters>>

-----------------------------------------------------------------------------
(* Supervisor.Dispatch and MessageBus.SendEnvelope.  HopCount is only      *)
(* incremented on the published copy, so the MaxHops test never fires.     *)

Step(d, next) == (dispatching \ {d}) \cup {[d EXCEPT !.step = next]}

DispatchRecord(d) ==
  /\ d.step = "record"
  /\ record' = [record EXCEPT ![d.env.task] =
                  [status |-> "sent", agent |-> d.env.agent, attempt |-> d.env.attempt,
                   retries |-> d.env.attempt - 1, validated |-> "no"]]
  /\ dispatching' = Step(d, "publish")
  /\ UNCHANGED <<workflow, mailbox, results, pool, intake, overdue, counters>>

Publish(e) == mailbox' = [mailbox EXCEPT ![e.agent] = Append(@, e)]

DispatchPublish(d) ==
  /\ d.step = "publish"
  /\ Publish(d.env)
  /\ dispatching' = Step(d, "status")
  /\ UNCHANGED <<workflow, record, results, pool, intake, overdue, counters>>

\* Dispatch writes through its pointer: a record replaced meanwhile is not
\* touched.
DispatchStatus(d) ==
  /\ d.step = "status"
  /\ record' = IF record[d.env.task].attempt = d.env.attempt
               THEN [record EXCEPT ![d.env.task].status = "queued"]
               ELSE record
  /\ dispatching' = dispatching \ {d}
  /\ UNCHANGED <<workflow, mailbox, results, pool, intake, overdue, counters>>

-----------------------------------------------------------------------------
(* WorkerPool.processEnvelope and retryOrDeadLetter, in-memory bus.        *)

\* Supervisor.Ack changes whatever record the task has now.
Ack(t, s) == record' = [record EXCEPT ![t].status = s]

Goto(w, step) == pc' = [pc EXCEPT ![w] = step]

WorkerReceive(w) ==
  /\ pc[w] = "idle"
  /\ mailbox[AgentOf[w]] # <<>>
  /\ env' = [env EXCEPT ![w] = Head(mailbox[AgentOf[w]])]
  /\ mailbox' = [mailbox EXCEPT ![AgentOf[w]] = Tail(@)]
  /\ Goto(w, "confirm")
  /\ UNCHANGED <<workflow, record, results, dispatching, outcome, intake,
                 overdue, counters>>

\* ConfirmPayload compares the checksum with that of the task's current record.
WorkerConfirm(w) ==
  LET t == env[w].task
      valid == env[w].attempt = record[t].attempt
  IN /\ pc[w] = "confirm"
     /\ record' = [record EXCEPT ![t].validated = IF valid THEN "yes" ELSE "no"]
     /\ Goto(w, IF valid THEN "ackValidated" ELSE "ackInvalid")
     /\ UNCHANGED <<workflow, mailbox, results, dispatching, env, outcome,
                    intake, overdue, counters>>

WorkerAckValidated(w) ==
  LET t == env[w].task
  IN /\ pc[w] = "ackValidated"
     /\ record' = [record EXCEPT ![t].status = "validated", ![t].validated = "yes"]
     /\ Goto(w, "establish")
     /\ UNCHANGED <<workflow, mailbox, results, dispatching, env, outcome, intake,
                    overdue, counters>>

\* Ack(failed), then handleDeadLetter's Ack(dead_lettered).
WorkerAckInvalid(w) ==
  /\ pc[w] = "ackInvalid"
  /\ Ack(env[w].task, "dead_lettered")
  /\ Goto(w, "deadLetter")
  /\ UNCHANGED <<workflow, mailbox, results, dispatching, env, outcome, intake,
                 overdue, counters>>

WorkerEstablish(w) ==
  LET t == env[w].task
  IN /\ pc[w] = "establish"
     /\ IF record[t].validated = "yes"
        THEN /\ record' = record
             /\ Goto(w, "execute")
        ELSE /\ Ack(t, "failed")
             /\ Goto(w, "retry")
     /\ UNCHANGED <<workflow, mailbox, results, dispatching, env, outcome, intake,
                    overdue, counters>>

\* handleAgentEnvelope up to the result; a failed agent is a result too.
WorkerExecute(w) ==
  /\ pc[w] = "execute"
  /\ \E o \in {"completed", "failed"} : outcome' = [outcome EXCEPT ![w] = o]
  /\ Goto(w, "publish")
  /\ UNCHANGED <<workflow, record, mailbox, results, dispatching, env,
                 intake, overdue, counters>>

WorkerPublish(w) ==
  /\ pc[w] = "publish"
  /\ results' = Append(results, [task |-> env[w].task, agent |-> AgentOf[w],
                                 status |-> outcome[w]])
  /\ outcome' = [outcome EXCEPT ![w] = "none"]
  /\ Goto(w, "accept")
  /\ UNCHANGED <<workflow, record, mailbox, dispatching, env, intake,
                 overdue, counters>>

WorkerAccept(w) ==
  /\ pc[w] = "accept"
  /\ Ack(env[w].task, "accepted")
  /\ env' = [env EXCEPT ![w] = None]
  /\ Goto(w, "idle")
  /\ UNCHANGED <<workflow, mailbox, results, dispatching, outcome, intake,
                 overdue, counters>>

\* Mutant: the result reaches the queue although the handler reports an error.
WorkerHandlerErrorPublished(w) ==
  /\ pc[w] = "publish"
  /\ faults < MaxFaults
  /\ faults' = faults + 1
  /\ results' = Append(results, [task |-> env[w].task, agent |-> AgentOf[w],
                                 status |-> outcome[w]])
  /\ outcome' = [outcome EXCEPT ![w] = "none"]
  /\ Goto(w, "retry")
  /\ UNCHANGED <<workflow, record, mailbox, dispatching, env,
                 intake, overdue, inspections>>

\* The handler returns an error: no result was published.
WorkerHandlerError(w) ==
  /\ pc[w] = "publish"
  /\ faults < MaxFaults
  /\ faults' = faults + 1
  /\ outcome' = [outcome EXCEPT ![w] = "none"]
  /\ Goto(w, "retry")
  /\ UNCHANGED <<workflow, record, mailbox, results, dispatching, env,
                 intake, overdue, inspections>>

\* The retried or dead-lettered envelope is the current record's, not the
\* one the worker holds.  Dead-lettering leaves the record as it is.
WorkerRetry(w) ==
  LET t == env[w].task
      rec == record[t]
  IN /\ pc[w] = "retry"
     /\ env' = [env EXCEPT ![w] = [task |-> t, agent |-> rec.agent, attempt |-> rec.attempt]]
     /\ IF rec.retries < MaxRetries
        THEN /\ record' = [record EXCEPT ![t].retries = @ + 1, ![t].status = "retrying"]
             /\ Goto(w, "resend")
        ELSE /\ record' = record
             /\ Goto(w, "deadLetter")
     /\ UNCHANGED <<workflow, mailbox, results, dispatching, outcome, intake,
                    overdue, counters>>

WorkerResend(w) ==
  /\ pc[w] = "resend"
  /\ Publish(env[w])
  /\ env' = [env EXCEPT ![w] = None]
  /\ Goto(w, "idle")
  /\ UNCHANGED <<workflow, record, results, dispatching, outcome, intake,
                 overdue, counters>>

\* publishEnvelopeDeadLetter.
WorkerDeadLetter(w) ==
  /\ pc[w] = "deadLetter"
  /\ results' = Append(results, [task |-> env[w].task, agent |-> env[w].agent,
                                 status |-> "dead_lettered"])
  /\ env' = [env EXCEPT ![w] = None]
  /\ Goto(w, "idle")
  /\ UNCHANGED <<workflow, record, mailbox, dispatching, outcome, intake,
                 overdue, counters>>

-----------------------------------------------------------------------------
(* runResultWorker and handleTaskResult.                                   *)

ResultTake(r) ==
  /\ result[r] = None
  /\ \A d \in dispatching : d.by # r
  /\ results # <<>>
  /\ result' = [result EXCEPT ![r] = Head(results)]
  /\ loaded' = [loaded EXCEPT ![r] = workflow[Head(results).task]]
  /\ results' = Tail(results)
  /\ UNCHANGED <<workflow, record, mailbox, dispatching, pool, overdue,
                 counters>>

Tried(r) == loaded[r].excluded \cup {result[r].agent}

ResultDone(r) ==
  /\ result' = [result EXCEPT ![r] = None]
  /\ loaded' = [loaded EXCEPT ![r] = None]

\* A failed task goes to an agent that has not been tried, if routing finds one.
ResultReroute(r) ==
  /\ result[r] # None
  /\ result[r].status = "failed"
  /\ \E a \in Agents \ Tried(r) :
       LET t == result[r].task
           n == loaded[r].attempt + 1
       IN /\ workflow' = [workflow EXCEPT ![t] =
                            [status |-> "running", agent |-> a, attempt |-> n,
                             excluded |-> Tried(r)]]
          /\ BeginDispatch(t, a, n, r)
  /\ ResultDone(r)
  /\ UNCHANGED <<record, mailbox, results, pool, overdue, counters>>

ResultFinal(r) ==
  /\ result[r] # None
  /\ workflow' = [workflow EXCEPT ![result[r].task] =
                    [loaded[r] EXCEPT !.status = result[r].status]]
  /\ ResultDone(r)
  /\ UNCHANGED <<record, mailbox, results, dispatching, pool, overdue,
                 counters>>

\* Mutant: the result is dropped when the store fails.
ResultNackDrop(r) ==
  /\ result[r] # None
  /\ faults < MaxFaults
  /\ faults' = faults + 1
  /\ ResultDone(r)
  /\ UNCHANGED <<workflow, record, mailbox, results, dispatching, pool,
                 overdue, inspections>>

\* SaveWorkflow fails: Nack puts the result back in front.
ResultNack(r) ==
  /\ result[r] # None
  /\ faults < MaxFaults
  /\ faults' = faults + 1
  /\ results' = <<result[r]>> \o results
  /\ ResultDone(r)
  /\ UNCHANGED <<workflow, record, mailbox, dispatching, pool, overdue,
                 inspections>>

-----------------------------------------------------------------------------
(* InspectTimeouts: the status is read without the lock and acted on later. *)
(* How long ago the last progress was is left open.                        *)

InspectCheck(t) ==
  /\ overdue = None
  /\ inspections < MaxInspections
  /\ record[t] # None
  /\ record[t].status \notin Settled
  /\ inspections' = inspections + 1
  /\ overdue' = [step |-> "act", task |-> t, record |-> record[t]]
  /\ UNCHANGED <<workflow, record, mailbox, results, dispatching, pool,
                 intake, faults>>

\* The pointer may be to a record that has been replaced; Ack is by task.
Current == record[overdue.task].attempt = overdue.record.attempt
Retries == IF Current THEN record[overdue.task].retries ELSE overdue.record.retries

InspectRetry ==
  LET t == overdue.task
  IN /\ overdue # None /\ overdue.step = "act"
     /\ Retries < MaxRetries
     /\ record' = [record EXCEPT ![t].status = "retrying",
                                 ![t].retries = IF Current THEN @ + 1 ELSE @]
     /\ overdue' = [overdue EXCEPT !.step = "resend"]
     /\ UNCHANGED <<workflow, mailbox, results, dispatching, pool, intake, counters>>

InspectResend ==
  /\ overdue # None /\ overdue.step = "resend"
  /\ Publish([task |-> overdue.task, agent |-> overdue.record.agent,
              attempt |-> overdue.record.attempt])
  /\ overdue' = None
  /\ UNCHANGED <<workflow, record, results, dispatching, pool, intake, counters>>

\* The record is dead-lettered, but nobody tells the workflow.
InspectDeadLetter ==
  LET t == overdue.task
  IN /\ overdue # None /\ overdue.step = "act"
     /\ Retries >= MaxRetries
     /\ record' = [record EXCEPT ![t].status = IF Current THEN "dead_lettered" ELSE @]
     /\ overdue' = None
     /\ UNCHANGED <<workflow, mailbox, results, dispatching, pool, intake, counters>>

-----------------------------------------------------------------------------
Dispatcher == \E d \in dispatching : DispatchRecord(d) \/ DispatchPublish(d)
                                     \/ DispatchStatus(d)

Worker(w) ==
  \/ WorkerReceive(w) \/ WorkerConfirm(w) \/ WorkerAckValidated(w)
  \/ WorkerAckInvalid(w) \/ WorkerEstablish(w) \/ WorkerExecute(w)
  \/ WorkerPublish(w) \/ WorkerAccept(w) \/ WorkerHandlerError(w)
  \/ WorkerRetry(w) \/ WorkerResend(w) \/ WorkerDeadLetter(w)

ResultWorker(r) ==
  ResultTake(r) \/ ResultReroute(r) \/ ResultFinal(r) \/ ResultNack(r)

Inspector == (\E t \in Tasks : InspectCheck(t)) \/ InspectRetry \/ InspectResend
             \/ InspectDeadLetter

Next ==
  \/ \E t \in Tasks : Reject(t) \/ DispatchTask(t)
  \/ Dispatcher
  \/ \E w \in Workers : Worker(w)
  \/ \E r \in ResultWorkers : ResultWorker(r)
  \/ Inspector

Spec == Init /\ [][Next]_vars

-----------------------------------------------------------------------------
(* Properties.                                                             *)

Sending(t)  == {d \in dispatching : d.env.task = t /\ d.step \in {"record", "publish"}}
Posted(t)   == {p \in UNION {{a} \X DOMAIN mailbox[a] : a \in Agents} :
                  mailbox[p[1]][p[2]].task = t}
Working(t)  == {w \in Workers : pc[w] \notin {"idle", "accept"} /\ env[w].task = t}
Reported(t) == {i \in DOMAIN results : results[i].task = t}
Handling(t) == {r \in ResultWorkers : result[r] # None /\ result[r].task = t}

Holders(t) ==
  Cardinality(Sending(t)) + Cardinality(Posted(t)) + Cardinality(Working(t))
  + Cardinality(Reported(t)) + Cardinality(Handling(t))

\* As long as nobody forces an inspection, responsibility for a running task
\* is in exactly one place - dispatcher, mailbox, worker, result queue or result
\* worker - through handshakes, handler errors, retries, re-routes and store
\* errors; a finished task is nowhere.
OneHolder ==
  inspections = 0 =>
    \A t \in Tasks : Holders(t) = IF workflow[t].status = "running" THEN 1 ELSE 0

\* Even when inspections re-send envelopes, a running workflow always has
\* somebody who will report on it.
NotStranded == \A t \in Tasks : workflow[t].status = "running" => Holders(t) >= 1

\* Re-routing excludes every agent tried before, so it takes at most one attempt
\* per agent.
RerouteBound ==
  inspections = 0 =>
    \A t \in Tasks : /\ workflow[t].agent \notin workflow[t].excluded
                     /\ workflow[t].attempt = Cardinality(workflow[t].excluded) + 1

\* Who answers for a task: records are well formed, a running workflow has one
\* who will report on it, exactly one until somebody inspects, and attempts
\* never exceed the agents there are, in whatever order workers, dispatchers,
\* result workers and an inspection interleave and saves fail.
ResponsibilityHeld == TypeOK /\ OneHolder /\ NotStranded /\ RerouteBound

\* "A workflow ends in a stable state": once terminal it never changes.
TerminalIsStable ==
  [][\A t \in Tasks : workflow[t].status \in Terminal => workflow'[t] = workflow[t]]_vars

\* A workflow that has ended never changes while nobody inspects: retries,
\* re-routes and store errors never report on it twice.
KeepsTerminal ==
  inspections = 0 => \A t \in Tasks : workflow[t].status \in Terminal => workflow'[t] = workflow[t]

\* Every task has reached a terminal status.
AllTerminal == \A t \in Tasks : workflow[t].status \in Terminal
=============================================================================
