--------------------------- MODULE MCTaskDelivery ---------------------------
(* Instances of TaskDelivery and BrokerBus for TLC.  "part" is what moves: *)
(* "pair" has two tasks and one result worker and nobody inspects;         *)
(* "single" rejects t2 at once and has two result workers and an           *)
(* inspection; "broker" is delivery over RabbitMQ.                         *)
EXTENDS TaskDelivery, BrokerBus, TLC

CONSTANTS t1, t2, a1, a2, w1, w2, r1, r2, foreign

VARIABLE part

\* A re-sent envelope stays with its agent; a re-routed one goes to the other.
PoolAgents == [w \in Workers |-> IF w = w2 THEN a2 ELSE a1]

mcVars == <<vars, brVars, part>>

Limits == CASE part = "pair" -> inspections' = 0 /\ result'[r2] = None
            [] part = "single" -> workflow'[t2].status = "rejected"

Limited(A) == part # "broker" /\ A /\ Limits /\ UNCHANGED <<brVars, part>>
OfBroker(A) == part = "broker" /\ A /\ UNCHANGED <<vars, part>>

MCInit ==
  /\ part \in {"pair", "single", "broker"} /\ Init /\ BrInit
  /\ part # "broker" => brQueue = <<>>

MCNext ==
  \/ Limited(Next)
  \/ OfBroker(BrNext)

MCSpec == MCInit /\ [][MCNext]_mcVars

\* What a goroutine of each name does in the broker's part.
OfWorker(w) == (w = w1 /\ BrWork(w)) \/ (w = w2 /\ BrRefuse)
OfResult(r) == (r = r1 /\ BrResult) \/ (r = r2 /\ BrRestart)

\* Workers of every kind keep running, and a process that ended is started
\* again; the inspection is run by an operator and owes nothing once it has
\* begun, and neither do lost messages and crashes.  Only one side of each
\* disjunction ever moves.
MCFairSpec ==
  /\ MCSpec
  /\ \A t \in Tasks : WF_mcVars(Limited(Reject(t) \/ DispatchTask(t)) \/ OfBroker(BrSending(t)))
  /\ WF_mcVars(Limited(Dispatcher) \/ OfBroker(BrPush))
  /\ \A w \in Workers : WF_mcVars(Limited(Worker(w)) \/ OfBroker(OfWorker(w)))
  /\ \A r \in ResultWorkers : WF_mcVars(Limited(ResultWorker(r)) \/ OfBroker(OfResult(r)))

\* What has ended stays as it ended: a workflow whose status is final keeps it
\* as long as nobody inspects, and the outcome of a task delivered over the
\* broker changes only after a restart, and then only to dead-lettered.
OutcomesStand == [][KeepsTerminal /\ KeepsOutcome]_mcVars

\* Every workflow reaches a final status with the bus in memory, through
\* failed executions, lost saves and re-sent envelopes; and with the broker
\* every dispatched task is settled whatever restarts come in between, unless
\* its envelope or its dead-lettered result was lost.
EverythingSettles == <>[]((part = "broker" \/ AllTerminal) /\ BrSettled)
=============================================================================
