----------------------------- MODULE BrokerBus -----------------------------
(* Delivery over RabbitMQ (delivery/rabbitmq_bus.go) with the supervisor   *)
(* and the worker pool of one agent on top.  The broker keeps queued and   *)
(* unacknowledged messages when the process ends; the supervisor's records *)
(* are in memory.  A worker acknowledges to the broker after the result is *)
(* published, so a process that ends in between sees the envelope again.   *)
(* The broker itself is external.  Every step between two calls that the   *)
(* other side can see is an action of its own.                             *)
EXTENDS Naturals, Sequences, FiniteSets

CONSTANTS BrTasks,
          BrPlain,       \* envelopes dispatched through the API: JSON already
          BrForeign,     \* messages on the queue whose body cannot be read
          BrWorkers,     \* goroutines of the agent's pool; also the prefetch
          BrMaxRetries,
          BrMaxLost,     \* bound: publishes lost, messages expired
          BrMaxFaults,   \* bound: results that cannot be published
          BrMaxCrashes   \* bound: restarts of the process

ASSUME BrAssumption == /\ BrWorkers # {} /\ IsFiniteSet(BrWorkers)
                       /\ BrPlain \subseteq BrTasks
                       /\ BrTasks \cap BrForeign = {} /\ "none" \notin BrTasks
                       /\ {BrMaxRetries, BrMaxLost, BrMaxFaults, BrMaxCrashes}
                            \subseteq Nat

VARIABLES brQueue,     \* the agent's queue at the broker
          brDead,      \* the dead-letter queue
          brResults,   \* the result queue: task and status
          brHand,      \* the stream goroutine: the delivery it offers, or <<>>
          brWorker,    \* per worker: step and task
          brSend,      \* per task: how far Dispatch has come
          brRecord,    \* the supervisor's records: status and retries
          brPending,   \* the bus's unacked map
          brStored,    \* the stored status of each workflow
          brUp,        \* the process runs
          brRuns,      \* executions of the agent per task
          brAsked,     \* tasks whose result the broker has taken
          brOvertaken, \* tasks settled before their Dispatch had ended
          brGone,      \* tasks lost on the way, or expired
          brFaults, brCrashes

brVars == <<brQueue, brDead, brResults, brHand, brWorker, brSend, brRecord,
            brPending, brStored, brUp, brRuns, brAsked, brOvertaken, brGone,
            brFaults, brCrashes>>
brBroker == <<brQueue, brDead, brResults>>
brTold == <<brStored, brRuns, brAsked, brOvertaken, brGone, brFaults, brCrashes>>

Free == [pc |-> "idle", task |-> "none"]
NoRecord == [status |-> "none", retries |-> 0]

BrInit == /\ brQueue \in {<<>>} \cup {<<f>> : f \in BrForeign}
          /\ brDead = {} /\ brResults = <<>> /\ brHand = <<>>
          /\ brWorker = [w \in BrWorkers |-> Free]
          /\ brSend = [t \in BrTasks |-> "new"]
          /\ brRecord = [t \in BrTasks |-> NoRecord]
          /\ brPending = {}
          /\ brStored = [t \in BrTasks |-> "running"]
          /\ brUp = TRUE
          /\ brRuns = [t \in BrTasks |-> 0]
          /\ brAsked = {} /\ brOvertaken = {} /\ brGone = {}
          /\ brFaults = 0 /\ brCrashes = 0

(* ------------------------------------------------------------ sending -- *)
\* Supervisor.Dispatch registers the record before it sends.
BrDispatch(t) == /\ brUp /\ brSend[t] = "new"
                 /\ brRecord' = [brRecord EXCEPT ![t] = [status |-> "sent", retries |-> 0]]
                 /\ brSend' = [brSend EXCEPT ![t] = "publish"]
                 /\ UNCHANGED <<brBroker, brHand, brWorker, brPending, brUp, brTold>>

\* Publish drops its error: the envelope counts as queued either way.
BrPublish(t) == /\ brUp /\ brSend[t] = "publish"
                /\ brQueue' = Append(brQueue, t)
                /\ brSend' = [brSend EXCEPT ![t] = "register"]
                /\ UNCHANGED <<brDead, brResults, brHand, brWorker, brRecord,
                               brPending, brUp, brTold>>
BrPublishLost(t) == /\ brUp /\ brSend[t] = "publish"
                    /\ Cardinality(brGone) < BrMaxLost
                    /\ brGone' = brGone \cup {t}
                    /\ brSend' = [brSend EXCEPT ![t] = "register"]
                    /\ UNCHANGED <<brBroker, brHand, brWorker, brRecord,
                         brPending, brUp, brStored, brRuns, brAsked,
                         brOvertaken, brFaults, brCrashes>>

\* SendEnvelope enters the unacked map after the broker has the message.
BrRegister(t) == /\ brUp /\ brSend[t] = "register"
                 /\ brPending' = brPending \cup {t}
                 /\ brSend' = [brSend EXCEPT ![t] = "status"]
                 /\ UNCHANGED <<brBroker, brHand, brWorker, brRecord, brUp, brTold>>

\* Dispatch writes the status SendEnvelope returned, whatever a worker has
\* written meanwhile.
BrStatus(t) == /\ brUp /\ brSend[t] = "status"
               /\ brRecord' = [brRecord EXCEPT ![t].status = "queued"]
               /\ brSend' = [brSend EXCEPT ![t] = "done"]
               /\ UNCHANGED <<brBroker, brHand, brWorker, brPending, brUp, brTold>>

(* ---------------------------------------------------------- receiving -- *)
InFlight == {brWorker[w].task : w \in {v \in BrWorkers : brWorker[v].pc # "idle"}}
Outstanding == Len(brHand) + Cardinality({w \in BrWorkers : brWorker[w].pc # "idle"})

\* The broker pushes the next message while fewer than prefetch are
\* unacknowledged; the stream goroutine offers one at a time.
BrPush == /\ brUp /\ brQueue # <<>> /\ brHand = <<>>
          /\ Outstanding < Cardinality(BrWorkers)
          /\ Head(brQueue) \in BrTasks
          /\ brHand' = <<Head(brQueue)>>
          /\ brQueue' = Tail(brQueue)
          /\ UNCHANGED <<brDead, brResults, brWorker, brSend, brRecord,
                         brPending, brUp, brTold>>

\* A body that cannot be read: Nack without requeue.
BrRefuse == /\ brUp /\ brQueue # <<>> /\ brHand = <<>>
            /\ Head(brQueue) \in BrForeign
            /\ brDead' = brDead \cup {Head(brQueue)}
            /\ brQueue' = Tail(brQueue)
            /\ UNCHANGED <<brResults, brHand, brWorker, brSend, brRecord,
                           brPending, brUp, brTold>>

\* A message older than the queue's TTL goes to the dead letters; nobody in
\* the process learns of it.
BrExpire == /\ brQueue # <<>> /\ Head(brQueue) \in BrTasks
            /\ Cardinality(brGone) < BrMaxLost
            /\ brGone' = brGone \cup {Head(brQueue)}
            /\ brDead' = brDead \cup {Head(brQueue)}
            /\ brQueue' = Tail(brQueue)
            /\ UNCHANGED <<brResults, brHand, brWorker, brSend, brRecord,
                 brPending, brUp, brStored, brRuns, brAsked, brOvertaken,
                 brFaults, brCrashes>>

BrHandOver(w) == /\ brUp /\ brHand # <<>> /\ brWorker[w].pc = "idle"
                 /\ brWorker' = [brWorker EXCEPT ![w] =
                                   [pc |-> "confirm", task |-> Head(brHand)]]
                 /\ brHand' = <<>>
                 /\ UNCHANGED <<brBroker, brSend, brRecord, brPending, brUp, brTold>>

(* ------------------------------------------------- WorkerPool.process -- *)
At(w, pc) == brUp /\ brWorker[w].pc = pc
Goes(w, pc) == brWorker' = [brWorker EXCEPT ![w].pc = pc]
TaskOf(w) == brWorker[w].task
Tracked(t) == brRecord[t].status # "none"
\* A record is settled while its Dispatch has still to write "queued".
Overtakes(t) == IF brSend[t] \in {"register", "status"} THEN {t} ELSE {}

\* The body crosses the wire as JSON.  The kernel puts its task into the
\* payload as a struct and the consumer reads it back as a map, whose keys
\* are marshalled in another order: the checksum of the record, taken before,
\* never matches.  A payload that came in through the API was a map to begin
\* with.
SameChecksum(t) == t \in BrPlain

\* ConfirmPayload knows only records of this process, so what an earlier one
\* dispatched fails validation as well.  A failed one is acknowledged as
\* failed before it is dead-lettered.
BrConfirm(w) == LET t == TaskOf(w) IN
    /\ At(w, "confirm")
    /\ IF Tracked(t) /\ SameChecksum(t)
       THEN /\ brRecord' = [brRecord EXCEPT ![t].status = "received"]
            /\ Goes(w, "run") /\ UNCHANGED brPending
       ELSE /\ brRecord' = [brRecord EXCEPT ![t].status =
                             IF Tracked(t) THEN "failed" ELSE "none"]
            /\ brPending' = brPending \ {t}
            /\ Goes(w, "dead")
    /\ UNCHANGED <<brBroker, brHand, brSend, brUp, brTold>>

\* The agent runs and its result is published; completed or failed, the
\* handler succeeds when the broker takes the result.
BrRun(w) == LET t == TaskOf(w) IN
    /\ At(w, "run")
    /\ brRuns' = [brRuns EXCEPT ![t] = @ + 1]
    /\ \E s \in {"completed", "failed"} :
         brResults' = Append(brResults, [task |-> t, status |-> s])
    /\ brAsked' = brAsked \cup {t}
    /\ Goes(w, "accept")
    /\ UNCHANGED <<brQueue, brDead, brHand, brSend, brRecord, brPending, brUp,
                   brStored, brOvertaken, brGone, brFaults, brCrashes>>
BrRunFails(w) == /\ At(w, "run") /\ brFaults < BrMaxFaults
                 /\ brFaults' = brFaults + 1
                 /\ brRuns' = [brRuns EXCEPT ![TaskOf(w)] = @ + 1]
                 /\ Goes(w, "retry")
                 /\ UNCHANGED <<brBroker, brHand, brSend, brRecord, brPending, brUp,
                      brStored, brAsked, brOvertaken, brGone, brCrashes>>

\* Supervisor.Ack(accepted), then the broker's acknowledgement.
BrAccept(w) == LET t == TaskOf(w) IN
    /\ At(w, "accept")
    /\ brRecord' = [brRecord EXCEPT ![t].status = "accepted"]
    /\ brPending' = brPending \ {t}
    /\ brOvertaken' = brOvertaken \cup Overtakes(t)
    /\ Goes(w, "ack")
    /\ UNCHANGED <<brBroker, brHand, brSend, brUp, brStored, brRuns, brAsked,
                   brGone, brFaults, brCrashes>>
BrAck(w) == /\ At(w, "ack")
            /\ brWorker' = [brWorker EXCEPT ![w] = Free]
            /\ UNCHANGED <<brBroker, brHand, brSend, brRecord, brPending, brUp, brTold>>

\* retryOrDeadLetter: Nack(true) puts the message back at the front.
MayRetry(t) == brRecord[t].retries < BrMaxRetries
\* The retry is sent anew and the message requeued as well.
BrRetryTwice(w) == LET t == TaskOf(w) IN
    /\ At(w, "retry") /\ MayRetry(t)
    /\ brRecord' = [brRecord EXCEPT ![t] =
                      [status |-> "retrying", retries |-> @.retries + 1]]
    /\ brQueue' = <<t>> \o Append(brQueue, t)
    /\ brWorker' = [brWorker EXCEPT ![w] = Free]
    /\ UNCHANGED <<brDead, brResults, brHand, brSend, brPending, brUp, brTold>>

BrRetry(w) == LET t == TaskOf(w) IN
    /\ At(w, "retry") /\ MayRetry(t)
    /\ brRecord' = [brRecord EXCEPT ![t] =
                      [status |-> "retrying", retries |-> @.retries + 1]]
    /\ brQueue' = <<t>> \o brQueue
    /\ brWorker' = [brWorker EXCEPT ![w] = Free]
    /\ UNCHANGED <<brDead, brResults, brHand, brSend, brPending, brUp, brTold>>
BrGiveUp(w) == /\ At(w, "retry") /\ ~MayRetry(TaskOf(w))
               /\ Goes(w, "dead")
               /\ UNCHANGED <<brBroker, brHand, brSend, brRecord, brPending, brUp, brTold>>

\* Nobody is told of a dead letter.
BrDeadLetterSilent(w) == LET t == TaskOf(w) IN
    /\ At(w, "dead")
    /\ brRecord' = [brRecord EXCEPT ![t].status =
                      IF Tracked(t) THEN "dead_lettered" ELSE "none"]
    /\ brPending' = brPending \ {t}
    /\ Goes(w, "nack")
    /\ UNCHANGED <<brBroker, brHand, brSend, brUp, brTold>>

\* handleDeadLetter: settle, publish a dead-lettered result (an error is
\* dropped), then Nack(false).
BrDeadLetter(w) == LET t == TaskOf(w) IN
    /\ At(w, "dead")
    /\ brRecord' = [brRecord EXCEPT ![t].status =
                      IF Tracked(t) THEN "dead_lettered" ELSE "none"]
    /\ brPending' = brPending \ {t}
    /\ brOvertaken' = brOvertaken \cup Overtakes(t)
    /\ \/ /\ brResults' = Append(brResults, [task |-> t, status |-> "dead_lettered"])
          /\ brAsked' = brAsked \cup {t}
          /\ UNCHANGED <<brFaults, brGone>>
       \/ /\ brFaults < BrMaxFaults
          /\ brFaults' = brFaults + 1
          /\ brGone' = brGone \cup {t}
          /\ UNCHANGED <<brResults, brAsked>>
    /\ Goes(w, "nack")
    /\ UNCHANGED <<brQueue, brDead, brHand, brSend, brUp, brStored, brRuns, brCrashes>>
BrNack(w) == /\ At(w, "nack")
             /\ brDead' = brDead \cup {TaskOf(w)}
             /\ brWorker' = [brWorker EXCEPT ![w] = Free]
             /\ UNCHANGED <<brQueue, brResults, brHand, brSend, brRecord,
                            brPending, brUp, brTold>>

(* ------------------------------------------------------------ results -- *)
\* handleTaskResult stores what the result says (no other agent is left),
\* whatever is stored, and then acknowledges.
BrResult == /\ brUp /\ brResults # <<>>
            /\ brStored' = [brStored EXCEPT ![Head(brResults).task] =
                              Head(brResults).status]
            /\ brResults' = Tail(brResults)
            /\ UNCHANGED <<brQueue, brDead, brHand, brWorker, brSend, brRecord,
                 brPending, brUp, brRuns, brAsked, brOvertaken, brGone,
                 brFaults, brCrashes>>

\* The process ends, or its context does: the channels close and the broker
\* requeues what was not acknowledged; records and maps are gone.
Unfinished == {brWorker[w].task : w \in {v \in BrWorkers :
                 brWorker[v].pc # "idle"}} \cup {brHand[i] : i \in DOMAIN brHand}
Orders(S) == {q \in [1 .. Cardinality(S) -> S] : \A x \in S : \E i \in DOMAIN q : q[i] = x}
BrCrash == /\ brUp /\ brCrashes < BrMaxCrashes
           /\ brUp' = FALSE
           /\ brCrashes' = brCrashes + 1
           /\ \E back \in Orders(Unfinished) : brQueue' = back \o brQueue
           /\ brHand' = <<>>
           /\ brWorker' = [w \in BrWorkers |-> Free]
           /\ brRecord' = [t \in BrTasks |-> NoRecord]
           /\ brPending' = {}
           \* a Dispatch that had not published leaves nothing to deliver
           /\ brGone' = brGone \cup {t \in BrTasks : brSend[t] = "publish"}
           /\ brSend' = [t \in BrTasks |-> IF brSend[t] = "new" THEN "new" ELSE "done"]
           /\ UNCHANGED <<brDead, brResults, brStored, brRuns, brAsked,
                          brOvertaken, brFaults>>
BrRestart == /\ ~brUp
             /\ brUp' = TRUE
             /\ UNCHANGED <<brBroker, brHand, brWorker, brSend, brRecord,
                            brPending, brTold>>

BrWork(w) == \/ BrHandOver(w) \/ BrConfirm(w) \/ BrRun(w) \/ BrAccept(w)
             \/ BrAck(w) \/ BrRetry(w) \/ BrGiveUp(w) \/ BrDeadLetter(w)
             \/ BrNack(w)
BrSending(t) == BrPublish(t) \/ BrRegister(t) \/ BrStatus(t)

BrNext == \/ \E t \in BrTasks : BrDispatch(t) \/ BrSending(t) \/ BrPublishLost(t)
          \/ BrPush \/ BrRefuse \/ BrExpire \/ BrResult
          \/ \E w \in BrWorkers : BrWork(w) \/ BrRunFails(w)
          \/ BrCrash \/ BrRestart

BrSpec == BrInit /\ [][BrNext]_brVars

(* --------------------------------------------------------- properties -- *)
Ended == {"completed", "failed", "dead_lettered"}
Queued(t) == \E i \in DOMAIN brQueue : brQueue[i] = t

\* Types; the broker never has more out than the prefetch.
BrTypeOK ==
    /\ brDead \subseteq BrTasks \cup BrForeign
    /\ \A i \in DOMAIN brQueue : brQueue[i] \in BrTasks \cup BrForeign
    /\ \A t \in BrTasks : brRecord[t].retries \in 0 .. BrMaxRetries
    /\ brStored \in [BrTasks -> Ended \cup {"running"}]
    /\ Outstanding <= Cardinality(BrWorkers)

\* An envelope the broker took is in one place: queued, in one pair of
\* hands, dead-lettered, or answered by a result; retries, refusals and
\* restarts never drop one or leave two of it.
OneCopy == \A t \in BrTasks :
    LET copies == Cardinality({i \in DOMAIN brQueue : brQueue[i] = t})
                  + Cardinality({i \in DOMAIN brHand : brHand[i] = t})
                  + Cardinality({w \in BrWorkers : brWorker[w].task = t})
    IN /\ copies <= 1
       /\ brSend[t] \in {"register", "status", "done"} /\ copies = 0
            => t \in brAsked \cup brGone

\* What is stored as the outcome of a task changes afterwards only in
\* another life of the process: there the redelivered envelope is unknown
\* and is dead-lettered over a completed task.
KeepsOutcome ==
    \A t \in BrTasks :
        brStored[t] \in Ended /\ brStored'[t] # brStored[t]
            => brCrashes > 0 /\ brStored'[t] = "dead_lettered"

\* An agent is run again only for a result that could not be published:
\* a redelivered envelope is never run a second time.
RunsAccounted == \A t \in BrTasks : brRuns[t] <= 1 + brFaults

\* Once its task is answered an envelope is neither in the unacked map nor
\* recorded as queued, unless the worker overtook the Dispatch.
SettledUnlessOvertaken == \A t \in BrTasks :
    brUp /\ brSend[t] = "done" /\ Tracked(t) /\ t \notin brGone
         /\ ~Queued(t) /\ t \notin InFlight /\ brHand = <<>>
    => t \in brOvertaken \/ (t \notin brPending /\ brRecord[t].status \notin {"sent", "queued"})

\* What the broker took stays accounted for: one copy of each envelope, no
\* second run of an agent but for a result that could not be published, and
\* nothing left marked as queued behind a settled one, through refusals,
\* retries, lost messages and restarts.
BrokerAccounted == BrTypeOK /\ OneCopy /\ RunsAccounted /\ SettledUnlessOvertaken

\* Every dispatched task is settled in the store, whatever the restarts,
\* unless its envelope was lost, expired, or its dead-lettered result was.
BrSettled == \A t \in BrTasks : brSend[t] # "new" => brStored[t] \in Ended \/ t \in brGone

=============================================================================
