------------------------ MODULE SubmissionScheduler ------------------------
(***************************************************************************)
(* Asynchronous task intake of the orchestrator kernel.                    *)
(*                                                                         *)
(* SubmitTaskAsync puts a task on the in-memory bus; one goroutine streams *)
(* the bus (ConsumeTaskDeliveries), one moves deliveries into the fair     *)
(* scheduler (fillSubmissionScheduler) and a pool of workers pops and      *)
(* dispatches them (runSubmissionWorker).  All of them park on channels of *)
(* capacity one that are signalled AFTER the mutex is released, so every   *)
(* locked section and every signal is a step of its own here.              *)
(***************************************************************************)
EXTENDS Integers, Sequences, FiniteSets

CONSTANTS
  Tasks,        \* task ids
  Recurring,    \* tasks that stand for an endless stream of like tasks
  Groups,       \* scheduling groups: a session or a branch of a session
  GroupKey,     \* submissionGroupKey, as a function of the task
  BaseScore,    \* priority weight plus complexity boost of a task
  AgeCap,       \* largest bonus a waiting task earns
  Workers,      \* goroutines running runSubmissionWorker
  MaxBuffered,  \* scheduler.maxBuffered
  MaxInFlight,  \* scheduler.maxInFlightPerGroup
  MaxFaults,    \* bound: transient store errors during dispatch
  MayClose,     \* scope: whether the orchestrator may be closed
  None          \* no task, no group

\* The constructor replaces non-positive limits by 16 and 1, so both limits
\* are positive in every scheduler the program builds.
ASSUME SchedulerAssumption ==
  /\ None \notin Tasks \cup Groups
  /\ Recurring \subseteq Tasks
  /\ GroupKey \in [Tasks -> Groups]
  /\ BaseScore \in [Tasks -> Nat]
  /\ AgeCap \in Nat
  /\ IsFiniteSet(Workers)
  /\ MaxBuffered \in Nat \ {0}
  /\ MaxInFlight \in Nat \ {0}
  /\ MaxFaults \in Nat
  /\ MayClose \in BOOLEAN

VARIABLES
  submitted,    \* tasks SubmitTaskAsync has put on the bus
  finished,     \* tasks dispatchTaskAsync has returned from without error
  precedes,     \* history: pairs of unfinished tasks in submission order
  signalling,   \* tasks whose submitter has yet to signal the bus
  busTasks,     \* MessageBus.tasks
  taskSignal,   \* tokens in MessageBus.taskSignal
  streamPC, streamItem,   \* goroutine of ConsumeTaskDeliveries
  fillPC, fillItem,       \* goroutine of fillSubmissionScheduler
  queues, order, inflight, cursor, totalPending,  \* submissionScheduler
  wake, space,  \* tokens in the scheduler's two channels
  age,          \* bonus earned by a task the scheduler holds, 0 for others
  pc, item, group,        \* per worker: step, popped task, its group
  faults,       \* store errors so far
  ctx           \* the background context; Close cancels it

closed    == ctx = "done"
bus       == <<submitted, finished, precedes, signalling, busTasks, taskSignal>>
stream    == <<streamPC, streamItem>>
fill      == <<fillPC, fillItem>>
scheduler == <<queues, order, inflight, cursor, totalPending>>
pool      == <<pc, item, group>>
vars == <<bus, stream, fill, scheduler, wake, space, age, pool, faults, ctx>>

StreamSteps == {"poll", "check", "wait", "offer", "exit"}
FillSteps   == {"receive", "enqueue", "notify", "full", "nackNotify", "exit"}
WorkerSteps == {"next", "wait", "notifySpace", "dispatch", "nackNotify",
                "done", "notifyWake", "exit"}

TypeOK ==
  /\ submitted \subseteq Tasks
  /\ finished \subseteq Tasks
  /\ precedes \subseteq Tasks \X Tasks
  /\ signalling \subseteq Tasks
  /\ busTasks \in Seq(Tasks)
  /\ taskSignal \in 0..1
  /\ streamPC \in StreamSteps
  /\ streamItem \in Tasks \cup {None}
  /\ fillPC \in FillSteps
  /\ fillItem \in Tasks \cup {None}
  /\ queues \in [Groups -> Seq(Tasks)]
  /\ order \in Seq(Groups)
  /\ inflight \in [Groups -> Nat]
  /\ cursor \in Nat
  /\ totalPending \in Int
  /\ wake \in 0..1
  /\ space \in 0..1
  /\ age \in [Tasks -> 0..AgeCap]
  /\ pc \in [Workers -> WorkerSteps]
  /\ item \in [Workers -> Tasks \cup {None}]
  /\ group \in [Workers -> Groups \cup {None}]
  /\ faults \in 0..MaxFaults
  /\ ctx \in {"live", "done"}

Init ==
  /\ submitted = {} /\ finished = {} /\ precedes = {} /\ signalling = {}
  /\ busTasks = <<>> /\ taskSignal = 0
  /\ streamPC = "poll" /\ streamItem = None
  /\ fillPC = "receive" /\ fillItem = None
  /\ queues = [g \in Groups |-> <<>>] /\ order = <<>>
  /\ inflight = [g \in Groups |-> 0]
  /\ cursor = 0 /\ totalPending = 0
  /\ wake = 0 /\ space = 0
  /\ age = [t \in Tasks |-> 0]
  /\ pc = [w \in Workers |-> "next"]
  /\ item = [w \in Workers |-> None]
  /\ group = [w \in Workers |-> None]
  /\ faults = 0
  /\ ctx = "live"

-----------------------------------------------------------------------------
(* SubmitTaskAsync: EnqueueTask appends under the bus mutex and signals    *)
(* after releasing it.                                                     *)

CanSubmit(t) == t \notin submitted \/ (t \in Recurring /\ t \in finished)

Submit(t) ==
  /\ CanSubmit(t)
  /\ t \notin signalling
  /\ submitted' = submitted \cup {t}
  /\ finished' = finished \ {t}
  /\ precedes' = precedes \cup {<<u, t>> : u \in submitted \ finished}
  /\ busTasks' = Append(busTasks, t)
  /\ signalling' = signalling \cup {t}
  /\ UNCHANGED <<taskSignal, stream, fill, scheduler, wake, space, age, pool,
                 faults, ctx>>

SubmitSignal(t) ==
  /\ t \in signalling
  /\ signalling' = signalling \ {t}
  /\ taskSignal' = 1
  /\ UNCHANGED <<submitted, finished, precedes, busTasks, stream, fill,
                 scheduler, wake, space, age, pool, faults, ctx>>

-----------------------------------------------------------------------------
(* ConsumeTaskDeliveries of the in-memory bus: take the head under the     *)
(* mutex, else look again in waitForTasks, else park on the signal.        *)

StreamTake ==
  /\ streamPC = "poll"
  /\ busTasks # <<>>
  /\ streamItem' = Head(busTasks)
  /\ busTasks' = Tail(busTasks)
  /\ streamPC' = "offer"
  /\ UNCHANGED <<submitted, finished, precedes, signalling, taskSignal, fill,
                 scheduler, wake, space, age, pool, faults, ctx>>

StreamMove(from, to) ==
  /\ streamPC = from
  /\ streamPC' = to
  /\ UNCHANGED <<submitted, finished, precedes, signalling, busTasks,
                 streamItem, fill, scheduler, wake, space, age, pool,
                 faults, ctx>>

StreamEmpty == busTasks = <<>> /\ StreamMove("poll", "check") /\ UNCHANGED taskSignal

StreamRecheck == busTasks # <<>> /\ StreamMove("check", "poll") /\ UNCHANGED taskSignal

StreamPark == busTasks = <<>> /\ StreamMove("check", "wait") /\ UNCHANGED taskSignal

StreamWake == taskSignal = 1 /\ StreamMove("wait", "poll") /\ taskSignal' = 0

\* On shutdown a delivery that nobody has taken is dropped, not put back.
StreamExit ==
  /\ closed
  /\ streamPC \in {"wait", "offer"}
  /\ streamPC' = "exit"
  /\ streamItem' = None
  /\ UNCHANGED <<bus, fill, scheduler, wake, space, age, pool, faults, ctx>>

-----------------------------------------------------------------------------
(* fillSubmissionScheduler and submissionScheduler.enqueue.                *)

\* The unbuffered channel between the two goroutines: one joint step.
FillReceive ==
  /\ fillPC = "receive"
  /\ streamPC = "offer"
  /\ fillItem' = streamItem
  /\ streamItem' = None
  /\ streamPC' = "poll"
  /\ fillPC' = "enqueue"
  /\ UNCHANGED <<bus, scheduler, wake, space, age, pool, faults, ctx>>

\* Mutant: enqueue returns without notifyWake.
FillEnqueueSilent ==
  /\ fillPC = "enqueue"
  /\ totalPending < MaxBuffered
  /\ LET g == GroupKey[fillItem] IN
       /\ queues' = [queues EXCEPT ![g] = Append(@, fillItem)]
       /\ order' = IF queues[g] = <<>> THEN Append(order, g) ELSE order
  /\ totalPending' = totalPending + 1
  /\ fillItem' = None
  /\ fillPC' = "receive"
  /\ UNCHANGED <<bus, stream, inflight, cursor, wake, space, age, pool,
                 faults, ctx>>

FillEnqueue ==
  /\ fillPC = "enqueue"
  /\ totalPending < MaxBuffered
  /\ LET g == GroupKey[fillItem] IN
       /\ queues' = [queues EXCEPT ![g] = Append(@, fillItem)]
       /\ order' = IF queues[g] = <<>> THEN Append(order, g) ELSE order
  /\ totalPending' = totalPending + 1
  /\ fillItem' = None
  /\ fillPC' = "notify"
  /\ UNCHANGED <<bus, stream, inflight, cursor, wake, space, age, pool,
                 faults, ctx>>

FillFull ==
  /\ fillPC = "enqueue"
  /\ totalPending >= MaxBuffered
  /\ fillPC' = "full"
  /\ UNCHANGED <<bus, stream, fillItem, scheduler, wake, space, age, pool,
                 faults, ctx>>

FillNotify ==
  /\ fillPC = "notify"
  /\ wake' = 1
  /\ fillPC' = "receive"
  /\ UNCHANGED <<bus, stream, fillItem, scheduler, space, age, pool, faults,
                 ctx>>

\* Mutant: enqueue returns when space is signalled instead of trying again.
FillSpaceDrop ==
  /\ fillPC = "full"
  /\ space = 1
  /\ space' = 0
  /\ fillPC' = "receive"
  /\ fillItem' = None
  /\ UNCHANGED <<bus, stream, scheduler, wake, age, pool, faults, ctx>>

FillSpace ==
  /\ fillPC = "full"
  /\ space = 1
  /\ space' = 0
  /\ fillPC' = "enqueue"
  /\ UNCHANGED <<bus, stream, fillItem, scheduler, wake, age, pool, faults,
                 ctx>>

\* A cancelled enqueue gives the delivery back to the bus and ends the loop.
FillNack ==
  /\ closed
  /\ fillPC = "full"
  /\ busTasks' = <<fillItem>> \o busTasks
  /\ fillItem' = None
  /\ fillPC' = "nackNotify"
  /\ age' = [age EXCEPT ![fillItem] = 0]
  /\ UNCHANGED <<submitted, finished, precedes, signalling, taskSignal, stream,
                 scheduler, wake, space, pool, faults, ctx>>

FillNackNotify ==
  /\ fillPC = "nackNotify"
  /\ taskSignal' = 1
  /\ fillPC' = "exit"
  /\ UNCHANGED <<submitted, finished, precedes, signalling, busTasks, stream,
                 fillItem, scheduler, wake, space, age, pool, faults, ctx>>

FillExit ==
  /\ closed
  /\ fillPC = "receive"
  /\ fillPC' = "exit"
  /\ UNCHANGED <<bus, stream, fillItem, scheduler, wake, space, age, pool,
                 faults, ctx>>

-----------------------------------------------------------------------------
(* submissionScheduler.popNextLocked: among the groups below their limit,  *)
(* the head with the highest score; ties go to the first group at or after *)
(* the cursor.                                                             *)

Score(t) == BaseScore[t] + age[t]

\* Mutant: off by one in the per-group limit.
EligibleAtLimit ==
  {i \in 1..Len(order) : queues[order[i]] # <<>> /\ inflight[order[i]] <= MaxInFlight}

Eligible ==
  {i \in 1..Len(order) : queues[order[i]] # <<>> /\ inflight[order[i]] < MaxInFlight}

Rank(i) == (i - 1 + Len(order) - (cursor % Len(order))) % Len(order)

HeadScore(i) == Score(Head(queues[order[i]]))

\* Mutant: a later head of equal score replaces the best one found so far.
BeatsLast(i, j) ==
  \/ HeadScore(i) > HeadScore(j)
  \/ HeadScore(i) = HeadScore(j) /\ Rank(i) >= Rank(j)

Beats(i, j) ==
  \/ HeadScore(i) > HeadScore(j)
  \/ HeadScore(i) = HeadScore(j) /\ Rank(i) <= Rank(j)

IsBest(i) == i \in Eligible /\ \A j \in Eligible : Beats(i, j)

WithoutIndex(s, i) == SubSeq(s, 1, i - 1) \o SubSeq(s, i + 1, Len(s))

PopNextLocked(i) ==
  LET g == order[i]
      rest == Tail(queues[g])
  IN /\ queues' = [queues EXCEPT ![g] = rest]
     /\ IF rest = <<>>
        THEN /\ order' = WithoutIndex(order, i)
             /\ cursor' = IF i - 1 >= Len(order) - 1 THEN 0 ELSE i - 1
        ELSE /\ order' = order
             /\ cursor' = i % Len(order)
     /\ totalPending' = totalPending - 1
     /\ inflight' = [inflight EXCEPT ![g] = @ + 1]

-----------------------------------------------------------------------------
(* runSubmissionWorker and the locked sections of next and done.           *)

WorkerPop(w) ==
  /\ pc[w] = "next"
  /\ \E i \in 1..Len(order) :
       /\ IsBest(i)
       /\ PopNextLocked(i)
       /\ item' = [item EXCEPT ![w] = Head(queues[order[i]])]
       /\ group' = [group EXCEPT ![w] = order[i]]
       /\ age' = [age EXCEPT ![Head(queues[order[i]])] = 0]
  /\ pc' = [pc EXCEPT ![w] = "notifySpace"]
  /\ UNCHANGED <<bus, stream, fill, wake, space, faults, ctx>>

WorkerPark(w) ==
  /\ pc[w] = "next"
  /\ Eligible = {}
  /\ pc' = [pc EXCEPT ![w] = "wait"]
  /\ UNCHANGED <<bus, stream, fill, scheduler, wake, space, age, item, group,
                 faults, ctx>>

WorkerWake(w) ==
  /\ pc[w] = "wait"
  /\ wake = 1
  /\ wake' = 0
  /\ pc' = [pc EXCEPT ![w] = "next"]
  /\ UNCHANGED <<bus, stream, fill, scheduler, space, age, item, group,
                 faults, ctx>>

\* Mutant: a parked worker does not look at the context.
WorkerExitNever(w) == closed /\ pc[w] = "exit" /\ UNCHANGED vars

WorkerExit(w) ==
  /\ closed
  /\ pc[w] = "wait"
  /\ pc' = [pc EXCEPT ![w] = "exit"]
  /\ UNCHANGED <<bus, stream, fill, scheduler, wake, space, age, item, group,
                 faults, ctx>>

WorkerNotifySpace(w) ==
  /\ pc[w] = "notifySpace"
  /\ space' = 1
  /\ pc' = [pc EXCEPT ![w] = "dispatch"]
  /\ UNCHANGED <<bus, stream, fill, scheduler, wake, age, item, group, faults,
                 ctx>>

\* dispatchTaskAsync returned without error; Ack of the in-memory bus is a
\* no-op.
WorkerDispatched(w) ==
  /\ pc[w] = "dispatch"
  /\ finished' = finished \cup {item[w]}
  /\ precedes' = {p \in precedes : item[w] \notin {p[1], p[2]}}
  /\ item' = [item EXCEPT ![w] = None]
  /\ pc' = [pc EXCEPT ![w] = "done"]
  /\ UNCHANGED <<submitted, signalling, busTasks, taskSignal, stream, fill,
                 scheduler, wake, space, age, group, faults, ctx>>

\* dispatchTaskAsync failed on the store: Nack(true) puts the task back at
\* the FRONT of the bus while its group is still counted as in flight.
WorkerNack(w) ==
  /\ pc[w] = "dispatch"
  /\ faults < MaxFaults
  /\ faults' = faults + 1
  /\ busTasks' = <<item[w]>> \o busTasks
  /\ item' = [item EXCEPT ![w] = None]
  /\ pc' = [pc EXCEPT ![w] = "nackNotify"]
  /\ UNCHANGED <<submitted, finished, precedes, signalling, taskSignal, stream,
                 fill, scheduler, wake, space, age, group, ctx>>

WorkerNackNotify(w) ==
  /\ pc[w] = "nackNotify"
  /\ taskSignal' = 1
  /\ pc' = [pc EXCEPT ![w] = "done"]
  /\ UNCHANGED <<submitted, finished, precedes, signalling, busTasks, stream,
                 fill, scheduler, wake, space, age, item, group, faults, ctx>>

WorkerDone(w) ==
  /\ pc[w] = "done"
  /\ inflight' = [inflight EXCEPT ![group[w]] = IF @ > 0 THEN @ - 1 ELSE @]
  /\ group' = [group EXCEPT ![w] = None]
  /\ pc' = [pc EXCEPT ![w] = "notifyWake"]
  /\ UNCHANGED <<bus, stream, fill, queues, order, cursor, totalPending, wake,
                 space, age, item, faults, ctx>>

WorkerNotifyWake(w) ==
  /\ pc[w] = "notifyWake"
  /\ wake' = 1
  /\ pc' = [pc EXCEPT ![w] = "next"]
  /\ UNCHANGED <<bus, stream, fill, scheduler, space, age, item, group, faults,
                 ctx>>

-----------------------------------------------------------------------------
(* Time: scoreScheduledTask adds half the seconds waited, up to the cap.   *)

Waiting == {t \in Tasks : t = fillItem \/ \E i \in DOMAIN queues[GroupKey[t]] :
                                             queues[GroupKey[t]][i] = t}

Tick ==
  /\ \E t \in Waiting : age[t] < AgeCap
  /\ age' = [t \in Tasks |-> IF t \in Waiting /\ age[t] < AgeCap
                             THEN age[t] + 1 ELSE age[t]]
  /\ UNCHANGED <<bus, stream, fill, scheduler, wake, space, pool, faults, ctx>>

Close ==
  /\ MayClose
  /\ ~closed
  /\ ctx' = "done"
  /\ UNCHANGED <<bus, stream, fill, scheduler, wake, space, age, pool, faults>>

-----------------------------------------------------------------------------
Stream == StreamTake \/ StreamEmpty \/ StreamRecheck \/ StreamPark \/ StreamWake
          \/ StreamExit

Fill == FillReceive \/ FillEnqueue \/ FillFull \/ FillNotify \/ FillSpace
        \/ FillNack \/ FillNackNotify \/ FillExit

Worker(w) ==
  \/ WorkerPop(w) \/ WorkerPark(w) \/ WorkerWake(w) \/ WorkerExit(w)
  \/ WorkerNotifySpace(w) \/ WorkerDispatched(w) \/ WorkerNack(w)
  \/ WorkerNackNotify(w) \/ WorkerDone(w) \/ WorkerNotifyWake(w)

Next ==
  \/ \E t \in Tasks : Submit(t) \/ SubmitSignal(t)
  \/ Stream
  \/ Fill
  \/ \E w \in Workers : Worker(w)
  \/ Tick
  \/ Close

Spec == Init /\ [][Next]_vars

\* Every goroutine keeps running; nobody is obliged to submit or to close.  A
\* select chooses at random among its ready cases, so one that finds the context
\* done again and again returns in the end.
Fairness ==
  /\ \A t \in Tasks : WF_vars(SubmitSignal(t))
  /\ WF_vars(Stream) /\ SF_vars(StreamExit)
  /\ WF_vars(Fill) /\ SF_vars(FillExit)
  /\ \A w \in Workers : WF_vars(Worker(w))
  /\ WF_vars(Tick)

FairSpec == Spec /\ Fairness
-----------------------------------------------------------------------------
(* Properties.                                                             *)

\* A group never has more tasks in dispatch than its limit, and its in-flight
\* counter is exactly the number of workers holding it: neither a failed
\* dispatch nor a second done can leak or double-release a slot.
GroupLimit ==
  \A g \in Groups :
     /\ inflight[g] = Cardinality({w \in Workers : group[w] = g})
     /\ inflight[g] <= MaxInFlight

Positions(t) == {i \in DOMAIN queues[GroupKey[t]] : queues[GroupKey[t]][i] = t}

Queued == {t \in Tasks : Positions(t) # {}}

\* The scheduler's four redundant structures agree: totalPending counts the
\* queued tasks and respects the buffer, order lists exactly the groups with
\* a queue, once each, and the cursor points into order.
QueueBookkeeping ==
  /\ totalPending = Cardinality(Queued)
  /\ totalPending <= MaxBuffered
  /\ {order[i] : i \in DOMAIN order} = {g \in Groups : queues[g] # <<>>}
  /\ \A i, j \in DOMAIN order : order[i] = order[j] => i = j
  /\ cursor = 0 \/ cursor < Len(order)

\* How many times the pipeline holds task t.
Copies(t) ==
    Cardinality({i \in DOMAIN busTasks : busTasks[i] = t})
  + (IF streamItem = t THEN 1 ELSE 0)
  + (IF fillItem = t THEN 1 ELSE 0)
  + Cardinality(Positions(t))
  + Cardinality({w \in Workers : item[w] = t})

\* Hand-over from bus to stream to filler to scheduler to worker and, after a
\* failed dispatch, back to the bus neither duplicates nor loses a task; only
\* shutdown may drop the one delivery the stream is offering.
Conservation ==
  /\ \A t \in Tasks :
       IF t \in submitted \ finished
       THEN Copies(t) = 1 \/ (closed /\ streamPC = "exit" /\ Copies(t) = 0)
       ELSE Copies(t) = 0
  /\ \A t, u \in submitted \ finished : Copies(t) = 0 /\ Copies(u) = 0 => t = u

InDispatch(t) == \E w \in Workers : item[w] = t

\* Until a dispatch fails, tasks of one group reach the workers in the order
\* they were submitted.  (Nack puts a task back behind its queued successors,
\* so after a fault the order is not kept.)
SessionOrder ==
  faults = 0 =>
    \A p \in precedes :
       GroupKey[p[1]] = GroupKey[p[2]] /\ InDispatch(p[2]) => InDispatch(p[1])

\* What the scheduler keeps agrees with itself and with the tasks there are:
\* order, queues, sizes and cursor match, no task is lost or in two places, and
\* sessions keep their order, whichever of submit, stream, filler, workers,
\* failed dispatch and Close comes first.
TasksAccounted == TypeOK /\ QueueBookkeeping /\ Conservation /\ SessionOrder

WorkIsSeen ==
  Eligible # {} => \/ wake = 1
                   \/ fillPC = "notify"
                   \/ \E w \in Workers : pc[w] \notin {"wait", "exit"}
                   \/ closed

BusIsSeen ==
  (busTasks # <<>> /\ streamPC = "wait") =>
     \/ taskSignal = 1
     \/ signalling # {}
     \/ fillPC = "nackNotify"
     \/ \E w \in Workers : pc[w] = "nackNotify"

SpaceIsSeen ==
  (fillPC = "full" /\ totalPending < MaxBuffered) =>
     \/ space = 1
     \/ \E w \in Workers : pc[w] = "notifySpace"

\* The three capacity-one signals, each sent after the mutex is released,
\* never leave work behind with everyone asleep: a dispatchable task, a task on
\* the bus and a free buffer slot each have a token or a notifier under way.
NoLostWakeup == WorkIsSeen /\ BusIsSeen /\ SpaceIsSeen

\* Every task accepted by SubmitTaskAsync is eventually dispatched, unless the
\* orchestrator is closed, whatever is coalesced or nacked on the way and
\* however many tasks of equal weight other sessions submit meanwhile.
EveryTaskDispatched ==
  \A t \in Tasks : (t \in submitted \ finished) ~> (t \in finished \/ closed)

\* After Close the stream, the filler and every worker return.
ShutdownDrains ==
  closed ~> /\ streamPC = "exit"
            /\ fillPC = "exit"
            /\ \A w \in Workers : pc[w] = "exit"

=============================================================================
