--------------------- MODULE SubmissionSchedulerProofs ---------------------
(***************************************************************************)
(* Theorems about SubmissionScheduler, for any number of tasks, groups and *)
(* workers and any limits.                                                 *)
(***************************************************************************)
EXTENDS SubmissionScheduler, SequenceTheorems, FiniteSetTheorems, TLAPS

Holding == {"notifySpace", "dispatch", "nackNotify", "done"}

\* What each goroutine holds agrees with the step it is at.
Handover ==
  /\ streamPC = "offer" => streamItem \in Tasks
  /\ fillPC \in {"enqueue", "full"} => fillItem \in Tasks
  /\ \A w \in Workers : pc[w] \in {"notifySpace", "dispatch"} => item[w] \in Tasks
  /\ \A w \in Workers : group[w] \in Groups <=> pc[w] \in Holding

TypeInv == TypeOK /\ Handover

-----------------------------------------------------------------------------
\* Removing the entry at one index of a sequence gives a sequence over the
\* same set, one shorter.
LEMMA WithoutIndexType ==
  ASSUME NEW S, NEW s \in Seq(S), NEW i \in 1..Len(s)
  PROVE  /\ WithoutIndex(s, i) \in Seq(S)
         /\ Len(WithoutIndex(s, i)) = Len(s) - 1
<1>1. Len(s) \in Nat /\ i \in Int /\ \A j \in 1..Len(s) : s[j] \in S
  OBVIOUS
<1>2. /\ SubSeq(s, 1, i - 1) \in Seq(S)
      /\ Len(SubSeq(s, 1, i - 1)) = i - 1
  <2>1. \A j \in 1..(i - 1) : s[j] \in S
    BY <1>1
  <2> QED BY <1>1, <2>1, SubSeqProperties
<1>3. /\ SubSeq(s, i + 1, Len(s)) \in Seq(S)
      /\ Len(SubSeq(s, i + 1, Len(s))) = Len(s) - i
  <2>1. \A j \in (i + 1)..Len(s) : s[j] \in S
    BY <1>1
  <2>2. /\ SubSeq(s, i + 1, Len(s)) \in Seq(S)
        /\ Len(SubSeq(s, i + 1, Len(s)))
             = IF i + 1 <= Len(s) THEN Len(s) - (i + 1) + 1 ELSE 0
    BY <1>1, <2>1, SubSeqProperties
  <2> QED BY <1>1, <2>2
<1> DEFINE a == SubSeq(s, 1, i - 1)
           b == SubSeq(s, i + 1, Len(s))
<1>4. a \in Seq(S) /\ Len(a) = i - 1
  BY <1>2
<1>5. b \in Seq(S) /\ Len(b) = Len(s) - i
  BY <1>3
<1>6. WithoutIndex(s, i) = a \o b
  BY DEF WithoutIndex
<1> HIDE DEF a, b
<1>7. a \o b \in Seq(S) /\ Len(a \o b) = Len(a) + Len(b)
  BY <1>4, <1>5, ConcatProperties
<1>8. Len(a) + Len(b) = Len(s) - 1
  BY <1>1, <1>4, <1>5
<1> QED BY <1>6, <1>7, <1>8

\* The locked section of next keeps the scheduler's structures well typed.
LEMMA PopNextLockedType ==
  ASSUME TypeOK, NEW i \in 1..Len(order), queues[order[i]] # <<>>,
         PopNextLocked(i)
  PROVE  /\ queues' \in [Groups -> Seq(Tasks)]
         /\ order' \in Seq(Groups)
         /\ inflight' \in [Groups -> Nat]
         /\ cursor' \in Nat
         /\ totalPending' \in Int
         /\ order[i] \in Groups
         /\ Head(queues[order[i]]) \in Tasks
<1> DEFINE g == order[i]
<1>1. g \in Groups /\ queues[g] \in Seq(Tasks) /\ Len(order) \in Nat \ {0}
  BY DEF TypeOK
<1>2. Head(queues[g]) \in Tasks /\ Tail(queues[g]) \in Seq(Tasks)
  BY <1>1, HeadTailProperties
<1>3. WithoutIndex(order, i) \in Seq(Groups)
  BY WithoutIndexType DEF TypeOK
<1>4. queues' \in [Groups -> Seq(Tasks)]
  BY <1>1, <1>2 DEF TypeOK, PopNextLocked
<1>5. order' \in Seq(Groups)
  BY <1>3 DEF TypeOK, PopNextLocked
<1>6. inflight' \in [Groups -> Nat]
  <2>1. inflight \in [Groups -> Nat] /\ inflight' = [inflight EXCEPT ![g] = inflight[g] + 1]
    BY DEF TypeOK, PopNextLocked
  <2>2. inflight[g] + 1 \in Nat
    BY <1>1, <2>1
  <2> QED BY <2>1, <2>2
<1>7. cursor' \in Nat
  BY <1>1 DEF PopNextLocked
<1>8. totalPending' \in Int
  BY DEF TypeOK, PopNextLocked
<1> QED BY <1>1, <1>2, <1>4, <1>5, <1>6, <1>7, <1>8

\* The initial state is well typed.
LEMMA InitTypeInv == Init => TypeInv
BY SchedulerAssumption
   DEF Init, TypeInv, closed, TypeOK, Handover, StreamSteps, FillSteps, WorkerSteps, Holding

\* A task that leaves the scheduler loses its bonus.
LEMMA ResetAge ==
  ASSUME TypeOK, NEW t
  PROVE  [age EXCEPT ![t] = 0] \in [Tasks -> 0..AgeCap]
<1>1. age \in [Tasks -> 0..AgeCap] /\ 0 \in 0..AgeCap
  BY SchedulerAssumption DEF TypeOK
<1> QED BY <1>1

-----------------------------------------------------------------------------
\* Every step keeps the types.
LEMMA NextTypeOK ==
  ASSUME TypeInv, [Next]_vars
  PROVE  TypeOK'
<1> USE DEF TypeInv, TypeOK, closed, bus, stream, fill, scheduler, pool
<1>1. ASSUME NEW t \in Tasks, Submit(t)
      PROVE  TypeOK'
  BY <1>1 DEF Submit
<1>2. ASSUME NEW t \in Tasks, SubmitSignal(t)
      PROVE  TypeOK'
  BY <1>2 DEF SubmitSignal
<1>3. CASE Stream
  <2>1. CASE StreamTake
    BY <2>1 DEF StreamTake, StreamSteps
  <2>2. CASE StreamEmpty \/ StreamRecheck \/ StreamPark \/ StreamWake
    BY <2>2, SMTT(40) DEF StreamEmpty, StreamRecheck, StreamPark, StreamWake, StreamMove,
                StreamSteps
  <2>3. CASE StreamExit
    BY <2>3 DEF StreamExit, StreamSteps
  <2> QED BY <1>3, <2>1, <2>2, <2>3 DEF Stream
<1>4. CASE Fill
  <2>1. CASE FillReceive
    BY <2>1 DEF FillReceive, FillSteps, StreamSteps
  <2>2. CASE FillEnqueue
    <3>1. fillItem \in Tasks /\ GroupKey[fillItem] \in Groups
      BY <2>2, SchedulerAssumption DEF FillEnqueue, Handover
    <3>2. queues' \in [Groups -> Seq(Tasks)] /\ order' \in Seq(Groups)
      BY <2>2, <3>1 DEF FillEnqueue
    <3>3. fillPC' \in FillSteps /\ totalPending' \in Int
      BY <2>2 DEF FillEnqueue, FillSteps
    <3> QED BY <2>2, <3>2, <3>3 DEF FillEnqueue
  <2>3. CASE FillFull \/ FillNotify
    BY <2>3 DEF FillFull, FillNotify, FillSteps
  <2>4. CASE FillSpace \/ FillExit
    BY <2>4, SMTT(40) DEF FillSpace, FillExit, FillSteps
  <2>5. CASE FillNack
    <3>1. fillItem \in Tasks
      BY <2>5 DEF FillNack, Handover
    <3>2. age' \in [Tasks -> 0..AgeCap]
      BY <2>5, ResetAge DEF FillNack
    <3> QED BY <2>5, <3>1, <3>2 DEF FillNack, FillSteps
  <2>6. CASE FillNackNotify
    BY <2>6 DEF FillNackNotify, FillSteps
  <2> QED BY <1>4, <2>1, <2>2, <2>3, <2>4, <2>5, <2>6 DEF Fill
<1>5. ASSUME NEW w \in Workers, Worker(w)
      PROVE  TypeOK'
  <2>1. CASE WorkerPop(w)
    <3>1. PICK i \in 1..Len(order) :
            /\ IsBest(i)
            /\ PopNextLocked(i)
            /\ item' = [item EXCEPT ![w] = Head(queues[order[i]])]
            /\ group' = [group EXCEPT ![w] = order[i]]
            /\ age' = [age EXCEPT ![Head(queues[order[i]])] = 0]
      BY <2>1 DEF WorkerPop
    <3>2. queues[order[i]] # <<>>
      BY <3>1 DEF IsBest, Eligible
    <3>5. age' \in [Tasks -> 0..AgeCap]
      BY <3>1, ResetAge
    <3> HIDE DEF TypeOK
    <3>3. /\ queues' \in [Groups -> Seq(Tasks)]
          /\ order' \in Seq(Groups)
          /\ inflight' \in [Groups -> Nat]
          /\ cursor' \in Nat
          /\ totalPending' \in Int
          /\ order[i] \in Groups
          /\ Head(queues[order[i]]) \in Tasks
      BY <3>1, <3>2, PopNextLockedType
    <3>4. /\ item' \in [Workers -> Tasks \cup {None}]
          /\ group' \in [Workers -> Groups \cup {None}]
          /\ pc' \in [Workers -> WorkerSteps]
      BY <2>1, <3>1, <3>3 DEF TypeOK, WorkerPop, WorkerSteps
    <3> QED BY <2>1, <3>5, <3>3, <3>4 DEF TypeOK, WorkerPop
  <2>2. CASE WorkerPark(w) \/ WorkerWake(w) \/ WorkerExit(w)
    <3>1. pc' \in [Workers -> WorkerSteps]
      BY <2>2 DEF WorkerPark, WorkerWake, WorkerExit, WorkerSteps
    <3>2. wake' \in 0..1
      BY <2>2 DEF WorkerPark, WorkerWake, WorkerExit
    <3> QED BY <2>2, <3>1, <3>2 DEF WorkerPark, WorkerWake, WorkerExit
  <2>3. CASE WorkerNotifySpace(w)
    BY <2>3 DEF WorkerNotifySpace, WorkerSteps
  <2>4. CASE WorkerDispatched(w)
    <3>1. item[w] \in Tasks
      BY <2>4 DEF WorkerDispatched, Handover
    <3> QED BY <2>4, <3>1 DEF WorkerDispatched, WorkerSteps
  <2>5. CASE WorkerNack(w)
    <3>1. item[w] \in Tasks
      BY <2>5 DEF WorkerNack, Handover
    <3>2. busTasks' \in Seq(Tasks) /\ faults' \in 0..MaxFaults
      BY <2>5, <3>1, SchedulerAssumption DEF WorkerNack
    <3> QED BY <2>5, <3>2 DEF WorkerNack, WorkerSteps
  <2>6. CASE WorkerNackNotify(w)
    <3>1. pc' \in [Workers -> WorkerSteps]
      BY <2>6 DEF WorkerNackNotify, WorkerSteps
    <3> QED BY <2>6, <3>1 DEF WorkerNackNotify
  <2>7. CASE WorkerDone(w)
    <3>1. pc' \in [Workers -> WorkerSteps] /\ group' \in [Workers -> Groups \cup {None}]
      BY <2>7 DEF WorkerDone, WorkerSteps
    <3>2. inflight' \in [Groups -> Nat]
      <4>1. inflight \in [Groups -> Nat] /\ group[w] \in Groups
        BY <2>7 DEF Handover, Holding, WorkerDone
      <4>2. inflight' = [inflight EXCEPT ![group[w]] =
                           IF inflight[group[w]] > 0 THEN inflight[group[w]] - 1
                                                     ELSE inflight[group[w]]]
        BY <2>7 DEF WorkerDone
      <4> HIDE DEF TypeInv, TypeOK
      <4> QED BY <4>1, <4>2
    <3> QED BY <2>7, <3>1, <3>2 DEF WorkerDone
  <2>8. CASE WorkerNotifyWake(w)
    <3>1. pc' \in [Workers -> WorkerSteps]
      BY <2>8 DEF WorkerNotifyWake, WorkerSteps
    <3> QED BY <2>8, <3>1 DEF WorkerNotifyWake
  <2> QED BY <1>5, <2>1, <2>2, <2>3, <2>4, <2>5, <2>6, <2>7, <2>8 DEF Worker
<1>6. CASE Tick
  <2>1. age' \in [Tasks -> 0..AgeCap]
    <3>1. age \in [Tasks -> 0..AgeCap] /\ AgeCap \in Nat
      BY SchedulerAssumption
    <3>2. age' = [t \in Tasks |-> IF t \in Waiting /\ age[t] < AgeCap
                                  THEN age[t] + 1 ELSE age[t]]
      BY <1>6 DEF Tick
    <3> HIDE DEF TypeInv, TypeOK
    <3> QED BY <3>1, <3>2
  <2> QED BY <1>6, <2>1 DEF Tick
<1>7. CASE Close
  BY <1>7 DEF Close
<1>8. CASE UNCHANGED vars
  BY <1>8 DEF vars
<1> QED BY <1>1, <1>2, <1>3, <1>4, <1>5, <1>6, <1>7, <1>8 DEF Next

\* Every step keeps what the goroutines hold in agreement with their steps.
LEMMA NextHandover ==
  ASSUME TypeInv, [Next]_vars
  PROVE  Handover'
<1> USE DEF TypeInv, Handover, Holding, closed, bus, stream, fill, scheduler, pool
<1>1. ASSUME NEW t \in Tasks, Submit(t) \/ SubmitSignal(t)
      PROVE  Handover'
  BY <1>1 DEF Submit, SubmitSignal
<1>2. CASE Stream
  <2>1. CASE StreamTake
    <3>1. streamItem' \in Tasks
      BY <2>1 DEF StreamTake, TypeOK
    <3> QED BY <2>1, <3>1 DEF StreamTake
  <2>2. CASE StreamEmpty \/ StreamRecheck \/ StreamPark \/ StreamWake
    BY <2>2 DEF StreamEmpty, StreamRecheck, StreamPark, StreamWake, StreamMove
  <2>3. CASE StreamExit
    BY <2>3 DEF StreamExit
  <2> QED BY <1>2, <2>1, <2>2, <2>3 DEF Stream
<1>3. CASE Fill
  BY <1>3 DEF Fill, FillReceive, FillEnqueue, FillFull, FillNotify, FillSpace,
              FillNack, FillNackNotify, FillExit
<1>4. ASSUME NEW w \in Workers, Worker(w)
      PROVE  Handover'
  <2>1. CASE WorkerPop(w)
    <3>1. PICK i \in 1..Len(order) :
            /\ IsBest(i)
            /\ PopNextLocked(i)
            /\ item' = [item EXCEPT ![w] = Head(queues[order[i]])]
            /\ group' = [group EXCEPT ![w] = order[i]]
      BY <2>1 DEF WorkerPop
    <3>2. queues[order[i]] # <<>>
      BY <3>1 DEF IsBest, Eligible
    <3>3. order[i] \in Groups /\ Head(queues[order[i]]) \in Tasks
      BY <3>1, <3>2, PopNextLockedType
    <3>4. pc' = [pc EXCEPT ![w] = "notifySpace"] /\ UNCHANGED <<bus, stream, fill, ctx>>
      BY <2>1 DEF WorkerPop
    <3> QED BY <3>1, <3>3, <3>4 DEF TypeOK
  <2>2. CASE WorkerPark(w) \/ WorkerWake(w) \/ WorkerExit(w) \/ WorkerNotifySpace(w)
    BY <2>2 DEF WorkerPark, WorkerWake, WorkerExit, WorkerNotifySpace, TypeOK
  <2>3. CASE WorkerDispatched(w) \/ WorkerNack(w) \/ WorkerNackNotify(w)
    BY <2>3 DEF WorkerDispatched, WorkerNack, WorkerNackNotify, TypeOK
  <2>4. CASE WorkerDone(w)
    BY <2>4, SchedulerAssumption DEF WorkerDone, TypeOK
  <2>5. CASE WorkerNotifyWake(w)
    BY <2>5 DEF WorkerNotifyWake, TypeOK
  <2> QED BY <1>4, <2>1, <2>2, <2>3, <2>4, <2>5 DEF Worker
<1>5. CASE Tick \/ Close \/ UNCHANGED vars
  BY <1>5 DEF Tick, Close, vars
<1> QED BY <1>1, <1>2, <1>3, <1>4, <1>5 DEF Next

\* In every reachable state the structures of the intake pipeline have their
\* types and each goroutine holds a task exactly at the steps that use one.
THEOREM TypeCorrect == Spec => []TypeInv
<1>1. Init => TypeInv
  BY InitTypeInv
<1>2. TypeInv /\ [Next]_vars => TypeInv'
  BY NextTypeOK, NextHandover DEF TypeInv
<1> QED BY <1>1, <1>2, PTL DEF Spec

\* In every reachable state the queues, counters, channels and per-worker
\* fields of the intake pipeline have their types.
THEOREM TypeOKCorrect == Spec => []TypeOK
<1>1. TypeInv => TypeOK
  BY DEF TypeInv
<1> QED BY <1>1, TypeCorrect, PTL
-----------------------------------------------------------------------------
Holders(g) == {w \in Workers : group[w] = g}

\* Steps other than a pop and a done leave the counters and their owners alone.
LEMMA GroupLimitFrame ==
  ASSUME GroupLimit, inflight' = inflight, group' = group
  PROVE  GroupLimit'
BY DEF GroupLimit

\* A pop counts its worker in; the limit holds because the group was eligible.
LEMMA GroupLimitPop ==
  ASSUME TypeInv, GroupLimit, NEW w \in Workers, WorkerPop(w)
  PROVE  GroupLimit'
<1>1. PICK i \in 1..Len(order) :
        /\ IsBest(i)
        /\ PopNextLocked(i)
        /\ group' = [group EXCEPT ![w] = order[i]]
  BY DEF WorkerPop
<1> DEFINE h == order[i]
<1>2. h \in Groups /\ inflight[h] < MaxInFlight
  BY <1>1 DEF IsBest, Eligible, TypeInv, TypeOK
<1>3. inflight' = [inflight EXCEPT ![h] = inflight[h] + 1]
  BY <1>1 DEF PopNextLocked
<1>4. group \in [Workers -> Groups \cup {None}] /\ group[w] \notin Groups
  BY DEF TypeInv, TypeOK, Handover, Holding, WorkerPop
<1>5. inflight \in [Groups -> Nat] /\ MaxInFlight \in Nat /\ IsFiniteSet(Workers)
  BY SchedulerAssumption DEF TypeInv, TypeOK
<1> SUFFICES ASSUME NEW g \in Groups
             PROVE  /\ inflight'[g] = Cardinality(Holders(g)')
                    /\ inflight'[g] <= MaxInFlight
  BY DEF GroupLimit, Holders
<1>6. inflight[g] = Cardinality(Holders(g)) /\ inflight[g] <= MaxInFlight
  BY DEF GroupLimit, Holders
<1>7. IsFiniteSet(Holders(g))
  BY <1>5, FS_Subset DEF Holders
<1>8. CASE g = h
  <2>1. Holders(g)' = Holders(g) \cup {w} /\ w \notin Holders(g)
    BY <1>1, <1>4, <1>8 DEF Holders
  <2>2. Cardinality(Holders(g)') = Cardinality(Holders(g)) + 1
    BY <1>7, <2>1, FS_AddElement
  <2> QED BY <1>2, <1>3, <1>5, <1>6, <1>8, <2>2
<1>9. CASE g # h
  <2>1. Holders(g)' = Holders(g)
    BY <1>1, <1>4, <1>9 DEF Holders
  <2> QED BY <1>2, <1>3, <1>5, <1>6, <1>9, <2>1
<1> QED BY <1>8, <1>9

\* A done counts its worker out, and finds the counter positive.
LEMMA GroupLimitDone ==
  ASSUME TypeInv, GroupLimit, NEW w \in Workers, WorkerDone(w)
  PROVE  GroupLimit'
<1> DEFINE h == group[w]
<1>1. h \in Groups
  BY DEF TypeInv, Handover, Holding, WorkerDone
<1>2. /\ inflight' = [inflight EXCEPT ![h] = IF inflight[h] > 0
                                             THEN inflight[h] - 1 ELSE inflight[h]]
      /\ group' = [group EXCEPT ![w] = None]
  BY DEF WorkerDone
<1>3. /\ group \in [Workers -> Groups \cup {None}]
      /\ inflight \in [Groups -> Nat]
      /\ MaxInFlight \in Nat
      /\ IsFiniteSet(Workers)
      /\ None \notin Groups
  BY SchedulerAssumption DEF TypeInv, TypeOK
<1> SUFFICES ASSUME NEW g \in Groups
             PROVE  /\ inflight'[g] = Cardinality(Holders(g)')
                    /\ inflight'[g] <= MaxInFlight
  BY DEF GroupLimit, Holders
<1>4. inflight[g] = Cardinality(Holders(g)) /\ inflight[g] <= MaxInFlight
  BY DEF GroupLimit, Holders
<1>5. IsFiniteSet(Holders(g))
  BY <1>3, FS_Subset DEF Holders
<1>6. CASE g = h
  <2>1. Holders(g)' = Holders(g) \ {w} /\ w \in Holders(g)
    BY <1>2, <1>3, <1>6 DEF Holders
  <2>2. Cardinality(Holders(g)') = Cardinality(Holders(g)) - 1
    BY <1>5, <2>1, FS_RemoveElement
  <2>3. Cardinality(Holders(g)) # 0
    BY <1>5, <2>1, FS_EmptySet
  <2> HIDE DEF h
  <2> QED BY <1>1, <1>2, <1>3, <1>4, <1>6, <2>2, <2>3
<1>7. CASE g # h
  <2>1. Holders(g)' = Holders(g)
    BY <1>2, <1>3, <1>7 DEF Holders
  <2> HIDE DEF h
  <2> QED BY <1>1, <1>2, <1>3, <1>4, <1>7, <2>1
<1> QED BY <1>6, <1>7

\* No interleaving of pops, failed dispatches and dones makes a session exceed
\* its in-flight limit, or leaks a slot of it.
THEOREM GroupLimitCorrect == Spec => []GroupLimit
<1>1. Init => GroupLimit
  <2> SUFFICES ASSUME Init, NEW g \in Groups
               PROVE  /\ inflight[g] = Cardinality({w \in Workers : group[w] = g})
                      /\ inflight[g] <= MaxInFlight
    BY DEF GroupLimit
  <2>1. {w \in Workers : group[w] = g} = {}
    BY SchedulerAssumption DEF Init
  <2>2. Cardinality({w \in Workers : group[w] = g}) = 0
    BY <2>1, FS_EmptySet
  <2>3. inflight[g] = 0 /\ MaxInFlight \in Nat
    BY SchedulerAssumption DEF Init
  <2> QED BY <2>2, <2>3
<1>2. TypeInv /\ GroupLimit /\ [Next]_vars => GroupLimit'
  <2> SUFFICES ASSUME TypeInv, GroupLimit, [Next]_vars
               PROVE  GroupLimit'
    OBVIOUS
  <2> USE GroupLimitFrame DEF bus, stream, fill, scheduler, pool
  <2>1. ASSUME NEW t \in Tasks, Submit(t) \/ SubmitSignal(t)
        PROVE  GroupLimit'
    BY <2>1 DEF Submit, SubmitSignal
  <2>2. CASE Stream
    BY <2>2 DEF Stream, StreamTake, StreamEmpty, StreamRecheck, StreamPark,
                StreamWake, StreamExit, StreamMove
  <2>3. CASE Fill
    BY <2>3 DEF Fill, FillReceive, FillEnqueue, FillFull, FillNotify, FillSpace,
                FillNack, FillNackNotify, FillExit
  <2>4. ASSUME NEW w \in Workers, Worker(w)
        PROVE  GroupLimit'
    BY <2>4, GroupLimitPop, GroupLimitDone
       DEF Worker, WorkerPark, WorkerWake, WorkerExit, WorkerNotifySpace,
           WorkerDispatched, WorkerNack, WorkerNackNotify, WorkerNotifyWake
  <2>5. CASE Tick \/ Close \/ UNCHANGED vars
    BY <2>5 DEF Tick, Close, vars
  <2> QED BY <2>1, <2>2, <2>3, <2>4, <2>5 DEF Next
<1> QED BY <1>1, <1>2, TypeCorrect, PTL DEF Spec
-----------------------------------------------------------------------------
\* Initially nothing waits, so nothing can have been missed.
LEMMA InitNoLostWakeup == Init => NoLostWakeup
<1> SUFFICES ASSUME Init PROVE NoLostWakeup
  OBVIOUS
<1>1. WorkIsSeen
  <2>1. order = <<>>
    BY DEF Init
  <2>2. Eligible = {}
    BY <2>1 DEF Eligible
  <2> QED BY <2>2 DEF WorkIsSeen
<1>2. BusIsSeen /\ SpaceIsSeen
  BY DEF Init, BusIsSeen, SpaceIsSeen
<1> QED BY <1>1, <1>2 DEF NoLostWakeup

\* The token for the workers: enqueue and done are the steps that make a task
\* dispatchable, and each still has its notifyWake ahead of it.
LEMMA NextWorkIsSeen ==
  ASSUME TypeInv, WorkIsSeen, [Next]_vars
  PROVE  WorkIsSeen'
<1> USE DEF WorkIsSeen, bus, stream, fill, scheduler, pool
<1>1. ASSUME queues' = queues, order' = order, inflight' = inflight
      PROVE  Eligible' = Eligible
  BY <1>1 DEF Eligible
<1>2. ASSUME NEW t \in Tasks, Submit(t) \/ SubmitSignal(t)
      PROVE  WorkIsSeen'
  BY <1>1, <1>2 DEF Submit, SubmitSignal, closed
<1>3. CASE Stream
  BY <1>1, <1>3 DEF Stream, StreamTake, StreamEmpty, StreamRecheck, StreamPark,
                    StreamWake, StreamExit, StreamMove, closed
<1>4. CASE Fill
  <2>1. CASE FillEnqueue
    BY <2>1 DEF FillEnqueue
  <2>2. CASE FillReceive \/ FillFull \/ FillNotify \/ FillSpace
    BY <1>1, <2>2 DEF FillReceive, FillFull, FillNotify, FillSpace, closed
  <2>3. CASE FillNack \/ FillNackNotify \/ FillExit
    BY <1>1, <2>3 DEF FillNack, FillNackNotify, FillExit, closed
  <2> QED BY <1>4, <2>1, <2>2, <2>3 DEF Fill
<1>5. ASSUME NEW w \in Workers, Worker(w)
      PROVE  WorkIsSeen'
  <2>1. CASE WorkerPark(w)
    BY <1>1, <2>1 DEF WorkerPark
  <2>2. CASE WorkerExit(w)
    BY <2>2 DEF WorkerExit, closed
  <2>3. CASE ~WorkerPark(w) /\ ~WorkerExit(w)
    <3>1. pc'[w] \notin {"wait", "exit"}
      BY <1>5, <2>3 DEF TypeInv, TypeOK, Worker, WorkerPop, WorkerWake,
           WorkerNotifySpace, WorkerDispatched, WorkerNack, WorkerNackNotify,
           WorkerDone, WorkerNotifyWake
    <3> QED BY <3>1
  <2> QED BY <2>1, <2>2, <2>3
<1>6. CASE Tick \/ Close \/ UNCHANGED vars
  BY <1>1, <1>6 DEF Tick, Close, vars, closed
<1> QED BY <1>2, <1>3, <1>4, <1>5, <1>6 DEF Next

\* The token for the stream: it parks only on an empty bus, and whoever puts a
\* task on the bus still has its notifySignal ahead of it.
LEMMA NextBusIsSeen ==
  ASSUME TypeInv, BusIsSeen, [Next]_vars
  PROVE  BusIsSeen'
<1> USE DEF BusIsSeen, bus, stream, fill, scheduler, pool
<1>1. ASSUME NEW t \in Tasks, Submit(t) \/ SubmitSignal(t)
      PROVE  BusIsSeen'
  BY <1>1 DEF Submit, SubmitSignal
<1>2. CASE Stream
  BY <1>2 DEF Stream, StreamTake, StreamEmpty, StreamRecheck, StreamPark,
              StreamWake, StreamExit, StreamMove
<1>3. CASE Fill
  BY <1>3 DEF Fill, FillReceive, FillEnqueue, FillFull, FillNotify, FillSpace,
              FillNack, FillNackNotify, FillExit
<1>4. ASSUME NEW w \in Workers, Worker(w)
      PROVE  BusIsSeen'
  <2>1. CASE WorkerNack(w)
    <3>1. pc'[w] = "nackNotify"
      BY <2>1 DEF WorkerNack, TypeInv, TypeOK
    <3> QED BY <3>1
  <2>2. CASE WorkerNackNotify(w)
    BY <2>2 DEF WorkerNackNotify
  <2>3. CASE ~WorkerNack(w) /\ ~WorkerNackNotify(w)
    <3>1. UNCHANGED <<busTasks, streamPC, taskSignal, signalling, fillPC>>
      BY <1>4, <2>3 DEF Worker, WorkerPop, WorkerPark, WorkerWake, WorkerExit,
           WorkerNotifySpace, WorkerDispatched, WorkerDone, WorkerNotifyWake
    <3>2. \A v \in Workers : pc[v] = "nackNotify" => pc'[v] = "nackNotify"
      BY <1>4, <2>3 DEF TypeInv, TypeOK, Worker, WorkerPop, WorkerPark, WorkerWake,
           WorkerExit, WorkerNotifySpace, WorkerDispatched, WorkerDone,
           WorkerNotifyWake
    <3> QED BY <3>1, <3>2
  <2> QED BY <2>1, <2>2, <2>3
<1>5. CASE Tick \/ Close \/ UNCHANGED vars
  BY <1>5 DEF Tick, Close, vars
<1> QED BY <1>1, <1>2, <1>3, <1>4, <1>5 DEF Next

\* The token for the filler: only a pop frees a slot, and its worker still has
\* notifySpace ahead of it.
LEMMA NextSpaceIsSeen ==
  ASSUME TypeInv, SpaceIsSeen, [Next]_vars
  PROVE  SpaceIsSeen'
<1> USE DEF SpaceIsSeen, bus, stream, fill, scheduler, pool
<1>1. ASSUME NEW t \in Tasks, Submit(t) \/ SubmitSignal(t)
      PROVE  SpaceIsSeen'
  BY <1>1 DEF Submit, SubmitSignal
<1>2. CASE Stream
  BY <1>2 DEF Stream, StreamTake, StreamEmpty, StreamRecheck, StreamPark,
              StreamWake, StreamExit, StreamMove
<1>3. CASE Fill
  BY <1>3, SchedulerAssumption
     DEF TypeInv, TypeOK, Fill, FillReceive, FillEnqueue, FillFull, FillNotify,
         FillSpace, FillNack, FillNackNotify, FillExit
<1>4. ASSUME NEW w \in Workers, Worker(w)
      PROVE  SpaceIsSeen'
  <2>1. CASE WorkerPop(w)
    <3>1. pc'[w] = "notifySpace"
      BY <2>1 DEF WorkerPop, TypeInv, TypeOK
    <3> QED BY <3>1
  <2>2. CASE WorkerNotifySpace(w)
    BY <2>2 DEF WorkerNotifySpace
  <2>3. CASE ~WorkerPop(w) /\ ~WorkerNotifySpace(w)
    <3>1. UNCHANGED <<fillPC, totalPending, space>>
      BY <1>4, <2>3 DEF Worker, WorkerPark, WorkerWake, WorkerExit, WorkerDispatched,
           WorkerNack, WorkerNackNotify, WorkerDone, WorkerNotifyWake
    <3>2. \A v \in Workers : pc[v] = "notifySpace" => pc'[v] = "notifySpace"
      BY <1>4, <2>3 DEF TypeInv, TypeOK, Worker, WorkerPark, WorkerWake, WorkerExit,
           WorkerDispatched, WorkerNack, WorkerNackNotify, WorkerDone, WorkerNotifyWake
    <3> QED BY <3>1, <3>2
  <2> QED BY <2>1, <2>2, <2>3
<1>5. CASE Tick \/ Close \/ UNCHANGED vars
  BY <1>5 DEF Tick, Close, vars
<1> QED BY <1>1, <1>2, <1>3, <1>4, <1>5 DEF Next

\* Signalling after the unlock, on channels of capacity one that coalesce
\* signals, never loses a wakeup, for any number of workers and submitters.
THEOREM NoLostWakeupCorrect == Spec => []NoLostWakeup
<1>1. Init => NoLostWakeup
  BY InitNoLostWakeup
<1>2. TypeInv /\ NoLostWakeup /\ [Next]_vars => NoLostWakeup'
  BY NextWorkIsSeen, NextBusIsSeen, NextSpaceIsSeen DEF NoLostWakeup
<1> QED BY <1>1, <1>2, TypeCorrect, PTL DEF Spec

-----------------------------------------------------------------------------
(* Every task is in one place: the sequences the pipeline keeps.           *)

Has(s, x)      == \E i \in 1..Len(s) : s[i] = x
Distinct(s)    == \A i, j \in 1..Len(s) : s[i] = s[j] => i = j
Ahead(s, x, y) == \E i, j \in 1..Len(s) : i < j /\ s[i] = x /\ s[j] = y

LEMMA AtTheEnd ==
  ASSUME NEW S, NEW s \in Seq(S), NEW x \in S
  PROVE  /\ Append(s, x) \in Seq(S) /\ Append(s, x) # <<>>
         /\ \A y : Has(Append(s, x), y) <=> Has(s, y) \/ y = x
         /\ Distinct(s) /\ ~Has(s, x) => Distinct(Append(s, x))
         /\ \A a, b : Ahead(s, a, b) => Ahead(Append(s, x), a, b)
         /\ \A a : Has(s, a) => Ahead(Append(s, x), a, x)
         /\ \A a, b : Ahead(Append(s, x), a, b) /\ b # x => Ahead(s, a, b)
<1> DEFINE n == Len(s)
<1> PICK e : e = Append(s, x)
  OBVIOUS
<1>1. /\ e \in Seq(S) /\ Len(e) = n + 1 /\ e[n + 1] = x /\ n \in Nat
      /\ \A i \in 1..n : e[i] = s[i]
  BY AppendProperties, LenProperties
<1>2. e # <<>>
  <2>1. Len(e) # 0
    BY <1>1
  <2> QED BY <1>1, <2>1, EmptySeq
<1> HIDE DEF n
<1>3. \A i \in 1..(n + 1) : i \in 1..n \/ i = n + 1
  BY <1>1
<1>4. \A i \in 1..n : i \in 1..(n + 1) /\ i < n + 1
  BY <1>1
<1>5. n + 1 \in 1..(n + 1)
  BY <1>1
<1>6. ASSUME NEW y PROVE Has(e, y) <=> Has(s, y) \/ y = x
  BY <1>1, <1>3, <1>4, <1>5 DEF Has, n
<1>7. ASSUME Distinct(s), ~Has(s, x) PROVE Distinct(e)
  <2> SUFFICES ASSUME NEW i \in 1..(n + 1), NEW j \in 1..(n + 1), e[i] = e[j] PROVE i = j
    BY <1>1 DEF Distinct
  <2>1. CASE i \in 1..n /\ j \in 1..n
    BY <1>1, <1>7, <2>1 DEF Distinct, n
  <2>2. CASE i = n + 1 /\ j \in 1..n
    BY <1>1, <1>7, <2>2 DEF Has, n
  <2>3. CASE j = n + 1 /\ i \in 1..n
    BY <1>1, <1>7, <2>3 DEF Has, n
  <2> QED BY <1>3, <2>1, <2>2, <2>3
<1>8. ASSUME NEW a, NEW b, Ahead(s, a, b) PROVE Ahead(e, a, b)
  BY <1>1, <1>4, <1>8 DEF Ahead, n
<1>9. ASSUME NEW a, Has(s, a) PROVE Ahead(e, a, x)
  BY <1>1, <1>4, <1>5, <1>9 DEF Ahead, Has, n
<1>10. ASSUME NEW a, NEW b, Ahead(e, a, b), b # x PROVE Ahead(s, a, b)
  <2>1. PICK i, j \in 1..(n + 1) : i < j /\ e[i] = a /\ e[j] = b
    BY <1>1, <1>10 DEF Ahead
  <2>2. j \in 1..n /\ i \in 1..n
    <3>1. j \in 1..n
      BY <1>1, <1>3, <1>10, <2>1
    <3> QED BY <1>1, <2>1, <3>1
  <2> QED BY <1>1, <2>1, <2>2 DEF Ahead, n
<1> QED BY <1>1, <1>2, <1>6, <1>7, <1>8, <1>9, <1>10

LEMMA AtTheFront ==
  ASSUME NEW S, NEW s \in Seq(S), NEW x \in S
  PROVE  /\ <<x>> \o s \in Seq(S)
         /\ \A y : Has(<<x>> \o s, y) <=> Has(s, y) \/ y = x
         /\ Distinct(s) /\ ~Has(s, x) => Distinct(<<x>> \o s)
<1> PICK n : n = Len(s)
  OBVIOUS
<1> PICK e : e = <<x>> \o s
  OBVIOUS
<1>1. /\ e \in Seq(S) /\ Len(e) = n + 1 /\ e[1] = x /\ n \in Nat
      /\ \A i \in 2..(n + 1) : e[i] = s[i - 1]
  <2>1. <<x>> \in Seq(S) /\ Len(<<x>>) = 1 /\ <<x>>[1] = x /\ n \in Nat
    BY LenProperties
  <2>2. /\ e \in Seq(S) /\ Len(e) = Len(<<x>>) + n
        /\ \A i \in 1..(Len(<<x>>) + n) : e[i] = IF i <= Len(<<x>>) THEN <<x>>[i] ELSE s[i - Len(<<x>>)]
    BY <2>1, ConcatProperties
  <2>3. \A i \in 1..(n + 1) : e[i] = IF i <= 1 THEN <<x>>[i] ELSE s[i - 1]
    BY <2>1, <2>2
  <2> QED BY <2>1, <2>2, <2>3
<1>2. \A i \in 1..(n + 1) : i = 1 \/ (i \in 2..(n + 1) /\ i - 1 \in 1..n)
  BY <1>1
<1>3. \A i \in 1..n : i + 1 \in 2..(n + 1) /\ i + 1 \in 1..(n + 1) /\ (i + 1) - 1 = i
  BY <1>1
<1>4. ASSUME NEW y PROVE Has(e, y) <=> Has(s, y) \/ y = x
  <2>1. ASSUME Has(e, y) PROVE Has(s, y) \/ y = x
    BY <1>1, <1>2, <2>1 DEF Has
  <2>2. ASSUME Has(s, y) PROVE Has(e, y)
    <3>1. PICK i \in 1..n : s[i] = y
      BY <2>2 DEF Has
    <3>2. e[i + 1] = y /\ i + 1 \in 1..Len(e)
      BY <1>1, <1>3, <3>1
    <3> QED BY <3>2 DEF Has
  <2>3. Has(e, x)
    <3>1. 1 \in 1..Len(e)
      BY <1>1
    <3> QED BY <1>1, <3>1 DEF Has
  <2> QED BY <2>1, <2>2, <2>3
<1>5. ASSUME Distinct(s), ~Has(s, x) PROVE Distinct(e)
  <2> SUFFICES ASSUME NEW i \in 1..(n + 1), NEW j \in 1..(n + 1), e[i] = e[j] PROVE i = j
    BY <1>1 DEF Distinct
  <2>1. CASE i # 1 /\ j # 1
    <3>1. i - 1 \in 1..n /\ j - 1 \in 1..n /\ s[i - 1] = s[j - 1]
      BY <1>1, <1>2, <2>1
    <3>2. i - 1 = j - 1
      BY <1>5, <3>1 DEF Distinct
    <3> QED BY <3>2
  <2>2. CASE i = 1 /\ j # 1
    BY <1>1, <1>2, <1>5, <2>2 DEF Has
  <2>3. CASE j = 1 /\ i # 1
    BY <1>1, <1>2, <1>5, <2>3 DEF Has
  <2> QED BY <2>1, <2>2, <2>3
<1> QED BY <1>1, <1>4, <1>5

LEMMA WithoutHead ==
  ASSUME NEW S, NEW s \in Seq(S), s # <<>>, Distinct(s)
  PROVE  /\ Head(s) \in S /\ Tail(s) \in Seq(S) /\ Has(s, Head(s)) /\ Distinct(Tail(s))
         /\ \A y : Has(Tail(s), y) <=> Has(s, y) /\ y # Head(s)
         /\ \A a, b : Ahead(s, a, b) /\ a # Head(s) => Ahead(Tail(s), a, b)
         /\ \A a : ~Ahead(s, a, Head(s))
<1> PICK n : n = Len(s)
  OBVIOUS
<1> PICK h : h = Head(s)
  OBVIOUS
<1> PICK e : e = Tail(s)
  OBVIOUS
<1>1. /\ e \in Seq(S) /\ n \in Nat /\ n # 0 /\ Len(e) = n - 1 /\ h = s[1] /\ h \in S
      /\ \A i \in 1..(n - 1) : e[i] = s[i + 1]
  BY HeadTailProperties, EmptySeq, LenProperties
<1>2. 1 \in 1..n /\ \A i \in 1..n : i # 1 => i - 1 \in 1..(n - 1) /\ (i - 1) + 1 = i
  BY <1>1
<1>3. \A i \in 1..(n - 1) : i + 1 \in 1..n /\ i + 1 # 1
  BY <1>1
<1>4. \A i \in 1..n : i # 1 => s[i] # h
  BY <1>1, <1>2 DEF Distinct
<1>5. ASSUME NEW y PROVE Has(e, y) <=> Has(s, y) /\ y # h
  <2>1. ASSUME Has(e, y) PROVE Has(s, y) /\ y # h
    BY <1>1, <1>3, <1>4, <2>1 DEF Has
  <2>2. ASSUME Has(s, y), y # h PROVE Has(e, y)
    <3>1. PICK i \in 1..n : s[i] = y
      BY <2>2 DEF Has
    <3>2. i - 1 \in 1..(n - 1) /\ e[i - 1] = y
      BY <1>1, <1>2, <2>2, <3>1
    <3> QED BY <1>1, <3>2 DEF Has
  <2> QED BY <2>1, <2>2
<1>6. Distinct(e)
  <2> SUFFICES ASSUME NEW i \in 1..(n - 1), NEW j \in 1..(n - 1), e[i] = e[j] PROVE i = j
    BY <1>1 DEF Distinct
  <2>1. i + 1 = j + 1
    BY <1>1, <1>3 DEF Distinct
  <2> QED BY <2>1
<1>7. ASSUME NEW a, NEW b, Ahead(s, a, b), a # h PROVE Ahead(e, a, b)
  <2>1. PICK i, j \in 1..n : i < j /\ s[i] = a /\ s[j] = b
    BY <1>7 DEF Ahead
  <2>2. i # 1 /\ j # 1
    BY <1>1, <1>7, <2>1
  <2>3. i - 1 \in 1..(n - 1) /\ j - 1 \in 1..(n - 1) /\ e[i - 1] = a /\ e[j - 1] = b
    BY <1>1, <1>2, <2>1, <2>2
  <2>4. i - 1 < j - 1
    BY <2>1
  <2> QED BY <1>1, <2>3, <2>4 DEF Ahead
<1>8. ASSUME NEW a, Ahead(s, a, h) PROVE FALSE
  <2>1. PICK i, j \in 1..n : i < j /\ s[i] = a /\ s[j] = h
    BY <1>8 DEF Ahead
  <2>2. j # 1
    BY <2>1
  <2> QED BY <1>4, <2>1, <2>2
<1>9. Has(s, h)
  BY <1>1, <1>2 DEF Has
<1> QED BY <1>1, <1>5, <1>6, <1>7, <1>8, <1>9

-----------------------------------------------------------------------------
(* The tasks on their way, and the order of a session's.                   *)

OnBus(t)   == Has(busTasks, t)
InQueue(t) == Has(queues[GroupKey[t]], t)
Placed(t)  == OnBus(t) \/ streamItem = t \/ fillItem = t \/ InQueue(t) \/ InDispatch(t)

\* A goroutine has a task exactly at the steps that use one.
StepsHold ==
  /\ streamItem # None <=> streamPC = "offer"
  /\ fillItem # None <=> fillPC \in {"enqueue", "full"}
  /\ \A w \in Workers : item[w] # None <=> pc[w] \in {"notifySpace", "dispatch"}

OnePlace(t) ==
  /\ OnBus(t) => streamItem # t /\ fillItem # t /\ ~InQueue(t) /\ ~InDispatch(t)
  /\ streamItem = t => fillItem # t /\ ~InQueue(t) /\ ~InDispatch(t)
  /\ fillItem = t => ~InQueue(t) /\ ~InDispatch(t)
  /\ InQueue(t) => ~InDispatch(t)

Unfinished == submitted \ finished

PlaceInv ==
  /\ Distinct(busTasks)
  /\ \A g \in Groups : Distinct(queues[g]) /\ \A t \in Tasks : Has(queues[g], t) => GroupKey[t] = g
  /\ \A v, w \in Workers : item[v] = item[w] /\ item[v] # None => v = w
  /\ \A t \in Tasks : /\ OnePlace(t) /\ (Placed(t) => t \in Unfinished)
                      /\ t \in Unfinished => Placed(t) \/ (closed /\ streamPC = "exit")
  /\ \A t, u \in Unfinished : Placed(t) \/ Placed(u) \/ t = u

\* Task a of a session is further on its way than b.  What shutdown leaves on
\* the bus, or puts back there, does not move any more.
Further(a, b) ==
  /\ InDispatch(b) => InDispatch(a)
  /\ InQueue(b) => InDispatch(a) \/ Ahead(queues[GroupKey[b]], a, b)
  /\ fillPC \notin {"nackNotify", "exit"} =>
       /\ fillItem = b => InDispatch(a) \/ InQueue(a)
       /\ streamItem = b => InDispatch(a) \/ InQueue(a) \/ fillItem = a
       /\ streamPC # "exit" /\ OnBus(b) =>
            InDispatch(a) \/ InQueue(a) \/ fillItem = a \/ streamItem = a \/ Ahead(busTasks, a, b)

OrderInv ==
  /\ precedes \subseteq Unfinished \X Unfinished
  /\ faults = 0 => \A a, b \in Tasks :
       <<a, b>> \in precedes /\ GroupKey[a] = GroupKey[b] => Further(a, b)

FlowInv == StepsHold /\ PlaceInv /\ OrderInv

LEMMA UnfinishedAreTasks == TypeInv => Unfinished \subseteq Tasks
  BY DEF TypeInv, TypeOK, Unfinished

LEMMA InitFlowInv == Init => FlowInv
<1> SUFFICES ASSUME Init PROVE FlowInv
  OBVIOUS
<1>1. \A t \in Tasks : ~OnBus(t) /\ ~InQueue(t) /\ ~InDispatch(t) /\ streamItem # t /\ fillItem # t
  BY SchedulerAssumption DEF Init, OnBus, InQueue, InDispatch, Has
<1>2. StepsHold
  BY DEF Init, StepsHold
<1>3. PlaceInv
  BY <1>1 DEF Init, PlaceInv, Distinct, Has, OnePlace, Placed, Unfinished
<1>4. OrderInv
  BY DEF Init, OrderInv
<1> QED BY <1>2, <1>3, <1>4 DEF FlowInv

\* Steps that move no task.
LEMMA FlowFrame ==
  ASSUME TypeInv, FlowInv, StepsHold',
         UNCHANGED <<submitted, finished, precedes, busTasks, streamItem, fillItem, queues, item, faults>>,
         closed => closed', streamPC' = "exit" <=> streamPC = "exit",
         fillPC \in {"nackNotify", "exit"} => fillPC' \in {"nackNotify", "exit"}
  PROVE  FlowInv'
<1>1. /\ Unfinished' = Unfinished
      /\ \A t \in Tasks : /\ OnBus(t)' <=> OnBus(t)
                          /\ InQueue(t)' <=> InQueue(t)
                          /\ InDispatch(t)' <=> InDispatch(t)
  BY DEF Unfinished, OnBus, InQueue, InDispatch
<1>2. \A t \in Tasks : (OnePlace(t)' <=> OnePlace(t)) /\ (Placed(t)' <=> Placed(t))
  BY <1>1 DEF OnePlace, Placed
<1>3. PlaceInv'
  BY <1>1, <1>2, UnfinishedAreTasks DEF FlowInv, PlaceInv
<1>4. \A a, b \in Tasks : Further(a, b) => Further(a, b)'
  BY <1>1 DEF Further
<1>5. OrderInv'
  BY <1>1, <1>4 DEF FlowInv, OrderInv
<1> QED BY <1>3, <1>5 DEF FlowInv

LEMMA FlowStill ==
  ASSUME TypeInv, FlowInv,
         \/ \E t \in Tasks : SubmitSignal(t)
         \/ StreamEmpty \/ StreamRecheck \/ StreamPark \/ StreamWake
         \/ FillFull \/ FillNotify \/ FillSpace \/ FillNackNotify \/ FillExit
         \/ \E w \in Workers : \/ WorkerPark(w) \/ WorkerWake(w) \/ WorkerExit(w) \/ WorkerNotifySpace(w)
                               \/ WorkerNackNotify(w) \/ WorkerDone(w) \/ WorkerNotifyWake(w)
         \/ Tick \/ Close \/ UNCHANGED vars
  PROVE  FlowInv'
<1> USE DEF bus, stream, fill, scheduler, pool
<1>1. CASE \/ \E t \in Tasks : SubmitSignal(t)
           \/ StreamEmpty \/ StreamRecheck \/ StreamPark \/ StreamWake
           \/ Tick \/ Close \/ UNCHANGED vars
  BY <1>1, FlowFrame DEF SubmitSignal, StreamEmpty, StreamRecheck, StreamPark, StreamWake, StreamMove,
       Tick, Close, closed, vars, FlowInv, StepsHold
<1>2. CASE FillFull \/ FillNotify \/ FillSpace \/ FillNackNotify \/ FillExit
  BY <1>2, FlowFrame DEF FillFull, FillNotify, FillSpace, FillNackNotify, FillExit, closed, FlowInv, StepsHold
<1>3. ASSUME NEW w \in Workers,
             \/ WorkerPark(w) \/ WorkerWake(w) \/ WorkerExit(w) \/ WorkerNotifySpace(w)
             \/ WorkerNackNotify(w) \/ WorkerDone(w) \/ WorkerNotifyWake(w)
      PROVE  FlowInv'
  <2>1. /\ UNCHANGED <<submitted, finished, precedes, busTasks, streamItem, fillItem, queues, item, faults>>
        /\ UNCHANGED <<ctx, streamPC, fillPC>>
    BY <1>3 DEF WorkerPark, WorkerWake, WorkerExit, WorkerNotifySpace, WorkerNackNotify, WorkerDone,
         WorkerNotifyWake
  <2>2. /\ pc \in [Workers -> WorkerSteps]
        /\ \E s \in {"wait", "next", "exit", "dispatch", "done", "notifyWake"} :
             /\ pc' = [pc EXCEPT ![w] = s]
             /\ pc[w] \in {"notifySpace", "dispatch"} <=> s \in {"notifySpace", "dispatch"}
    BY <1>3 DEF TypeInv, TypeOK, WorkerPark, WorkerWake, WorkerExit, WorkerNotifySpace, WorkerNackNotify,
         WorkerDone, WorkerNotifyWake
  <2>3. \A v \in Workers : pc'[v] \in {"notifySpace", "dispatch"} <=> pc[v] \in {"notifySpace", "dispatch"}
    BY <2>2
  <2>4. StepsHold'
    BY <2>1, <2>3 DEF FlowInv, StepsHold
  <2> QED BY <2>1, <2>4, FlowFrame DEF closed
<1> QED BY <1>1, <1>2, <1>3

\* A submitted task joins the bus behind every unfinished one.
LEMMA FlowSubmit ==
  ASSUME TypeInv, FlowInv, NEW t \in Tasks, Submit(t)
  PROVE  FlowInv'
<1>1. /\ busTasks \in Seq(Tasks) /\ busTasks' = Append(busTasks, t) /\ t \notin Unfinished
      /\ Unfinished' = Unfinished \cup {t}
      /\ precedes' = precedes \cup {<<u, t>> : u \in Unfinished}
      /\ UNCHANGED <<streamPC, streamItem, fillPC, fillItem, queues, pc, item, faults, ctx>>
  BY DEF Submit, CanSubmit, Unfinished, TypeInv, TypeOK, stream, fill, scheduler, pool
<1>2. ~Placed(t) /\ \A u \in Tasks : OnePlace(u)
  BY <1>1 DEF FlowInv, PlaceInv
<1>3. ~OnBus(t) /\ streamItem # t /\ fillItem # t /\ ~InQueue(t) /\ ~InDispatch(t)
  BY <1>2 DEF Placed
<1>4. /\ \A u : OnBus(u)' <=> OnBus(u) \/ u = t
      /\ Distinct(busTasks)'
      /\ \A a, b : Ahead(busTasks, a, b) => Ahead(busTasks', a, b)
      /\ \A a : OnBus(a) => Ahead(busTasks', a, t)
  <2>1. Distinct(busTasks)
    BY DEF FlowInv, PlaceInv
  <2> QED BY <1>1, <1>3, <2>1, AtTheEnd DEF OnBus
<1>5. \A u \in Tasks : (InQueue(u)' <=> InQueue(u)) /\ (InDispatch(u)' <=> InDispatch(u))
  BY <1>1 DEF InQueue, InDispatch
<1>6. StepsHold'
  BY <1>1 DEF FlowInv, StepsHold
<1>7. PlaceInv'
  <2>1. ASSUME NEW u \in Tasks
        PROVE  /\ OnePlace(u)' /\ (Placed(u)' => u \in Unfinished')
               /\ u \in Unfinished' => Placed(u)' \/ (closed' /\ streamPC' = "exit")
    <3>1. /\ OnePlace(u) /\ (Placed(u) => u \in Unfinished)
          /\ u \in Unfinished => Placed(u) \/ (closed /\ streamPC = "exit")
      BY DEF FlowInv, PlaceInv
    <3>2. Placed(u)' <=> Placed(u) \/ u = t
      BY <1>1, <1>4, <1>5 DEF Placed
    <3>3. OnePlace(u)'
      BY <1>1, <1>3, <1>4, <1>5, <3>1 DEF OnePlace
    <3> QED BY <1>1, <3>1, <3>2, <3>3 DEF closed
  <2>2. \A u \in Tasks : Placed(u)' <=> Placed(u) \/ u = t
    BY <1>1, <1>4, <1>5 DEF Placed
  <2>3. \A u, v \in Unfinished' : Placed(u)' \/ Placed(v)' \/ u = v
    BY <1>1, <2>2 DEF FlowInv, PlaceInv, TypeInv, TypeOK, Unfinished
  <2> QED BY <1>1, <1>4, <2>1, <2>3 DEF FlowInv, PlaceInv
<1>8. OrderInv'
  <2>1. precedes' \subseteq Unfinished' \X Unfinished'
    BY <1>1 DEF FlowInv, OrderInv
  <2>2. ASSUME faults = 0, NEW a \in Tasks, NEW b \in Tasks, <<a, b>> \in precedes', GroupKey[a] = GroupKey[b]
        PROVE  Further(a, b)'
    <3>1. CASE <<a, b>> \in precedes
      <4>1. b # t /\ Further(a, b)
        BY <1>1, <2>2, <3>1 DEF FlowInv, OrderInv
      <4> QED BY <1>1, <1>4, <1>5, <4>1 DEF Further
    <3>2. CASE b = t /\ a \in Unfinished
      <4>1. Placed(a) \/ (closed /\ streamPC = "exit")
        BY <3>2 DEF FlowInv, PlaceInv
      <4> QED BY <1>1, <1>3, <1>4, <1>5, <3>2, <4>1 DEF Further, Placed
    <3> QED BY <1>1, <2>2, <3>1, <3>2
  <2> QED BY <1>1, <2>1, <2>2 DEF OrderInv
<1> QED BY <1>6, <1>7, <1>8 DEF FlowInv

LEMMA FlowTake ==
  ASSUME TypeInv, FlowInv, StreamTake
  PROVE  FlowInv'
<1> PICK h : h = Head(busTasks)
  OBVIOUS
<1>1. /\ busTasks \in Seq(Tasks) /\ busTasks # <<>> /\ busTasks' = Tail(busTasks) /\ streamItem' = h
      /\ streamPC' = "offer" /\ streamItem = None /\ streamPC = "poll"
      /\ UNCHANGED <<submitted, finished, precedes, fillPC, fillItem, queues, pc, item, faults, ctx>>
  BY DEF StreamTake, TypeInv, TypeOK, FlowInv, StepsHold, fill, scheduler, pool
<1>2. /\ h \in Tasks /\ OnBus(h) /\ Distinct(busTasks)' /\ Unfinished' = Unfinished /\ None \notin Tasks
      /\ \A u : OnBus(u)' <=> OnBus(u) /\ u # h
      /\ \A a, b : Ahead(busTasks, a, b) /\ a # h => Ahead(busTasks', a, b)
      /\ \A a : ~Ahead(busTasks, a, h)
  <2>1. Distinct(busTasks)
    BY DEF FlowInv, PlaceInv
  <2> QED BY <1>1, <2>1, WithoutHead, SchedulerAssumption DEF OnBus, Unfinished
<1>3. \A u \in Tasks : (InQueue(u)' <=> InQueue(u)) /\ (InDispatch(u)' <=> InDispatch(u))
  BY <1>1 DEF InQueue, InDispatch
<1>4. StepsHold'
  BY <1>1, <1>2 DEF FlowInv, StepsHold
<1>5. PlaceInv'
  <2>1. ASSUME NEW u \in Tasks
        PROVE  /\ OnePlace(u)' /\ (Placed(u)' => u \in Unfinished')
               /\ u \in Unfinished' => Placed(u)' \/ (closed' /\ streamPC' = "exit")
    <3>1. /\ OnePlace(u) /\ (Placed(u) => u \in Unfinished)
          /\ u \in Unfinished => Placed(u) \/ (closed /\ streamPC = "exit")
      BY DEF FlowInv, PlaceInv
    <3>2. Placed(u)' <=> Placed(u)
      BY <1>1, <1>2, <1>3 DEF Placed
    <3>3. OnePlace(u)'
      BY <1>1, <1>2, <1>3, <3>1 DEF OnePlace
    <3> QED BY <1>1, <1>2, <3>1, <3>2, <3>3 DEF closed
  <2>2. \A u \in Tasks : Placed(u)' <=> Placed(u)
    BY <1>1, <1>2, <1>3 DEF Placed
  <2>3. \A u, v \in Unfinished' : Placed(u)' \/ Placed(v)' \/ u = v
    BY <1>2, <2>2 DEF FlowInv, PlaceInv, TypeInv, TypeOK, Unfinished
  <2> QED BY <1>1, <1>2, <2>1, <2>3 DEF FlowInv, PlaceInv
<1>6. OrderInv'
  <2>1. ASSUME NEW a \in Tasks, NEW b \in Tasks, Further(a, b) PROVE Further(a, b)'
    BY <1>1, <1>2, <1>3, <2>1 DEF Further
  <2> QED BY <1>1, <1>2, <2>1 DEF FlowInv, OrderInv
<1> QED BY <1>4, <1>5, <1>6 DEF FlowInv

\* The stream goes away with what it was offering.
LEMMA FlowStreamExit ==
  ASSUME TypeInv, FlowInv, StreamExit
  PROVE  FlowInv'
<1>1. /\ closed /\ streamPC' = "exit" /\ streamItem' = None /\ None \notin Tasks
      /\ UNCHANGED <<submitted, finished, precedes, busTasks, fillPC, fillItem, queues, pc, item, faults, ctx>>
  BY SchedulerAssumption DEF StreamExit, bus, fill, scheduler, pool
<1>2. \A u \in Tasks : /\ InQueue(u)' <=> InQueue(u)
                       /\ InDispatch(u)' <=> InDispatch(u)
                       /\ OnBus(u)' <=> OnBus(u)
  BY <1>1 DEF InQueue, InDispatch, OnBus
<1>3. Unfinished' = Unfinished /\ closed'
  BY <1>1 DEF Unfinished, closed
<1>4. StepsHold'
  BY <1>1 DEF FlowInv, StepsHold
<1>5. PlaceInv'
  <2>1. \A u \in Tasks : (OnePlace(u) => OnePlace(u)') /\ (Placed(u)' => Placed(u))
    BY <1>1, <1>2 DEF OnePlace, Placed
  <2>2. \A u, v \in Unfinished' : Placed(u)' \/ Placed(v)' \/ u = v
    <3> SUFFICES ASSUME NEW u \in Unfinished, NEW v \in Unfinished PROVE Placed(u)' \/ Placed(v)' \/ u = v
      BY <1>3
    <3>1. u \in Tasks /\ v \in Tasks /\ streamPC # "exit"
      BY DEF TypeInv, TypeOK, Unfinished, StreamExit
    <3>2. Placed(u) /\ Placed(v)
      BY <3>1 DEF FlowInv, PlaceInv
    <3>3. \A x \in {u, v} : Placed(x)' \/ x = streamItem
      BY <1>1, <1>2, <3>1, <3>2 DEF Placed
    <3> QED BY <3>3
  <2> QED BY <1>1, <1>3, <2>1, <2>2 DEF FlowInv, PlaceInv
<1>6. OrderInv'
  <2>1. \A a, b \in Tasks : Further(a, b) => Further(a, b)'
    BY <1>1, <1>2 DEF Further
  <2> QED BY <1>1, <1>3, <2>1 DEF FlowInv, OrderInv
<1> QED BY <1>4, <1>5, <1>6 DEF FlowInv

LEMMA FlowReceive ==
  ASSUME TypeInv, FlowInv, FillReceive
  PROVE  FlowInv'
<1>1. /\ fillPC = "receive" /\ streamPC = "offer" /\ fillItem' = streamItem /\ streamItem' = None
      /\ streamPC' = "poll" /\ fillPC' = "enqueue" /\ fillItem = None /\ streamItem # None /\ None \notin Tasks
      /\ UNCHANGED <<submitted, finished, precedes, busTasks, queues, pc, item, faults, ctx>>
  BY SchedulerAssumption DEF FillReceive, bus, scheduler, pool, FlowInv, StepsHold
<1>2. \A u \in Tasks : /\ InQueue(u)' <=> InQueue(u)
                       /\ InDispatch(u)' <=> InDispatch(u)
                       /\ OnBus(u)' <=> OnBus(u)
  BY <1>1 DEF InQueue, InDispatch, OnBus
<1>3. Unfinished' = Unfinished
  BY <1>1 DEF Unfinished
<1>4. StepsHold'
  BY <1>1 DEF FlowInv, StepsHold
<1>5. PlaceInv'
  <2>1. \A u \in Tasks : (OnePlace(u) => OnePlace(u)') /\ (Placed(u)' <=> Placed(u))
    BY <1>1, <1>2 DEF OnePlace, Placed
  <2> QED BY <1>1, <1>3, <2>1, UnfinishedAreTasks DEF FlowInv, PlaceInv, closed
<1>6. OrderInv'
  <2>1. \A a, b \in Tasks : Further(a, b) => Further(a, b)'
    BY <1>1, <1>2 DEF Further
  <2> QED BY <1>1, <1>3, <2>1 DEF FlowInv, OrderInv
<1> QED BY <1>4, <1>5, <1>6 DEF FlowInv

LEMMA FlowEnqueue ==
  ASSUME TypeInv, FlowInv, FillEnqueue
  PROVE  FlowInv'
<1> PICK f : f = fillItem
  OBVIOUS
<1> PICK g : g = GroupKey[f]
  OBVIOUS
<1>1. /\ fillPC = "enqueue" /\ fillPC' = "notify" /\ fillItem' = None /\ f \in Tasks /\ g \in Groups
      /\ None \notin Tasks /\ queues \in [Groups -> Seq(Tasks)] /\ queues[g] \in Seq(Tasks)
      /\ queues' = [queues EXCEPT ![g] = Append(queues[g], f)]
      /\ UNCHANGED <<submitted, finished, precedes, busTasks, streamPC, streamItem, pc, item, faults, ctx>>
  BY SchedulerAssumption DEF FillEnqueue, bus, stream, pool, TypeInv, TypeOK, Handover
<1>2. queues'[g] = Append(queues[g], f) /\ \A k \in Groups \ {g} : queues'[k] = queues[k]
  BY <1>1
<1>3. ~InQueue(f) /\ ~InDispatch(f) /\ ~OnBus(f) /\ streamItem # f
  BY <1>1 DEF FlowInv, PlaceInv, OnePlace
<1>4. /\ \A u : Has(queues'[g], u) <=> Has(queues[g], u) \/ u = f
      /\ Distinct(queues'[g])
      /\ \A a, b : Ahead(queues[g], a, b) => Ahead(queues'[g], a, b)
      /\ \A a : Has(queues[g], a) => Ahead(queues'[g], a, f)
  <2>1. Distinct(queues[g]) /\ ~Has(queues[g], f)
    BY <1>1, <1>3 DEF FlowInv, PlaceInv, InQueue
  <2> QED BY <1>1, <1>2, <2>1, AtTheEnd
<1>5. \A u \in Tasks : /\ InQueue(u)' <=> InQueue(u) \/ u = f
                       /\ InDispatch(u)' <=> InDispatch(u)
                       /\ OnBus(u)' <=> OnBus(u)
  <2>1. \A u \in Tasks : GroupKey[u] \in Groups
    BY SchedulerAssumption
  <2> QED BY <1>1, <1>2, <1>4, <2>1 DEF InQueue, InDispatch, OnBus
<1>6. Unfinished' = Unfinished
  BY <1>1 DEF Unfinished
<1>7. StepsHold'
  BY <1>1 DEF FlowInv, StepsHold
<1>8. PlaceInv'
  <2>1. \A u \in Tasks : (OnePlace(u) => OnePlace(u)') /\ (Placed(u)' <=> Placed(u))
    BY <1>1, <1>3, <1>5 DEF OnePlace, Placed
  <2>2. ASSUME NEW k \in Groups
        PROVE  Distinct(queues'[k]) /\ \A u \in Tasks : Has(queues'[k], u) => GroupKey[u] = k
    BY <1>2, <1>4 DEF FlowInv, PlaceInv
  <2> QED BY <1>1, <1>6, <2>1, <2>2, UnfinishedAreTasks DEF FlowInv, PlaceInv, closed
<1>9. OrderInv'
  <2>1. ASSUME NEW a \in Tasks, NEW b \in Tasks, GroupKey[a] = GroupKey[b], Further(a, b)
        PROVE  Further(a, b)'
    <3>1. GroupKey[b] \in Groups
      BY SchedulerAssumption
    <3>2. InQueue(b)' => InDispatch(a)' \/ Ahead(queues'[GroupKey[b]], a, b)
      <4>1. CASE b = f
        <5>1. InDispatch(a) \/ InQueue(a)
          BY <1>1, <2>1, <4>1 DEF Further
        <5> QED BY <1>4, <1>5, <2>1, <4>1, <5>1 DEF InQueue
      <4>2. CASE b # f
        BY <1>2, <1>4, <1>5, <2>1, <3>1, <4>2 DEF Further
      <4> QED BY <4>1, <4>2
    <3> QED BY <1>1, <1>5, <2>1, <3>2 DEF Further
  <2> QED BY <1>1, <1>6, <2>1 DEF FlowInv, OrderInv
<1> QED BY <1>7, <1>8, <1>9 DEF FlowInv

\* The filler gives its task back and takes no other.
LEMMA FlowFillNack ==
  ASSUME TypeInv, FlowInv, FillNack
  PROVE  FlowInv'
<1> PICK f : f = fillItem
  OBVIOUS
<1>1. /\ fillPC = "full" /\ fillPC' = "nackNotify" /\ fillItem' = None /\ f \in Tasks /\ None \notin Tasks
      /\ busTasks \in Seq(Tasks) /\ busTasks' = <<f>> \o busTasks
      /\ UNCHANGED <<submitted, finished, precedes, queues, streamPC, streamItem, pc, item, faults, ctx>>
  BY SchedulerAssumption DEF FillNack, stream, scheduler, pool, TypeInv, TypeOK, Handover
<1>2. ~InQueue(f) /\ ~InDispatch(f) /\ ~OnBus(f) /\ streamItem # f
  BY <1>1 DEF FlowInv, PlaceInv, OnePlace
<1>3. Distinct(busTasks') /\ \A u : OnBus(u)' <=> OnBus(u) \/ u = f
  <2>1. Distinct(busTasks)
    BY DEF FlowInv, PlaceInv
  <2> QED BY <1>1, <1>2, <2>1, AtTheFront DEF OnBus
<1>4. \A u \in Tasks : (InQueue(u)' <=> InQueue(u)) /\ (InDispatch(u)' <=> InDispatch(u))
  BY <1>1 DEF InQueue, InDispatch
<1>5. Unfinished' = Unfinished
  BY <1>1 DEF Unfinished
<1>6. StepsHold'
  BY <1>1 DEF FlowInv, StepsHold
<1>7. PlaceInv'
  <2>1. \A u \in Tasks : (OnePlace(u) => OnePlace(u)') /\ (Placed(u)' <=> Placed(u))
    BY <1>1, <1>2, <1>3, <1>4 DEF OnePlace, Placed
  <2> QED BY <1>1, <1>3, <1>5, <2>1, UnfinishedAreTasks DEF FlowInv, PlaceInv, closed
<1>8. OrderInv'
  <2>1. \A a, b \in Tasks : Further(a, b) => Further(a, b)'
    BY <1>1, <1>4 DEF Further
  <2> QED BY <1>1, <1>5, <2>1 DEF FlowInv, OrderInv
<1> QED BY <1>6, <1>7, <1>8 DEF FlowInv

\* A worker takes the head of a queue: those ahead of it are in dispatch.
LEMMA FlowPop ==
  ASSUME TypeInv, FlowInv, NEW w \in Workers, WorkerPop(w)
  PROVE  FlowInv'
<1>1. PICK i \in 1..Len(order) :
        /\ IsBest(i) /\ PopNextLocked(i)
        /\ item' = [item EXCEPT ![w] = Head(queues[order[i]])]
  BY DEF WorkerPop
<1> PICK g : g = order[i]
  OBVIOUS
<1> PICK h : h = Head(queues[g])
  OBVIOUS
<1>2. /\ g \in Groups /\ queues \in [Groups -> Seq(Tasks)] /\ queues[g] \in Seq(Tasks) /\ queues[g] # <<>>
      /\ queues' = [queues EXCEPT ![g] = Tail(queues[g])] /\ item' = [item EXCEPT ![w] = h]
      /\ item \in [Workers -> Tasks \cup {None}] /\ pc \in [Workers -> WorkerSteps] /\ None \notin Tasks
      /\ pc[w] = "next" /\ pc' = [pc EXCEPT ![w] = "notifySpace"] /\ item[w] = None
      /\ UNCHANGED <<submitted, finished, precedes, busTasks, streamPC, streamItem, fillPC, fillItem, faults, ctx>>
  <2>1. /\ g \in Groups /\ queues \in [Groups -> Seq(Tasks)] /\ queues[g] \in Seq(Tasks)
        /\ item \in [Workers -> Tasks \cup {None}] /\ pc \in [Workers -> WorkerSteps] /\ None \notin Tasks
    <3>1. order \in Seq(Groups) /\ queues \in [Groups -> Seq(Tasks)]
      BY DEF TypeInv, TypeOK
    <3>2. g \in Groups
      BY <3>1, LenProperties
    <3> QED BY <3>1, <3>2, SchedulerAssumption DEF TypeInv, TypeOK
  <2>2. queues[g] # <<>>
    BY <1>1 DEF IsBest, Eligible
  <2>3. queues' = [queues EXCEPT ![g] = Tail(queues[g])] /\ item' = [item EXCEPT ![w] = h]
    BY <1>1 DEF PopNextLocked
  <2>4. /\ pc[w] = "next" /\ pc' = [pc EXCEPT ![w] = "notifySpace"]
        /\ UNCHANGED <<submitted, finished, precedes, busTasks, streamPC, streamItem, fillPC, fillItem, faults, ctx>>
    BY DEF WorkerPop, bus, stream, fill
  <2>5. item[w] = None
    BY <2>4 DEF FlowInv, StepsHold
  <2> QED BY <2>1, <2>2, <2>3, <2>4, <2>5
<1>3. queues'[g] = Tail(queues[g]) /\ \A k \in Groups \ {g} : queues'[k] = queues[k]
  BY <1>2
<1>4. /\ h \in Tasks /\ Has(queues[g], h) /\ Distinct(queues'[g])
      /\ \A u : Has(queues'[g], u) <=> Has(queues[g], u) /\ u # h
      /\ \A a, b : Ahead(queues[g], a, b) /\ a # h => Ahead(queues'[g], a, b)
      /\ \A a : ~Ahead(queues[g], a, h)
  <2>1. Distinct(queues[g])
    BY <1>2 DEF FlowInv, PlaceInv
  <2> QED BY <1>2, <1>3, <2>1, WithoutHead
<1>5. GroupKey[h] = g /\ InQueue(h) /\ \A u \in Tasks : GroupKey[u] \in Groups
  BY <1>2, <1>4, SchedulerAssumption DEF FlowInv, PlaceInv, InQueue
<1>6. ~InDispatch(h) /\ ~OnBus(h) /\ streamItem # h /\ fillItem # h
  BY <1>4, <1>5 DEF FlowInv, PlaceInv, OnePlace
<1>7. item'[w] = h /\ pc'[w] = "notifySpace" /\ \A v \in Workers \ {w} : item'[v] = item[v] /\ pc'[v] = pc[v]
  BY <1>2
<1>8. \A u \in Tasks : /\ InQueue(u)' <=> InQueue(u) /\ u # h
                       /\ InDispatch(u)' <=> InDispatch(u) \/ u = h
                       /\ OnBus(u)' <=> OnBus(u)
  <2>1. \A u \in Tasks : InQueue(u)' <=> InQueue(u) /\ u # h
    BY <1>3, <1>4, <1>5 DEF InQueue
  <2>2. \A u \in Tasks : InDispatch(u)' <=> InDispatch(u) \/ u = h
    BY <1>2, <1>7 DEF InDispatch
  <2>3. \A u \in Tasks : OnBus(u)' <=> OnBus(u)
    BY <1>2 DEF OnBus
  <2> QED BY <2>1, <2>2, <2>3
<1>9. Unfinished' = Unfinished
  BY <1>2 DEF Unfinished
<1>10. StepsHold'
  BY <1>2, <1>4, <1>7 DEF FlowInv, StepsHold
<1>11. PlaceInv'
  <2>1. \A u \in Tasks : (OnePlace(u) => OnePlace(u)') /\ (Placed(u)' <=> Placed(u))
    BY <1>2, <1>5, <1>6, <1>8 DEF OnePlace, Placed
  <2>2. ASSUME NEW k \in Groups
        PROVE  Distinct(queues'[k]) /\ \A u \in Tasks : Has(queues'[k], u) => GroupKey[u] = k
    BY <1>3, <1>4 DEF FlowInv, PlaceInv
  <2>3. ASSUME NEW v \in Workers, NEW x \in Workers, item'[v] = item'[x], item'[v] # None PROVE v = x
    BY <1>6, <1>7, <2>3 DEF InDispatch, FlowInv, PlaceInv
  <2> QED BY <1>2, <1>9, <2>1, <2>2, <2>3, UnfinishedAreTasks DEF FlowInv, PlaceInv, closed
<1>12. OrderInv'
  <2>1. ASSUME NEW a \in Tasks, NEW b \in Tasks, GroupKey[a] = GroupKey[b], Further(a, b)
        PROVE  Further(a, b)'
    <3>1. InDispatch(b)' => InDispatch(a)'
      <4>1. CASE b = h
        <5>1. InDispatch(a)
          BY <1>4, <1>5, <2>1, <4>1 DEF Further
        <5> QED BY <1>8, <5>1
      <4>2. CASE b # h
        BY <1>8, <2>1, <4>2 DEF Further
      <4> QED BY <4>1, <4>2
    <3>2. InQueue(b)' => InDispatch(a)' \/ Ahead(queues'[GroupKey[b]], a, b)
      <4> SUFFICES ASSUME InQueue(b)', ~InDispatch(a)' PROVE Ahead(queues'[GroupKey[b]], a, b)
        OBVIOUS
      <4>1. a # h /\ Ahead(queues[GroupKey[b]], a, b)
        BY <1>8, <2>1 DEF Further
      <4> QED BY <1>3, <1>4, <1>5, <4>1
    <3>3. InDispatch(a) \/ InQueue(a) => InDispatch(a)' \/ InQueue(a)'
      BY <1>8
    <3> QED BY <1>2, <1>8, <2>1, <3>1, <3>2, <3>3 DEF Further
  <2> QED BY <1>2, <1>9, <2>1 DEF FlowInv, OrderInv
<1> QED BY <1>10, <1>11, <1>12 DEF FlowInv

\* A dispatch that succeeds ends the task; one that fails puts it back.
LEMMA FlowDispatch ==
  ASSUME TypeInv, FlowInv, NEW w \in Workers, WorkerDispatched(w) \/ WorkerNack(w)
  PROVE  FlowInv'
<1> PICK t : t = item[w]
  OBVIOUS
<1>1. /\ t \in Tasks /\ None \notin Tasks /\ item \in [Workers -> Tasks \cup {None}]
      /\ pc \in [Workers -> WorkerSteps] /\ pc[w] = "dispatch" /\ item' = [item EXCEPT ![w] = None]
      /\ UNCHANGED <<submitted, streamPC, streamItem, fillPC, fillItem, queues, ctx>>
  BY SchedulerAssumption DEF WorkerDispatched, WorkerNack, TypeInv, TypeOK, Handover, stream, fill, scheduler
<1>2. item'[w] = None /\ \A v \in Workers \ {w} : item'[v] = item[v] /\ item[v] # t
  <2>1. \A v \in Workers \ {w} : item[v] # t
    BY <1>1 DEF FlowInv, PlaceInv
  <2> QED BY <1>1, <2>1
<1>3. ~InQueue(t) /\ InDispatch(t) /\ ~OnBus(t) /\ streamItem # t /\ fillItem # t
  <2>1. InDispatch(t)
    BY DEF InDispatch
  <2> QED BY <1>1, <2>1 DEF FlowInv, PlaceInv, OnePlace
<1>4. \A u \in Tasks : (InQueue(u)' <=> InQueue(u)) /\ (InDispatch(u)' <=> InDispatch(u) /\ u # t)
  <2>1. \A u \in Tasks : InQueue(u)' <=> InQueue(u)
    BY <1>1 DEF InQueue
  <2>2. \A u \in Tasks : InDispatch(u)' <=> InDispatch(u) /\ u # t
    BY <1>1, <1>2 DEF InDispatch
  <2> QED BY <2>1, <2>2
<1>5. StepsHold'
  <2>1. /\ pc'[w] \in {"done", "nackNotify"}
        /\ \A v \in Workers \ {w} : pc'[v] = pc[v]
    BY <1>1 DEF WorkerDispatched, WorkerNack
  <2> QED BY <1>1, <1>2, <2>1 DEF FlowInv, StepsHold
<1>6. \A v, x \in Workers : item'[v] = item'[x] /\ item'[v] # None => v = x
  BY <1>2 DEF FlowInv, PlaceInv
<1>7. CASE WorkerDispatched(w)
  <2>1. /\ busTasks' = busTasks /\ faults' = faults /\ finished' = finished \cup {t}
        /\ precedes' = {p \in precedes : t \notin {p[1], p[2]}}
    BY <1>7 DEF WorkerDispatched
  <2>2. Unfinished' = Unfinished \ {t} /\ \A u : OnBus(u)' <=> OnBus(u)
    BY <1>1, <2>1 DEF Unfinished, OnBus
  <2>3. PlaceInv'
    <3>1. \A u \in Tasks : (OnePlace(u) => OnePlace(u)') /\ (Placed(u)' <=> Placed(u) /\ u # t)
      BY <1>1, <1>3, <1>4, <2>2 DEF OnePlace, Placed
    <3>2. \A g \in Groups : Distinct(queues'[g]) /\ \A u \in Tasks : Has(queues'[g], u) => GroupKey[u] = g
      BY <1>1 DEF FlowInv, PlaceInv
    <3>3. Distinct(busTasks') /\ (closed' <=> closed)
      BY <1>1, <2>1 DEF FlowInv, PlaceInv, closed
    <3> QED BY <1>1, <1>6, <2>2, <3>1, <3>2, <3>3, UnfinishedAreTasks DEF FlowInv, PlaceInv
  <2>4. OrderInv'
    <3>1. precedes' \subseteq Unfinished' \X Unfinished'
      BY <2>1, <2>2 DEF FlowInv, OrderInv
    <3>2. ASSUME NEW a \in Tasks, NEW b \in Tasks, <<a, b>> \in precedes', Further(a, b) PROVE Further(a, b)'
      <4>1. a # t /\ b # t
        BY <2>1, <3>2
      <4>2. \A u \in {a, b} : (InQueue(u)' <=> InQueue(u)) /\ (InDispatch(u)' <=> InDispatch(u))
        BY <1>4, <4>1
      <4> QED BY <1>1, <2>1, <2>2, <3>2, <4>2 DEF Further
    <3>3. precedes' \subseteq precedes
      BY <2>1
    <3> QED BY <2>1, <3>1, <3>2, <3>3 DEF FlowInv, OrderInv
  <2> QED BY <1>5, <2>3, <2>4 DEF FlowInv
<1>8. CASE WorkerNack(w)
  <2>1. /\ busTasks \in Seq(Tasks) /\ busTasks' = <<t>> \o busTasks /\ faults' # 0
        /\ UNCHANGED <<finished, precedes>>
    BY <1>8 DEF WorkerNack, TypeInv, TypeOK
  <2>2. Distinct(busTasks') /\ \A u : OnBus(u)' <=> OnBus(u) \/ u = t
    <3>1. Distinct(busTasks)
      BY DEF FlowInv, PlaceInv
    <3> QED BY <1>1, <1>3, <2>1, <3>1, AtTheFront DEF OnBus
  <2>3. Unfinished' = Unfinished
    BY <1>1, <2>1 DEF Unfinished
  <2>4. PlaceInv'
    <3>1. \A u \in Tasks : (OnePlace(u) => OnePlace(u)') /\ (Placed(u)' <=> Placed(u))
      BY <1>1, <1>3, <1>4, <2>2 DEF OnePlace, Placed
    <3>2. \A g \in Groups : Distinct(queues'[g]) /\ \A u \in Tasks : Has(queues'[g], u) => GroupKey[u] = g
      BY <1>1 DEF FlowInv, PlaceInv
    <3> QED BY <1>1, <1>6, <2>2, <2>3, <3>1, <3>2, UnfinishedAreTasks DEF FlowInv, PlaceInv, closed
  <2>5. OrderInv'
    BY <2>1, <2>3 DEF FlowInv, OrderInv
  <2> QED BY <1>5, <2>4, <2>5 DEF FlowInv
<1> QED BY <1>7, <1>8

LEMMA NextFlowInv ==
  ASSUME TypeInv, FlowInv, [Next]_vars
  PROVE  FlowInv'
<1>1. ASSUME NEW t \in Tasks, Submit(t) \/ SubmitSignal(t) PROVE FlowInv'
  BY <1>1, FlowSubmit, FlowStill
<1>2. CASE Stream
  BY <1>2, FlowTake, FlowStreamExit, FlowStill DEF Stream
<1>3. CASE Fill
  BY <1>3, FlowReceive, FlowEnqueue, FlowFillNack, FlowStill DEF Fill
<1>4. ASSUME NEW w \in Workers, Worker(w) PROVE FlowInv'
  BY <1>4, FlowPop, FlowDispatch, FlowStill DEF Worker
<1>5. CASE Tick \/ Close \/ UNCHANGED vars
  BY <1>5, FlowStill
<1> QED BY <1>1, <1>2, <1>3, <1>4, <1>5 DEF Next

-----------------------------------------------------------------------------
(* The scheduler's own books.                                              *)

BookInv ==
  /\ IsFiniteSet(Queued) /\ totalPending = Cardinality(Queued) /\ totalPending <= MaxBuffered
  /\ Distinct(order) /\ \A g \in Groups : Has(order, g) <=> queues[g] # <<>>
  /\ cursor = 0 \/ cursor < Len(order)

\* Queued tasks are those some queue has.
LEMMA QueuedIsInQueue ==
  ASSUME TypeOK
  PROVE  Queued = {t \in Tasks : InQueue(t)}
<1>1. ASSUME NEW t \in Tasks PROVE Positions(t) # {} <=> InQueue(t)
  <2>1. queues[GroupKey[t]] \in Seq(Tasks)
    BY SchedulerAssumption DEF TypeOK
  <2>2. DOMAIN queues[GroupKey[t]] = 1..Len(queues[GroupKey[t]])
    BY <2>1, LenProperties
  <2> QED BY <2>2 DEF Positions, InQueue, Has
<1> QED BY <1>1 DEF Queued

\* The same of the state after a step.
LEMMA QueuedIsInQueueAfter ==
  ASSUME TypeOK'
  PROVE  Queued' = {t \in Tasks : InQueue(t)'}
<1>1. ASSUME NEW t \in Tasks PROVE Positions(t)' # {} <=> InQueue(t)'
  <2>1. queues'[GroupKey[t]] \in Seq(Tasks)
    BY SchedulerAssumption DEF TypeOK
  <2>2. DOMAIN queues'[GroupKey[t]] = 1..Len(queues'[GroupKey[t]])
    BY <2>1, LenProperties
  <2> QED BY <2>2 DEF Positions, InQueue, Has
<1> QED BY <1>1 DEF Queued

\* What is left of a sequence without one of its entries.
LEMMA WithoutIndexHas ==
  ASSUME NEW S, NEW s \in Seq(S), NEW i \in 1..Len(s), Distinct(s)
  PROVE  /\ Distinct(WithoutIndex(s, i))
         /\ \A x : Has(WithoutIndex(s, i), x) <=> Has(s, x) /\ x # s[i]
<1> PICK n : n = Len(s)
  OBVIOUS
<1> PICK e : e = WithoutIndex(s, i)
  OBVIOUS
<1>1. n \in Nat /\ i \in Int /\ 1 <= i /\ i <= n /\ \A j \in 1..n : s[j] \in S
  BY LenProperties
<1>2. /\ Len(e) = n - 1
      /\ \A j \in 1..(n - 1) : e[j] = IF j < i THEN s[j] ELSE s[j + 1]
  <2> DEFINE a == SubSeq(s, 1, i - 1)
             b == SubSeq(s, i + 1, n)
  <2>1. a \in Seq(S) /\ Len(a) = i - 1 /\ \A j \in 1..(i - 1) : a[j] = s[j]
    <3>1. \A j \in 1..(i - 1) : s[j] \in S
      BY <1>1
    <3>2. /\ a \in Seq(S) /\ Len(a) = IF 1 <= i - 1 THEN (i - 1) - 1 + 1 ELSE 0
          /\ \A j \in 1..((i - 1) - 1 + 1) : a[j] = s[1 + j - 1]
      BY <1>1, <3>1, SubSeqProperties
    <3> HIDE DEF a
    <3>3. Len(a) = i - 1 /\ (i - 1) - 1 + 1 = i - 1
      BY <1>1, <3>2
    <3>4. \A j \in 1..(i - 1) : 1 + j - 1 = j
      OBVIOUS
    <3> QED BY <3>2, <3>3, <3>4
  <2>2. b \in Seq(S) /\ Len(b) = n - i /\ \A j \in 1..(n - i) : b[j] = s[i + j]
    <3>1. \A j \in (i + 1)..n : s[j] \in S
      BY <1>1
    <3>2. /\ b \in Seq(S) /\ Len(b) = IF i + 1 <= n THEN n - (i + 1) + 1 ELSE 0
          /\ \A j \in 1..(n - (i + 1) + 1) : b[j] = s[(i + 1) + j - 1]
      BY <1>1, <3>1, SubSeqProperties
    <3> HIDE DEF b
    <3>3. Len(b) = n - i /\ n - (i + 1) + 1 = n - i
      BY <1>1, <3>2
    <3>4. \A j \in 1..(n - i) : (i + 1) + j - 1 = i + j
      BY <1>1
    <3> QED BY <3>2, <3>3, <3>4
  <2>3. e = a \o b
    BY DEF WithoutIndex
  <2> HIDE DEF a, b
  <2>4. /\ Len(e) = Len(a) + Len(b)
        /\ \A j \in 1..(Len(a) + Len(b)) : e[j] = IF j <= Len(a) THEN a[j] ELSE b[j - Len(a)]
    <3>1. a \in Seq(S) /\ b \in Seq(S)
      BY <2>1, <2>2
    <3> QED BY <2>3, <3>1, ConcatProperties
  <2>5. Len(a) + Len(b) = n - 1
    BY <1>1, <2>1, <2>2
  <2>6. ASSUME NEW j \in 1..(n - 1) PROVE e[j] = IF j < i THEN s[j] ELSE s[j + 1]
    <3>1. CASE j < i
      <4>1. j \in 1..(i - 1) /\ j <= Len(a)
        BY <1>1, <2>1, <3>1
      <4> QED BY <2>1, <2>4, <2>5, <3>1, <4>1
    <3>2. CASE ~(j < i)
      <4>1. j - (i - 1) \in 1..(n - i) /\ ~(j <= Len(a)) /\ i + (j - (i - 1)) = j + 1 /\ Len(a) = i - 1
        BY <1>1, <2>1, <3>2
      <4>2. e[j] = b[j - (i - 1)]
        BY <2>4, <2>5, <4>1
      <4> QED BY <2>2, <3>2, <4>1, <4>2
    <3> QED BY <3>1, <3>2
  <2> QED BY <2>4, <2>5, <2>6
<1>3. ASSUME NEW j \in 1..(n - 1)
      PROVE  \E k \in 1..n : k # i /\ k = (IF j < i THEN j ELSE j + 1) /\ e[j] = s[k]
  BY <1>1, <1>2
<1>4. Distinct(e)
  <2> SUFFICES ASSUME NEW j \in 1..(n - 1), NEW k \in 1..(n - 1), e[j] = e[k] PROVE j = k
    BY <1>2 DEF Distinct
  <2>1. PICK x \in 1..n : x = (IF j < i THEN j ELSE j + 1) /\ e[j] = s[x]
    BY <1>3
  <2>2. PICK y \in 1..n : y = (IF k < i THEN k ELSE k + 1) /\ e[k] = s[y]
    BY <1>3
  <2>3. x = y
    BY <2>1, <2>2 DEF Distinct
  <2> QED BY <1>1, <2>1, <2>2, <2>3
<1>5. ASSUME NEW x PROVE Has(e, x) <=> Has(s, x) /\ x # s[i]
  <2>1. ASSUME Has(e, x) PROVE Has(s, x) /\ x # s[i]
    <3>1. PICK j \in 1..(n - 1) : e[j] = x
      BY <1>2, <2>1 DEF Has
    <3>2. PICK k \in 1..n : k # i /\ e[j] = s[k]
      BY <1>3
    <3> QED BY <3>1, <3>2 DEF Has, Distinct
  <2>2. ASSUME Has(s, x), x # s[i] PROVE Has(e, x)
    <3>1. PICK k \in 1..n : s[k] = x /\ k # i
      BY <2>2 DEF Has
    <3> DEFINE j == IF k < i THEN k ELSE k - 1
    <3>2. j \in 1..(n - 1) /\ (IF j < i THEN j ELSE j + 1) = k
      BY <1>1, <3>1
    <3> HIDE DEF j
    <3>3. e[j] = s[k]
      BY <1>2, <3>2
    <3> QED BY <1>2, <3>1, <3>2, <3>3 DEF Has
  <2> QED BY <2>1, <2>2
<1> QED BY <1>4, <1>5

LEMMA BookInvImplies ==
  ASSUME TypeOK, BookInv
  PROVE  QueueBookkeeping
<1>1. order \in Seq(Groups) /\ DOMAIN order = 1..Len(order) /\ \A i \in 1..Len(order) : order[i] \in Groups
  BY LenProperties DEF TypeOK
<1>2. {order[i] : i \in DOMAIN order} = {g \in Groups : queues[g] # <<>>}
  BY <1>1 DEF BookInv, Has
<1>3. \A i, j \in DOMAIN order : order[i] = order[j] => i = j
  BY <1>1 DEF BookInv, Distinct
<1> QED BY <1>2, <1>3 DEF BookInv, QueueBookkeeping

LEMMA InitBookInv == Init => BookInv
<1> SUFFICES ASSUME Init PROVE BookInv
  OBVIOUS
<1>1. Queued = {}
  <2>1. \A t \in Tasks : queues[GroupKey[t]] = <<>>
    BY SchedulerAssumption DEF Init
  <2> QED BY <2>1 DEF Queued, Positions
<1>2. Cardinality(Queued) = 0 /\ IsFiniteSet(Queued) /\ MaxBuffered \in Nat
  BY <1>1, FS_EmptySet, SchedulerAssumption
<1>3. order = <<>> /\ cursor = 0 /\ totalPending = 0 /\ \A g \in Groups : queues[g] = <<>>
  BY DEF Init
<1> QED BY <1>2, <1>3 DEF BookInv, Distinct, Has

LEMMA BookEnqueue ==
  ASSUME TypeInv, TypeOK', FlowInv, BookInv, FillEnqueue
  PROVE  BookInv'
<1> PICK f : f = fillItem
  OBVIOUS
<1> PICK g : g = GroupKey[f]
  OBVIOUS
<1>1. /\ f \in Tasks /\ g \in Groups /\ queues \in [Groups -> Seq(Tasks)] /\ queues[g] \in Seq(Tasks)
      /\ queues' = [queues EXCEPT ![g] = Append(queues[g], f)] /\ order \in Seq(Groups)
      /\ order' = (IF queues[g] = <<>> THEN Append(order, g) ELSE order)
      /\ cursor' = cursor /\ cursor \in Nat /\ totalPending' = totalPending + 1 /\ totalPending < MaxBuffered
  <2>1. f \in Tasks
    BY DEF FillEnqueue, TypeInv, Handover
  <2> QED BY <2>1, SchedulerAssumption DEF FillEnqueue, TypeInv, TypeOK
<1>2. queues'[g] = Append(queues[g], f) /\ \A k \in Groups \ {g} : queues'[k] = queues[k]
  BY <1>1
<1>3. queues'[g] # <<>> /\ \A u : Has(queues'[g], u) <=> Has(queues[g], u) \/ u = f
  <2> PICK q : q = queues[g]
    OBVIOUS
  <2> PICK e : e = Append(q, f)
    OBVIOUS
  <2>1. q \in Seq(Tasks) /\ f \in Tasks /\ queues'[g] = e
    BY <1>1, <1>2
  <2>2. \A u : Has(e, u) <=> Has(q, u) \/ u = f
    BY <2>1, AtTheEnd
  <2>3. e # <<>>
    BY <2>2 DEF Has
  <2> QED BY <2>1, <2>2, <2>3
<1>4. ~InQueue(f)
  BY <1>1 DEF FlowInv, PlaceInv, OnePlace
<1>5. Queued' = Queued \cup {f} /\ f \notin Queued
  <2>1. Queued = {t \in Tasks : InQueue(t)} /\ Queued' = {t \in Tasks : InQueue(t)'}
    BY QueuedIsInQueue, QueuedIsInQueueAfter DEF TypeInv
  <2>2. \A u \in Tasks : InQueue(u)' <=> InQueue(u) \/ u = f
    <3>1. \A u \in Tasks : GroupKey[u] \in Groups
      BY SchedulerAssumption
    <3> QED BY <1>2, <1>3, <3>1 DEF InQueue
  <2> QED BY <1>1, <1>4, <2>1, <2>2
<1>6. /\ IsFiniteSet(Queued') /\ totalPending' = Cardinality(Queued')
      /\ totalPending' <= MaxBuffered
  <2>1. IsFiniteSet(Queued) /\ totalPending = Cardinality(Queued)
    BY DEF BookInv
  <2>2. IsFiniteSet(Queued') /\ Cardinality(Queued') = Cardinality(Queued) + 1
    BY <1>5, <2>1, FS_AddElement
  <2>3. totalPending \in Int /\ MaxBuffered \in Nat
    BY SchedulerAssumption DEF TypeInv, TypeOK
  <2> QED BY <1>1, <2>1, <2>2, <2>3
<1>7. /\ Distinct(order') /\ \A k \in Groups : Has(order', k) <=> queues'[k] # <<>>
      /\ cursor' = 0 \/ cursor' < Len(order')
  <2>1. Distinct(order) /\ (\A k \in Groups : Has(order, k) <=> queues[k] # <<>>) /\ (cursor = 0 \/ cursor < Len(order))
    BY DEF BookInv
  <2>2. CASE queues[g] = <<>>
    <3>1. /\ ~Has(order, g) /\ order' = Append(order, g)
      BY <1>1, <2>1, <2>2
    <3>2. Distinct(order') /\ \A k : Has(order', k) <=> Has(order, k) \/ k = g
      BY <1>1, <2>1, <3>1, AtTheEnd
    <3>3. Len(order') = Len(order) + 1 /\ Len(order) \in Nat
      BY <1>1, <3>1, AppendProperties, LenProperties
    <3> QED BY <1>1, <1>2, <1>3, <2>1, <3>2, <3>3
  <2>3. CASE queues[g] # <<>>
    BY <1>1, <1>2, <1>3, <2>1, <2>3
  <2> QED BY <2>2, <2>3
<1> QED BY <1>6, <1>7 DEF BookInv

LEMMA BookPop ==
  ASSUME TypeInv, TypeOK', FlowInv, BookInv, NEW w \in Workers, WorkerPop(w)
  PROVE  BookInv'
<1>1. PICK i \in 1..Len(order) : IsBest(i) /\ PopNextLocked(i)
  BY DEF WorkerPop
<1> PICK g : g = order[i]
  OBVIOUS
<1> PICK h : h = Head(queues[g])
  OBVIOUS
<1>2. /\ order \in Seq(Groups) /\ g \in Groups /\ queues \in [Groups -> Seq(Tasks)] /\ queues[g] \in Seq(Tasks)
      /\ Len(order) \in Nat /\ i \in Nat /\ 1 <= i /\ i <= Len(order)
  <2>1. order \in Seq(Groups) /\ queues \in [Groups -> Seq(Tasks)]
    BY DEF TypeInv, TypeOK
  <2>2. g \in Groups /\ Len(order) \in Nat
    BY <2>1, LenProperties
  <2> QED BY <2>1, <2>2
<1>3. queues[g] # <<>>
  BY <1>1 DEF IsBest, Eligible
<1>4. /\ queues' = [queues EXCEPT ![g] = Tail(queues[g])] /\ totalPending' = totalPending - 1
      /\ IF Tail(queues[g]) = <<>>
         THEN /\ order' = WithoutIndex(order, i)
              /\ cursor' = IF i - 1 >= Len(order) - 1 THEN 0 ELSE i - 1
         ELSE order' = order /\ cursor' = i % Len(order)
  BY <1>1 DEF PopNextLocked
<1>5. queues'[g] = Tail(queues[g]) /\ \A k \in Groups \ {g} : queues'[k] = queues[k]
  BY <1>2, <1>4
<1>6. Distinct(queues[g]) /\ \A u \in Tasks : Has(queues[g], u) => GroupKey[u] = g
  BY <1>2 DEF FlowInv, PlaceInv
<1>7. h \in Tasks /\ Has(queues[g], h) /\ \A u : Has(queues'[g], u) <=> Has(queues[g], u) /\ u # h
  BY <1>2, <1>3, <1>5, <1>6, WithoutHead
<1>8. Queued' = Queued \ {h} /\ h \in Queued
  <2>1. Queued = {t \in Tasks : InQueue(t)} /\ Queued' = {t \in Tasks : InQueue(t)'}
    BY QueuedIsInQueue, QueuedIsInQueueAfter DEF TypeInv
  <2>2. GroupKey[h] = g /\ \A u \in Tasks : GroupKey[u] \in Groups
    BY <1>6, <1>7, SchedulerAssumption
  <2>3. \A u \in Tasks : InQueue(u)' <=> InQueue(u) /\ u # h
    BY <1>5, <1>7, <2>2 DEF InQueue
  <2>4. InQueue(h)
    BY <1>7, <2>2 DEF InQueue
  <2> QED BY <1>7, <2>1, <2>3, <2>4
<1>9. IsFiniteSet(Queued') /\ totalPending' = Cardinality(Queued') /\ totalPending' <= MaxBuffered
  <2>1. IsFiniteSet(Queued) /\ totalPending = Cardinality(Queued) /\ totalPending <= MaxBuffered
    BY DEF BookInv
  <2>2. IsFiniteSet(Queued') /\ Cardinality(Queued') = Cardinality(Queued) - 1
    BY <1>8, <2>1, FS_RemoveElement
  <2>3. totalPending \in Int /\ MaxBuffered \in Nat
    BY SchedulerAssumption DEF TypeInv, TypeOK
  <2> QED BY <1>4, <2>1, <2>2, <2>3
<1>10. Distinct(order) /\ (\A k \in Groups : Has(order, k) <=> queues[k] # <<>>)
  BY DEF BookInv
<1>11. CASE Tail(queues[g]) = <<>>
  <2>1. order' = WithoutIndex(order, i) /\ cursor' = IF i - 1 >= Len(order) - 1 THEN 0 ELSE i - 1
    BY <1>4, <1>11
  <2>2. Distinct(order') /\ \A k : Has(order', k) <=> Has(order, k) /\ k # g
    BY <1>2, <1>10, <2>1, WithoutIndexHas
  <2>3. Len(order') = Len(order) - 1
    BY <1>2, <2>1, WithoutIndexType
  <2>4. cursor' = 0 \/ cursor' < Len(order')
    BY <1>2, <2>1, <2>3
  <2>5. \A k \in Groups : Has(order', k) <=> queues'[k] # <<>>
    BY <1>5, <1>10, <1>11, <2>2
  <2> QED BY <1>9, <2>2, <2>4, <2>5 DEF BookInv
<1>12. CASE Tail(queues[g]) # <<>>
  <2>1. order' = order /\ cursor' = i % Len(order)
    BY <1>4, <1>12
  <2>2. cursor' < Len(order')
    BY <1>2, <2>1
  <2>3. \A k \in Groups : Has(order', k) <=> queues'[k] # <<>>
    BY <1>3, <1>5, <1>10, <1>12, <2>1
  <2> QED BY <1>9, <1>10, <2>1, <2>2, <2>3 DEF BookInv
<1> QED BY <1>11, <1>12

LEMMA NextBookInv ==
  ASSUME TypeInv, TypeOK', FlowInv, BookInv, [Next]_vars
  PROVE  BookInv'
<1>1. CASE UNCHANGED <<queues, order, cursor, totalPending>>
  BY <1>1 DEF BookInv, Queued, Positions
<1>2. CASE FillEnqueue
  BY <1>2, BookEnqueue
<1>3. CASE \E w \in Workers : WorkerPop(w)
  BY <1>3, BookPop
<1>4. \/ UNCHANGED <<queues, order, cursor, totalPending>>
      \/ FillEnqueue \/ \E w \in Workers : WorkerPop(w)
  BY DEF Next, vars, scheduler, Submit, SubmitSignal, Stream, StreamTake, StreamEmpty, StreamRecheck,
         StreamPark, StreamWake, StreamExit, StreamMove, Fill, FillReceive, FillFull, FillNotify, FillSpace,
         FillNack, FillNackNotify, FillExit, Worker, WorkerPark, WorkerWake, WorkerExit, WorkerNotifySpace,
         WorkerDispatched, WorkerNack, WorkerNackNotify, WorkerDone, WorkerNotifyWake, Tick, Close
<1> QED BY <1>1, <1>2, <1>3, <1>4

\* A set with at most one element has at most that.
LEMMA AtMostOne ==
  ASSUME NEW S, \A x, y \in S : x = y
  PROVE  Cardinality(S) = IF S = {} THEN 0 ELSE 1
<1>1. CASE S = {}
  BY <1>1, FS_EmptySet
<1>2. CASE S # {}
  <2>1. PICK x : x \in S
    BY <1>2
  <2>2. S = {x}
    BY <2>1
  <2> QED BY <1>2, <2>2, FS_Singleton
<1> QED BY <1>1, <1>2

\* The pipeline holds a task as often as it is in one of its places.
LEMMA FlowInvImplies ==
  ASSUME TypeInv, FlowInv
  PROVE  Conservation /\ SessionOrder
<1>1. ASSUME NEW t \in Tasks PROVE Copies(t) = IF Placed(t) THEN 1 ELSE 0
  <2> DEFINE B == {i \in DOMAIN busTasks : busTasks[i] = t}
             Q == Positions(t)
             W == {w \in Workers : item[w] = t}
             q == queues[GroupKey[t]]
  <2>1. busTasks \in Seq(Tasks) /\ q \in Seq(Tasks) /\ GroupKey[t] \in Groups /\ None \notin Tasks
    BY SchedulerAssumption DEF TypeInv, TypeOK
  <2>2. DOMAIN busTasks = 1..Len(busTasks) /\ DOMAIN q = 1..Len(q)
    BY <2>1, LenProperties
  <2>3. Distinct(busTasks) /\ Distinct(q) /\ OnePlace(t)
    BY <2>1 DEF FlowInv, PlaceInv
  <2>4. Cardinality(B) = IF OnBus(t) THEN 1 ELSE 0
    <3>1. (\A i, j \in B : i = j) /\ (B = {} <=> ~OnBus(t))
      BY <2>2, <2>3 DEF Distinct, OnBus, Has
    <3> HIDE DEF B
    <3> QED BY <3>1, AtMostOne
  <2>5. Cardinality(Q) = IF InQueue(t) THEN 1 ELSE 0
    <3>1. (\A i, j \in Q : i = j) /\ (Q = {} <=> ~InQueue(t))
      BY <2>2, <2>3 DEF Distinct, InQueue, Has, Positions
    <3> HIDE DEF Q
    <3> QED BY <3>1, AtMostOne
  <2>6. Cardinality(W) = IF InDispatch(t) THEN 1 ELSE 0
    <3>1. (\A v, w \in W : v = w) /\ (W = {} <=> ~InDispatch(t))
      BY <2>1 DEF FlowInv, PlaceInv, InDispatch
    <3> HIDE DEF W
    <3> QED BY <3>1, AtMostOne
  <2>7. Copies(t) = Cardinality(B) + (IF streamItem = t THEN 1 ELSE 0) + (IF fillItem = t THEN 1 ELSE 0)
                      + Cardinality(Q) + Cardinality(W)
    BY DEF Copies
  <2> HIDE DEF B, Q, W
  <2> QED BY <2>3, <2>4, <2>5, <2>6, <2>7 DEF OnePlace, Placed
<1>2. Conservation
  <2>1. Unfinished \subseteq Tasks
    BY DEF TypeInv, TypeOK, Unfinished
  <2>2. \A t, u \in Unfinished : Copies(t) = 0 /\ Copies(u) = 0 => t = u
    BY <1>1, <2>1 DEF FlowInv, PlaceInv
  <2> QED BY <1>1, <2>2 DEF Conservation, FlowInv, PlaceInv, Unfinished
<1>3. SessionOrder
  <2> SUFFICES ASSUME faults = 0, NEW p \in precedes, GroupKey[p[1]] = GroupKey[p[2]], InDispatch(p[2])
               PROVE  InDispatch(p[1])
    BY DEF SessionOrder
  <2>1. p[1] \in Tasks /\ p[2] \in Tasks /\ p = <<p[1], p[2]>>
    BY DEF TypeInv, TypeOK
  <2>2. Further(p[1], p[2])
    BY <2>1 DEF FlowInv, OrderInv
  <2> QED BY <2>2 DEF Further
<1> QED BY <1>2, <1>3

\* For any tasks, sessions, workers and limits: the scheduler's structures agree,
\* submissions are neither lost nor duplicated between bus, stream, filler,
\* queues and workers, and a session's tasks start in the order of submission.
THEOREM TasksAccountedCorrect == Spec => []TasksAccounted
<1>1. Init => FlowInv /\ BookInv
  BY InitFlowInv, InitBookInv
<1>2. TypeInv /\ FlowInv /\ BookInv /\ [Next]_vars => FlowInv' /\ BookInv'
  <2> SUFFICES ASSUME TypeInv, FlowInv, BookInv, [Next]_vars PROVE FlowInv' /\ BookInv'
    OBVIOUS
  <2>1. TypeOK'
    BY NextTypeOK
  <2> QED BY <2>1, NextFlowInv, NextBookInv
<1>3. TypeInv /\ FlowInv /\ BookInv => TasksAccounted
  BY FlowInvImplies, BookInvImplies DEF TypeInv, TasksAccounted
<1> QED BY <1>1, <1>2, <1>3, TypeCorrect, PTL DEF Spec
=============================================================================
