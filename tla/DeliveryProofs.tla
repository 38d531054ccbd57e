--------------------------- MODULE DeliveryProofs ---------------------------
(***************************************************************************)
(* Proofs about the delivery of tasks, over RabbitMQ (BrokerBus) and in    *)
(* memory (TaskDelivery): who answers for a task, and that what has ended  *)
(* stays as it ended, for any tasks, agents, workers and limits.           *)
(***************************************************************************)
EXTENDS MCTaskDelivery, SequenceTheorems, FiniteSetTheorems, TLAPS

(* Sequences without repetitions.                                          *)

Has(s, x)   == \E i \in 1..Len(s) : s[i] = x
Distinct(s) == \A i, j \in 1..Len(s) : s[i] = s[j] => i = j

LEMMA Joined ==
  ASSUME NEW S, NEW s \in Seq(S), NEW z \in Seq(S)
  PROVE  /\ s \o z \in Seq(S)
         /\ \A y : Has(s \o z, y) <=> Has(s, y) \/ Has(z, y)
         /\ Distinct(s) /\ Distinct(z) /\ (\A y : ~(Has(s, y) /\ Has(z, y))) => Distinct(s \o z)
<1> PICK m : m = Len(s)
  OBVIOUS
<1> PICK n : n = Len(z)
  OBVIOUS
<1> PICK e : e = s \o z
  OBVIOUS
<1>1. /\ e \in Seq(S) /\ Len(e) = m + n /\ m \in Nat /\ n \in Nat
      /\ \A i \in 1..(m + n) : e[i] = IF i <= m THEN s[i] ELSE z[i - m]
  BY ConcatProperties, LenProperties
<1>2. ASSUME NEW i \in 1..(m + n)
      PROVE  \/ i <= m /\ i \in 1..m /\ e[i] = s[i]
             \/ ~(i <= m) /\ i - m \in 1..n /\ e[i] = z[i - m]
  <2>1. \/ i <= m /\ i \in 1..m
        \/ ~(i <= m) /\ i - m \in 1..n
    BY <1>1
  <2> QED BY <1>1, <2>1
<1>3. \A i \in 1..m : i \in 1..(m + n) /\ e[i] = s[i]
  BY <1>1
<1>4. ASSUME NEW i \in 1..n PROVE i + m \in 1..(m + n) /\ e[i + m] = z[i]
  <2>1. i + m \in 1..(m + n) /\ ~(i + m <= m) /\ (i + m) - m = i
    BY <1>1
  <2> QED BY <1>1, <2>1
<1>5. ASSUME NEW y PROVE Has(e, y) <=> Has(s, y) \/ Has(z, y)
  <2>1. ASSUME Has(e, y) PROVE Has(s, y) \/ Has(z, y)
    <3>1. PICK i \in 1..(m + n) : e[i] = y
      BY <1>1, <2>1 DEF Has
    <3> QED BY <1>2, <3>1 DEF Has
  <2>2. ASSUME Has(s, y) PROVE Has(e, y)
    BY <1>1, <1>3, <2>2 DEF Has
  <2>3. ASSUME Has(z, y) PROVE Has(e, y)
    <3>1. PICK i \in 1..n : z[i] = y
      BY <2>3 DEF Has
    <3> QED BY <1>1, <1>4, <3>1 DEF Has
  <2> QED BY <2>1, <2>2, <2>3
<1>6. ASSUME Distinct(s), Distinct(z), \A y : ~(Has(s, y) /\ Has(z, y)) PROVE Distinct(e)
  <2> SUFFICES ASSUME NEW i \in 1..(m + n), NEW j \in 1..(m + n), e[i] = e[j] PROVE i = j
    BY <1>1 DEF Distinct
  <2>1. CASE i <= m /\ j <= m
    BY <1>2, <1>6, <2>1 DEF Distinct
  <2>2. CASE ~(i <= m) /\ ~(j <= m)
    <3>1. i - m \in 1..n /\ j - m \in 1..n /\ z[i - m] = z[j - m]
      BY <1>2, <2>2
    <3>2. i - m = j - m
      BY <1>6, <3>1 DEF Distinct
    <3> QED BY <1>1, <3>2
  <2>3. CASE i <= m /\ ~(j <= m)
    <3>1. Has(s, e[i]) /\ Has(z, e[j])
      BY <1>2, <2>3 DEF Has
    <3> QED BY <1>6, <3>1
  <2>4. CASE ~(i <= m) /\ j <= m
    <3>1. Has(s, e[j]) /\ Has(z, e[i])
      BY <1>2, <2>4 DEF Has
    <3> QED BY <1>6, <3>1
  <2> QED BY <2>1, <2>2, <2>3, <2>4
<1> QED BY <1>1, <1>5, <1>6

LEMMA AtTheFront ==
  ASSUME NEW S, NEW s \in Seq(S), NEW x \in S
  PROVE  /\ <<x>> \o s \in Seq(S)
         /\ \A y : Has(<<x>> \o s, y) <=> Has(s, y) \/ y = x
         /\ Distinct(s) /\ ~Has(s, x) => Distinct(<<x>> \o s)
<1> PICK o : o = <<x>>
  OBVIOUS
<1>1. o \in Seq(S) /\ Len(o) = 1 /\ o[1] = x
  OBVIOUS
<1>2. Distinct(o) /\ \A y : Has(o, y) <=> y = x
  <2>1. 1..1 = {1}
    OBVIOUS
  <2> QED BY <1>1, <2>1 DEF Has, Distinct
<1> QED BY <1>1, <1>2, Joined

LEMMA AtTheEnd ==
  ASSUME NEW S, NEW s \in Seq(S), NEW x \in S
  PROVE  /\ Append(s, x) \in Seq(S)
         /\ \A y : Has(Append(s, x), y) <=> Has(s, y) \/ y = x
         /\ Distinct(s) /\ ~Has(s, x) => Distinct(Append(s, x))
<1> PICK n : n = Len(s)
  OBVIOUS
<1> PICK e : e = Append(s, x)
  OBVIOUS
<1>1. /\ e \in Seq(S) /\ Len(e) = n + 1 /\ e[n + 1] = x /\ n \in Nat
      /\ \A i \in 1..n : e[i] = s[i]
  BY AppendProperties, LenProperties
<1>2. \A i \in 1..(n + 1) : i \in 1..n \/ i = n + 1
  BY <1>1
<1>3. n + 1 \in 1..(n + 1) /\ \A i \in 1..n : i \in 1..(n + 1)
  BY <1>1
<1>4. ASSUME NEW y PROVE Has(e, y) <=> Has(s, y) \/ y = x
  BY <1>1, <1>2, <1>3 DEF Has
<1>5. ASSUME Distinct(s), ~Has(s, x) PROVE Distinct(e)
  <2> SUFFICES ASSUME NEW i \in 1..(n + 1), NEW j \in 1..(n + 1), e[i] = e[j] PROVE i = j
    BY <1>1 DEF Distinct
  <2>1. CASE i \in 1..n /\ j \in 1..n
    BY <1>1, <1>5, <2>1 DEF Distinct
  <2>2. CASE i = n + 1 /\ j \in 1..n
    BY <1>1, <1>5, <2>2 DEF Has
  <2>3. CASE j = n + 1 /\ i \in 1..n
    BY <1>1, <1>5, <2>3 DEF Has
  <2> QED BY <1>2, <2>1, <2>2, <2>3
<1> QED BY <1>1, <1>4, <1>5

LEMMA WithoutHead ==
  ASSUME NEW S, NEW s \in Seq(S), s # <<>>, Distinct(s)
  PROVE  /\ Head(s) \in S /\ Tail(s) \in Seq(S) /\ Has(s, Head(s)) /\ Distinct(Tail(s))
         /\ \A y : Has(Tail(s), y) <=> Has(s, y) /\ y # Head(s)
<1> PICK n : n = Len(s)
  OBVIOUS
<1> PICK h : h = Head(s)
  OBVIOUS
<1> PICK e : e = Tail(s)
  OBVIOUS
<1>1. /\ e \in Seq(S) /\ n \in Nat /\ n # 0 /\ Len(e) = n - 1 /\ h = s[1] /\ h \in S
      /\ \A i \in 1..(n - 1) : e[i] = s[i + 1]
  BY HeadTailProperties, EmptySeq, LenProperties
<1>2. 1 \in 1..n /\ \A i \in 1..n : i # 1 => i - 1 \in 1..(n - 1) /\ (i - 1) + 1 = i
  BY <1>1
<1>3. \A i \in 1..(n - 1) : i + 1 \in 1..n /\ i + 1 # 1
  BY <1>1
<1>4. \A i \in 1..n : i # 1 => s[i] # h
  BY <1>1, <1>2 DEF Distinct
<1>5. ASSUME NEW y PROVE Has(e, y) <=> Has(s, y) /\ y # h
  <2>1. ASSUME Has(e, y) PROVE Has(s, y) /\ y # h
    BY <1>1, <1>3, <1>4, <2>1 DEF Has
  <2>2. ASSUME Has(s, y), y # h PROVE Has(e, y)
    <3>1. PICK i \in 1..n : s[i] = y
      BY <2>2 DEF Has
    <3>2. i - 1 \in 1..(n - 1) /\ e[i - 1] = y
      BY <1>1, <1>2, <2>2, <3>1
    <3> QED BY <1>1, <3>2 DEF Has
  <2> QED BY <2>1, <2>2
<1>6. Distinct(e)
  <2> SUFFICES ASSUME NEW i \in 1..(n - 1), NEW j \in 1..(n - 1), e[i] = e[j] PROVE i = j
    BY <1>1 DEF Distinct
  <2>1. i + 1 = j + 1
    BY <1>1, <1>3 DEF Distinct
  <2> QED BY <2>1
<1> QED BY <1>1, <1>2, <1>5, <1>6 DEF Has

\* A set with at most one element has at most that.
LEMMA AtMostOne ==
  ASSUME NEW S, \A x, y \in S : x = y
  PROVE  Cardinality(S) = IF S = {} THEN 0 ELSE 1
<1>1. CASE S = {}
  BY <1>1, FS_EmptySet
<1>2. CASE S # {}
  <2>1. PICK x : x \in S
    BY <1>2
  <2>2. S = {x}
    BY <2>1
  <2> QED BY <1>2, <2>2, FS_Singleton
<1> QED BY <1>1, <1>2

\* A sequence that lists a finite set as often as it has elements repeats none.
LEMMA OrdersDistinct ==
  ASSUME NEW S, IsFiniteSet(S), NEW q \in Orders(S)
  PROVE  q \in Seq(S) /\ Distinct(q) /\ \A y : Has(q, y) <=> y \in S
<1> PICK n : n = Cardinality(S)
  OBVIOUS
<1>1. n \in Nat
  BY FS_CardinalityType
<1>2. q \in [1..n -> S] /\ \A x \in S : \E i \in 1..n : q[i] = x
  BY DEF Orders
<1>3. q \in Seq(S) /\ Len(q) = n
  BY <1>1, <1>2
<1>4. q \in Surjection(1..n, S)
  BY <1>2 DEF Surjection, Range
<1>5. IsFiniteSet(1..n) /\ Cardinality(1..n) = n
  BY <1>1, FS_Interval
<1>6. q \in Injection(1..n, S)
  BY <1>4, <1>5, FS_SurjSameCardinalityImpliesInj
<1>7. Distinct(q)
  BY <1>3, <1>6 DEF Distinct, Injection, IsInjective
<1> QED BY <1>2, <1>3, <1>7 DEF Has

-----------------------------------------------------------------------------
(* Delivery over the broker.  The invariant says where the copy of each    *)
(* envelope is, what the steps of its worker have done so far, and what    *)
(* the results on the way may still say.                                   *)

BrMessages == BrTasks \cup BrForeign
BrSteps == {"idle", "confirm", "run", "accept", "ack", "retry", "dead", "nack"}
BrOutcome == [task : BrTasks, status : Ended]

BrTypes ==
  /\ brQueue \in Seq(BrMessages) /\ Distinct(brQueue)
  /\ brDead \subseteq BrMessages
  /\ brResults \in Seq(BrOutcome)
  /\ brHand = <<>> \/ \E t \in BrTasks : brHand = <<t>>
  /\ brWorker \in [BrWorkers -> [pc : BrSteps, task : BrTasks \cup {"none"}]]
  /\ \A w \in BrWorkers : brWorker[w].pc = "idle" <=> brWorker[w].task = "none"
  /\ brSend \in [BrTasks -> {"new", "publish", "register", "status", "done"}]
  /\ brRecord \in [BrTasks -> [status : {"none", "sent", "queued", "received", "accepted",
                                         "retrying", "failed", "dead_lettered"},
                               retries : 0..BrMaxRetries]]
  /\ brPending \subseteq BrTasks
  /\ brStored \in [BrTasks -> Ended \cup {"running"}]
  /\ brUp \in BOOLEAN
  /\ brRuns \in [BrTasks -> Nat]
  /\ brAsked \subseteq BrTasks /\ brOvertaken \subseteq BrTasks /\ brGone \subseteq BrTasks
  /\ brFaults \in Nat /\ brCrashes \in Nat

\* Where the copy of t's envelope is.
OnQueue(t) == Has(brQueue, t)
InHand(t) == brHand = <<t>>
With(w, t) == brWorker[w].task = t
Copied(t) == OnQueue(t) \/ InHand(t) \/ \E w \in BrWorkers : With(w, t)

\* In one place at most.
OneCopyOf(t) ==
  /\ OnQueue(t) => ~InHand(t) /\ \A w \in BrWorkers : ~With(w, t)
  /\ InHand(t) => \A w \in BrWorkers : ~With(w, t)
  /\ \A v, w \in BrWorkers : With(v, t) /\ With(w, t) => v = w

\* How far its Dispatch has come.
SentSoFar(t) ==
  /\ brSend[t] \in {"new", "publish"} => ~Copied(t) /\ brRuns[t] = 0 /\ t \notin brAsked
  /\ brSend[t] = "new" => ~Tracked(t)
  /\ brSend[t] \in {"publish", "register", "status"} => Tracked(t)
  /\ brSend[t] \in {"register", "status", "done"} => Copied(t) \/ t \in brAsked \cup brGone
  /\ brSend[t] = "done" /\ ~Tracked(t) => brCrashes > 0

\* What its worker has done.
DoneSoFar(t) ==
  \A w \in BrWorkers : With(w, t) =>
    /\ brWorker[w].pc \in {"run", "accept", "ack", "retry"} => Tracked(t)
    /\ brWorker[w].pc \in {"accept", "ack"} => t \in brAsked
    /\ brWorker[w].pc = "nack" => t \in brAsked \cup brGone

\* The agent is still to be run: a redelivered envelope is not, its record
\* being gone.
ToDo(t) ==
  /\ Tracked(t)
  /\ \/ OnQueue(t) \/ InHand(t)
     \/ \E w \in BrWorkers : With(w, t) /\ brWorker[w].pc \in {"confirm", "run", "retry", "dead"}
RunSoFar(t) ==
  /\ ToDo(t) => brRuns[t] <= brFaults /\ t \notin brAsked
  /\ brRuns[t] <= 1 + brFaults

\* The envelope is settled, or gone without a trace.
Past(t) ==
  \/ \E w \in BrWorkers : With(w, t) /\ brWorker[w].pc \in {"ack", "nack"}
  \/ ~Copied(t) /\ brSend[t] \in {"register", "status", "done"}
SettledSoFar(t) ==
  Tracked(t) /\ Past(t) /\ t \notin brGone =>
    \/ t \in brOvertaken
    \/ /\ brSend[t] = "done" /\ t \notin brPending
       /\ brRecord[t].status \in {"accepted", "dead_lettered"}

TaskInv(t) == OneCopyOf(t) /\ SentSoFar(t) /\ DoneSoFar(t) /\ RunSoFar(t) /\ SettledSoFar(t)

\* A result after another of its task is a dead letter of a later life.
Late(o) == o.status = "dead_lettered" /\ brCrashes > 0
OutcomeInv ==
  /\ \A t \in BrTasks : brStored[t] \in Ended => t \in brAsked
  /\ \A i \in 1..Len(brResults) :
       /\ brResults[i].task \in brAsked
       /\ brStored[brResults[i].task] \in Ended => Late(brResults[i])
  /\ \A i, j \in 1..Len(brResults) :
       i < j /\ brResults[i].task = brResults[j].task => Late(brResults[j])

Out == {w \in BrWorkers : brWorker[w].pc # "idle"}
PrefetchInv == Len(brHand) + Cardinality(Out) <= Cardinality(BrWorkers)

BrInv == BrTypes /\ (\A t \in BrTasks : TaskInv(t)) /\ OutcomeInv /\ PrefetchInv

LEMMA InitBrInv == BrInit => BrInv
<1> SUFFICES ASSUME BrInit PROVE BrInv
  OBVIOUS
<1>1. brQueue \in Seq(BrMessages) /\ Distinct(brQueue) /\ \A t \in BrTasks : ~Has(brQueue, t)
  <2>1. CASE brQueue = <<>>
    BY <2>1 DEF Has, Distinct
  <2>2. ASSUME NEW f \in BrForeign, brQueue = <<f>>
        PROVE  brQueue \in Seq(BrMessages) /\ Distinct(brQueue) /\ \A t \in BrTasks : ~Has(brQueue, t)
    <3>1. brQueue \in Seq(BrMessages) /\ Len(brQueue) = 1 /\ brQueue[1] = f /\ 1..1 = {1}
      BY <2>2 DEF BrMessages
    <3> QED BY <2>2, <3>1, BrAssumption DEF Has, Distinct
  <2> QED BY <2>1, <2>2 DEF BrInit
<1>2. brWorker = [w \in BrWorkers |-> [pc |-> "idle", task |-> "none"]]
  BY DEF BrInit, Free
<1>3. brRecord = [t \in BrTasks |-> [status |-> "none", retries |-> 0]] /\ 0 \in 0..BrMaxRetries
  BY BrAssumption DEF BrInit, NoRecord
<1>4. brResults \in Seq(BrOutcome) /\ Len(brResults) = 0
  BY DEF BrInit
<1>5. BrTypes
  BY <1>1, <1>2, <1>3, <1>4, BrAssumption DEF BrInit, BrTypes, BrSteps, Ended
<1>6. ASSUME NEW t \in BrTasks PROVE TaskInv(t)
  <2>1. ~OnQueue(t) /\ ~InHand(t) /\ (\A w \in BrWorkers : ~With(w, t)) /\ ~Tracked(t) /\ brSend[t] = "new"
        /\ brRuns[t] = 0 /\ t \notin brAsked /\ brFaults = 0
    BY <1>1, <1>2, <1>3, BrAssumption DEF BrInit, OnQueue, InHand, With, Tracked
  <2> QED BY <2>1 DEF TaskInv, OneCopyOf, SentSoFar, DoneSoFar, RunSoFar, SettledSoFar, ToDo, Past, Copied
<1>7. OutcomeInv
  BY <1>4 DEF BrInit, OutcomeInv, Ended
<1>8. PrefetchInv
  <2>1. Out = {} /\ Len(brHand) = 0
    BY <1>2 DEF Out, BrInit
  <2>2. Cardinality(BrWorkers) \in Nat /\ Cardinality(Out) = 0
    BY <2>1, BrAssumption, FS_CardinalityType, FS_EmptySet
  <2> QED BY <2>1, <2>2 DEF PrefetchInv
<1> QED BY <1>5, <1>6, <1>7, <1>8 DEF BrInv

\* The task a worker that is not idle holds.
LEMMA WorkerHolds ==
  ASSUME BrTypes, NEW w \in BrWorkers, brWorker[w].pc # "idle"
  PROVE  TaskOf(w) \in BrTasks
BY DEF BrTypes, TaskOf

\* What Unfinished lists, and what a crash puts back.
LEMMA CrashQueue ==
  ASSUME BrTypes, \A t \in BrTasks : OneCopyOf(t), NEW back \in Orders(Unfinished)
  PROVE  /\ back \o brQueue \in Seq(BrMessages) /\ Distinct(back \o brQueue)
         /\ \A t \in BrTasks : Has(back \o brQueue, t) <=> Copied(t)
<1> DEFINE W == {brWorker[w].task : w \in Out}
           H == {brHand[i] : i \in DOMAIN brHand}
           f == [w \in Out |-> brWorker[w].task]
<1>1. Unfinished = W \cup H
  BY DEF Unfinished, Out
<1>2. IsFiniteSet(W)
  <2>1. IsFiniteSet(Out)
    BY BrAssumption, FS_Subset DEF Out
  <2>2. f \in Surjection(Out, W)
    BY DEF Surjection
  <2> HIDE DEF f, W
  <2> QED BY <2>1, <2>2, FS_Surjection
<1>3. (H = {} /\ brHand = <<>>) \/ \E t \in BrTasks : H = {t} /\ brHand = <<t>>
  BY DEF BrTypes
<1>4. IsFiniteSet(H)
  <2> HIDE DEF H
  <2> QED BY <1>3, FS_EmptySet, FS_Singleton
<1>5. W \subseteq BrTasks /\ \A t \in BrTasks : t \in W <=> \E w \in BrWorkers : With(w, t)
  BY BrAssumption DEF BrTypes, Out, With
<1>6. H \subseteq BrTasks /\ \A t \in BrTasks : t \in H <=> InHand(t)
  <2> HIDE DEF H
  <2>1. CASE H = {} /\ brHand = <<>>
    BY <2>1 DEF InHand
  <2>2. ASSUME NEW t \in BrTasks, H = {t}, brHand = <<t>> PROVE H \subseteq BrTasks /\ \A u \in BrTasks : u \in H <=> InHand(u)
    BY <2>2 DEF InHand
  <2> QED BY <1>3, <2>1, <2>2
<1> HIDE DEF W, H
<1>7. IsFiniteSet(Unfinished) /\ Unfinished \subseteq BrTasks
  BY <1>1, <1>2, <1>4, <1>5, <1>6, FS_Union
<1>8. back \in Seq(Unfinished) /\ Distinct(back) /\ \A y : Has(back, y) <=> y \in Unfinished
  BY <1>7, OrdersDistinct
<1>9. back \in Seq(BrMessages) /\ brQueue \in Seq(BrMessages) /\ Distinct(brQueue)
  BY <1>7, <1>8, SeqMonotonic DEF BrTypes, BrMessages
<1>10. \A t \in BrTasks : t \in Unfinished <=> InHand(t) \/ \E w \in BrWorkers : With(w, t)
  BY <1>1, <1>5, <1>6
<1>11. \A y : ~(Has(back, y) /\ Has(brQueue, y))
  BY <1>7, <1>8, <1>10 DEF OneCopyOf, OnQueue
<1>12. /\ back \o brQueue \in Seq(BrMessages)
       /\ \A y : Has(back \o brQueue, y) <=> Has(back, y) \/ Has(brQueue, y)
       /\ Distinct(back \o brQueue)
  BY <1>8, <1>9, <1>11, Joined
<1> QED BY <1>8, <1>10, <1>12 DEF Copied, OnQueue

\* What each step does to the queue at the broker.
LEMMA QueueTaken ==
  ASSUME BrTypes, brQueue # <<>>, NEW h, h = Head(brQueue)
  PROVE  /\ h \in BrMessages /\ Tail(brQueue) \in Seq(BrMessages) /\ Distinct(Tail(brQueue))
         /\ Has(brQueue, h) /\ \A y : Has(Tail(brQueue), y) <=> Has(brQueue, y) /\ y # h
BY WithoutHead DEF BrTypes

LEMMA QueueGrows ==
  ASSUME BrTypes, NEW t \in BrTasks, ~OnQueue(t)
  PROVE  /\ Append(brQueue, t) \in Seq(BrMessages) /\ Distinct(Append(brQueue, t))
         /\ <<t>> \o brQueue \in Seq(BrMessages) /\ Distinct(<<t>> \o brQueue)
         /\ \A y : Has(Append(brQueue, t), y) <=> Has(brQueue, y) \/ y = t
         /\ \A y : Has(<<t>> \o brQueue, y) <=> Has(brQueue, y) \/ y = t
<1>1. t \in BrMessages /\ brQueue \in Seq(BrMessages) /\ Distinct(brQueue) /\ ~Has(brQueue, t)
  BY DEF BrTypes, BrMessages, OnQueue
<1> QED BY <1>1, AtTheEnd, AtTheFront

LEMMA ResultsGrow ==
  ASSUME BrTypes, NEW t \in BrTasks, NEW s \in Ended
  PROVE  /\ Append(brResults, [task |-> t, status |-> s]) \in Seq(BrOutcome)
         /\ Len(Append(brResults, [task |-> t, status |-> s])) = Len(brResults) + 1
         /\ Append(brResults, [task |-> t, status |-> s])[Len(brResults) + 1] = [task |-> t, status |-> s]
         /\ \A i \in 1..Len(brResults) : Append(brResults, [task |-> t, status |-> s])[i] = brResults[i]
<1> PICK o : o = [task |-> t, status |-> s]
  OBVIOUS
<1>1. o \in BrOutcome /\ brResults \in Seq(BrOutcome)
  BY DEF BrTypes, BrOutcome
<1> QED BY <1>1, AppendProperties

LEMMA BrTypesNext ==
  ASSUME BrInv, BrNext
  PROVE  BrTypes'
<1>0. BrTypes /\ \A t \in BrTasks : TaskInv(t)
  BY DEF BrInv
<1>1. ASSUME NEW t \in BrTasks, BrDispatch(t) PROVE BrTypes'
  <2>1. [status |-> "sent", retries |-> 0] \in [status : {"sent"}, retries : 0..BrMaxRetries]
    BY BrAssumption
  <2> QED BY <1>0, <1>1, <2>1 DEF BrTypes, BrDispatch, brBroker, brTold
<1>2. ASSUME NEW t \in BrTasks, BrPublish(t) PROVE BrTypes'
  <2>1. ~OnQueue(t)
    BY <1>0, <1>2 DEF BrPublish, TaskInv, SentSoFar, Copied
  <2>2. brQueue' \in Seq(BrMessages) /\ Distinct(brQueue')
    BY <1>0, <1>2, <2>1, QueueGrows DEF BrPublish
  <2> QED BY <1>0, <1>2, <2>2 DEF BrTypes, BrPublish, brBroker, brTold
<1>3. ASSUME NEW t \in BrTasks, BrPublishLost(t) PROVE BrTypes'
  BY <1>0, <1>3 DEF BrTypes, BrPublishLost, brBroker, brTold
<1>4. ASSUME NEW t \in BrTasks, BrRegister(t) PROVE BrTypes'
  BY <1>0, <1>4 DEF BrTypes, BrRegister, brBroker, brTold
<1>5. ASSUME NEW t \in BrTasks, BrStatus(t) PROVE BrTypes'
  BY <1>0, <1>5 DEF BrTypes, BrStatus, brBroker, brTold
<1>6. CASE BrPush
  <2>1. brQueue' \in Seq(BrMessages) /\ Distinct(brQueue') /\ \E t \in BrTasks : brHand' = <<t>>
    BY <1>0, <1>6, QueueTaken DEF BrPush
  <2> QED BY <1>0, <1>6, <2>1 DEF BrTypes, BrPush, brTold
<1>7. CASE BrRefuse
  <2>1. brQueue' \in Seq(BrMessages) /\ Distinct(brQueue') /\ Head(brQueue) \in BrMessages
    BY <1>0, <1>7, QueueTaken DEF BrRefuse
  <2> QED BY <1>0, <1>7, <2>1 DEF BrTypes, BrRefuse, brTold
<1>8. CASE BrExpire
  <2>1. brQueue' \in Seq(BrMessages) /\ Distinct(brQueue') /\ Head(brQueue) \in BrMessages
    BY <1>0, <1>8, QueueTaken DEF BrExpire
  <2> QED BY <1>0, <1>8, <2>1 DEF BrTypes, BrExpire
<1>9. CASE BrResult
  <2>1. brResults' \in Seq(BrOutcome) /\ Head(brResults) \in BrOutcome
    BY <1>0, <1>9, HeadTailProperties DEF BrResult, BrTypes
  <2>2. brStored' \in [BrTasks -> Ended \cup {"running"}]
    BY <1>0, <1>9, <2>1 DEF BrResult, BrTypes, BrOutcome
  <2> QED BY <1>0, <1>9, <2>1, <2>2 DEF BrTypes, BrResult
<1>10. ASSUME NEW w \in BrWorkers, BrHandOver(w) PROVE BrTypes'
  <2>1. PICK t \in BrTasks : brHand = <<t>>
    BY <1>0, <1>10 DEF BrHandOver, BrTypes
  <2>2. brWorker' = [brWorker EXCEPT ![w] = [pc |-> "confirm", task |-> t]]
    BY <1>10, <2>1 DEF BrHandOver
  <2> QED BY <1>0, <1>10, <2>2, BrAssumption DEF BrTypes, BrHandOver, brBroker, brTold, BrSteps
<1>11. ASSUME NEW w \in BrWorkers, BrConfirm(w) PROVE BrTypes'
  <2>1. TaskOf(w) \in BrTasks
    BY <1>0, <1>11, WorkerHolds DEF BrConfirm, At
  <2>2. /\ brWorker' \in [BrWorkers -> [pc : BrSteps, task : BrTasks \cup {"none"}]]
        /\ \A v \in BrWorkers : brWorker'[v].pc = "idle" <=> brWorker'[v].task = "none"
    <3>1. PICK p \in {"run", "dead"} : brWorker' = [brWorker EXCEPT ![w].pc = p]
      BY <1>11 DEF BrConfirm, Goes
    <3> QED BY <1>0, <1>11, <3>1 DEF BrTypes, BrSteps, BrConfirm, At
  <2>3. /\ \E s \in {"received", "failed", "none"} : brRecord' = [brRecord EXCEPT ![TaskOf(w)].status = s]
        /\ brPending' \subseteq brPending
    BY <1>11 DEF BrConfirm
  <2>4. UNCHANGED <<brBroker, brHand, brSend, brUp, brTold>>
    BY <1>11 DEF BrConfirm
  <2> QED BY <1>0, <2>1, <2>2, <2>3, <2>4, ZenonT(60) DEF BrTypes, brBroker, brTold
<1>12. ASSUME NEW w \in BrWorkers, BrRun(w) PROVE BrTypes'
  <2>1. TaskOf(w) \in BrTasks
    BY <1>0, <1>12, WorkerHolds DEF BrRun, At
  <2>2. brResults' \in Seq(BrOutcome)
    BY <1>0, <1>12, <2>1, ResultsGrow DEF BrRun, Ended
  <2> QED BY <1>0, <1>12, <2>1, <2>2 DEF BrTypes, BrRun, At, Goes, TaskOf, BrSteps
<1>13. ASSUME NEW w \in BrWorkers, BrRunFails(w) PROVE BrTypes'
  <2>1. TaskOf(w) \in BrTasks
    BY <1>0, <1>13, WorkerHolds DEF BrRunFails, At
  <2>2. brRuns' \in [BrTasks -> Nat] /\ brFaults' \in Nat
    BY <1>0, <1>13, <2>1 DEF BrTypes, BrRunFails
  <2> QED BY <1>0, <1>13, <2>1, <2>2, ZenonT(60) DEF BrTypes, BrRunFails, At, Goes, brBroker, BrSteps
<1>14. ASSUME NEW w \in BrWorkers, BrAccept(w) PROVE BrTypes'
  BY <1>0, <1>14, WorkerHolds, ZenonT(60) DEF BrTypes, BrAccept, At, Goes, TaskOf, Overtakes, brBroker, BrSteps
<1>15. ASSUME NEW w \in BrWorkers, BrAck(w) PROVE BrTypes'
  BY <1>0, <1>15 DEF BrTypes, BrAck, At, Free, brBroker, brTold, BrSteps
<1>16. ASSUME NEW w \in BrWorkers, BrRetry(w) PROVE BrTypes'
  <2>1. TaskOf(w) \in BrTasks
    BY <1>0, <1>16, WorkerHolds DEF BrRetry, At
  <2>2. ~OnQueue(TaskOf(w))
    BY <1>0, <2>1 DEF TaskInv, OneCopyOf, With, TaskOf
  <2>3. brQueue' \in Seq(BrMessages) /\ Distinct(brQueue')
    BY <1>0, <1>16, <2>1, <2>2, QueueGrows DEF BrRetry
  <2>4. brRecord' = [brRecord EXCEPT ![TaskOf(w)] = [status |-> "retrying", retries |-> brRecord[TaskOf(w)].retries + 1]]
        /\ brRecord[TaskOf(w)].retries + 1 \in 0..BrMaxRetries
    BY <1>0, <1>16, <2>1, BrAssumption DEF BrRetry, BrTypes, MayRetry
  <2> QED BY <1>0, <1>16, <2>1, <2>3, <2>4 DEF BrTypes, BrRetry, Free, brTold, BrSteps
<1>17. ASSUME NEW w \in BrWorkers, BrGiveUp(w) PROVE BrTypes'
  BY <1>0, <1>17 DEF BrTypes, BrGiveUp, At, Goes, brBroker, brTold, BrSteps
<1>18. ASSUME NEW w \in BrWorkers, BrDeadLetter(w) PROVE BrTypes'
  <2>1. TaskOf(w) \in BrTasks
    BY <1>0, <1>18, WorkerHolds DEF BrDeadLetter, At
  <2>2. brResults' \in Seq(BrOutcome)
    BY <1>0, <1>18, <2>1, ResultsGrow DEF BrDeadLetter, Ended, BrTypes
  <2>3. \E s \in {"dead_lettered", "none"} : brRecord' = [brRecord EXCEPT ![TaskOf(w)].status = s]
    BY <1>18 DEF BrDeadLetter
  <2>4. /\ brWorker' = [brWorker EXCEPT ![w].pc = "nack"] /\ brWorker[w].pc = "dead"
        /\ brPending' \subseteq brPending /\ brOvertaken' \subseteq brOvertaken \cup {TaskOf(w)}
        /\ UNCHANGED <<brQueue, brDead, brHand, brSend, brUp, brStored, brRuns, brCrashes>>
    BY <1>18 DEF BrDeadLetter, Goes, At, Overtakes
  <2>5. brFaults' \in Nat /\ brGone' \subseteq BrTasks /\ brAsked' \subseteq BrTasks
    BY <1>0, <1>18, <2>1 DEF BrDeadLetter, BrTypes
  <2>6. /\ brRecord' \in [BrTasks -> [status : {"none", "sent", "queued", "received", "accepted",
                                              "retrying", "failed", "dead_lettered"},
                                    retries : 0..BrMaxRetries]]
    BY <1>0, <2>1, <2>3, ZenonT(60) DEF BrTypes
  <2>7. /\ brWorker' \in [BrWorkers -> [pc : BrSteps, task : BrTasks \cup {"none"}]]
        /\ \A v \in BrWorkers : brWorker'[v].pc = "idle" <=> brWorker'[v].task = "none"
    BY <1>0, <2>4 DEF BrTypes, BrSteps
  <2> QED BY <1>0, <2>1, <2>2, <2>4, <2>5, <2>6, <2>7 DEF BrTypes
<1>19. ASSUME NEW w \in BrWorkers, BrNack(w) PROVE BrTypes'
  BY <1>0, <1>19, WorkerHolds DEF BrTypes, BrNack, At, Free, TaskOf, brTold, BrSteps, BrMessages
<1>20. CASE BrCrash
  <2>1. brQueue' \in Seq(BrMessages) /\ Distinct(brQueue')
    BY <1>0, <1>20, CrashQueue DEF BrCrash, TaskInv
  <2>2. 0 \in 0..BrMaxRetries
    BY BrAssumption
  <2>3. /\ brRecord' = [t \in BrTasks |-> [status |-> "none", retries |-> 0]]
        /\ brWorker' = [w \in BrWorkers |-> [pc |-> "idle", task |-> "none"]]
    BY <1>20 DEF BrCrash, Free, NoRecord
  <2>4. /\ brSend' \in [BrTasks -> {"new", "publish", "register", "status", "done"}]
        /\ brCrashes' \in Nat /\ brHand' = <<>> /\ brPending' = {} /\ brUp' = FALSE
        /\ brGone' \subseteq BrTasks
    BY <1>0, <1>20 DEF BrCrash, BrTypes
  <2>5. UNCHANGED <<brDead, brResults, brStored, brRuns, brAsked, brOvertaken, brFaults>>
    BY <1>20 DEF BrCrash
  <2> QED BY <1>0, <2>1, <2>2, <2>3, <2>4, <2>5 DEF BrTypes, BrSteps
<1>21. CASE BrRestart
  BY <1>0, <1>21 DEF BrTypes, BrRestart, brBroker, brTold
<1> QED BY <1>1, <1>2, <1>3, <1>4, <1>5, <1>6, <1>7, <1>8, <1>9, <1>10, <1>11, <1>12, <1>13, <1>14,
           <1>15, <1>16, <1>17, <1>18, <1>19, <1>20, <1>21 DEF BrNext, BrWork, BrSending

\* A step that leaves alone what the invariant says of a task.
Same(t) ==
  /\ OnQueue(t)' <=> OnQueue(t)
  /\ InHand(t)' <=> InHand(t)
  /\ \A w \in BrWorkers : /\ With(w, t)' <=> With(w, t)
                          /\ With(w, t) => brWorker'[w].pc = brWorker[w].pc
  /\ brSend'[t] = brSend[t] /\ brRecord'[t] = brRecord[t] /\ brRuns'[t] = brRuns[t]
  /\ t \in brPending' <=> t \in brPending
  /\ t \in brAsked' <=> t \in brAsked
  /\ t \in brOvertaken' <=> t \in brOvertaken
  /\ t \in brGone' <=> t \in brGone
  /\ brFaults' >= brFaults /\ brCrashes' >= brCrashes

LEMMA SameTaskInv ==
  ASSUME BrTypes, BrTypes', NEW t \in BrTasks, TaskInv(t), Same(t)
  PROVE  TaskInv(t)'
<1>1. brFaults \in Nat /\ brFaults' \in Nat /\ brCrashes \in Nat /\ brCrashes' \in Nat /\ brRuns[t] \in Nat
  BY DEF BrTypes
<1>2. Copied(t)' <=> Copied(t)
  BY DEF Same, Copied
<1>3. Tracked(t)' <=> Tracked(t)
  BY DEF Same, Tracked
<1>4. OneCopyOf(t)'
  BY DEF Same, OneCopyOf, TaskInv
<1>5. SentSoFar(t)'
  BY <1>1, <1>2, <1>3 DEF Same, SentSoFar, TaskInv
<1>6. DoneSoFar(t)'
  BY <1>3 DEF Same, DoneSoFar, TaskInv
<1>7. RunSoFar(t)'
  <2>1. ToDo(t)' <=> ToDo(t)
    BY <1>3 DEF Same, ToDo
  <2> QED BY <1>1, <2>1 DEF Same, RunSoFar, TaskInv
<1>8. SettledSoFar(t)'
  <2>1. Past(t)' <=> Past(t)
    BY <1>2 DEF Same, Past
  <2> QED BY <1>3, <2>1 DEF Same, SettledSoFar, TaskInv
<1> QED BY <1>4, <1>5, <1>6, <1>7, <1>8 DEF TaskInv

LEMMA NoneIsFew == \A n, m : n = 0 /\ m \in Nat => n <= m /\ n <= 1 + m
OBVIOUS

\* Dispatch of a task, step by step.
LEMMA TaskInvSending ==
  ASSUME BrInv, BrTypes', NEW t \in BrTasks,
         BrDispatch(t) \/ BrPublish(t) \/ BrPublishLost(t) \/ BrRegister(t) \/ BrStatus(t)
  PROVE  \A u \in BrTasks : TaskInv(u)'
<1>0. BrTypes /\ \A u \in BrTasks : TaskInv(u)
  BY DEF BrInv
<1>1. /\ brSend' \in [BrTasks -> {"new", "publish", "register", "status", "done"}]
      /\ brFaults \in Nat /\ brCrashes \in Nat
  BY <1>0 DEF BrTypes
<1> USE DEF brBroker, brTold
<1>2. CASE BrDispatch(t)
  <2>1. \A u \in BrTasks \ {t} : Same(u)
    BY <1>0, <1>1, <1>2 DEF BrDispatch, BrTypes, Same, OnQueue, InHand, With
  <2>2. TaskInv(t)'
    <3>1. Tracked(t)' /\ brSend'[t] = "publish" /\ brSend[t] = "new"
      BY <1>0, <1>2 DEF BrDispatch, BrTypes, Tracked
    <3>2. ~OnQueue(t) /\ ~InHand(t) /\ (\A w \in BrWorkers : ~With(w, t)) /\ brRuns[t] = 0 /\ t \notin brAsked
      BY <1>0, <3>1 DEF TaskInv, SentSoFar, Copied
    <3>3. /\ ~OnQueue(t)' /\ ~InHand(t)' /\ (\A w \in BrWorkers : ~With(w, t)') /\ brRuns'[t] = 0
          /\ t \notin brAsked' /\ brFaults' \in Nat
      BY <1>1, <1>2, <3>2 DEF BrDispatch, OnQueue, InHand, With
    <3> QED BY <3>1, <3>3 DEF TaskInv, OneCopyOf, SentSoFar, DoneSoFar, RunSoFar, SettledSoFar, ToDo, Past, Copied
  <2> QED BY <1>0, <2>1, <2>2, SameTaskInv
<1>3. CASE BrPublish(t)
  <2>1. brSend[t] = "publish" /\ brSend'[t] = "register" /\ Tracked(t)' /\ Tracked(t)
    BY <1>0, <1>3 DEF BrPublish, BrTypes, TaskInv, SentSoFar, Tracked
  <2>2. ~OnQueue(t) /\ ~InHand(t) /\ (\A w \in BrWorkers : ~With(w, t)) /\ brRuns[t] = 0 /\ t \notin brAsked
    BY <1>0, <2>1 DEF TaskInv, SentSoFar, Copied
  <2>3. \A u \in BrTasks : OnQueue(u)' <=> OnQueue(u) \/ u = t
    BY <1>0, <1>3, <2>2, QueueGrows DEF BrPublish, OnQueue
  <2>4. \A u \in BrTasks \ {t} : Same(u)
    BY <1>0, <1>1, <1>3, <2>3 DEF BrPublish, BrTypes, Same, InHand, With
  <2>5. TaskInv(t)'
    <3>1. /\ OnQueue(t)' /\ ~InHand(t)' /\ (\A w \in BrWorkers : ~With(w, t)') /\ brRuns'[t] = 0
          /\ t \notin brAsked' /\ brFaults' \in Nat
      BY <1>1, <1>3, <2>2, <2>3 DEF BrPublish, InHand, With
    <3>2. OneCopyOf(t)' /\ DoneSoFar(t)'
      BY <3>1 DEF OneCopyOf, DoneSoFar
    <3>3. SentSoFar(t)' /\ SettledSoFar(t)'
      BY <2>1, <3>1 DEF SentSoFar, SettledSoFar, Past, Copied
    <3>4. RunSoFar(t)'
      <4>1. brRuns'[t] = 0 /\ brFaults' \in Nat
        BY <3>1
      <4>2. brRuns'[t] <= brFaults' /\ brRuns'[t] <= 1 + brFaults'
        BY <4>1, NoneIsFew
      <4> QED BY <3>1, <4>2 DEF RunSoFar
    <3> QED BY <3>2, <3>3, <3>4 DEF TaskInv
  <2> QED BY <1>0, <2>4, <2>5, SameTaskInv
<1>4. CASE BrPublishLost(t)
  <2>1. brSend[t] = "publish" /\ brSend'[t] = "register" /\ Tracked(t)' /\ Tracked(t)
    BY <1>0, <1>4 DEF BrPublishLost, BrTypes, TaskInv, SentSoFar, Tracked
  <2>2. ~OnQueue(t) /\ ~InHand(t) /\ (\A w \in BrWorkers : ~With(w, t)) /\ brRuns[t] = 0 /\ t \notin brAsked
    BY <1>0, <2>1 DEF TaskInv, SentSoFar, Copied
  <2>3. \A u \in BrTasks \ {t} : Same(u)
    BY <1>0, <1>1, <1>4 DEF BrPublishLost, BrTypes, Same, OnQueue, InHand, With
  <2>4. TaskInv(t)'
    <3>1. /\ ~OnQueue(t)' /\ ~InHand(t)' /\ (\A w \in BrWorkers : ~With(w, t)') /\ brRuns'[t] = 0
          /\ t \notin brAsked' /\ brFaults' \in Nat /\ t \in brGone'
      BY <1>1, <1>4, <2>2 DEF BrPublishLost, OnQueue, InHand, With
    <3>2. OneCopyOf(t)' /\ DoneSoFar(t)'
      BY <3>1 DEF OneCopyOf, DoneSoFar
    <3>3. SentSoFar(t)' /\ SettledSoFar(t)'
      BY <2>1, <3>1 DEF SentSoFar, SettledSoFar, Past, Copied
    <3>4. RunSoFar(t)'
      <4>1. brRuns'[t] = 0 /\ brFaults' \in Nat
        BY <3>1
      <4>2. brRuns'[t] <= brFaults' /\ brRuns'[t] <= 1 + brFaults'
        BY <4>1, NoneIsFew
      <4> QED BY <3>1, <4>2 DEF RunSoFar
    <3> QED BY <3>2, <3>3, <3>4 DEF TaskInv
  <2> QED BY <1>0, <2>3, <2>4, SameTaskInv
<1>5. CASE BrRegister(t) \/ BrStatus(t)
  <2>1. /\ brSend[t] \in {"register", "status"} /\ brSend'[t] \in {"status", "done"} /\ Tracked(t)' /\ Tracked(t)
        /\ UNCHANGED <<brQueue, brHand, brWorker, brRuns, brAsked, brOvertaken, brGone, brFaults, brCrashes>>
    BY <1>0, <1>5 DEF BrRegister, BrStatus, BrTypes, TaskInv, SentSoFar, Tracked
  <2>2. \A u \in BrTasks \ {t} : Same(u)
    BY <1>0, <1>1, <1>5, <2>1 DEF BrRegister, BrStatus, BrTypes, Same, OnQueue, InHand, With
  <2>3. TaskInv(t)'
    <3>1. /\ (OnQueue(t)' <=> OnQueue(t)) /\ (InHand(t)' <=> InHand(t)) /\ (Copied(t)' <=> Copied(t))
          /\ \A w \in BrWorkers : (With(w, t)' <=> With(w, t)) /\ brWorker'[w].pc = brWorker[w].pc
      BY <2>1 DEF OnQueue, InHand, With, Copied
    <3>2. Past(t)' => Past(t)
      BY <2>1, <3>1 DEF Past
    <3>3. SettledSoFar(t)'
      BY <1>0, <2>1, <3>1, <3>2 DEF TaskInv, SettledSoFar
    <3>4. OneCopyOf(t)' /\ SentSoFar(t)' /\ DoneSoFar(t)'
      BY <1>0, <2>1, <3>1 DEF TaskInv, OneCopyOf, SentSoFar, DoneSoFar
    <3>5. RunSoFar(t)'
      <4>1. ToDo(t)' <=> ToDo(t)
        BY <2>1, <3>1 DEF ToDo
      <4> QED BY <1>0, <2>1, <4>1 DEF TaskInv, RunSoFar
    <3> QED BY <3>3, <3>4, <3>5 DEF TaskInv
  <2> QED BY <1>0, <2>2, <2>3, SameTaskInv
<1> QED BY <1>2, <1>3, <1>4, <1>5

\* A worker goes on with the task it holds.
LEMMA TaskInvWorking ==
  ASSUME BrInv, BrTypes', NEW w \in BrWorkers, NEW t \in BrTasks, NEW p \in BrSteps \ {"idle"},
         With(w, t), Goes(w, p), UNCHANGED <<brQueue, brHand, brSend>>,
         \A u \in BrTasks \ {t} :
           /\ brRecord'[u] = brRecord[u] /\ brRuns'[u] = brRuns[u]
           /\ u \in brPending' <=> u \in brPending
           /\ u \in brAsked' <=> u \in brAsked
           /\ u \in brOvertaken' <=> u \in brOvertaken
           /\ u \in brGone' <=> u \in brGone,
         brFaults' >= brFaults, brCrashes' = brCrashes,
         Tracked(t)' <=> Tracked(t),
         p \in {"run", "accept", "ack", "retry"} => Tracked(t),
         p \in {"accept", "ack"} => t \in brAsked',
         p = "nack" => t \in brAsked' \cup brGone',
         Tracked(t) /\ p \in {"confirm", "run", "retry", "dead"} => brRuns'[t] <= brFaults' /\ t \notin brAsked',
         brRuns'[t] <= 1 + brFaults',
         Tracked(t) /\ p \in {"ack", "nack"} /\ t \notin brGone' =>
           \/ t \in brOvertaken'
           \/ /\ brSend[t] = "done" /\ t \notin brPending'
              /\ brRecord'[t].status \in {"accepted", "dead_lettered"}
  PROVE  \A u \in BrTasks : TaskInv(u)'
<1>0. BrTypes /\ \A u \in BrTasks : TaskInv(u)
  BY DEF BrInv
<1>1. /\ \A v \in BrWorkers, u \in BrTasks : With(v, u)' <=> With(v, u)
      /\ brWorker'[w].pc = p
      /\ \A v \in BrWorkers \ {w} : brWorker'[v] = brWorker[v]
  BY <1>0, SMTT(30) DEF BrTypes, Goes, With
<1>2. \A u \in BrTasks : (OnQueue(u)' <=> OnQueue(u)) /\ (InHand(u)' <=> InHand(u)) /\ (Copied(u)' <=> Copied(u))
  BY <1>1 DEF OnQueue, InHand, Copied
<1>3. \A u \in BrTasks \ {t} : ~With(w, u)
  BY DEF With
<1>4. \A u \in BrTasks \ {t} : Same(u)
  <2>1. brCrashes' >= brCrashes
    BY <1>0 DEF BrTypes
  <2> QED BY <1>1, <1>2, <1>3, <2>1 DEF Same
<1>5. TaskInv(t)'
  <2>1. /\ ~OnQueue(t) /\ ~InHand(t) /\ Copied(t) /\ (\A v \in BrWorkers : With(v, t) => v = w)
        /\ brSend[t] \notin {"new", "publish"}
    BY <1>0 DEF TaskInv, OneCopyOf, SentSoFar, Copied
  <2>2. OneCopyOf(t)' /\ DoneSoFar(t)'
    BY <1>1, <1>2, <2>1 DEF OneCopyOf, DoneSoFar
  <2>3. SentSoFar(t)'
    BY <1>0, <1>2, <2>1 DEF TaskInv, SentSoFar
  <2>4. ToDo(t)' => Tracked(t) /\ p \in {"confirm", "run", "retry", "dead"}
    BY <1>1, <1>2, <2>1 DEF ToDo
  <2>5. Past(t)' => p \in {"ack", "nack"}
    BY <1>1, <1>2, <2>1 DEF Past
  <2> QED BY <2>2, <2>3, <2>4, <2>5 DEF TaskInv, RunSoFar, SettledSoFar
<1> QED BY <1>0, <1>4, <1>5, SameTaskInv

LEMMA TaskInvWorker ==
  ASSUME BrInv, BrTypes', NEW w \in BrWorkers,
         \/ BrConfirm(w) \/ BrRun(w) \/ BrRunFails(w) \/ BrAccept(w) \/ BrGiveUp(w) \/ BrDeadLetter(w)
  PROVE  \A u \in BrTasks : TaskInv(u)'
<1> PICK t : t = TaskOf(w)
  OBVIOUS
<1>0. BrTypes /\ \A u \in BrTasks : TaskInv(u)
  BY DEF BrInv
<1>1. t \in BrTasks /\ With(w, t) /\ brWorker[w].pc # "idle" /\ TaskInv(t)
  <2>1. brWorker[w].pc # "idle"
    BY DEF BrConfirm, BrRun, BrRunFails, BrAccept, BrGiveUp, BrDeadLetter, At
  <2> QED BY <1>0, <2>1, WorkerHolds DEF With, TaskOf
<1>2. /\ brFaults \in Nat /\ brRuns[t] \in Nat /\ brCrashes \in Nat
      /\ brRuns[t] <= 1 + brFaults
  BY <1>0, <1>1 DEF BrTypes, TaskInv, RunSoFar
<1>3. brWorker[w].pc \in {"confirm", "run", "retry", "dead"} /\ Tracked(t) => brRuns[t] <= brFaults /\ t \notin brAsked
  BY <1>1 DEF TaskInv, RunSoFar, ToDo
<1>4. /\ brWorker[w].pc \in {"run", "accept", "ack", "retry"} => Tracked(t)
      /\ brWorker[w].pc \in {"accept", "ack"} => t \in brAsked
  BY <1>1 DEF TaskInv, DoneSoFar
<1>5. brSend[t] \in {"register", "status", "done"}
  BY <1>0, <1>1 DEF BrTypes, TaskInv, SentSoFar, Copied
<1>6. ASSUME BrConfirm(w) PROVE \A u \in BrTasks : TaskInv(u)'
  <2>1. PICK p \in {"run", "dead"} : Goes(w, p) /\ (p = "run" => Tracked(t)) /\ brWorker[w].pc = "confirm"
    BY <1>6 DEF BrConfirm, At
  <2>2. /\ Tracked(t)' <=> Tracked(t)
        /\ \A u \in BrTasks \ {t} : brRecord'[u] = brRecord[u] /\ (u \in brPending' <=> u \in brPending)
    BY <1>0, <1>1, <1>6, SMTT(30) DEF BrConfirm, BrTypes, Tracked
  <2>3. UNCHANGED <<brQueue, brHand, brSend, brRuns, brAsked, brOvertaken, brGone, brFaults, brCrashes>>
    BY <1>6 DEF BrConfirm, brBroker, brTold
  <2>4. brFaults' >= brFaults
    BY <1>2, <2>3
  <2>5. p \in BrSteps \ {"idle"}
    BY DEF BrSteps
  <2> QED BY <1>1, <1>2, <1>3, <2>1, <2>2, <2>3, <2>4, <2>5, TaskInvWorking
<1>7. ASSUME BrRun(w) PROVE \A u \in BrTasks : TaskInv(u)'
  <2>1. /\ Goes(w, "accept") /\ Tracked(t) /\ brWorker[w].pc = "run" /\ brRuns' = [brRuns EXCEPT ![t] = @ + 1]
        /\ brAsked' = brAsked \cup {t}
    BY <1>4, <1>7 DEF BrRun, At
  <2>2. UNCHANGED <<brQueue, brHand, brSend, brRecord, brPending, brOvertaken, brGone, brFaults, brCrashes>>
    BY <1>7 DEF BrRun
  <2>3. Tracked(t)' <=> Tracked(t)
    BY <2>2 DEF Tracked
  <2>4. brFaults' >= brFaults /\ brRuns'[t] <= 1 + brFaults'
    <3>1. brRuns'[t] = brRuns[t] + 1
      BY <1>0, <1>1, <2>1 DEF BrTypes
    <3>2. brRuns[t] <= brFaults /\ brFaults' = brFaults
      BY <1>3, <2>1, <2>2
    <3> QED BY <1>2, <3>1, <3>2
  <2>5. \A u \in BrTasks \ {t} : brRuns'[u] = brRuns[u] /\ (u \in brAsked' <=> u \in brAsked)
    BY <1>0, <2>1 DEF BrTypes
  <2>6. "accept" \in BrSteps \ {"idle"}
    BY DEF BrSteps
  <2> QED BY <1>1, <2>1, <2>2, <2>3, <2>4, <2>5, <2>6, TaskInvWorking
<1>8. ASSUME BrRunFails(w) PROVE \A u \in BrTasks : TaskInv(u)'
  <2>1. /\ Goes(w, "retry") /\ Tracked(t) /\ brWorker[w].pc = "run" /\ brRuns' = [brRuns EXCEPT ![t] = @ + 1]
        /\ brFaults' = brFaults + 1
    BY <1>4, <1>8 DEF BrRunFails, At
  <2>2. UNCHANGED <<brQueue, brHand, brSend, brRecord, brPending, brAsked, brOvertaken, brGone, brCrashes>>
    BY <1>8 DEF BrRunFails, brBroker
  <2>3. Tracked(t)' <=> Tracked(t)
    BY <2>2 DEF Tracked
  <2>4. brFaults' >= brFaults /\ brRuns'[t] <= 1 + brFaults' /\ brRuns'[t] <= brFaults'
    <3>1. brRuns'[t] = brRuns[t] + 1
      BY <1>0, <1>1, <2>1 DEF BrTypes
    <3>2. brRuns[t] <= brFaults
      BY <1>3, <2>1
    <3> QED BY <1>2, <2>1, <3>1, <3>2
  <2>5. \A u \in BrTasks \ {t} : brRuns'[u] = brRuns[u]
    BY <1>0, <2>1 DEF BrTypes
  <2>6. "retry" \in BrSteps \ {"idle"}
    BY DEF BrSteps
  <2>7. t \notin brAsked'
    BY <1>3, <2>1, <2>2
  <2> QED BY <1>1, <2>1, <2>2, <2>3, <2>4, <2>5, <2>6, <2>7, TaskInvWorking
<1>9. ASSUME BrAccept(w) PROVE \A u \in BrTasks : TaskInv(u)'
  <2>1. /\ Goes(w, "ack") /\ Tracked(t) /\ brWorker[w].pc = "accept" /\ t \in brAsked
        /\ brRecord' = [brRecord EXCEPT ![t].status = "accepted"] /\ brPending' = brPending \ {t}
        /\ brOvertaken' = brOvertaken \cup Overtakes(t)
    BY <1>4, <1>9 DEF BrAccept, At
  <2>2. UNCHANGED <<brQueue, brHand, brSend, brRuns, brAsked, brGone, brFaults, brCrashes>>
    BY <1>9 DEF BrAccept, brBroker
  <2>3. /\ Tracked(t)' <=> Tracked(t)
        /\ brRecord'[t].status = "accepted"
        /\ \A u \in BrTasks \ {t} : brRecord'[u] = brRecord[u]
    BY <1>0, <1>1, <2>1 DEF Tracked, BrTypes
  <2>4. brFaults' >= brFaults /\ brRuns'[t] <= 1 + brFaults'
    BY <1>2, <2>2
  <2>5. /\ t \in brOvertaken' \/ brSend[t] = "done"
        /\ \A u \in BrTasks \ {t} : (u \in brOvertaken' <=> u \in brOvertaken) /\ (u \in brPending' <=> u \in brPending)
        /\ t \notin brPending'
    BY <1>5, <2>1 DEF Overtakes
  <2>6. "ack" \in BrSteps \ {"idle"}
    BY DEF BrSteps
  <2> QED BY <1>1, <2>1, <2>2, <2>3, <2>4, <2>5, <2>6, TaskInvWorking
<1>10. ASSUME BrGiveUp(w) PROVE \A u \in BrTasks : TaskInv(u)'
  <2>1. Goes(w, "dead") /\ Tracked(t) /\ brWorker[w].pc = "retry"
    BY <1>4, <1>10 DEF BrGiveUp, At
  <2>2. UNCHANGED <<brQueue, brHand, brSend, brRecord, brPending, brRuns, brAsked, brOvertaken, brGone, brFaults, brCrashes>>
    BY <1>10 DEF BrGiveUp, brBroker, brTold
  <2>3. Tracked(t)' <=> Tracked(t)
    BY <2>2 DEF Tracked
  <2>4. brFaults' >= brFaults
    BY <1>2, <2>2
  <2>5. "dead" \in BrSteps \ {"idle"}
    BY DEF BrSteps
  <2> QED BY <1>1, <1>2, <1>3, <2>1, <2>2, <2>3, <2>4, <2>5, TaskInvWorking
<1>11. ASSUME BrDeadLetter(w) PROVE \A u \in BrTasks : TaskInv(u)'
  <2>1. /\ Goes(w, "nack") /\ brWorker[w].pc = "dead"
        /\ brRecord' = [brRecord EXCEPT ![t].status = IF Tracked(t) THEN "dead_lettered" ELSE "none"]
        /\ brPending' = brPending \ {t} /\ brOvertaken' = brOvertaken \cup Overtakes(t)
        /\ UNCHANGED <<brQueue, brDead, brHand, brSend, brUp, brStored, brRuns, brCrashes>>
    BY <1>11 DEF BrDeadLetter, At
  <2>2. /\ t \in brAsked' \cup brGone'
        /\ \A u \in BrTasks \ {t} : (u \in brAsked' <=> u \in brAsked) /\ (u \in brGone' <=> u \in brGone)
        /\ brFaults' = brFaults \/ brFaults' = brFaults + 1
    BY <1>11 DEF BrDeadLetter
  <2>3. /\ Tracked(t)' <=> Tracked(t)
        /\ Tracked(t) => brRecord'[t].status = "dead_lettered"
        /\ \A u \in BrTasks \ {t} : brRecord'[u] = brRecord[u]
    BY <1>0, <1>1, <2>1 DEF Tracked, BrTypes
  <2>4. brFaults' >= brFaults /\ brRuns'[t] <= 1 + brFaults'
    <3>1. brRuns'[t] = brRuns[t]
      BY <2>1
    <3>2. brFaults' = brFaults \/ brFaults' = brFaults + 1
      BY <2>2
    <3> QED BY <1>2, <3>1, <3>2
  <2>5. /\ t \in brOvertaken' \/ brSend[t] = "done"
        /\ \A u \in BrTasks \ {t} : (u \in brOvertaken' <=> u \in brOvertaken) /\ (u \in brPending' <=> u \in brPending)
        /\ t \notin brPending'
    BY <1>5, <2>1 DEF Overtakes
  <2>6. "nack" \in BrSteps \ {"idle"}
    BY DEF BrSteps
  <2>7. UNCHANGED <<brQueue, brHand, brSend>> /\ brCrashes' = brCrashes /\ \A u \in BrTasks \ {t} : brRuns'[u] = brRuns[u]
    BY <2>1
  <2> QED BY <1>1, <2>1, <2>2, <2>3, <2>4, <2>5, <2>6, <2>7, TaskInvWorking
<1> QED BY <1>6, <1>7, <1>8, <1>9, <1>10, <1>11

\* A worker is free again, its task answered or given up, or back on the queue.
LEMMA TaskInvFreed ==
  ASSUME BrInv, BrTypes', NEW w \in BrWorkers, BrAck(w) \/ BrNack(w) \/ BrRetry(w)
  PROVE  \A u \in BrTasks : TaskInv(u)'
<1> PICK t : t = TaskOf(w)
  OBVIOUS
<1>0. BrTypes /\ \A u \in BrTasks : TaskInv(u)
  BY DEF BrInv
<1>1. t \in BrTasks /\ With(w, t) /\ TaskInv(t)
  <2>1. brWorker[w].pc # "idle"
    BY DEF BrAck, BrNack, BrRetry, At
  <2> QED BY <1>0, <2>1, WorkerHolds DEF With, TaskOf
<1>2. /\ ~OnQueue(t) /\ ~InHand(t) /\ Copied(t) /\ (\A v \in BrWorkers : With(v, t) => v = w)
      /\ brSend[t] \in {"register", "status", "done"}
  BY <1>0, <1>1 DEF BrTypes, TaskInv, OneCopyOf, SentSoFar, Copied
<1>3. /\ \A v \in BrWorkers, u \in BrTasks : With(v, u)' <=> With(v, u) /\ v # w
      /\ \A v \in BrWorkers \ {w} : brWorker'[v] = brWorker[v]
  <2>1. brWorker' = [brWorker EXCEPT ![w] = [pc |-> "idle", task |-> "none"]]
    BY DEF BrAck, BrNack, BrRetry, Free
  <2> QED BY <1>0, <2>1, BrAssumption DEF With, BrTypes
<1>4. \A v \in BrWorkers : ~With(v, t)'
  BY <1>1, <1>2, <1>3
<1>5. /\ UNCHANGED <<brHand, brSend, brPending, brRuns, brAsked, brOvertaken, brGone, brFaults, brCrashes>>
      /\ brFaults' >= brFaults /\ brCrashes' >= brCrashes
  <2>1. UNCHANGED <<brHand, brSend, brPending, brRuns, brAsked, brOvertaken, brGone, brFaults, brCrashes>>
    BY DEF BrAck, BrNack, BrRetry, brBroker, brTold
  <2>2. brFaults \in Int /\ brCrashes \in Int
    BY <1>0 DEF BrTypes
  <2> QED BY <2>1, <2>2
<1>6. \A u \in BrTasks : InHand(u)' <=> InHand(u)
  BY <1>5 DEF InHand
<1>7. \A u \in BrTasks \ {t} : ~With(w, u)
  BY <1>1 DEF With
<1>8. CASE BrAck(w) \/ BrNack(w)
  <2>1. UNCHANGED <<brQueue, brRecord>> /\ brWorker[w].pc \in {"ack", "nack"}
    BY <1>8 DEF BrAck, BrNack, At, brBroker
  <2>2. (\A u \in BrTasks : OnQueue(u)' <=> OnQueue(u)) /\ (Tracked(t)' <=> Tracked(t))
    BY <2>1 DEF OnQueue, Tracked
  <2>3. \A u \in BrTasks \ {t} : Same(u)
    BY <1>3, <1>5, <1>6, <1>7, <2>1, <2>2 DEF Same
  <2>4. ~Copied(t)' /\ Past(t)
    BY <1>1, <1>2, <1>4, <1>6, <2>1, <2>2 DEF Copied, Past
  <2>5. TaskInv(t)'
    <3>1. OneCopyOf(t)' /\ DoneSoFar(t)'
      BY <1>1, <1>2, <1>4, <1>6, <2>2 DEF OneCopyOf, DoneSoFar
    <3>2. t \in brAsked \cup brGone
      BY <1>1, <2>1 DEF TaskInv, DoneSoFar
    <3>3. SentSoFar(t)'
      BY <1>1, <1>2, <1>5, <2>2, <3>2 DEF TaskInv, SentSoFar
    <3>4. ~ToDo(t)'
      BY <1>1, <1>2, <1>4, <1>6, <2>2 DEF ToDo
    <3>5. RunSoFar(t)' /\ SettledSoFar(t)'
      BY <1>1, <1>5, <2>1, <2>2, <2>4, <3>4 DEF TaskInv, RunSoFar, SettledSoFar
    <3> QED BY <3>1, <3>3, <3>5 DEF TaskInv
  <2> QED BY <1>0, <2>3, <2>5, SameTaskInv
<1>9. CASE BrRetry(w)
  <2>1. /\ brQueue' = <<t>> \o brQueue /\ brWorker[w].pc = "retry" /\ Tracked(t)
        /\ brRecord' = [brRecord EXCEPT ![t] = [status |-> "retrying", retries |-> @.retries + 1]]
    BY <1>1, <1>9 DEF BrRetry, At, TaskInv, DoneSoFar
  <2>2. \A u \in BrTasks : OnQueue(u)' <=> OnQueue(u) \/ u = t
    BY <1>0, <1>1, <1>2, <2>1, QueueGrows DEF OnQueue
  <2>3. Tracked(t)' /\ \A u \in BrTasks \ {t} : brRecord'[u] = brRecord[u]
    BY <1>0, <1>1, <2>1 DEF Tracked, BrTypes
  <2>4. \A u \in BrTasks \ {t} : Same(u)
    BY <1>3, <1>5, <1>6, <1>7, <2>2, <2>3 DEF Same
  <2>5. TaskInv(t)'
    <3>1. OneCopyOf(t)' /\ DoneSoFar(t)' /\ Copied(t)'
      BY <1>1, <1>2, <1>4, <1>6, <2>2 DEF OneCopyOf, DoneSoFar, Copied
    <3>2. SentSoFar(t)'
      BY <1>1, <1>2, <1>5, <2>3, <3>1 DEF TaskInv, SentSoFar
    <3>3. ToDo(t) /\ ~Past(t)'
      BY <1>1, <1>4, <2>1, <3>1 DEF ToDo, Past
    <3>4. RunSoFar(t)' /\ SettledSoFar(t)'
      BY <1>1, <1>5, <3>3 DEF TaskInv, RunSoFar, SettledSoFar
    <3> QED BY <3>1, <3>2, <3>4 DEF TaskInv
  <2> QED BY <1>0, <2>4, <2>5, SameTaskInv
<1> QED BY <1>8, <1>9

\* An envelope leaves the queue: to the stream's hand, or expired; or a
\* message nobody dispatched is refused.
LEMMA TaskInvQueue ==
  ASSUME BrInv, BrTypes', BrPush \/ BrRefuse \/ BrExpire
  PROVE  \A u \in BrTasks : TaskInv(u)'
<1> PICK t : t = Head(brQueue)
  OBVIOUS
<1>0. BrTypes /\ \A u \in BrTasks : TaskInv(u)
  BY DEF BrInv
<1>1. /\ \A u \in BrTasks : OnQueue(u)' <=> OnQueue(u) /\ u # t
      /\ t \in BrTasks => OnQueue(t)
  <2>1. brQueue # <<>> /\ brQueue' = Tail(brQueue)
    BY DEF BrPush, BrRefuse, BrExpire
  <2>2. Has(brQueue, t) /\ \A y : Has(brQueue', y) <=> Has(brQueue, y) /\ y # t
    BY <1>0, <2>1, QueueTaken
  <2> QED BY <2>2 DEF OnQueue
<1>2. /\ UNCHANGED <<brWorker, brSend, brRecord, brPending, brRuns, brAsked, brOvertaken, brFaults, brCrashes>>
      /\ brFaults' >= brFaults /\ brCrashes' >= brCrashes
  <2>1. UNCHANGED <<brWorker, brSend, brRecord, brPending, brRuns, brAsked, brOvertaken, brFaults, brCrashes>>
    BY DEF BrPush, BrRefuse, BrExpire, brTold
  <2>2. brFaults \in Int /\ brCrashes \in Int
    BY <1>0 DEF BrTypes
  <2> QED BY <2>1, <2>2
<1>3. \A w \in BrWorkers, u \in BrTasks : (With(w, u)' <=> With(w, u)) /\ brWorker'[w] = brWorker[w]
  BY <1>2 DEF With
<1>4. \A u \in BrTasks : Tracked(u)' <=> Tracked(u)
  BY <1>2 DEF Tracked
<1>5. CASE BrPush
  <2>1. t \in BrTasks /\ brHand = <<>> /\ brHand' = <<t>> /\ brGone' = brGone
    BY <1>5 DEF BrPush, brTold
  <2>2. \A u \in BrTasks : ~InHand(u) /\ (InHand(u)' <=> u = t)
    BY <2>1 DEF InHand
  <2>3. \A u \in BrTasks \ {t} : Same(u)
    BY <1>1, <1>2, <1>3, <2>1, <2>2 DEF Same
  <2>4. TaskInv(t) /\ OnQueue(t) /\ Copied(t) /\ InHand(t)' /\ ~OnQueue(t)' /\ Copied(t)'
    BY <1>0, <1>1, <2>1, <2>2 DEF Copied
  <2>5. \A w \in BrWorkers : ~With(w, t) /\ ~With(w, t)'
    BY <1>3, <2>1, <2>4 DEF TaskInv, OneCopyOf
  <2>6. TaskInv(t)'
    <3>1. OneCopyOf(t)' /\ DoneSoFar(t)'
      BY <2>4, <2>5 DEF OneCopyOf, DoneSoFar
    <3>2. SentSoFar(t)'
      BY <1>2, <1>4, <2>1, <2>4 DEF TaskInv, SentSoFar
    <3>3. (ToDo(t)' => ToDo(t)) /\ ~Past(t)'
      BY <1>4, <2>1, <2>4, <2>5 DEF ToDo, Past
    <3> QED BY <1>2, <2>4, <3>1, <3>2, <3>3 DEF TaskInv, RunSoFar, SettledSoFar
  <2> QED BY <1>0, <2>3, <2>6, SameTaskInv
<1>6. CASE BrRefuse
  <2>1. t \notin BrTasks /\ brHand' = brHand /\ brGone' = brGone
    BY <1>6, BrAssumption DEF BrRefuse, brTold
  <2>2. \A u \in BrTasks : Same(u)
    BY <1>1, <1>2, <1>3, <2>1 DEF Same, InHand
  <2> QED BY <1>0, <2>2, SameTaskInv
<1>7. CASE BrExpire
  <2>1. t \in BrTasks /\ brHand' = brHand /\ brGone' = brGone \cup {t}
    BY <1>7 DEF BrExpire
  <2>2. \A u \in BrTasks \ {t} : Same(u)
    BY <1>1, <1>2, <1>3, <2>1 DEF Same, InHand
  <2>3. TaskInv(t) /\ OnQueue(t) /\ Copied(t) /\ ~InHand(t)' /\ ~OnQueue(t)' /\ \A w \in BrWorkers : ~With(w, t) /\ ~With(w, t)'
    BY <1>0, <1>1, <1>3, <2>1 DEF Copied, TaskInv, OneCopyOf, InHand
  <2>4. TaskInv(t)'
    <3>1. OneCopyOf(t)' /\ DoneSoFar(t)' /\ ~ToDo(t)' /\ ~Copied(t)'
      BY <2>3 DEF OneCopyOf, DoneSoFar, ToDo, Copied
    <3>2. SentSoFar(t)'
      BY <1>2, <1>4, <2>1, <2>3 DEF TaskInv, SentSoFar
    <3> QED BY <1>2, <2>1, <2>3, <3>1, <3>2 DEF TaskInv, RunSoFar, SettledSoFar
  <2> QED BY <1>0, <2>2, <2>4, SameTaskInv
<1> QED BY <1>5, <1>6, <1>7

LEMMA TaskInvHandOver ==
  ASSUME BrInv, BrTypes', NEW w \in BrWorkers, BrHandOver(w)
  PROVE  \A u \in BrTasks : TaskInv(u)'
<1>0. BrTypes /\ \A u \in BrTasks : TaskInv(u)
  BY DEF BrInv
<1>1. PICK t \in BrTasks : brHand = <<t>>
  BY <1>0 DEF BrHandOver, BrTypes
<1>2. /\ brWorker' = [brWorker EXCEPT ![w] = [pc |-> "confirm", task |-> t]] /\ brHand' = <<>>
      /\ brWorker[w].pc = "idle" /\ brWorker[w].task = "none"
      /\ UNCHANGED <<brQueue, brSend, brRecord, brPending, brRuns, brAsked, brOvertaken, brGone, brFaults, brCrashes>>
  BY <1>0, <1>1 DEF BrHandOver, brBroker, brTold, BrTypes
<1>3. brFaults' >= brFaults /\ brCrashes' >= brCrashes
  <2>1. brFaults \in Int /\ brCrashes \in Int /\ brFaults' = brFaults /\ brCrashes' = brCrashes
    BY <1>0, <1>2 DEF BrTypes
  <2> QED BY <2>1
<1>4. /\ \A u \in BrTasks : (OnQueue(u)' <=> OnQueue(u)) /\ (InHand(u) <=> u = t) /\ ~InHand(u)' /\ (Tracked(u)' <=> Tracked(u))
      /\ \A v \in BrWorkers, u \in BrTasks : With(v, u)' <=> With(v, u) \/ (v = w /\ u = t)
      /\ \A v \in BrWorkers \ {w} : brWorker'[v] = brWorker[v]
      /\ brWorker'[w].pc = "confirm" /\ \A u \in BrTasks : ~With(w, u)
  BY <1>0, <1>1, <1>2, BrAssumption DEF OnQueue, InHand, Tracked, With, BrTypes
<1>5. \A u \in BrTasks \ {t} : Same(u)
  BY <1>2, <1>3, <1>4 DEF Same
<1>6. TaskInv(t)'
  <2>1. TaskInv(t) /\ InHand(t) /\ Copied(t) /\ ~OnQueue(t) /\ \A v \in BrWorkers : ~With(v, t)
    BY <1>0, <1>4 DEF TaskInv, OneCopyOf, Copied
  <2>2. With(w, t)' /\ (\A v \in BrWorkers \ {w} : ~With(v, t)') /\ ~OnQueue(t)' /\ ~InHand(t)' /\ Copied(t)'
    BY <1>4, <2>1 DEF Copied
  <2>3. OneCopyOf(t)' /\ DoneSoFar(t)'
    BY <1>4, <2>2 DEF OneCopyOf, DoneSoFar
  <2>4. SentSoFar(t)'
    BY <1>2, <1>4, <2>1, <2>2 DEF TaskInv, SentSoFar
  <2>5. (ToDo(t)' => ToDo(t)) /\ ~Past(t)'
    BY <1>4, <2>1, <2>2 DEF ToDo, Past
  <2> QED BY <1>2, <2>1, <2>3, <2>4, <2>5 DEF TaskInv, RunSoFar, SettledSoFar
<1> QED BY <1>0, <1>5, <1>6, SameTaskInv

\* A crash: every copy is on the queue again and no record is left.
LEMMA TaskInvCrash ==
  ASSUME BrInv, BrTypes', BrCrash
  PROVE  \A u \in BrTasks : TaskInv(u)'
<1>0. BrTypes /\ \A u \in BrTasks : TaskInv(u)
  BY DEF BrInv
<1> SUFFICES ASSUME NEW t \in BrTasks PROVE TaskInv(t)'
  OBVIOUS
<1>1. OnQueue(t)' <=> Copied(t)
  <2>1. PICK back \in Orders(Unfinished) : brQueue' = back \o brQueue
    BY DEF BrCrash
  <2> QED BY <1>0, <2>1, CrashQueue DEF TaskInv, OnQueue
<1>2. ~InHand(t)' /\ ~Tracked(t)' /\ \A w \in BrWorkers : ~With(w, t)'
  BY BrAssumption DEF BrCrash, InHand, Tracked, With, Free, NoRecord
<1>3. Copied(t)' <=> Copied(t)
  BY <1>1, <1>2 DEF Copied
<1>4. /\ brSend'[t] = (IF brSend[t] = "new" THEN "new" ELSE "done")
      /\ brSend[t] = "publish" => t \in brGone'
      /\ t \in brGone => t \in brGone'
      /\ brCrashes' = brCrashes + 1 /\ brRuns' = brRuns /\ brAsked' = brAsked /\ brFaults' = brFaults
  BY DEF BrCrash
<1>5. brCrashes' > 0
  <2>1. brCrashes \in Nat /\ brCrashes' = brCrashes + 1
    BY <1>0, <1>4 DEF BrTypes
  <2> QED BY <2>1
<1>6. OneCopyOf(t)' /\ DoneSoFar(t)' /\ ~ToDo(t)'
  BY <1>2 DEF OneCopyOf, DoneSoFar, ToDo
<1>7. brSend[t] \in {"new", "publish", "register", "status", "done"} /\ TaskInv(t)
  BY <1>0 DEF BrTypes
<1>8. SentSoFar(t)'
  BY <1>2, <1>3, <1>4, <1>5, <1>7 DEF TaskInv, SentSoFar
<1> QED BY <1>2, <1>4, <1>6, <1>7, <1>8 DEF TaskInv, RunSoFar, SettledSoFar

LEMMA TaskInvNext ==
  ASSUME BrInv, BrTypes', BrNext
  PROVE  \A u \in BrTasks : TaskInv(u)'
<1>0. BrTypes /\ \A u \in BrTasks : TaskInv(u)
  BY DEF BrInv
<1>1. ASSUME BrResult \/ BrRestart PROVE \A u \in BrTasks : TaskInv(u)'
  <2>1. UNCHANGED <<brQueue, brHand, brWorker, brSend, brRecord, brPending, brRuns, brAsked, brOvertaken, brGone,
                    brFaults, brCrashes>>
    BY <1>1 DEF BrResult, BrRestart, brBroker, brTold
  <2>2. brFaults \in Int /\ brCrashes \in Int
    BY <1>0 DEF BrTypes
  <2>3. brFaults' >= brFaults /\ brCrashes' >= brCrashes
    BY <2>1, <2>2
  <2>4. \A u \in BrTasks : Same(u)
    BY <2>1, <2>3 DEF Same, OnQueue, InHand, With
  <2> QED BY <1>0, <2>4, SameTaskInv
<1> QED BY <1>1, TaskInvSending, TaskInvQueue, TaskInvHandOver, TaskInvWorker, TaskInvFreed, TaskInvCrash
        DEF BrNext, BrWork, BrSending

\* Results are published, stored in their order, and outlive a crash.
LEMMA OutcomeNext ==
  ASSUME BrInv, BrTypes', BrNext
  PROVE  OutcomeInv'
<1>0. BrTypes /\ OutcomeInv /\ \A u \in BrTasks : TaskInv(u)
  BY DEF BrInv
<1>1. ASSUME UNCHANGED <<brResults, brStored>>, brAsked \subseteq brAsked', brCrashes' >= brCrashes
      PROVE  OutcomeInv'
  <2>1. brCrashes \in Nat /\ brCrashes' \in Nat /\ brCrashes' >= brCrashes
    BY <1>0, <1>1 DEF BrTypes
  <2>2. brCrashes > 0 => brCrashes' > 0
    BY <2>1
  <2>3. \A o : Late(o) => Late(o)'
    BY <2>2 DEF Late
  <2> QED BY <1>0, <1>1, <2>3 DEF OutcomeInv
<1>2. ASSUME NEW t \in BrTasks, NEW s \in Ended,
             brResults' = Append(brResults, [task |-> t, status |-> s]),
             UNCHANGED <<brStored, brCrashes>>, brAsked' = brAsked \cup {t},
             t \in brAsked => s = "dead_lettered" /\ brCrashes > 0
      PROVE  OutcomeInv'
  <2> PICK n : n = Len(brResults)
    OBVIOUS
  <2>1. /\ n \in Nat /\ Len(brResults') = n + 1 /\ brResults'[n + 1] = [task |-> t, status |-> s]
        /\ \A i \in 1..n : brResults'[i] = brResults[i]
    BY <1>0, <1>2, ResultsGrow, LenProperties DEF BrTypes
  <2>2. \A i \in 1..(n + 1) : i \in 1..n \/ i = n + 1
    BY <2>1
  <2>3. \A i, j \in 1..(n + 1) : i < j => i \in 1..n
    BY <2>1
  <2>4. \A o : Late(o)' <=> Late(o)
    BY <1>2 DEF Late
  <2>5. brResults'[n + 1].task = t /\ (t \in brAsked => Late(brResults'[n + 1]))
    BY <1>2, <2>1 DEF Late
  <2>6. \A u \in BrTasks : brStored'[u] \in Ended => u \in brAsked /\ u \in brAsked'
    BY <1>0, <1>2 DEF OutcomeInv
  <2>7. ASSUME NEW i \in 1..(n + 1)
        PROVE  /\ brResults'[i].task \in brAsked'
               /\ brStored'[brResults'[i].task] \in Ended => Late(brResults'[i])
    <3>1. CASE i \in 1..n
      BY <1>0, <1>2, <2>1, <3>1 DEF OutcomeInv
    <3>2. CASE i = n + 1
      BY <1>2, <2>5, <2>6, <3>2
    <3> QED BY <2>2, <3>1, <3>2
  <2>8. ASSUME NEW i \in 1..(n + 1), NEW j \in 1..(n + 1), i < j, brResults'[i].task = brResults'[j].task
        PROVE  Late(brResults'[j])
    <3>1. i \in 1..n
      BY <2>3, <2>8
    <3>2. brResults'[i] = brResults[i] /\ brResults[i].task \in brAsked
      BY <1>0, <2>1, <3>1 DEF OutcomeInv
    <3>3. CASE j \in 1..n
      BY <1>0, <2>1, <2>8, <3>1, <3>3 DEF OutcomeInv
    <3>4. CASE j = n + 1
      BY <2>5, <2>8, <3>2, <3>4
    <3> QED BY <2>2, <3>3, <3>4
  <2> QED BY <2>1, <2>4, <2>6, <2>7, <2>8 DEF OutcomeInv
<1>3. ASSUME NEW w \in BrWorkers, BrRun(w) PROVE OutcomeInv'
  <2> PICK t : t = TaskOf(w)
    OBVIOUS
  <2>1. t \in BrTasks /\ With(w, t) /\ brWorker[w].pc = "run"
    BY <1>0, <1>3, WorkerHolds DEF BrRun, At, With, TaskOf
  <2>2. t \notin brAsked
    BY <1>0, <2>1 DEF TaskInv, DoneSoFar, RunSoFar, ToDo
  <2>3. PICK s \in {"completed", "failed"} : brResults' = Append(brResults, [task |-> t, status |-> s])
    BY <1>3 DEF BrRun
  <2> QED BY <1>2, <1>3, <2>1, <2>2, <2>3 DEF BrRun, Ended
<1>4. ASSUME NEW w \in BrWorkers, BrDeadLetter(w) PROVE OutcomeInv'
  <2> PICK t : t = TaskOf(w)
    OBVIOUS
  <2>1. t \in BrTasks /\ With(w, t) /\ brWorker[w].pc = "dead"
    BY <1>0, <1>4, WorkerHolds DEF BrDeadLetter, At, With, TaskOf
  <2>2. t \in brAsked => brCrashes > 0
    <3>1. Copied(t) /\ TaskInv(t) /\ (Tracked(t) => t \notin brAsked)
      BY <1>0, <2>1 DEF TaskInv, RunSoFar, ToDo, Copied
    <3>2. ~Tracked(t) => brSend[t] = "done"
      BY <1>0, <2>1, <3>1 DEF TaskInv, SentSoFar, BrTypes
    <3> QED BY <3>1, <3>2 DEF TaskInv, SentSoFar
  <2>3. CASE brResults' = Append(brResults, [task |-> t, status |-> "dead_lettered"]) /\ brAsked' = brAsked \cup {t}
    BY <1>2, <1>4, <2>1, <2>2, <2>3 DEF BrDeadLetter, Ended
  <2>4. CASE UNCHANGED <<brResults, brAsked>>
    BY <1>0, <1>1, <1>4, <2>4 DEF BrDeadLetter, BrTypes
  <2> QED BY <1>4, <2>3, <2>4 DEF BrDeadLetter
<1>5. CASE BrResult
  <2> PICK n : n = Len(brResults)
    OBVIOUS
  <2> PICK h : h = Head(brResults)
    OBVIOUS
  <2>1. /\ n \in Nat /\ n # 0 /\ Len(brResults') = n - 1 /\ h = brResults[1] /\ h \in BrOutcome
        /\ \A i \in 1..(n - 1) : brResults'[i] = brResults[i + 1]
    BY <1>0, <1>5, HeadTailProperties, EmptySeq, LenProperties DEF BrTypes, BrResult
  <2>2. /\ brStored' = [brStored EXCEPT ![h.task] = h.status] /\ h.task \in BrTasks
        /\ brAsked' = brAsked /\ brCrashes' = brCrashes
    BY <1>5, <2>1 DEF BrResult, BrOutcome
  <2>3. \A i \in 1..(n - 1) : i + 1 \in 1..n /\ 1 \in 1..n /\ 1 < i + 1
    BY <2>1
  <2>4. h.task \in brAsked
    <3>1. 1 \in 1..n
      BY <2>1
    <3> QED BY <1>0, <2>1, <3>1 DEF OutcomeInv
  <2>5. \A u \in BrTasks : brStored'[u] \in Ended => u \in brAsked
    BY <1>0, <2>2, <2>4 DEF OutcomeInv, BrTypes
  <2>6. ASSUME NEW i \in 1..(n - 1)
        PROVE  /\ brResults'[i].task \in brAsked
               /\ brStored'[brResults'[i].task] \in Ended => Late(brResults'[i])
    <3>1. brResults'[i] = brResults[i + 1] /\ i + 1 \in 1..n /\ brResults[i + 1] \in BrOutcome
      BY <1>0, <2>1, <2>3, ElementOfSeq DEF BrTypes
    <3>2. CASE brResults[i + 1].task = h.task
      BY <1>0, <2>1, <2>3, <3>1, <3>2 DEF OutcomeInv
    <3>3. CASE brResults[i + 1].task # h.task
      <4>1. brResults[i + 1].task \in BrTasks
        BY <3>1 DEF BrOutcome
      <4>2. brStored'[brResults[i + 1].task] = brStored[brResults[i + 1].task]
        BY <1>0, <2>2, <3>3, <4>1 DEF BrTypes
      <4> QED BY <1>0, <3>1, <4>2 DEF OutcomeInv
    <3> QED BY <3>2, <3>3
  <2>7. ASSUME NEW i \in 1..(n - 1), NEW j \in 1..(n - 1), i < j, brResults'[i].task = brResults'[j].task
        PROVE  Late(brResults'[j])
    <3>1. i + 1 \in 1..n /\ j + 1 \in 1..n /\ i + 1 < j + 1
      BY <2>1, <2>7
    <3> QED BY <1>0, <2>1, <2>7, <3>1 DEF OutcomeInv
  <2>8. \A o : Late(o)' <=> Late(o)
    BY <2>2 DEF Late
  <2> QED BY <2>1, <2>2, <2>5, <2>6, <2>7, <2>8 DEF OutcomeInv
<1>6. CASE BrCrash
  <2>1. brCrashes' >= brCrashes
    BY <1>0, <1>6 DEF BrCrash, BrTypes
  <2> QED BY <1>1, <1>6, <2>1 DEF BrCrash
<1>7. CASE UNCHANGED <<brResults, brStored, brAsked, brCrashes>>
  BY <1>0, <1>1, <1>7 DEF BrTypes
<1>8. \/ UNCHANGED <<brResults, brStored, brAsked, brCrashes>>
      \/ BrResult \/ BrCrash \/ \E w \in BrWorkers : BrRun(w) \/ BrDeadLetter(w)
  BY DEF BrNext, BrWork, BrSending, brBroker, brTold, BrDispatch, BrPublish, BrPublishLost, BrRegister, BrStatus,
         BrPush, BrRefuse, BrExpire, BrHandOver, BrConfirm, BrRunFails, BrAccept, BrAck, BrRetry, BrGiveUp, BrNack,
         BrRestart
<1> QED BY <1>3, <1>4, <1>5, <1>6, <1>7, <1>8

\* The broker has no more out than there are workers.
LEMMA PrefetchNext ==
  ASSUME BrInv, BrTypes', BrNext
  PROVE  PrefetchInv'
<1>0. BrTypes /\ PrefetchInv
  BY DEF BrInv
<1>1. IsFiniteSet(Out) /\ Cardinality(Out) \in Nat /\ Cardinality(BrWorkers) \in Nat
  BY BrAssumption, FS_Subset, FS_CardinalityType DEF Out
<1>2. \A m \in BrTasks : Len(<<m>>) = 1
  OBVIOUS
<1>3. /\ Len(<<>>) = 0
      /\ Len(brHand) \in Nat /\ (brHand # <<>> => Len(brHand) = 1)
  BY <1>0, <1>2 DEF BrTypes
<1>4. ASSUME NEW w \in BrWorkers, brWorker[w].pc = "idle", brHand # <<>>, brHand' = <<>>,
             Out' = Out \cup {w}
      PROVE  PrefetchInv'
  <2>1. w \notin Out
    BY <1>4 DEF Out
  <2>2. Cardinality(Out') = Cardinality(Out) + 1
    BY <1>1, <1>4, <2>1, FS_AddElement
  <2> QED BY <1>0, <1>1, <1>3, <1>4, <2>2 DEF PrefetchInv
<1>5. ASSUME Out' \subseteq Out, brHand' = brHand \/ brHand' = <<>> PROVE PrefetchInv'
  <2>1. Cardinality(Out') <= Cardinality(Out) /\ Cardinality(Out') \in Nat
    BY <1>1, <1>5, FS_Subset, FS_CardinalityType
  <2>2. Len(brHand') <= Len(brHand) /\ Len(brHand') \in Nat
    BY <1>3, <1>5
  <2> QED BY <1>0, <1>1, <1>3, <2>1, <2>2 DEF PrefetchInv
<1>6. CASE BrPush
  <2>1. Out' = Out /\ Len(brHand) = 0 /\ Len(brHand') = 1 /\ Cardinality(Out) < Cardinality(BrWorkers)
    BY <1>1, <1>2, <1>3, <1>6 DEF BrPush, Outstanding, Out
  <2> QED BY <1>1, <2>1 DEF PrefetchInv
<1>7. ASSUME NEW w \in BrWorkers, BrHandOver(w) PROVE PrefetchInv'
  <2>1. Out' = Out \cup {w}
    BY <1>0, <1>7 DEF BrHandOver, Out, BrTypes
  <2> QED BY <1>4, <1>7, <2>1 DEF BrHandOver
<1>8. ASSUME NEW w \in BrWorkers, NEW p, Goes(w, p), brWorker[w].pc # "idle", brHand' = brHand PROVE PrefetchInv'
  <2>1. Out' \subseteq Out
    BY <1>0, <1>8 DEF Goes, Out, BrTypes
  <2> QED BY <1>5, <1>8, <2>1
<1>9. ASSUME NEW w \in BrWorkers, brWorker' = [brWorker EXCEPT ![w] = Free], brHand' = brHand PROVE PrefetchInv'
  <2>1. Out' \subseteq Out
    BY <1>0, <1>9 DEF Free, Out, BrTypes
  <2> QED BY <1>5, <1>9, <2>1
<1>10. CASE BrCrash
  <2>1. Out' = {} /\ brHand' = <<>>
    BY <1>10 DEF BrCrash, Out, Free
  <2> QED BY <1>5, <2>1
<1>11. CASE UNCHANGED <<brHand, brWorker>>
  BY <1>0, <1>11 DEF PrefetchInv, Out
<1>12. \/ UNCHANGED <<brHand, brWorker>>
       \/ BrPush \/ BrCrash
       \/ \E w \in BrWorkers : \/ BrHandOver(w)
                               \/ brHand' = brHand /\ brWorker[w].pc # "idle" /\ \E p \in BrSteps : Goes(w, p)
                               \/ brHand' = brHand /\ brWorker' = [brWorker EXCEPT ![w] = Free]
  <2>1. ASSUME NEW w \in BrWorkers,
               \/ BrConfirm(w) \/ BrRun(w) \/ BrRunFails(w) \/ BrAccept(w) \/ BrGiveUp(w) \/ BrDeadLetter(w)
        PROVE  brHand' = brHand /\ brWorker[w].pc # "idle" /\ \E p \in BrSteps : Goes(w, p)
    BY <2>1 DEF BrConfirm, BrRun, BrRunFails, BrAccept, BrGiveUp, BrDeadLetter, At, BrSteps
  <2>2. ASSUME NEW w \in BrWorkers, BrAck(w) \/ BrRetry(w) \/ BrNack(w)
        PROVE  brHand' = brHand /\ brWorker' = [brWorker EXCEPT ![w] = Free]
    BY <2>2 DEF BrAck, BrRetry, BrNack
  <2>3. ASSUME \/ \E t \in BrTasks : BrDispatch(t) \/ BrSending(t) \/ BrPublishLost(t)
               \/ BrRefuse \/ BrExpire \/ BrResult \/ BrRestart
        PROVE  UNCHANGED <<brHand, brWorker>>
    BY <2>3 DEF BrSending, BrDispatch, BrPublish, BrPublishLost, BrRegister, BrStatus, BrRefuse, BrExpire, BrResult, BrRestart
  <2> QED BY <2>1, <2>2, <2>3 DEF BrNext, BrWork
<1> QED BY <1>6, <1>7, <1>8, <1>9, <1>10, <1>11, <1>12

LEMMA NextBrInv == BrInv /\ [BrNext]_brVars => BrInv'
<1> SUFFICES ASSUME BrInv, [BrNext]_brVars PROVE BrInv'
  OBVIOUS
<1>1. CASE BrNext
  BY <1>1, BrTypesNext, TaskInvNext, OutcomeNext, PrefetchNext DEF BrInv
<1>2. CASE UNCHANGED brVars
  BY <1>2 DEF brVars, BrInv, BrTypes, TaskInv, OneCopyOf, SentSoFar, DoneSoFar, RunSoFar, SettledSoFar, OutcomeInv,
              PrefetchInv, OnQueue, InHand, With, Copied, ToDo, Past, Late, Out, Tracked
<1> QED BY <1>1, <1>2

LEMMA BrInvImplies ==
  ASSUME BrInv
  PROVE  BrokerAccounted
<1>0. BrTypes /\ PrefetchInv /\ \A t \in BrTasks : TaskInv(t)
  BY DEF BrInv
<1>1. DOMAIN brQueue = 1..Len(brQueue) /\ \A i \in DOMAIN brQueue : brQueue[i] \in BrMessages
  BY <1>0, LenProperties DEF BrTypes
<1>2. BrTypeOK
  BY <1>0, <1>1 DEF BrTypeOK, BrTypes, BrMessages, PrefetchInv, Outstanding, Out
<1>3. ASSUME NEW t \in BrTasks
      PROVE  Cardinality({i \in DOMAIN brQueue : brQueue[i] = t}) + Cardinality({i \in DOMAIN brHand : brHand[i] = t})
               + Cardinality({w \in BrWorkers : brWorker[w].task = t}) = IF Copied(t) THEN 1 ELSE 0
  <2> DEFINE Q == {i \in DOMAIN brQueue : brQueue[i] = t}
             H == {i \in DOMAIN brHand : brHand[i] = t}
             W == {w \in BrWorkers : brWorker[w].task = t}
  <2>1. Cardinality(Q) = IF OnQueue(t) THEN 1 ELSE 0
    <3>1. (\A i, j \in Q : i = j) /\ (Q = {} <=> ~OnQueue(t))
      BY <1>0, <1>1 DEF BrTypes, Distinct, OnQueue, Has
    <3> HIDE DEF Q
    <3> QED BY <3>1, AtMostOne
  <2>2. Cardinality(H) = IF InHand(t) THEN 1 ELSE 0
    <3>1. (\A i, j \in H : i = j) /\ (H = {} <=> ~InHand(t))
      <4>1. CASE brHand = <<>>
        BY <4>1 DEF InHand
      <4>2. ASSUME NEW u \in BrTasks, brHand = <<u>> PROVE (\A i, j \in H : i = j) /\ (H = {} <=> ~InHand(t))
        <5>1. DOMAIN brHand = {1} /\ brHand[1] = u /\ (InHand(t) <=> u = t)
          BY <4>2 DEF InHand
        <5> QED BY <5>1
      <4> QED BY <1>0, <4>1, <4>2 DEF BrTypes
    <3> HIDE DEF H
    <3> QED BY <3>1, AtMostOne
  <2>3. Cardinality(W) = IF \E w \in BrWorkers : With(w, t) THEN 1 ELSE 0
    <3>1. (\A v, w \in W : v = w) /\ (W = {} <=> ~\E w \in BrWorkers : With(w, t))
      BY <1>0 DEF TaskInv, OneCopyOf, With
    <3> HIDE DEF W
    <3> QED BY <3>1, AtMostOne
  <2> HIDE DEF Q, H, W
  <2>4. Cardinality(Q) + Cardinality(H) + Cardinality(W) = IF Copied(t) THEN 1 ELSE 0
    BY <1>0, <2>1, <2>2, <2>3 DEF TaskInv, OneCopyOf, Copied
  <2> QED BY <2>4 DEF Q, H, W
<1>4. OneCopy
  BY <1>0, <1>3 DEF OneCopy, TaskInv, SentSoFar
<1>5. RunsAccounted
  BY <1>0 DEF RunsAccounted, TaskInv, RunSoFar
<1>6. SettledUnlessOvertaken
  <2> SUFFICES ASSUME NEW t \in BrTasks, brSend[t] = "done", Tracked(t), t \notin brGone,
                      ~Queued(t), t \notin InFlight, brHand = <<>>
               PROVE  t \in brOvertaken \/ (t \notin brPending /\ brRecord[t].status \notin {"sent", "queued"})
    BY DEF SettledUnlessOvertaken
  <2>1. ~OnQueue(t) /\ ~InHand(t)
    BY <1>1 DEF Queued, OnQueue, Has, InHand
  <2>2. \A w \in BrWorkers : ~With(w, t)
    BY <1>0, BrAssumption DEF InFlight, With, BrTypes
  <2>3. Past(t)
    BY <2>1, <2>2 DEF Past, Copied
  <2> QED BY <1>0, <2>3 DEF TaskInv, SettledSoFar
<1> QED BY <1>2, <1>4, <1>5, <1>6 DEF BrokerAccounted

\* For any tasks, foreign messages, workers and limits: whatever is lost, expires,
\* fails or crashes, an envelope the broker took has one copy until it is
\* answered, an agent is run a second time only where its result could not be
\* published, and nothing settled is left marked as queued unless a worker
\* overtook the Dispatch.
THEOREM BrokerAccountedCorrect == BrSpec => []BrokerAccounted
<1>1. BrInit => BrInv
  BY InitBrInv
<1>2. BrInv /\ [BrNext]_brVars => BrInv'
  BY NextBrInv
<1>3. BrInv => BrokerAccounted
  BY BrInvImplies
<1> QED BY <1>1, <1>2, <1>3, PTL DEF BrSpec

-----------------------------------------------------------------------------
(* Delivery in memory.  The invariant says what workers, dispatchers and   *)
(* result workers hold, that there is a record where one is needed, how    *)
(* many answer for a task, and, as long as nobody inspects, that they act  *)
(* for the agent the workflow names.                                       *)

WorkersHold ==
  \A w \in Workers :
    /\ env[w] = None <=> pc[w] = "idle"
    /\ pc[w] = "publish" => outcome[w] # "none"
    /\ pc[w] \notin {"idle", "resend", "deadLetter"} => env[w].agent = AgentOf[w]

Registered(t) == record[t] # None
RecordsKept ==
  /\ \A w \in Workers : pc[w] # "idle" => Registered(env[w].task)
  /\ \A a \in Agents : \A i \in 1..Len(mailbox[a]) :
       mailbox[a][i].agent = a /\ Registered(mailbox[a][i].task)
  /\ \A d \in dispatching : d.step # "record" => Registered(d.env.task)
  /\ overdue # None => Registered(overdue.task) /\ inspections > 0

\* A dispatch is its caller's only one.
Dispatches ==
  /\ IsFiniteSet(dispatching)
  /\ \A c, d \in dispatching : c.by = d.by => c = d
  /\ \A d \in dispatching : /\ d.env.attempt >= 1
                            /\ d.by \in ResultWorkers => result[d.by] = None
                            /\ d.by \in Tasks => workflow[d.by].status # "queued"

Attempts ==
  /\ \A t \in Tasks : /\ workflow[t].attempt >= 1
                      /\ workflow[t].status = "queued" =>
                           workflow[t].attempt = 1 /\ workflow[t].excluded = {}
  /\ \A r \in ResultWorkers : /\ result[r] = None <=> loaded[r] = None
                              /\ loaded[r] # None => loaded[r].attempt >= 1

HoldInv ==
  \A t \in Tasks :
    /\ workflow[t].status = "running" => Holders(t) >= 1
    /\ inspections = 0 => Holders(t) = IF workflow[t].status = "running" THEN 1 ELSE 0

\* Who holds t acts for the agent it is assigned to.
Fits(t) ==
  /\ \A d \in Sending(t) : d.env.agent = workflow[t].agent
  /\ \A a \in Agents : \A i \in 1..Len(mailbox[a]) : mailbox[a][i].task = t => a = workflow[t].agent
  /\ \A w \in Working(t) : env[w].agent = workflow[t].agent
  /\ \A i \in 1..Len(results) : results[i].task = t => results[i].agent = workflow[t].agent
  /\ \A r \in Handling(t) : result[r].agent = workflow[t].agent /\ loaded[r] = workflow[t]
\* And so does its record, once an envelope is on its way.
Underway(t) ==
  \/ \E d \in Sending(t) : d.step = "publish"
  \/ \E a \in Agents : \E i \in 1..Len(mailbox[a]) : mailbox[a][i].task = t
  \/ Working(t) # {}
RecordFits(t) == Underway(t) => record[t].agent = workflow[t].agent
FitInv == inspections = 0 => \A t \in Tasks : Fits(t) /\ RecordFits(t)

ShapeInv == TypeOK /\ WorkersHold /\ RecordsKept /\ Dispatches /\ Attempts
DeliveryInv == ShapeInv /\ HoldInv /\ FitInv /\ RerouteBound
(* How many entries are about a task.                                      *)

Places(s, t) == {i \in DOMAIN s : s[i].task = t}
PostedIn(m, t) == {p \in UNION {{a} \X DOMAIN m[a] : a \in Agents} : m[p[1]][p[2]].task = t}

LEMMA PlacesFinite ==
  ASSUME NEW S, NEW s \in Seq(S), NEW t
  PROVE  IsFiniteSet(Places(s, t)) /\ Cardinality(Places(s, t)) \in Nat
<1>1. DOMAIN s = 1..Len(s) /\ Len(s) \in Nat
  BY LenProperties
<1>2. IsFiniteSet(1..Len(s)) /\ Places(s, t) \in SUBSET (1..Len(s))
  BY <1>1, FS_Interval DEF Places
<1>3. IsFiniteSet(Places(s, t))
  BY <1>2, FS_Subset
<1> QED BY <1>3, FS_CardinalityType

LEMMA PlacesAppend ==
  ASSUME NEW S, NEW s \in Seq(S), NEW x \in S, NEW t
  PROVE  Cardinality(Places(Append(s, x), t)) = Cardinality(Places(s, t)) + IF x.task = t THEN 1 ELSE 0
<1> PICK n : n = Len(s)
  OBVIOUS
<1> PICK e : e = Append(s, x)
  OBVIOUS
<1>1. /\ n \in Nat /\ DOMAIN e = 1..(n + 1) /\ DOMAIN s = 1..n /\ e[n + 1] = x
      /\ \A i \in 1..n : e[i] = s[i]
  BY AppendProperties, LenProperties
<1>2. 1..(n + 1) = (1..n) \cup {n + 1} /\ n + 1 \notin 1..n
  BY <1>1
<1>3. Places(e, t) = IF x.task = t THEN Places(s, t) \cup {n + 1} ELSE Places(s, t)
  BY <1>1, <1>2 DEF Places
<1>4. n + 1 \notin Places(s, t)
  BY <1>1, <1>2 DEF Places
<1>5. IsFiniteSet(Places(s, t)) /\ Cardinality(Places(s, t)) \in Nat
  BY PlacesFinite
<1>6. CASE x.task = t
  BY <1>3, <1>4, <1>5, <1>6, FS_AddElement, ZenonT(60)
<1>7. CASE x.task # t
  BY <1>3, <1>5, <1>7
<1> QED BY <1>6, <1>7

\* Shifting by one is one-to-one.
LEMMA PlacesTail ==
  ASSUME NEW S, NEW s \in Seq(S), s # <<>>, NEW t
  PROVE  Cardinality(Places(s, t)) = Cardinality(Places(Tail(s), t)) + IF Head(s).task = t THEN 1 ELSE 0
<1> PICK n : n = Len(s)
  OBVIOUS
<1> PICK e : e = Tail(s)
  OBVIOUS
<1> DEFINE T == {i \in 2..n : s[i].task = t}
           f == [i \in Places(e, t) |-> i + 1]
<1>1. /\ n \in Nat /\ n # 0 /\ e \in Seq(S) /\ DOMAIN e = 1..(n - 1) /\ DOMAIN s = 1..n /\ Head(s) = s[1]
      /\ \A i \in 1..(n - 1) : e[i] = s[i + 1]
  BY HeadTailProperties, EmptySeq, LenProperties
<1>2. \A i \in 1..(n - 1) : i + 1 \in 2..n /\ i \in Int
  BY <1>1
<1>3. \A i \in 2..n : i - 1 \in 1..(n - 1) /\ (i - 1) + 1 = i
  BY <1>1
<1>4. \A i \in Places(e, t) : i \in 1..(n - 1) /\ s[i + 1].task = t
  BY <1>1 DEF Places
<1>5. f \in [Places(e, t) -> T]
  BY <1>2, <1>4
<1>6. \A i, j \in Places(e, t) : f[i] = f[j] => i = j
  <2>1. \A i, j \in Int : i + 1 = j + 1 => i = j
    OBVIOUS
  <2> QED BY <1>2, <1>4, <2>1
<1>7. \A j \in T : \E i \in Places(e, t) : f[i] = j
  <2> SUFFICES ASSUME NEW j \in T PROVE j - 1 \in Places(e, t) /\ f[j - 1] = j
    OBVIOUS
  <2>1. j - 1 \in 1..(n - 1) /\ (j - 1) + 1 = j /\ s[j].task = t
    BY <1>3
  <2> QED BY <1>1, <2>1 DEF Places
<1>8. IsFiniteSet(Places(e, t)) /\ Cardinality(Places(e, t)) \in Nat
  BY <1>1, PlacesFinite
<1>9. IsFiniteSet(T) /\ Cardinality(T) = Cardinality(Places(e, t))
  <2>1. f \in Bijection(Places(e, t), T)
    <3> HIDE DEF f, T
    <3> QED BY <1>5, <1>6, <1>7 DEF Bijection, Injection, Surjection, IsInjective
  <2>2. ExistsBijection(Places(e, t), T)
    BY <2>1 DEF ExistsBijection
  <2> HIDE DEF f, T
  <2> QED BY <1>8, <2>2, FS_Bijection
<1>10. 1..n = {1} \cup (2..n) /\ 1 \notin 2..n
  BY <1>1
<1>11. Places(s, t) = IF Head(s).task = t THEN T \cup {1} ELSE T
  BY <1>1, <1>10 DEF Places
<1>12. 1 \notin T
  BY <1>10
<1> HIDE DEF T, f
<1>13. CASE Head(s).task = t
  BY <1>8, <1>9, <1>11, <1>12, <1>13, FS_AddElement, ZenonT(60)
<1>14. CASE Head(s).task # t
  BY <1>8, <1>9, <1>11, <1>14
<1> QED BY <1>13, <1>14

\* What is posted to one agent, and to the others.
Elsewhere(m, a, t) ==
  {p \in UNION {{b} \X DOMAIN m[b] : b \in Agents \ {a}} : m[p[1]][p[2]].task = t}

LEMMA PostedFinite ==
  ASSUME NEW S, NEW m \in [Agents -> Seq(S)], NEW t
  PROVE  IsFiniteSet(PostedIn(m, t)) /\ Cardinality(PostedIn(m, t)) \in Nat
<1> DEFINE U == {{a} \X DOMAIN m[a] : a \in Agents}
           f == [a \in Agents |-> {a} \X DOMAIN m[a]]
<1>1. IsFiniteSet(U)
  <2>1. f \in Surjection(Agents, U)
    BY DEF Surjection
  <2> HIDE DEF f, U
  <2> QED BY <2>1, FS_Surjection, DeliveryAssumption
<1>2. \A T \in U : IsFiniteSet(T)
  <2> SUFFICES ASSUME NEW a \in Agents PROVE IsFiniteSet({a} \X DOMAIN m[a])
    OBVIOUS
  <2>1. DOMAIN m[a] = 1..Len(m[a]) /\ Len(m[a]) \in Nat
    BY LenProperties
  <2>2. IsFiniteSet({a}) /\ IsFiniteSet(DOMAIN m[a])
    <3>1. IsFiniteSet(1..Len(m[a]))
      BY <2>1, FS_Interval
    <3> QED BY <2>1, <3>1, FS_Singleton
  <2> QED BY <2>2, FS_Product
<1>3. IsFiniteSet(UNION U)
  <2> HIDE DEF U
  <2> QED BY <1>1, <1>2, FS_UNION
<1>4. PostedIn(m, t) \in SUBSET (UNION U)
  BY DEF PostedIn
<1> HIDE DEF U
<1>5. IsFiniteSet(PostedIn(m, t))
  BY <1>3, <1>4, FS_Subset
<1> QED BY <1>5, FS_CardinalityType

LEMMA PostedSplit ==
  ASSUME NEW S, NEW m \in [Agents -> Seq(S)], NEW a \in Agents, NEW t
  PROVE  /\ Cardinality(Elsewhere(m, a, t)) \in Nat
         /\ Cardinality(PostedIn(m, t)) = Cardinality(Elsewhere(m, a, t)) + Cardinality(Places(m[a], t))
<1> PICK E : E = Elsewhere(m, a, t)
  OBVIOUS
<1> PICK P : P = Places(m[a], t)
  OBVIOUS
<1> PICK Q : Q = {a} \X P
  OBVIOUS
<1>1. \A p : p \in PostedIn(m, t) <=> p \in E \/ p \in Q
  <2>1. \A p : p \in PostedIn(m, t) <=> \E b \in Agents : \E i \in DOMAIN m[b] : p = <<b, i>> /\ m[b][i].task = t
    BY DEF PostedIn
  <2>2. \A p : p \in E <=> \E b \in Agents \ {a} : \E i \in DOMAIN m[b] : p = <<b, i>> /\ m[b][i].task = t
    BY DEF Elsewhere
  <2>3. \A p : p \in Q <=> \E i \in DOMAIN m[a] : p = <<a, i>> /\ m[a][i].task = t
    BY DEF Places
  <2> QED BY <2>1, <2>2, <2>3
<1>2. PostedIn(m, t) = E \cup Q
  BY <1>1
<1>3. E \cap Q = {}
  BY DEF Elsewhere
<1>4. IsFiniteSet(P) /\ Cardinality(P) \in Nat
  BY PlacesFinite
<1>5. IsFiniteSet(Q) /\ Cardinality(Q) = Cardinality(P)
  <2>1. IsFiniteSet({a}) /\ Cardinality({a}) = 1
    BY FS_Singleton
  <2>2. IsFiniteSet(Q) /\ Cardinality(Q) = 1 * Cardinality(P)
    BY <1>4, <2>1, FS_Product
  <2> QED BY <1>4, <2>2
<1>6. IsFiniteSet(E) /\ Cardinality(E) \in Nat
  BY <1>2, PostedFinite, FS_Subset, FS_CardinalityType
<1>7. Cardinality(E \cup Q) = Cardinality(E) + Cardinality(Q) - 0
  <2>1. Cardinality(E \cup Q) = Cardinality(E) + Cardinality(Q) - Cardinality(E \cap Q)
    BY <1>5, <1>6, FS_Union, ZenonT(60)
  <2> QED BY <1>3, <2>1, FS_EmptySet
<1> QED BY <1>2, <1>4, <1>5, <1>6, <1>7

AddedTo(m, n, a, e) ==
  /\ m \in [Agents -> Seq(Envelope)] /\ a \in Agents /\ e \in Envelope
  /\ n = [m EXCEPT ![a] = Append(m[a], e)]

LEMMA PostedAppend ==
  ASSUME NEW m, NEW n, NEW a, NEW e, AddedTo(m, n, a, e), NEW t
  PROVE  Cardinality(PostedIn(n, t)) = Cardinality(PostedIn(m, t)) + IF e.task = t THEN 1 ELSE 0
<1> PICK q : q = Append(m[a], e)
  OBVIOUS
<1> m \in [Agents -> Seq(Envelope)] /\ a \in Agents /\ e \in Envelope /\ n = [m EXCEPT ![a] = q]
  BY DEF AddedTo
<1>1. q \in Seq(Envelope) /\ n \in [Agents -> Seq(Envelope)] /\ n[a] = q /\ \A b \in Agents \ {a} : n[b] = m[b]
  BY AppendProperties
<1>2. Elsewhere(n, a, t) = Elsewhere(m, a, t)
  BY <1>1 DEF Elsewhere
<1>3. Cardinality(Places(q, t)) = Cardinality(Places(m[a], t)) + IF e.task = t THEN 1 ELSE 0
  BY PlacesAppend
<1>4. Cardinality(PostedIn(n, t)) = Cardinality(Elsewhere(m, a, t)) + Cardinality(Places(q, t))
  <2>1. Cardinality(PostedIn(n, t)) = Cardinality(Elsewhere(n, a, t)) + Cardinality(Places(n[a], t))
    BY <1>1, PostedSplit, ZenonT(60)
  <2> QED BY <1>1, <1>2, <2>1
<1>5. /\ Cardinality(PostedIn(m, t)) = Cardinality(Elsewhere(m, a, t)) + Cardinality(Places(m[a], t))
      /\ Cardinality(Elsewhere(m, a, t)) \in Nat
  BY PostedSplit
<1>6. Cardinality(Places(m[a], t)) \in Nat
  BY PlacesFinite
<1> QED BY <1>3, <1>4, <1>5, <1>6

TakenFrom(m, n, a) ==
  /\ m \in [Agents -> Seq(Envelope)] /\ a \in Agents
  /\ m[a] # <<>> /\ n = [m EXCEPT ![a] = Tail(m[a])]

LEMMA PostedTail ==
  ASSUME NEW m, NEW n, NEW a, TakenFrom(m, n, a), NEW t
  PROVE  Cardinality(PostedIn(m, t)) = Cardinality(PostedIn(n, t)) + IF Head(m[a]).task = t THEN 1 ELSE 0
<1> PICK q : q = Tail(m[a])
  OBVIOUS
<1> m \in [Agents -> Seq(Envelope)] /\ a \in Agents /\ m[a] # <<>> /\ n = [m EXCEPT ![a] = q]
  BY DEF TakenFrom
<1>1. q \in Seq(Envelope) /\ n \in [Agents -> Seq(Envelope)] /\ n[a] = q /\ \A b \in Agents \ {a} : n[b] = m[b]
  BY HeadTailProperties
<1>2. Elsewhere(n, a, t) = Elsewhere(m, a, t)
  BY <1>1 DEF Elsewhere
<1>3. Cardinality(Places(m[a], t)) = Cardinality(Places(q, t)) + IF Head(m[a]).task = t THEN 1 ELSE 0
  BY PlacesTail
<1>4. Cardinality(PostedIn(n, t)) = Cardinality(Elsewhere(m, a, t)) + Cardinality(Places(q, t))
  <2>1. Cardinality(PostedIn(n, t)) = Cardinality(Elsewhere(n, a, t)) + Cardinality(Places(n[a], t))
    BY <1>1, PostedSplit
  <2> QED BY <1>1, <1>2, <2>1
<1>5. /\ Cardinality(PostedIn(m, t)) = Cardinality(Elsewhere(m, a, t)) + Cardinality(Places(m[a], t))
      /\ Cardinality(Elsewhere(m, a, t)) \in Nat
  BY PostedSplit
<1>6. Cardinality(Places(q, t)) \in Nat
  BY <1>1, PlacesFinite
<1> QED BY <1>3, <1>4, <1>5, <1>6

LEMMA InitDeliveryInv == Init => DeliveryInv
<1> SUFFICES ASSUME Init PROVE DeliveryInv
  OBVIOUS
<1>1. /\ workflow \in [Tasks -> Workflow]
      /\ mailbox \in [Agents -> Seq(Envelope)] /\ (\A a \in Agents : Len(mailbox[a]) = 0)
      /\ results \in Seq(Result) /\ Len(results) = 0
  BY DEF Init, Workflow
<1>2. 0 \in 0..MaxFaults /\ 0 \in 0..MaxInspections
  BY DeliveryAssumption
<1>3. TypeOK
  BY <1>1, <1>2 DEF Init, TypeOK, WorkerSteps
<1>4. WorkersHold /\ RecordsKept
  BY <1>1 DEF Init, WorkersHold, RecordsKept
<1>5. Dispatches
  BY FS_EmptySet DEF Init, Dispatches
<1>6. Attempts
  BY NoneAssumption DEF Init, Attempts
<1>7. ASSUME NEW t \in Tasks
      PROVE  Sending(t) = {} /\ Posted(t) = {} /\ Working(t) = {} /\ Reported(t) = {} /\ Handling(t) = {}
  BY DEF Init, Sending, Posted, Working, Reported, Handling
<1>8. HoldInv
  <2> SUFFICES ASSUME NEW t \in Tasks PROVE Holders(t) = 0 /\ workflow[t].status = "queued"
    BY DEF HoldInv
  <2>1. Holders(t) = 0 + 0 + 0 + 0 + 0
    BY <1>7, FS_EmptySet DEF Holders
  <2> QED BY <2>1 DEF Init
<1>9. FitInv
  BY <1>1, <1>7 DEF FitInv, Fits, RecordFits, Underway
<1>10. RerouteBound
  <2> SUFFICES ASSUME NEW t \in Tasks
               PROVE  workflow[t].agent \notin workflow[t].excluded /\ workflow[t].attempt = Cardinality(workflow[t].excluded) + 1
    BY DEF RerouteBound
  <2>1. workflow[t].excluded = {} /\ workflow[t].attempt = 1
    BY DEF Init
  <2> QED BY <2>1, FS_EmptySet
<1> QED BY <1>3, <1>4, <1>5, <1>6, <1>8, <1>9, <1>10 DEF DeliveryInv, ShapeInv

\* A record is written anew for the same agent, if at all.
SameRecords ==
  /\ record' \in [Tasks -> Record \cup {None}]
  /\ \A u \in Tasks : /\ Registered(u)' <=> Registered(u)
                      /\ Registered(u) => record'[u].agent = record[u].agent

LEMMA Rewritten ==
  ASSUME TypeOK, NEW t \in Tasks, Registered(t), NEW x \in Record, x.agent = record[t].agent,
         record' = [record EXCEPT ![t] = x]
  PROVE  SameRecords
BY NoneAssumption DEF TypeOK, SameRecords, Registered

LEMMA NotRewritten ==
  ASSUME TypeOK, record' = record
  PROVE  SameRecords
BY DEF TypeOK, SameRecords, Registered

MailKept ==
  /\ mailbox' \in [Agents -> Seq(Envelope)]
  /\ \A a \in Agents : \A i \in 1..Len(mailbox'[a]) :
       mailbox'[a][i].agent = a /\ Registered(mailbox'[a][i].task)

\* What the mailboxes hold after Publish, and after a worker has taken one.
LEMMA MailPublished ==
  ASSUME ShapeInv, NEW e \in Envelope, Publish(e)
  PROVE  /\ mailbox' \in [Agents -> Seq(Envelope)]
         /\ \A a \in Agents : \A i \in 1..Len(mailbox'[a]) :
              \/ mailbox'[a][i] = e /\ a = e.agent
              \/ i \in 1..Len(mailbox[a]) /\ mailbox'[a][i] = mailbox[a][i]
         /\ Registered(e.task) => MailKept
         /\ \A t : Cardinality(Posted(t)') = Cardinality(Posted(t)) + IF e.task = t THEN 1 ELSE 0
<1> PICK b : b = e.agent
  OBVIOUS
<1> PICK q : q = Append(mailbox[b], e)
  OBVIOUS
<1>1. b \in Agents /\ mailbox \in [Agents -> Seq(Envelope)] /\ mailbox' = [mailbox EXCEPT ![b] = q]
  BY DEF ShapeInv, TypeOK, Envelope, Publish
<1>2. /\ q \in Seq(Envelope) /\ Len(mailbox[b]) \in Nat /\ Len(q) = Len(mailbox[b]) + 1 /\ q[Len(mailbox[b]) + 1] = e
      /\ \A i \in 1..Len(mailbox[b]) : q[i] = mailbox[b][i]
  BY <1>1, AppendProperties, LenProperties
<1>3. mailbox' \in [Agents -> Seq(Envelope)] /\ mailbox'[b] = q /\ \A a \in Agents \ {b} : mailbox'[a] = mailbox[a]
  BY <1>1, <1>2
<1>4. \A i \in 1..Len(q) : i \in 1..Len(mailbox[b]) \/ i = Len(mailbox[b]) + 1
  BY <1>2
<1>5. \A a \in Agents : \A i \in 1..Len(mailbox'[a]) :
        \/ mailbox'[a][i] = e /\ a = e.agent
        \/ i \in 1..Len(mailbox[a]) /\ mailbox'[a][i] = mailbox[a][i]
  BY <1>2, <1>3, <1>4
<1>6. Registered(e.task) => MailKept
  BY <1>3, <1>5 DEF MailKept, ShapeInv, RecordsKept
<1>7. \A t : Posted(t) = PostedIn(mailbox, t) /\ Posted(t)' = PostedIn(mailbox', t)
  BY DEF Posted, PostedIn
<1>8. ASSUME NEW t PROVE Cardinality(Posted(t)') = Cardinality(Posted(t)) + IF e.task = t THEN 1 ELSE 0
  <2>1. AddedTo(mailbox, mailbox', b, e)
    BY <1>1 DEF AddedTo
  <2>2. Cardinality(PostedIn(mailbox', t)) = Cardinality(PostedIn(mailbox, t)) + IF e.task = t THEN 1 ELSE 0
    BY <2>1, PostedAppend
  <2> QED BY <1>7, <2>2
<1> QED BY <1>3, <1>5, <1>6, <1>8

LEMMA MailTaken ==
  ASSUME ShapeInv, NEW b \in Agents, mailbox[b] # <<>>, mailbox' = [mailbox EXCEPT ![b] = Tail(mailbox[b])]
  PROVE  /\ MailKept
         /\ Head(mailbox[b]) \in Envelope /\ 1 \in 1..Len(mailbox[b]) /\ mailbox[b][1] = Head(mailbox[b])
         /\ \A a \in Agents : \A i \in 1..Len(mailbox'[a]) :
              \E j \in 1..Len(mailbox[a]) : mailbox'[a][i] = mailbox[a][j]
         /\ \A t : Cardinality(Posted(t)) = Cardinality(Posted(t)') + IF Head(mailbox[b]).task = t THEN 1 ELSE 0
<1> PICK s : s = mailbox[b]
  OBVIOUS
<1> PICK q : q = Tail(s)
  OBVIOUS
<1>1. mailbox \in [Agents -> Seq(Envelope)] /\ s \in Seq(Envelope) /\ s # <<>>
  BY DEF ShapeInv, TypeOK
<1>2. /\ q \in Seq(Envelope) /\ Len(s) \in Nat /\ Len(s) # 0 /\ Len(q) = Len(s) - 1 /\ Head(s) = s[1] /\ Head(s) \in Envelope
      /\ \A i \in 1..(Len(s) - 1) : q[i] = s[i + 1]
  BY <1>1, HeadTailProperties, LenProperties, EmptySeq
<1>3. mailbox' \in [Agents -> Seq(Envelope)] /\ mailbox'[b] = q /\ \A a \in Agents \ {b} : mailbox'[a] = mailbox[a]
  BY <1>1, <1>2
<1>4. 1 \in 1..Len(s) /\ \A i \in 1..(Len(s) - 1) : i + 1 \in 1..Len(s)
  BY <1>2
<1>5. \A a \in Agents : \A i \in 1..Len(mailbox'[a]) : \E j \in 1..Len(mailbox[a]) : mailbox'[a][i] = mailbox[a][j]
  BY <1>2, <1>3, <1>4
<1>6. MailKept
  BY <1>3, <1>5 DEF MailKept, ShapeInv, RecordsKept
<1>7. \A t : Posted(t) = PostedIn(mailbox, t) /\ Posted(t)' = PostedIn(mailbox', t)
  BY DEF Posted, PostedIn
<1>8. ASSUME NEW t PROVE Cardinality(Posted(t)) = Cardinality(Posted(t)') + IF Head(mailbox[b]).task = t THEN 1 ELSE 0
  <2>1. TakenFrom(mailbox, mailbox', b)
    BY <1>1 DEF TakenFrom
  <2>2. Cardinality(PostedIn(mailbox, t)) = Cardinality(PostedIn(mailbox', t)) + IF Head(mailbox[b]).task = t THEN 1 ELSE 0
    BY <2>1, PostedTail
  <2> QED BY <1>7, <2>2
<1> QED BY <1>2, <1>4, <1>5, <1>6, <1>8

-----------------------------------------------------------------------------
(* How many answer for a task, before and after one entry changes.         *)

LEMMA OneChanges ==
  ASSUME NEW A, NEW B, NEW x, IsFiniteSet(A), A \ {x} = B \ {x}
  PROVE  /\ IsFiniteSet(B) /\ Cardinality(A) \in Nat /\ Cardinality(B) \in Nat
         /\ x \in A /\ x \in B => Cardinality(B) = Cardinality(A)
         /\ x \in A /\ x \notin B => Cardinality(B) = Cardinality(A) - 1
         /\ x \notin A /\ x \in B => Cardinality(B) = Cardinality(A) + 1
         /\ x \notin A /\ x \notin B => Cardinality(B) = Cardinality(A)
<1> PICK C : C = A \ {x}
  OBVIOUS
<1>1. IsFiniteSet(C)
  BY FS_Subset
<1>2. Cardinality(C) \in Nat
  BY <1>1, FS_CardinalityType
<1>3. IsFiniteSet(C \cup {x}) /\ Cardinality(C \cup {x}) = Cardinality(C) + 1
  BY <1>1, FS_AddElement
<1>4. (x \in A => A = C \cup {x}) /\ (x \notin A => A = C) /\ (x \in B => B = C \cup {x}) /\ (x \notin B => B = C)
  OBVIOUS
<1> QED BY <1>1, <1>2, <1>3, <1>4

LEMMA Counted ==
  ASSUME ShapeInv, NEW t
  PROVE  /\ IsFiniteSet(Sending(t)) /\ IsFiniteSet(Working(t)) /\ IsFiniteSet(Handling(t))
         /\ Cardinality(Sending(t)) \in Nat /\ Cardinality(Posted(t)) \in Nat /\ Cardinality(Working(t)) \in Nat
         /\ Cardinality(Reported(t)) \in Nat /\ Cardinality(Handling(t)) \in Nat
<1>1. IsFiniteSet(Sending(t))
  BY FS_Subset DEF ShapeInv, Dispatches, Sending
<1>2. IsFiniteSet(Working(t))
  BY FS_Subset, DeliveryAssumption DEF Working
<1>3. IsFiniteSet(Handling(t))
  BY FS_Subset, DeliveryAssumption DEF Handling
<1>4. Cardinality(Posted(t)) \in Nat
  <2>1. mailbox \in [Agents -> Seq(Envelope)] /\ Posted(t) = PostedIn(mailbox, t)
    BY DEF ShapeInv, TypeOK, Posted, PostedIn
  <2> QED BY <2>1, PostedFinite
<1>5. Cardinality(Reported(t)) \in Nat
  <2>1. results \in Seq(Result) /\ Reported(t) = Places(results, t)
    BY DEF ShapeInv, TypeOK, Reported, Places
  <2> QED BY <2>1, PlacesFinite
<1> QED BY <1>1, <1>2, <1>3, <1>4, <1>5, FS_CardinalityType

\* Worker w goes to step p with envelope e.
Turns(w, p, e) == pc' = [pc EXCEPT ![w] = p] /\ env' = [env EXCEPT ![w] = e]

LEMMA WorkingChanges ==
  ASSUME ShapeInv, NEW w \in Workers, NEW p, NEW e, NEW t, Turns(w, p, e)
  PROVE  /\ Working(t) \ {w} = Working(t)' \ {w}
         /\ w \in Working(t)' <=> p \notin {"idle", "accept"} /\ e.task = t
         /\ Cardinality(Working(t)') \in Nat
         /\ w \in Working(t) /\ w \in Working(t)' => Cardinality(Working(t)') = Cardinality(Working(t))
         /\ w \in Working(t) /\ w \notin Working(t)' => Cardinality(Working(t)') = Cardinality(Working(t)) - 1
         /\ w \notin Working(t) /\ w \in Working(t)' => Cardinality(Working(t)') = Cardinality(Working(t)) + 1
         /\ w \notin Working(t) /\ w \notin Working(t)' => Cardinality(Working(t)') = Cardinality(Working(t))
<1>0. pc \in [Workers -> WorkerSteps] /\ env \in [Workers -> Envelope \cup {None}]
  BY DEF ShapeInv, TypeOK
<1>1. Working(t) \ {w} = Working(t)' \ {w}
  BY <1>0 DEF Working, Turns
<1>2. w \in Working(t)' <=> p \notin {"idle", "accept"} /\ e.task = t
  BY <1>0 DEF Working, Turns
<1>3. IsFiniteSet(Working(t))
  BY Counted
<1> PICK A : A = Working(t)
  OBVIOUS
<1> PICK B : B = Working(t)'
  OBVIOUS
<1>4. IsFiniteSet(A) /\ A \ {w} = B \ {w}
  BY <1>1, <1>3
<1>5. /\ Cardinality(B) \in Nat
      /\ w \in A /\ w \in B => Cardinality(B) = Cardinality(A)
      /\ w \in A /\ w \notin B => Cardinality(B) = Cardinality(A) - 1
      /\ w \notin A /\ w \in B => Cardinality(B) = Cardinality(A) + 1
      /\ w \notin A /\ w \notin B => Cardinality(B) = Cardinality(A)
  BY <1>4, OneChanges
<1> QED BY <1>1, <1>2, <1>5

LEMMA HandlingChanges ==
  ASSUME ShapeInv, NEW r \in ResultWorkers, NEW x, NEW t, result' = [result EXCEPT ![r] = x]
  PROVE  /\ Handling(t) \ {r} = Handling(t)' \ {r}
         /\ r \in Handling(t)' <=> x # None /\ x.task = t
         /\ Cardinality(Handling(t)') \in Nat
         /\ r \in Handling(t) /\ r \in Handling(t)' => Cardinality(Handling(t)') = Cardinality(Handling(t))
         /\ r \in Handling(t) /\ r \notin Handling(t)' => Cardinality(Handling(t)') = Cardinality(Handling(t)) - 1
         /\ r \notin Handling(t) /\ r \in Handling(t)' => Cardinality(Handling(t)') = Cardinality(Handling(t)) + 1
         /\ r \notin Handling(t) /\ r \notin Handling(t)' => Cardinality(Handling(t)') = Cardinality(Handling(t))
<1>0. result \in [ResultWorkers -> Result \cup {None}]
  BY DEF ShapeInv, TypeOK
<1>1. Handling(t) \ {r} = Handling(t)' \ {r}
  BY <1>0 DEF Handling
<1>2. r \in Handling(t)' <=> x # None /\ x.task = t
  BY <1>0 DEF Handling
<1>3. IsFiniteSet(Handling(t))
  BY Counted
<1> PICK A : A = Handling(t)
  OBVIOUS
<1> PICK B : B = Handling(t)'
  OBVIOUS
<1>4. IsFiniteSet(A) /\ A \ {r} = B \ {r}
  BY <1>1, <1>3
<1>5. /\ Cardinality(B) \in Nat
      /\ r \in A /\ r \in B => Cardinality(B) = Cardinality(A)
      /\ r \in A /\ r \notin B => Cardinality(B) = Cardinality(A) - 1
      /\ r \notin A /\ r \in B => Cardinality(B) = Cardinality(A) + 1
      /\ r \notin A /\ r \notin B => Cardinality(B) = Cardinality(A)
  BY <1>4, OneChanges
<1> QED BY <1>1, <1>2, <1>5

\* A worker that takes up a task, and one that lays it down.
LEMMA WorkerGains ==
  ASSUME ShapeInv, NEW w \in Workers, NEW p, NEW e, pc[w] = "idle", p \notin {"idle", "accept"},
         Turns(w, p, e), NEW t
  PROVE  /\ w \notin Working(t)
         /\ Working(t)' = IF e.task = t THEN Working(t) \cup {w} ELSE Working(t)
         /\ Cardinality(Working(t)') = Cardinality(Working(t)) + IF e.task = t THEN 1 ELSE 0
<1>1. w \notin Working(t)
  BY DEF Working
<1>2. /\ Working(t) \ {w} = Working(t)' \ {w}
      /\ w \in Working(t)' <=> p \notin {"idle", "accept"} /\ e.task = t
      /\ w \notin Working(t) /\ w \in Working(t)' => Cardinality(Working(t)') = Cardinality(Working(t)) + 1
      /\ w \notin Working(t) /\ w \notin Working(t)' => Cardinality(Working(t)') = Cardinality(Working(t))
  BY WorkingChanges
<1>3. Cardinality(Working(t)) \in Nat
  BY Counted
<1>4. CASE e.task = t
  BY <1>1, <1>2, <1>3, <1>4
<1>5. CASE e.task # t
  <2>1. Working(t)' = Working(t)
    BY <1>1, <1>2, <1>5
  <2> QED BY <1>1, <1>3, <1>5, <2>1
<1> QED BY <1>1, <1>4, <1>5

LEMMA WorkerDrops ==
  ASSUME ShapeInv, NEW w \in Workers, NEW p \in {"idle", "accept"}, NEW e, pc[w] \notin {"idle", "accept"},
         Turns(w, p, e), NEW t
  PROVE  /\ Working(t)' = Working(t) \ {w} /\ (w \in Working(t) <=> env[w].task = t)
         /\ Cardinality(Working(t)') \in Nat
         /\ Cardinality(Working(t)) = Cardinality(Working(t)') + IF env[w].task = t THEN 1 ELSE 0
<1>1. w \in Working(t) <=> env[w].task = t
  BY DEF Working
<1>2. /\ Working(t) \ {w} = Working(t)' \ {w}
      /\ w \in Working(t)' <=> p \notin {"idle", "accept"} /\ e.task = t
      /\ Cardinality(Working(t)') \in Nat
      /\ w \in Working(t) /\ w \notin Working(t)' => Cardinality(Working(t)') = Cardinality(Working(t)) - 1
      /\ w \notin Working(t) /\ w \notin Working(t)' => Cardinality(Working(t)') = Cardinality(Working(t))
  BY WorkingChanges
<1>3. Cardinality(Working(t)) \in Nat
  BY Counted
<1>4. w \notin Working(t)'
  BY <1>2
<1>5. Working(t)' = Working(t) \ {w}
  BY <1>2, <1>4
<1>6. CASE env[w].task = t
  BY <1>1, <1>2, <1>3, <1>4, <1>6
<1>7. CASE env[w].task # t
  BY <1>1, <1>2, <1>3, <1>4, <1>7
<1> QED BY <1>1, <1>2, <1>5, <1>6, <1>7

LEMMA HandlerTakes ==
  ASSUME ShapeInv, NEW r \in ResultWorkers, NEW x, x # None, result[r] = None, result' = [result EXCEPT ![r] = x], NEW t
  PROVE  /\ r \notin Handling(t)
         /\ Handling(t)' = IF x.task = t THEN Handling(t) \cup {r} ELSE Handling(t)
         /\ Cardinality(Handling(t)') = Cardinality(Handling(t)) + IF x.task = t THEN 1 ELSE 0
<1>1. r \notin Handling(t)
  BY DEF Handling
<1>2. /\ Handling(t) \ {r} = Handling(t)' \ {r}
      /\ r \in Handling(t)' <=> x # None /\ x.task = t
      /\ r \notin Handling(t) /\ r \in Handling(t)' => Cardinality(Handling(t)') = Cardinality(Handling(t)) + 1
      /\ r \notin Handling(t) /\ r \notin Handling(t)' => Cardinality(Handling(t)') = Cardinality(Handling(t))
  BY HandlingChanges
<1>3. Cardinality(Handling(t)) \in Nat
  BY Counted
<1>4. CASE x.task = t
  BY <1>1, <1>2, <1>3, <1>4
<1>5. CASE x.task # t
  <2>1. Handling(t)' = Handling(t)
    BY <1>1, <1>2, <1>5
  <2> QED BY <1>1, <1>3, <1>5, <2>1
<1> QED BY <1>1, <1>4, <1>5

LEMMA HandlerDone ==
  ASSUME ShapeInv, NEW r \in ResultWorkers, result[r] # None, ResultDone(r), NEW t
  PROVE  /\ Handling(t)' = Handling(t) \ {r} /\ (r \in Handling(t) <=> result[r].task = t)
         /\ Cardinality(Handling(t)') \in Nat
         /\ Cardinality(Handling(t)) = Cardinality(Handling(t)') + IF result[r].task = t THEN 1 ELSE 0
<1>1. r \in Handling(t) <=> result[r].task = t
  BY DEF Handling
<1>2. /\ Handling(t) \ {r} = Handling(t)' \ {r}
      /\ r \in Handling(t)' <=> None # None /\ None.task = t
      /\ Cardinality(Handling(t)') \in Nat
      /\ r \in Handling(t) /\ r \notin Handling(t)' => Cardinality(Handling(t)') = Cardinality(Handling(t)) - 1
      /\ r \notin Handling(t) /\ r \notin Handling(t)' => Cardinality(Handling(t)') = Cardinality(Handling(t))
  BY HandlingChanges DEF ResultDone
<1>3. Cardinality(Handling(t)) \in Nat
  BY Counted
<1>4. r \notin Handling(t)'
  BY <1>2
<1>5. Handling(t)' = Handling(t) \ {r}
  BY <1>2, <1>4
<1>6. CASE result[r].task = t
  BY <1>1, <1>2, <1>3, <1>4, <1>6
<1>7. CASE result[r].task # t
  BY <1>1, <1>2, <1>3, <1>4, <1>7
<1> QED BY <1>1, <1>2, <1>5, <1>6, <1>7

-----------------------------------------------------------------------------
(* The pool's workers.                                                     *)

\* Worker w goes to step p with envelope e and outcome o.
Moves(w, p, e, o) ==
  /\ pc' = [pc EXCEPT ![w] = p]
  /\ env' = [env EXCEPT ![w] = e]
  /\ outcome' = [outcome EXCEPT ![w] = o]

MayHold(w, p, e, o) ==
  /\ p \in WorkerSteps /\ e \in Envelope \cup {None} /\ o \in {"none", "completed", "failed"}
  /\ e = None <=> p = "idle"
  /\ p = "publish" => o # "none"
  /\ p \notin {"idle", "resend", "deadLetter"} => e.agent = AgentOf[w]
  /\ p # "idle" => Registered(e.task)

Others == <<workflow, dispatching, intake, overdue, inspections>>

LEMMA WorkerShape ==
  ASSUME ShapeInv, NEW w \in Workers, NEW p, NEW e, NEW o, Moves(w, p, e, o), MayHold(w, p, e, o),
         SameRecords, MailKept, results' \in Seq(Result), faults' \in 0..MaxFaults, UNCHANGED Others
  PROVE  ShapeInv'
<1>0. TypeOK /\ WorkersHold /\ RecordsKept /\ Dispatches /\ Attempts
  BY DEF ShapeInv
<1>1. /\ pc' = [pc EXCEPT ![w] = p] /\ env' = [env EXCEPT ![w] = e] /\ outcome' = [outcome EXCEPT ![w] = o]
      /\ workflow' = workflow /\ dispatching' = dispatching /\ result' = result /\ loaded' = loaded
      /\ overdue' = overdue /\ inspections' = inspections
  BY DEF Moves, Others, intake
<1>2. TypeOK'
  BY <1>0, <1>1 DEF TypeOK, MayHold, SameRecords, MailKept
<1>3. WorkersHold'
  BY <1>0, <1>1 DEF TypeOK, WorkersHold, MayHold
<1>4. RecordsKept'
  <2>0. \A u \in Tasks : record'[u] # None <=> Registered(u)
    BY DEF SameRecords, Registered
  <2>1. \A v \in Workers : pc'[v] # "idle" => env'[v] \in Envelope /\ Registered(env'[v].task)
    BY <1>0, <1>1 DEF RecordsKept, MayHold, TypeOK, WorkersHold
  <2>2. \A v \in Workers : pc'[v] # "idle" => record'[env'[v].task] # None
    BY <2>0, <2>1 DEF Envelope
  <2>3. ASSUME NEW a \in Agents, NEW i \in 1..Len(mailbox'[a])
        PROVE  mailbox'[a][i].agent = a /\ record'[mailbox'[a][i].task] # None
    <3>1. mailbox'[a] \in Seq(Envelope)
      BY DEF MailKept
    <3>2. mailbox'[a][i] \in Envelope
      BY <3>1, LenProperties
    <3>3. mailbox'[a][i].task \in Tasks /\ mailbox'[a][i].agent = a /\ Registered(mailbox'[a][i].task)
      BY <3>2 DEF MailKept, Envelope
    <3> QED BY <2>0, <3>3
  <2>4. \A d \in dispatching' : d.step # "record" => record'[d.env.task] # None
    BY <1>0, <1>1, <2>0 DEF RecordsKept, TypeOK, Envelope
  <2>5. overdue' # None => record'[overdue'.task] # None /\ inspections' > 0
    BY <1>0, <1>1, <2>0 DEF RecordsKept, TypeOK
  <2> QED BY <2>2, <2>3, <2>4, <2>5 DEF RecordsKept, Registered
<1>5. Dispatches' /\ Attempts'
  BY <1>0, <1>1 DEF Dispatches, Attempts
<1> QED BY <1>2, <1>3, <1>4, <1>5 DEF ShapeInv

LEMMA SameHolders ==
  ASSUME HoldInv, workflow' = workflow, inspections' = inspections, \A t \in Tasks : Holders(t)' = Holders(t)
  PROVE  HoldInv' 
BY DEF HoldInv

LEMMA SameBound ==
  ASSUME RerouteBound, workflow' = workflow, inspections' = inspections
  PROVE  RerouteBound'
BY DEF RerouteBound

\* A record goes on fitting while nothing new is under way.
LEMMA StillUnderway ==
  ASSUME NEW t \in Tasks, RecordFits(t), SameRecords, RecordsKept, workflow' = workflow, Underway(t)' => Underway(t)
  PROVE  RecordFits(t)'
<1>1. \A d \in Sending(t) : d.step = "publish" => record[t] # None
  BY DEF Sending, RecordsKept, Registered
<1>2. \A a \in Agents : \A i \in 1..Len(mailbox[a]) : mailbox[a][i].task = t => record[t] # None
  BY DEF RecordsKept, Registered
<1>3. \A w \in Working(t) : record[t] # None
  BY DEF Working, RecordsKept, Registered
<1>4. Underway(t) => record[t] # None
  BY <1>1, <1>2, <1>3 DEF Underway
<1>5. Underway(t)' => record'[t].agent = workflow'[t].agent
  BY <1>4 DEF RecordFits, SameRecords, Registered
<1> QED BY <1>5 DEF RecordFits

\* Nothing but who works on what has changed for t.
LEMMA FitWorking ==
  ASSUME NEW t \in Tasks, Fits(t), RecordFits(t), SameRecords, Working(t)' = {} \/ Working(t) # {},
         \A v \in Working(t)' : env'[v].agent = workflow[t].agent,
         RecordsKept, UNCHANGED <<mailbox, results>>, UNCHANGED Others
  PROVE  Fits(t)' /\ RecordFits(t)'
<1>1. /\ workflow' = workflow /\ dispatching' = dispatching /\ result' = result /\ loaded' = loaded
      /\ mailbox' = mailbox /\ results' = results
  BY DEF Others, intake
<1>2. Sending(t)' = Sending(t) /\ Handling(t)' = Handling(t)
  BY <1>1 DEF Sending, Handling
<1>3. Fits(t)'
  BY <1>1, <1>2 DEF Fits
<1>4. Underway(t)' => Underway(t)
  BY <1>1, <1>2 DEF Underway
<1> QED BY <1>1, <1>3, <1>4, StillUnderway

LEMMA WorkerGoesOn ==
  ASSUME DeliveryInv, NEW w \in Workers, NEW p, NEW e, NEW o, Moves(w, p, e, o), MayHold(w, p, e, o),
         pc[w] \notin {"idle", "accept"}, p \notin {"idle", "accept"}, e.task = env[w].task,
         inspections = 0 => e.agent = workflow[env[w].task].agent,
         SameRecords, UNCHANGED <<mailbox, results>>, faults' \in 0..MaxFaults, UNCHANGED Others
  PROVE  DeliveryInv'
<1>0. ShapeInv /\ HoldInv /\ FitInv /\ RerouteBound /\ TypeOK /\ WorkersHold /\ RecordsKept
  BY DEF DeliveryInv, ShapeInv
<1>1. /\ pc' = [pc EXCEPT ![w] = p] /\ env' = [env EXCEPT ![w] = e]
      /\ workflow' = workflow /\ dispatching' = dispatching /\ result' = result /\ loaded' = loaded
      /\ mailbox' = mailbox /\ results' = results /\ inspections' = inspections
  BY DEF Moves, Others, intake
<1>2. MailKept
  BY <1>0, <1>1 DEF MailKept, RecordsKept, TypeOK
<1>3. ShapeInv'
  <2>1. results' \in Seq(Result)
    BY <1>0, <1>1 DEF TypeOK
  <2> QED BY <1>0, <1>2, <2>1, WorkerShape
<1>4. \A t : w \in Working(t) <=> env[w].task = t
  BY DEF Working
<1>5. ASSUME NEW t PROVE Cardinality(Working(t)') = Cardinality(Working(t)) /\ Working(t)' = Working(t)
  <2>0. Turns(w, p, e)
    BY <1>1 DEF Turns
  <2>1. /\ Working(t) \ {w} = Working(t)' \ {w}
        /\ w \in Working(t)' <=> p \notin {"idle", "accept"} /\ e.task = t
    BY <1>0, <2>0, WorkingChanges
  <2>2. Working(t)' = Working(t)
    BY <1>4, <2>1
  <2> QED BY <2>2
<1>6. ASSUME NEW t \in Tasks PROVE Holders(t)' = Holders(t)
  <2>1. Sending(t)' = Sending(t) /\ Posted(t)' = Posted(t) /\ Reported(t)' = Reported(t) /\ Handling(t)' = Handling(t)
    BY <1>1 DEF Sending, Posted, Reported, Handling
  <2> QED BY <1>5, <2>1 DEF Holders
<1>7. HoldInv' /\ RerouteBound'
  BY <1>0, <1>1, <1>6, SameHolders, SameBound
<1>8. FitInv'
  <2> SUFFICES ASSUME inspections = 0, NEW t \in Tasks PROVE Fits(t)' /\ RecordFits(t)'
    BY <1>1 DEF FitInv
  <2>1. Fits(t) /\ RecordFits(t)
    BY <1>0 DEF FitInv
  <2>2. \A v \in Working(t)' : env'[v].agent = workflow[t].agent
    <3>1. \A v \in Working(t) \ {w} : env'[v].agent = workflow[t].agent
      BY <1>0, <1>1, <2>1 DEF Fits, Working, TypeOK
    <3>2. w \in Working(t) => env'[w].agent = workflow[t].agent
      BY <1>0, <1>1, <1>4 DEF TypeOK
    <3> QED BY <1>5, <3>1, <3>2
  <2>3. Working(t)' = {} \/ Working(t) # {}
    BY <1>5
  <2> QED BY <1>0, <1>1, <2>1, <2>2, <2>3, FitWorking
<1> QED BY <1>3, <1>7, <1>8 DEF DeliveryInv

\* What a worker that is not idle knows.
LEMMA WorkerHas ==
  ASSUME DeliveryInv, NEW w \in Workers, pc[w] # "idle"
  PROVE  /\ env[w] \in Envelope /\ env[w].task \in Tasks /\ env[w].agent \in Agents
         /\ record[env[w].task] \in Record /\ Registered(env[w].task)
         /\ pc[w] \in WorkerSteps /\ outcome[w] \in {"none", "completed", "failed"}
         /\ pc[w] # "accept" /\ inspections = 0 =>
              env[w].agent = workflow[env[w].task].agent /\ record[env[w].task].agent = workflow[env[w].task].agent
<1>0. TypeOK /\ WorkersHold /\ RecordsKept /\ FitInv
  BY DEF DeliveryInv, ShapeInv
<1>1. env[w] \in Envelope /\ pc[w] \in WorkerSteps /\ outcome[w] \in {"none", "completed", "failed"}
  BY <1>0 DEF TypeOK, WorkersHold
<1>2. env[w].task \in Tasks /\ env[w].agent \in Agents
  BY <1>1 DEF Envelope
<1>3. Registered(env[w].task)
  BY <1>0 DEF RecordsKept
<1>4. record[env[w].task] \in Record
  BY <1>0, <1>2, <1>3 DEF TypeOK, Registered
<1>5. ASSUME pc[w] # "accept", inspections = 0
      PROVE  env[w].agent = workflow[env[w].task].agent /\ record[env[w].task].agent = workflow[env[w].task].agent
  <2>1. w \in Working(env[w].task)
    BY <1>5 DEF Working
  <2>2. Fits(env[w].task) /\ RecordFits(env[w].task)
    BY <1>0, <1>2, <1>5 DEF FitInv
  <2> QED BY <2>1, <2>2 DEF Fits, RecordFits, Underway
<1> QED BY <1>1, <1>2, <1>3, <1>4, <1>5

LEMMA WorkerHandshake ==
  ASSUME DeliveryInv, NEW w \in Workers,
         WorkerConfirm(w) \/ WorkerAckValidated(w) \/ WorkerAckInvalid(w) \/ WorkerEstablish(w)
  PROVE  DeliveryInv'
<1> PICK t : t = env[w].task
  OBVIOUS
<1>0. pc[w] \in {"confirm", "ackValidated", "ackInvalid", "establish"}
  BY DEF WorkerConfirm, WorkerAckValidated, WorkerAckInvalid, WorkerEstablish
<1>1. /\ env[w] \in Envelope /\ t \in Tasks /\ record[t] \in Record /\ Registered(t)
      /\ outcome[w] \in {"none", "completed", "failed"}
      /\ inspections = 0 => env[w].agent = workflow[t].agent
  BY <1>0, WorkerHas
<1>2. TypeOK /\ WorkersHold /\ env[w] # None /\ env[w].agent = AgentOf[w]
  BY <1>0 DEF DeliveryInv, ShapeInv, WorkersHold
<1>3. record \in [Tasks -> Record \cup {None}] /\ env \in [Workers -> Envelope \cup {None}] /\ faults \in 0..MaxFaults
      /\ outcome \in [Workers -> {"none", "completed", "failed"}]
  BY <1>2 DEF TypeOK
<1>4. PICK p \in {"ackValidated", "ackInvalid", "establish", "deadLetter", "execute", "retry"} : pc' = [pc EXCEPT ![w] = p]
  BY DEF WorkerConfirm, WorkerAckValidated, WorkerAckInvalid, WorkerEstablish, Goto
<1>5. UNCHANGED <<mailbox, results>> /\ UNCHANGED Others /\ faults' = faults /\ env' = env /\ outcome' = outcome
  BY DEF WorkerConfirm, WorkerAckValidated, WorkerAckInvalid, WorkerEstablish, Others, counters, intake
<1>6. record' = record \/ \E x \in Record : x.agent = record[t].agent /\ record' = [record EXCEPT ![t] = x]
  <2>1. ASSUME NEW s \in DeliveryStatus, NEW v \in {"yes", "no"}
        PROVE  [record[t] EXCEPT !.status = s, !.validated = v] \in Record /\ [record[t] EXCEPT !.status = s] \in Record
               /\ [record[t] EXCEPT !.validated = v] \in Record
    BY <1>1 DEF Record
  <2>2. {"validated", "dead_lettered", "failed"} \subseteq DeliveryStatus
    BY DEF DeliveryStatus, Settled
  <2>3. CASE WorkerConfirm(w)
    BY <1>1, <1>3, <2>1, <2>2, <2>3 DEF WorkerConfirm, Record
  <2>4. CASE WorkerAckValidated(w)
    <3> PICK x : x = [record[t] EXCEPT !.status = "validated", !.validated = "yes"]
      OBVIOUS
    <3>1. x \in Record /\ x.agent = record[t].agent /\ record' = [record EXCEPT ![t] = x]
      BY <1>1, <1>3, <2>1, <2>2, <2>4 DEF WorkerAckValidated, Record
    <3> QED BY <3>1
  <2>5. CASE WorkerAckInvalid(w) \/ WorkerEstablish(w)
    <3>1. record' = record \/ \E s \in {"dead_lettered", "failed"} : record' = [record EXCEPT ![t].status = s]
      BY <2>5 DEF WorkerAckInvalid, WorkerEstablish, Ack
    <3>2. ASSUME NEW s \in {"dead_lettered", "failed"}, record' = [record EXCEPT ![t].status = s]
          PROVE  \E x \in Record : x.agent = record[t].agent /\ record' = [record EXCEPT ![t] = x]
      <4> PICK x : x = [record[t] EXCEPT !.status = s]
        OBVIOUS
      <4>1. x \in Record /\ x.agent = record[t].agent /\ record' = [record EXCEPT ![t] = x]
        BY <1>1, <1>3, <2>1, <2>2, <3>2, ZenonT(60) DEF Record
      <4> QED BY <4>1
    <3> QED BY <3>1, <3>2
  <2> QED BY <2>3, <2>4, <2>5
<1>7. SameRecords
  BY <1>1, <1>2, <1>6, Rewritten, NotRewritten
<1>8. Moves(w, p, env[w], outcome[w]) /\ MayHold(w, p, env[w], outcome[w])
  BY <1>1, <1>2, <1>3, <1>4, <1>5 DEF Moves, MayHold, WorkerSteps
<1> QED BY <1>0, <1>1, <1>3, <1>5, <1>7, <1>8, WorkerGoesOn

LEMMA WorkerRuns ==
  ASSUME DeliveryInv, NEW w \in Workers, WorkerExecute(w) \/ WorkerHandlerError(w)
  PROVE  DeliveryInv'
<1> PICK t : t = env[w].task
  OBVIOUS
<1>0. pc[w] \in {"execute", "publish"}
  BY DEF WorkerExecute, WorkerHandlerError
<1>1. /\ env[w] \in Envelope /\ t \in Tasks /\ Registered(t)
      /\ inspections = 0 => env[w].agent = workflow[t].agent
  BY <1>0, WorkerHas
<1>2. TypeOK /\ WorkersHold /\ env[w] # None /\ env[w].agent = AgentOf[w]
  BY <1>0 DEF DeliveryInv, ShapeInv, WorkersHold
<1>3. env \in [Workers -> Envelope \cup {None}] /\ faults \in 0..MaxFaults /\ MaxFaults \in Nat
  BY <1>2, DeliveryAssumption DEF TypeOK
<1>4. PICK p \in {"publish", "retry"}, o \in {"none", "completed", "failed"} :
        /\ pc' = [pc EXCEPT ![w] = p] /\ outcome' = [outcome EXCEPT ![w] = o]
        /\ p = "publish" => o # "none"
  BY DEF WorkerExecute, WorkerHandlerError, Goto
<1>5. UNCHANGED <<mailbox, results>> /\ UNCHANGED Others /\ env' = env /\ record' = record
  BY DEF WorkerExecute, WorkerHandlerError, Others, counters, intake
<1>6. faults' \in 0..MaxFaults
  BY <1>3 DEF WorkerExecute, WorkerHandlerError, counters
<1>7. SameRecords
  BY <1>2, <1>5, NotRewritten
<1>8. Moves(w, p, env[w], o) /\ MayHold(w, p, env[w], o)
  BY <1>1, <1>2, <1>3, <1>4, <1>5 DEF Moves, MayHold, WorkerSteps
<1> QED BY <1>0, <1>1, <1>5, <1>6, <1>7, <1>8, WorkerGoesOn

LEMMA WorkerRetries ==
  ASSUME DeliveryInv, NEW w \in Workers, WorkerRetry(w)
  PROVE  DeliveryInv'
<1> PICK t : t = env[w].task
  OBVIOUS
<1> PICK rec : rec = record[t]
  OBVIOUS
<1> PICK e : e = [task |-> t, agent |-> rec.agent, attempt |-> rec.attempt]
  OBVIOUS
<1>0. pc[w] = "retry"
  BY DEF WorkerRetry
<1>1. /\ t \in Tasks /\ Registered(t) /\ rec \in Record
      /\ outcome[w] \in {"none", "completed", "failed"}
      /\ inspections = 0 => rec.agent = workflow[t].agent
  BY <1>0, WorkerHas
<1>2. TypeOK
  BY DEF DeliveryInv, ShapeInv
<1>3. record \in [Tasks -> Record \cup {None}] /\ faults \in 0..MaxFaults
      /\ outcome \in [Workers -> {"none", "completed", "failed"}]
  BY <1>2 DEF TypeOK
<1>4. e \in Envelope /\ e # None /\ e.task = t /\ e.agent = rec.agent
  BY <1>1, NoneAssumption DEF Envelope, Record
<1>5. PICK p \in {"resend", "deadLetter"} : pc' = [pc EXCEPT ![w] = p]
  BY DEF WorkerRetry, Goto
<1>6. UNCHANGED <<mailbox, results>> /\ UNCHANGED Others /\ faults' = faults /\ outcome' = outcome
      /\ env' = [env EXCEPT ![w] = e]
  BY DEF WorkerRetry, Others, counters, intake
<1>7. SameRecords
  <2> PICK x : x = [rec EXCEPT !.retries = rec.retries + 1, !.status = "retrying"]
    OBVIOUS
  <2>0. rec.retries + 1 \in Nat /\ "retrying" \in DeliveryStatus
    BY <1>1 DEF Record, DeliveryStatus
  <2>1. x \in Record /\ x.agent = rec.agent
    BY <1>1, <2>0 DEF Record
  <2>2. record' = record \/ record' = [record EXCEPT ![t] = x]
    BY <1>1, <1>3 DEF WorkerRetry, Record
  <2>3. CASE record' = record
    BY <1>2, <2>3, NotRewritten
  <2>4. CASE record' = [record EXCEPT ![t] = x]
    BY <1>1, <1>2, <2>1, <2>4, Rewritten
  <2> QED BY <2>2, <2>3, <2>4
<1>8. Moves(w, p, e, outcome[w]) /\ MayHold(w, p, e, outcome[w])
  BY <1>1, <1>3, <1>4, <1>5, <1>6 DEF Moves, MayHold, WorkerSteps
<1> QED BY <1>0, <1>1, <1>3, <1>4, <1>6, <1>8, <1>7, WorkerGoesOn

\* The result queue after a result has been added, taken, or put back in front.
LEMMA ReportAdded ==
  ASSUME ShapeInv, NEW x \in Result, results' = Append(results, x)
  PROVE  /\ results' \in Seq(Result)
         /\ \A i \in 1..Len(results') : results'[i] = x \/ (i \in 1..Len(results) /\ results'[i] = results[i])
         /\ \A t : Cardinality(Reported(t)') = Cardinality(Reported(t)) + IF x.task = t THEN 1 ELSE 0
<1> PICK s : s = results
  OBVIOUS
<1> PICK q : q = Append(s, x)
  OBVIOUS
<1>1. s \in Seq(Result) /\ results' = q
  BY DEF ShapeInv, TypeOK
<1>2. /\ q \in Seq(Result) /\ Len(s) \in Nat /\ Len(q) = Len(s) + 1 /\ q[Len(s) + 1] = x
      /\ \A i \in 1..Len(s) : q[i] = s[i]
  BY <1>1, AppendProperties, LenProperties
<1>3. \A i \in 1..Len(q) : i \in 1..Len(s) \/ i = Len(s) + 1
  BY <1>2
<1>4. \A t : Reported(t) = Places(s, t) /\ Reported(t)' = Places(q, t)
  BY <1>1 DEF Reported, Places
<1>5. \A t : Cardinality(Places(q, t)) = Cardinality(Places(s, t)) + IF x.task = t THEN 1 ELSE 0
  BY <1>1, PlacesAppend
<1> QED BY <1>1, <1>2, <1>3, <1>4, <1>5

Shifted(s, q, x) == s \in Seq(Result) /\ q \in Seq(Result) /\ x \in Result /\ s # <<>> /\ x = Head(s) /\ q = Tail(s)

LEMMA PlacesShifted ==
  ASSUME NEW s, NEW q, NEW x, Shifted(s, q, x), NEW t
  PROVE  Cardinality(Places(s, t)) = Cardinality(Places(q, t)) + IF x.task = t THEN 1 ELSE 0
BY PlacesTail DEF Shifted

LEMMA ReportTaken ==
  ASSUME ShapeInv, results # <<>>, results' = Tail(results)
  PROVE  /\ results' \in Seq(Result) /\ Head(results) \in Result
         /\ 1 \in 1..Len(results) /\ Head(results) = results[1]
         /\ \A i \in 1..Len(results') : \E j \in 1..Len(results) : results'[i] = results[j]
         /\ \A t : Cardinality(Reported(t)) = Cardinality(Reported(t)') + IF Head(results).task = t THEN 1 ELSE 0
<1> PICK s : s = results
  OBVIOUS
<1> PICK q : q = Tail(s)
  OBVIOUS
<1>1. s \in Seq(Result) /\ s # <<>> /\ results' = q
  BY DEF ShapeInv, TypeOK
<1>2. /\ q \in Seq(Result) /\ Len(s) \in Nat /\ Len(s) # 0 /\ Len(q) = Len(s) - 1 /\ Head(s) = s[1] /\ Head(s) \in Result
      /\ \A i \in 1..(Len(s) - 1) : q[i] = s[i + 1]
  BY <1>1, HeadTailProperties, LenProperties, EmptySeq
<1>3. 1 \in 1..Len(s) /\ \A i \in 1..(Len(s) - 1) : i + 1 \in 1..Len(s)
  BY <1>2
<1>4. \A i \in 1..Len(q) : \E j \in 1..Len(s) : q[i] = s[j]
  BY <1>2, <1>3
<1>5. \A t : Reported(t) = Places(s, t) /\ Reported(t)' = Places(q, t)
  BY <1>1 DEF Reported, Places
<1>6. Shifted(s, q, Head(s))
  BY <1>1, <1>2 DEF Shifted
<1>7. ASSUME NEW t PROVE Cardinality(Places(s, t)) = Cardinality(Places(q, t)) + IF Head(s).task = t THEN 1 ELSE 0
  BY <1>6, PlacesShifted
<1> QED BY <1>1, <1>2, <1>3, <1>4, <1>5, <1>7

LEMMA ReportReturned ==
  ASSUME ShapeInv, NEW x \in Result, results' = <<x>> \o results
  PROVE  /\ results' \in Seq(Result)
         /\ \A i \in 1..Len(results') : results'[i] = x \/ \E j \in 1..Len(results) : results'[i] = results[j]
         /\ \A t : Cardinality(Reported(t)') = Cardinality(Reported(t)) + IF x.task = t THEN 1 ELSE 0
<1> PICK s : s = results
  OBVIOUS
<1> PICK q : q = <<x>> \o s
  OBVIOUS
<1>1. s \in Seq(Result) /\ results' = q /\ <<x>> \in Seq(Result)
  BY DEF ShapeInv, TypeOK
<1>2. /\ q \in Seq(Result) /\ Len(s) \in Nat /\ Len(q) = Len(s) + 1 /\ q[1] = x
      /\ \A i \in 2..(Len(s) + 1) : q[i] = s[i - 1]
  BY <1>1, LenProperties
<1>3. \A i \in 1..Len(q) : i = 1 \/ i \in 2..(Len(s) + 1)
  BY <1>2
<1>4. \A i \in 2..(Len(s) + 1) : i - 1 \in 1..Len(s)
  BY <1>2
<1>5. \A i \in 1..Len(q) : q[i] = x \/ \E j \in 1..Len(s) : q[i] = s[j]
  BY <1>2, <1>3, <1>4
<1>6. \A t : Reported(t) = Places(s, t) /\ Reported(t)' = Places(q, t)
  BY <1>1 DEF Reported, Places
<1>7. Shifted(q, s, x)
  <2>1. q # <<>> /\ Head(q) = x /\ Tail(q) = s
    BY <1>1
  <2> QED BY <1>1, <1>2, <2>1 DEF Shifted
<1>8. ASSUME NEW t PROVE Cardinality(Places(q, t)) = Cardinality(Places(s, t)) + IF x.task = t THEN 1 ELSE 0
  BY <1>7, PlacesShifted
<1> QED BY <1>1, <1>2, <1>5, <1>6, <1>8

LEMMA WorkerReceives ==
  ASSUME DeliveryInv, NEW w \in Workers, WorkerReceive(w)
  PROVE  DeliveryInv'
<1> PICK b : b = AgentOf[w]
  OBVIOUS
<1> PICK e : e = Head(mailbox[b])
  OBVIOUS
<1>0. ShapeInv /\ HoldInv /\ FitInv /\ RerouteBound /\ TypeOK /\ WorkersHold /\ RecordsKept
  BY DEF DeliveryInv, ShapeInv
<1>1. /\ b \in Agents /\ mailbox[b] # <<>> /\ mailbox' = [mailbox EXCEPT ![b] = Tail(mailbox[b])] /\ pc[w] = "idle"
      /\ pc' = [pc EXCEPT ![w] = "confirm"] /\ env' = [env EXCEPT ![w] = e] /\ outcome' = outcome
      /\ results' = results /\ record' = record /\ faults' = faults
      /\ workflow' = workflow /\ dispatching' = dispatching /\ result' = result /\ loaded' = loaded
      /\ inspections' = inspections /\ UNCHANGED Others
  BY DeliveryAssumption DEF WorkerReceive, Goto, Others, intake, counters
<1>2. /\ MailKept /\ e \in Envelope /\ 1 \in 1..Len(mailbox[b]) /\ mailbox[b][1] = e
      /\ \A a \in Agents : \A i \in 1..Len(mailbox'[a]) : \E j \in 1..Len(mailbox[a]) : mailbox'[a][i] = mailbox[a][j]
      /\ \A t : Cardinality(Posted(t)) = Cardinality(Posted(t)') + IF e.task = t THEN 1 ELSE 0
  BY <1>0, <1>1, MailTaken
<1>3. e.agent = b /\ e.task \in Tasks /\ Registered(e.task) /\ e # None
  BY <1>0, <1>1, <1>2, NoneAssumption DEF RecordsKept, Envelope
<1>4. ShapeInv'
  <2>1. SameRecords
    BY <1>0, <1>1, NotRewritten
  <2>2. results' \in Seq(Result) /\ faults' \in 0..MaxFaults /\ outcome[w] \in {"none", "completed", "failed"}
        /\ outcome' = [outcome EXCEPT ![w] = outcome[w]]
    BY <1>0, <1>1 DEF TypeOK
  <2>3. Moves(w, "confirm", e, outcome[w]) /\ MayHold(w, "confirm", e, outcome[w])
    BY <1>1, <1>2, <1>3, <2>2 DEF Moves, MayHold, WorkerSteps
  <2> QED BY <1>0, <1>1, <1>2, <2>1, <2>2, <2>3, WorkerShape
<1>5. ASSUME NEW t
      PROVE  /\ w \notin Working(t)
             /\ Working(t)' = IF e.task = t THEN Working(t) \cup {w} ELSE Working(t)
             /\ Cardinality(Working(t)') = Cardinality(Working(t)) + IF e.task = t THEN 1 ELSE 0
  <2> PICK p : p = "confirm"
    OBVIOUS
  <2>1. p \notin {"idle", "accept"} /\ Turns(w, p, e)
    BY <1>1 DEF Turns
  <2> QED BY <1>0, <1>1, <2>1, WorkerGains
<1>6. \A t : w \notin Working(t) /\ Working(t)' = IF e.task = t THEN Working(t) \cup {w} ELSE Working(t)
  BY <1>5
<1>7. ASSUME NEW t \in Tasks PROVE Holders(t)' = Holders(t)
  <2>1. Sending(t)' = Sending(t) /\ Reported(t)' = Reported(t) /\ Handling(t)' = Handling(t)
    BY <1>1 DEF Sending, Reported, Handling
  <2>2. /\ Cardinality(Sending(t)) \in Nat /\ Cardinality(Posted(t)) \in Nat /\ Cardinality(Working(t)) \in Nat
        /\ Cardinality(Reported(t)) \in Nat /\ Cardinality(Handling(t)) \in Nat
    BY <1>0, Counted
  <2>3. Cardinality(Posted(t)') \in Nat
    <3>1. mailbox' \in [Agents -> Seq(Envelope)] /\ Posted(t)' = PostedIn(mailbox', t)
      BY <1>2 DEF MailKept, Posted, PostedIn
    <3> QED BY <3>1, PostedFinite
  <2>4. Cardinality(Posted(t)) = Cardinality(Posted(t)') + IF e.task = t THEN 1 ELSE 0
    BY <1>2
  <2>5. Cardinality(Working(t)') = Cardinality(Working(t)) + IF e.task = t THEN 1 ELSE 0
    BY <1>5
  <2> QED BY <2>1, <2>2, <2>3, <2>4, <2>5 DEF Holders
<1>8. HoldInv' /\ RerouteBound'
  BY <1>0, <1>1, <1>7, SameHolders, SameBound
<1>9. FitInv'
  <2> SUFFICES ASSUME inspections = 0, NEW t \in Tasks PROVE Fits(t)' /\ RecordFits(t)'
    BY <1>1 DEF FitInv
  <2>1. Fits(t) /\ RecordFits(t)
    BY <1>0 DEF FitInv
  <2>2. Sending(t)' = Sending(t) /\ Handling(t)' = Handling(t)
    BY <1>1 DEF Sending, Handling
  <2>3. \A a \in Agents : \A i \in 1..Len(mailbox'[a]) : mailbox'[a][i].task = t => a = workflow[t].agent
    BY <1>2, <2>1 DEF Fits
  <2>4. \A v \in Working(t)' : env'[v].agent = workflow[t].agent
    <3>1. \A v \in Working(t) : v # w /\ env'[v].agent = workflow[t].agent
      BY <1>0, <1>1, <1>6, <2>1 DEF Fits, Working, TypeOK
    <3>2. e.task = t => env'[w].agent = workflow[t].agent
      BY <1>0, <1>1, <1>2, <1>3, <2>1 DEF Fits, TypeOK
    <3> QED BY <1>6, <3>1, <3>2
  <2>5. Fits(t)'
    BY <1>1, <2>1, <2>2, <2>3, <2>4 DEF Fits
  <2>6. Underway(t)' => Underway(t)
    <3>1. e.task = t => Underway(t)
      BY <1>1, <1>2 DEF Underway
    <3>2. ASSUME NEW a \in Agents, NEW i \in 1..Len(mailbox'[a]), mailbox'[a][i].task = t PROVE Underway(t)
      BY <1>2, <3>2 DEF Underway
    <3>3. Working(t)' # {} => Working(t) # {} \/ e.task = t
      BY <1>6
    <3> QED BY <2>2, <3>1, <3>2, <3>3 DEF Underway
  <2>7. SameRecords
    BY <1>0, <1>1, NotRewritten
  <2> QED BY <1>0, <1>1, <2>1, <2>5, <2>6, <2>7, StillUnderway
<1> QED BY <1>4, <1>8, <1>9 DEF DeliveryInv

LEMMA WorkerReports ==
  ASSUME DeliveryInv, NEW w \in Workers, NEW p \in {"idle", "accept"}, NEW e, NEW o, NEW x \in Result,
         pc[w] \notin {"idle", "accept"}, Moves(w, p, e, o), MayHold(w, p, e, o),
         x.task = env[w].task, x.agent = env[w].agent, results' = Append(results, x),
         record' = record, mailbox' = mailbox, faults' = faults, UNCHANGED Others
  PROVE  DeliveryInv'
<1>0. ShapeInv /\ HoldInv /\ FitInv /\ RerouteBound /\ TypeOK /\ WorkersHold /\ RecordsKept
  BY DEF DeliveryInv, ShapeInv
<1>1. /\ pc' = [pc EXCEPT ![w] = p] /\ env' = [env EXCEPT ![w] = e] /\ Turns(w, p, e)
      /\ workflow' = workflow /\ dispatching' = dispatching /\ result' = result /\ loaded' = loaded
      /\ inspections' = inspections
  BY DEF Moves, Turns, Others, intake
<1>2. /\ results' \in Seq(Result)
      /\ \A i \in 1..Len(results') : results'[i] = x \/ (i \in 1..Len(results) /\ results'[i] = results[i])
      /\ \A t : Cardinality(Reported(t)') = Cardinality(Reported(t)) + IF x.task = t THEN 1 ELSE 0
  BY <1>0, ReportAdded
<1>3. SameRecords
  BY <1>0, NotRewritten
<1>4. ShapeInv'
  <2>1. MailKept /\ faults' \in 0..MaxFaults
    BY <1>0 DEF MailKept, RecordsKept, TypeOK
  <2> QED BY <1>0, <1>2, <1>3, <2>1, WorkerShape
<1>5. ASSUME NEW t
      PROVE  /\ Working(t)' = Working(t) \ {w} /\ (w \in Working(t) <=> env[w].task = t)
             /\ Cardinality(Working(t)') \in Nat
             /\ Cardinality(Working(t)) = Cardinality(Working(t)') + IF env[w].task = t THEN 1 ELSE 0
  BY <1>0, <1>1, WorkerDrops
<1>6. ASSUME NEW t \in Tasks PROVE Holders(t)' = Holders(t)
  <2>1. Sending(t)' = Sending(t) /\ Posted(t)' = Posted(t) /\ Handling(t)' = Handling(t)
    BY <1>1 DEF Sending, Posted, Handling
  <2>2. /\ Cardinality(Sending(t)) \in Nat /\ Cardinality(Posted(t)) \in Nat /\ Cardinality(Working(t)) \in Nat
        /\ Cardinality(Reported(t)) \in Nat /\ Cardinality(Handling(t)) \in Nat
    BY <1>0, Counted
  <2>3. Cardinality(Reported(t)') = Cardinality(Reported(t)) + IF env[w].task = t THEN 1 ELSE 0
    BY <1>2
  <2>4. /\ Cardinality(Working(t)') \in Nat
        /\ Cardinality(Working(t)) = Cardinality(Working(t)') + IF env[w].task = t THEN 1 ELSE 0
    BY <1>5
  <2> QED BY <2>1, <2>2, <2>3, <2>4 DEF Holders
<1>7. HoldInv' /\ RerouteBound'
  BY <1>0, <1>1, <1>6, SameHolders, SameBound
<1>8. FitInv'
  <2> SUFFICES ASSUME inspections = 0, NEW t \in Tasks PROVE Fits(t)' /\ RecordFits(t)'
    BY <1>1 DEF FitInv
  <2>1. Fits(t) /\ RecordFits(t)
    BY <1>0 DEF FitInv
  <2>2. Sending(t)' = Sending(t) /\ Handling(t)' = Handling(t)
    BY <1>1 DEF Sending, Handling
  <2>3. Working(t)' = Working(t) \ {w} /\ (w \in Working(t) <=> env[w].task = t)
    BY <1>5
  <2>4. \A i \in 1..Len(results') : results'[i].task = t => results'[i].agent = workflow[t].agent
    <3>1. x.task = t => x.agent = workflow[t].agent
      BY <2>1, <2>3 DEF Fits
    <3> QED BY <1>2, <2>1, <3>1 DEF Fits
  <2>5. \A v \in Working(t)' : env'[v].agent = workflow[t].agent
    BY <1>0, <1>1, <2>1, <2>3 DEF Fits, Working, TypeOK
  <2>6. Fits(t)'
    BY <1>1, <2>1, <2>2, <2>4, <2>5 DEF Fits
  <2>7. Underway(t)' => Underway(t)
    BY <2>2, <2>3 DEF Underway
  <2> QED BY <1>0, <1>1, <1>3, <2>1, <2>6, <2>7, StillUnderway
<1> QED BY <1>4, <1>7, <1>8 DEF DeliveryInv

LEMMA WorkerPublishes ==
  ASSUME DeliveryInv, NEW w \in Workers, WorkerPublish(w)
  PROVE  DeliveryInv'
<1>0. TypeOK /\ WorkersHold /\ pc[w] = "publish"
  BY DEF DeliveryInv, ShapeInv, WorkerPublish
<1>1. env[w] \in Envelope /\ env[w].task \in Tasks /\ env[w].agent \in Agents /\ Registered(env[w].task)
  BY <1>0, WorkerHas
<1>2. env[w].agent = AgentOf[w] /\ outcome[w] \in {"completed", "failed"} /\ env[w] # None
  BY <1>0 DEF WorkersHold, TypeOK
<1> PICK x : x = [task |-> env[w].task, agent |-> AgentOf[w], status |-> outcome[w]]
  OBVIOUS
<1>3. x \in Result /\ x.task = env[w].task /\ x.agent = env[w].agent
  BY <1>1, <1>2 DEF Result
<1>4. /\ results' = Append(results, x) /\ record' = record /\ mailbox' = mailbox /\ faults' = faults /\ UNCHANGED Others
      /\ pc' = [pc EXCEPT ![w] = "accept"] /\ env' = [env EXCEPT ![w] = env[w]] /\ outcome' = [outcome EXCEPT ![w] = "none"]
  BY <1>0 DEF WorkerPublish, Goto, Others, intake, counters, TypeOK
<1> PICK p : p = "accept"
  OBVIOUS
<1>5. Moves(w, p, env[w], "none") /\ MayHold(w, p, env[w], "none")
  BY <1>1, <1>2, <1>4 DEF Moves, MayHold, WorkerSteps
<1>6. p \in {"idle", "accept"} /\ pc[w] \notin {"idle", "accept"}
  BY <1>0
<1> QED BY <1>3, <1>4, <1>5, <1>6, WorkerReports

LEMMA WorkerDeadLetters ==
  ASSUME DeliveryInv, NEW w \in Workers, WorkerDeadLetter(w)
  PROVE  DeliveryInv'
<1>0. TypeOK /\ WorkersHold /\ pc[w] = "deadLetter"
  BY DEF DeliveryInv, ShapeInv, WorkerDeadLetter
<1>1. env[w] \in Envelope /\ env[w].task \in Tasks /\ env[w].agent \in Agents
  BY <1>0, WorkerHas
<1> PICK x : x = [task |-> env[w].task, agent |-> env[w].agent, status |-> "dead_lettered"]
  OBVIOUS
<1>2. x \in Result /\ x.task = env[w].task /\ x.agent = env[w].agent
  BY <1>1 DEF Result
<1>3. outcome[w] \in {"none", "completed", "failed"}
  BY <1>0 DEF TypeOK
<1>4. /\ results' = Append(results, x) /\ record' = record /\ mailbox' = mailbox /\ faults' = faults /\ UNCHANGED Others
      /\ pc' = [pc EXCEPT ![w] = "idle"] /\ env' = [env EXCEPT ![w] = None] /\ outcome' = [outcome EXCEPT ![w] = outcome[w]]
  BY <1>0 DEF WorkerDeadLetter, Goto, Others, intake, counters, TypeOK
<1> PICK p : p = "idle"
  OBVIOUS
<1>5. Moves(w, p, None, outcome[w]) /\ MayHold(w, p, None, outcome[w])
  BY <1>3, <1>4 DEF Moves, MayHold, WorkerSteps
<1>6. p \in {"idle", "accept"} /\ pc[w] \notin {"idle", "accept"}
  BY <1>0
<1> QED BY <1>2, <1>4, <1>5, <1>6, WorkerReports

LEMMA WorkerAccepts ==
  ASSUME DeliveryInv, NEW w \in Workers, WorkerAccept(w)
  PROVE  DeliveryInv'
<1> PICK t : t = env[w].task
  OBVIOUS
<1>0. ShapeInv /\ HoldInv /\ FitInv /\ RerouteBound /\ TypeOK /\ WorkersHold /\ RecordsKept /\ pc[w] = "accept"
  BY DEF DeliveryInv, ShapeInv, WorkerAccept
<1>1. t \in Tasks /\ Registered(t) /\ record[t] \in Record /\ outcome[w] \in {"none", "completed", "failed"}
  BY <1>0, WorkerHas
<1>2. /\ results' = results /\ mailbox' = mailbox /\ faults' = faults /\ UNCHANGED Others
      /\ pc' = [pc EXCEPT ![w] = "idle"] /\ env' = [env EXCEPT ![w] = None] /\ outcome' = [outcome EXCEPT ![w] = outcome[w]]
      /\ record' = [record EXCEPT ![t].status = "accepted"]
      /\ workflow' = workflow /\ inspections' = inspections /\ dispatching' = dispatching /\ result' = result
  BY <1>0 DEF WorkerAccept, Ack, Goto, Others, intake, counters, TypeOK
<1>3. SameRecords
  <2> PICK y : y = [record[t] EXCEPT !.status = "accepted"]
    OBVIOUS
  <2>1. "accepted" \in DeliveryStatus /\ record \in [Tasks -> Record \cup {None}]
    BY <1>0 DEF DeliveryStatus, Settled, TypeOK
  <2>2. y \in Record /\ y.agent = record[t].agent /\ record' = [record EXCEPT ![t] = y]
    BY <1>1, <1>2, <2>1 DEF Record
  <2> QED BY <1>0, <1>1, <2>2, Rewritten
<1> PICK p : p = "idle"
  OBVIOUS
<1>4. ShapeInv'
  <2>1. MailKept /\ faults' \in 0..MaxFaults /\ results' \in Seq(Result)
    BY <1>0, <1>2 DEF MailKept, RecordsKept, TypeOK
  <2>2. Moves(w, p, None, outcome[w]) /\ MayHold(w, p, None, outcome[w])
    BY <1>1, <1>2 DEF Moves, MayHold, WorkerSteps
  <2> QED BY <1>0, <1>2, <1>3, <2>1, <2>2, WorkerShape
<1>5. \A u : Working(u)' = Working(u) /\ \A v \in Working(u) : v # w
  BY <1>0, <1>2 DEF Working, TypeOK
<1>6. ASSUME NEW u \in Tasks PROVE Holders(u)' = Holders(u)
  <2>1. Sending(u)' = Sending(u) /\ Posted(u)' = Posted(u) /\ Reported(u)' = Reported(u) /\ Handling(u)' = Handling(u)
    BY <1>2 DEF Sending, Posted, Reported, Handling
  <2> QED BY <1>5, <2>1 DEF Holders
<1>7. HoldInv' /\ RerouteBound'
  BY <1>0, <1>2, <1>6, SameHolders, SameBound
<1>8. FitInv'
  <2> SUFFICES ASSUME inspections = 0, NEW u \in Tasks PROVE Fits(u)' /\ RecordFits(u)'
    BY <1>2 DEF FitInv
  <2>1. Fits(u) /\ RecordFits(u)
    BY <1>0 DEF FitInv
  <2>2. \A v \in Working(u)' : env'[v].agent = workflow[u].agent
    BY <1>0, <1>2, <1>5, <2>1 DEF Fits, Working, TypeOK
  <2>3. Working(u)' = {} \/ Working(u) # {}
    BY <1>5
  <2> QED BY <1>0, <1>2, <1>3, <2>1, <2>2, <2>3, FitWorking
<1> QED BY <1>4, <1>7, <1>8 DEF DeliveryInv

LEMMA WorkerResends ==
  ASSUME DeliveryInv, NEW w \in Workers, WorkerResend(w)
  PROVE  DeliveryInv'
<1> PICK e : e = env[w]
  OBVIOUS
<1>0. ShapeInv /\ HoldInv /\ FitInv /\ RerouteBound /\ TypeOK /\ WorkersHold /\ RecordsKept /\ pc[w] = "resend"
  BY DEF DeliveryInv, ShapeInv, WorkerResend
<1>1. /\ e \in Envelope /\ e.task \in Tasks /\ Registered(e.task) /\ outcome[w] \in {"none", "completed", "failed"}
  BY <1>0, WorkerHas
<1>2. /\ Publish(e) /\ results' = results /\ record' = record /\ faults' = faults /\ UNCHANGED Others
      /\ pc' = [pc EXCEPT ![w] = "idle"] /\ env' = [env EXCEPT ![w] = None] /\ outcome' = [outcome EXCEPT ![w] = outcome[w]]
      /\ workflow' = workflow /\ inspections' = inspections /\ dispatching' = dispatching
      /\ result' = result /\ loaded' = loaded
  BY <1>0 DEF WorkerResend, Goto, Others, intake, counters, TypeOK
<1>3. /\ \A a \in Agents : \A i \in 1..Len(mailbox'[a]) :
           \/ mailbox'[a][i] = e /\ a = e.agent
           \/ i \in 1..Len(mailbox[a]) /\ mailbox'[a][i] = mailbox[a][i]
      /\ MailKept
      /\ \A t : Cardinality(Posted(t)') = Cardinality(Posted(t)) + IF e.task = t THEN 1 ELSE 0
  BY <1>0, <1>1, <1>2, MailPublished
<1>4. SameRecords
  BY <1>0, <1>2, NotRewritten
<1> PICK p : p = "idle"
  OBVIOUS
<1>5. ShapeInv'
  <2>1. faults' \in 0..MaxFaults /\ results' \in Seq(Result)
    BY <1>0, <1>2 DEF TypeOK
  <2>2. Moves(w, p, None, outcome[w]) /\ MayHold(w, p, None, outcome[w])
    BY <1>1, <1>2 DEF Moves, MayHold, WorkerSteps
  <2> QED BY <1>0, <1>2, <1>3, <1>4, <2>1, <2>2, WorkerShape
<1>6. ASSUME NEW t
      PROVE  /\ Working(t)' = Working(t) \ {w} /\ (w \in Working(t) <=> e.task = t)
             /\ Cardinality(Working(t)') \in Nat
             /\ Cardinality(Working(t)) = Cardinality(Working(t)') + IF e.task = t THEN 1 ELSE 0
  <2>1. Turns(w, p, None) /\ p \in {"idle", "accept"} /\ pc[w] \notin {"idle", "accept"}
    BY <1>0, <1>2 DEF Turns
  <2> QED BY <1>0, <2>1, WorkerDrops
<1>7. ASSUME NEW t \in Tasks PROVE Holders(t)' = Holders(t)
  <2>1. Sending(t)' = Sending(t) /\ Reported(t)' = Reported(t) /\ Handling(t)' = Handling(t)
    BY <1>2 DEF Sending, Reported, Handling
  <2>2. /\ Cardinality(Sending(t)) \in Nat /\ Cardinality(Posted(t)) \in Nat /\ Cardinality(Working(t)) \in Nat
        /\ Cardinality(Reported(t)) \in Nat /\ Cardinality(Handling(t)) \in Nat
    BY <1>0, Counted
  <2>3. Cardinality(Posted(t)') = Cardinality(Posted(t)) + IF e.task = t THEN 1 ELSE 0
    BY <1>3
  <2>4. /\ Cardinality(Working(t)') \in Nat
        /\ Cardinality(Working(t)) = Cardinality(Working(t)') + IF e.task = t THEN 1 ELSE 0
    BY <1>6
  <2> QED BY <2>1, <2>2, <2>3, <2>4 DEF Holders
<1>8. HoldInv' /\ RerouteBound'
  BY <1>0, <1>2, <1>7, SameHolders, SameBound
<1>9. FitInv'
  <2> SUFFICES ASSUME inspections = 0, NEW t \in Tasks PROVE Fits(t)' /\ RecordFits(t)'
    BY <1>2 DEF FitInv
  <2>1. Fits(t) /\ RecordFits(t)
    BY <1>0 DEF FitInv
  <2>2. Sending(t)' = Sending(t) /\ Handling(t)' = Handling(t)
    BY <1>2 DEF Sending, Handling
  <2>3. Working(t)' = Working(t) \ {w} /\ (w \in Working(t) <=> e.task = t)
    BY <1>6
  <2>4. e.task = t => e.agent = workflow[t].agent
    BY <2>1, <2>3 DEF Fits
  <2>5. \A a \in Agents : \A i \in 1..Len(mailbox'[a]) : mailbox'[a][i].task = t => a = workflow[t].agent
    BY <1>3, <2>1, <2>4 DEF Fits
  <2>6. \A v \in Working(t)' : env'[v].agent = workflow[t].agent
    BY <1>0, <1>2, <2>1, <2>3 DEF Fits, Working, TypeOK
  <2>7. Fits(t)'
    BY <1>2, <2>1, <2>2, <2>5, <2>6 DEF Fits
  <2>8. Underway(t)' => Underway(t)
    <3>1. e.task = t => Underway(t)
      BY <2>3 DEF Underway
    <3>2. ASSUME NEW a \in Agents, NEW i \in 1..Len(mailbox'[a]), mailbox'[a][i].task = t PROVE Underway(t)
      BY <1>3, <3>1, <3>2 DEF Underway
    <3> QED BY <2>2, <2>3, <3>2 DEF Underway
  <2> QED BY <1>0, <1>2, <1>4, <2>1, <2>7, <2>8, StillUnderway
<1> QED BY <1>5, <1>8, <1>9 DEF DeliveryInv

-----------------------------------------------------------------------------
(* Supervisor.Dispatch.                                                    *)

\* What stays registered stays with those who need it.
Remembered == /\ record' \in [Tasks -> Record \cup {None}]
              /\ \A u \in Tasks : Registered(u) => record'[u] # None

LEMMA KeptRecords ==
  ASSUME ShapeInv, Remembered, UNCHANGED pool, MailKept,
         \A d \in dispatching' : d.step # "record" => record'[d.env.task] # None,
         overdue' # None => record'[overdue'.task] # None /\ inspections' > 0
  PROVE  RecordsKept' /\ WorkersHold'
<1>0. TypeOK /\ WorkersHold /\ RecordsKept /\ pc' = pc /\ env' = env /\ outcome' = outcome
  BY DEF ShapeInv, pool
<1>1. WorkersHold'
  BY <1>0 DEF WorkersHold
<1>2. \A w \in Workers : pc'[w] # "idle" => record'[env'[w].task] # None
  <2>1. \A w \in Workers : pc[w] # "idle" => env[w].task \in Tasks /\ Registered(env[w].task)
    BY <1>0 DEF WorkersHold, RecordsKept, TypeOK, Envelope
  <2> QED BY <1>0, <2>1 DEF Remembered
<1>3. ASSUME NEW a \in Agents, NEW i \in 1..Len(mailbox'[a])
      PROVE  mailbox'[a][i].agent = a /\ record'[mailbox'[a][i].task] # None
  <2>1. mailbox'[a] \in Seq(Envelope)
    BY DEF MailKept
  <2>2. mailbox'[a][i] \in Envelope
    BY <2>1, LenProperties
  <2>3. mailbox'[a][i].task \in Tasks /\ mailbox'[a][i].agent = a /\ Registered(mailbox'[a][i].task)
    BY <2>2 DEF MailKept, Envelope
  <2> QED BY <2>3 DEF Remembered
<1>4. RecordsKept'
  BY <1>2, <1>3 DEF RecordsKept, Registered
<1> QED BY <1>1, <1>4

LEMMA SameRemembered ==
  ASSUME SameRecords
  PROVE  Remembered
BY DEF SameRecords, Remembered, Registered

\* A dispatch that goes to its next step.
Advanced(d, c, n) ==
  /\ c.step = n /\ c.env = d.env /\ c.by = d.by
  /\ c \notin dispatching
  /\ dispatching' = (dispatching \ {d}) \cup {c}

LEMMA StepAdvances ==
  ASSUME ShapeInv, NEW d \in dispatching, NEW n \in DispatchSteps, d.step # n, dispatching' = Step(d, n)
  PROVE  /\ Advanced(d, [d EXCEPT !.step = n], n)
         /\ dispatching' \subseteq [step : DispatchSteps, env : Envelope, by : Tasks \cup ResultWorkers]
<1> PICK c : c = [d EXCEPT !.step = n]
  OBVIOUS
<1>0. Dispatches /\ dispatching \subseteq [step : DispatchSteps, env : Envelope, by : Tasks \cup ResultWorkers]
  BY DEF ShapeInv, TypeOK
<1>1. c.step = n /\ c.env = d.env /\ c.by = d.by /\ c \in [step : DispatchSteps, env : Envelope, by : Tasks \cup ResultWorkers]
  BY <1>0
<1>2. c \notin dispatching
  BY <1>0, <1>1 DEF Dispatches
<1> QED BY <1>0, <1>1, <1>2 DEF Advanced, Step

LEMMA DispatchesAdvance ==
  ASSUME ShapeInv, NEW d \in dispatching, NEW c, NEW n, Advanced(d, c, n), UNCHANGED <<workflow, intake>>
  PROVE  Dispatches'
<1>0. Dispatches /\ dispatching' = (dispatching \ {d}) \cup {c} /\ c.by = d.by /\ c.env = d.env
  BY DEF ShapeInv, Advanced
<1>1. IsFiniteSet(dispatching')
  <2>1. IsFiniteSet(dispatching \ {d})
    BY <1>0, FS_RemoveElement DEF Dispatches
  <2> QED BY <1>0, <2>1, FS_AddElement
<1>2. \A x, y \in dispatching' : x.by = y.by => x = y
  BY <1>0 DEF Dispatches
<1>3. \A x \in dispatching' : /\ x.env.attempt >= 1
                              /\ x.by \in ResultWorkers => result'[x.by] = None
                              /\ x.by \in Tasks => workflow'[x.by].status # "queued"
  BY <1>0 DEF Dispatches, intake
<1> QED BY <1>1, <1>2, <1>3 DEF Dispatches

LEMMA SendingAdvances ==
  ASSUME ShapeInv, NEW d \in dispatching, d.step \in {"record", "publish"}, NEW c, NEW n, Advanced(d, c, n), NEW t
  PROVE  /\ Sending(t)' = (Sending(t) \ {d}) \cup IF d.env.task = t /\ n \in {"record", "publish"} THEN {c} ELSE {}
         /\ Cardinality(Sending(t)') \in Nat
         /\ n \in {"record", "publish"} => Cardinality(Sending(t)') = Cardinality(Sending(t))
         /\ n \notin {"record", "publish"} =>
              Cardinality(Sending(t)) = Cardinality(Sending(t)') + IF d.env.task = t THEN 1 ELSE 0
<1> PICK A : A = Sending(t)
  OBVIOUS
<1> PICK B : B = A \ {d}
  OBVIOUS
<1> PICK C : C = Sending(t)'
  OBVIOUS
<1>0. c.step = n /\ c.env = d.env /\ c.by = d.by /\ c \notin dispatching /\ dispatching' = (dispatching \ {d}) \cup {c}
  BY DEF Advanced
<1>1. C = B \cup (IF d.env.task = t /\ n \in {"record", "publish"} THEN {c} ELSE {})
  BY <1>0 DEF Sending
<1>2. IsFiniteSet(A) /\ Cardinality(A) \in Nat
  BY Counted
<1>3. (d \in A <=> d.env.task = t) /\ c \notin A /\ c \notin B
  BY <1>0 DEF Sending
<1>4. /\ IsFiniteSet(B) /\ Cardinality(B) \in Nat
      /\ d \in A => Cardinality(B) = Cardinality(A) - 1
      /\ d \notin A => Cardinality(B) = Cardinality(A)
  <2>1. A \ {d} = B \ {d} /\ d \notin B
    OBVIOUS
  <2> QED BY <1>2, <2>1, OneChanges
<1>5. IsFiniteSet(B \cup {c}) /\ Cardinality(B \cup {c}) = Cardinality(B) + 1
  BY <1>3, <1>4, FS_AddElement
<1>6. CASE d.env.task = t /\ n \in {"record", "publish"}
  <2>1. C = B \cup {c} /\ d \in A
    BY <1>1, <1>3, <1>6
  <2> QED BY <1>1, <1>2, <1>4, <1>5, <1>6, <2>1
<1>7. CASE ~(d.env.task = t /\ n \in {"record", "publish"})
  <2>1. C = B
    BY <1>1, <1>7
  <2> QED BY <1>1, <1>2, <1>3, <1>4, <1>7, <2>1, SMTT(30)
<1> QED BY <1>6, <1>7

LEMMA DispatchRecords ==
  ASSUME DeliveryInv, NEW d \in dispatching, DispatchRecord(d)
  PROVE  DeliveryInv'
<1> PICK t : t = d.env.task
  OBVIOUS
<1> PICK c : c = [d EXCEPT !.step = "publish"]
  OBVIOUS
<1> PICK n : n = "publish"
  OBVIOUS
<1> PICK x : x = [status |-> "sent", agent |-> d.env.agent, attempt |-> d.env.attempt,
                  retries |-> d.env.attempt - 1, validated |-> "no"]
  OBVIOUS
<1>0. ShapeInv /\ HoldInv /\ FitInv /\ RerouteBound /\ TypeOK /\ RecordsKept /\ Dispatches /\ Attempts
  BY DEF DeliveryInv, ShapeInv
<1>1. /\ d.step = "record" /\ record' = [record EXCEPT ![t] = x] /\ dispatching' = Step(d, n)
      /\ workflow' = workflow /\ mailbox' = mailbox /\ results' = results /\ UNCHANGED pool
      /\ result' = result /\ loaded' = loaded /\ overdue' = overdue /\ faults' = faults /\ inspections' = inspections
      /\ pc' = pc /\ env' = env /\ outcome' = outcome
  BY DEF DispatchRecord, pool, intake, counters
<1>2. d \in [step : DispatchSteps, env : Envelope, by : Tasks \cup ResultWorkers] /\ d.env \in Envelope
  BY <1>0 DEF TypeOK
<1>3. t \in Tasks /\ d.env.agent \in Agents /\ d.env.attempt \in Nat /\ d.env.attempt >= 1
  BY <1>0, <1>2 DEF Envelope, Dispatches
<1>4. x \in Record /\ x # None /\ x.agent = d.env.agent
  <2>1. d.env.attempt - 1 \in Nat /\ "sent" \in DeliveryStatus
    BY <1>3 DEF DeliveryStatus
  <2> QED BY <1>3, <2>1, NoneAssumption DEF Record
<1>5. /\ Advanced(d, c, n)
      /\ dispatching' \subseteq [step : DispatchSteps, env : Envelope, by : Tasks \cup ResultWorkers]
  <2>1. n \in DispatchSteps /\ d.step # n
    BY <1>1 DEF DispatchSteps
  <2> QED BY <1>0, <1>1, <2>1, StepAdvances
<1>6. record' \in [Tasks -> Record \cup {None}] /\ record'[t] = x /\ \A u \in Tasks \ {t} : record'[u] = record[u]
  BY <1>0, <1>1, <1>3, <1>4 DEF TypeOK
<1>7. Remembered
  BY <1>4, <1>6 DEF Remembered, Registered
<1>8. ShapeInv'
  <2>1. TypeOK'
    BY <1>0, <1>1, <1>5, <1>6 DEF TypeOK
  <2>2. MailKept
    BY <1>0, <1>1 DEF MailKept, RecordsKept, TypeOK
  <2>3. \A b \in dispatching' : b.step # "record" => record'[b.env.task] # None
    <3>1. \A b \in dispatching : b.env.task \in Tasks
      BY <1>0 DEF TypeOK, Envelope
    <3>2. \A b \in dispatching : b.step # "record" => record'[b.env.task] # None
      BY <1>0, <1>7, <3>1 DEF RecordsKept, Remembered
    <3>3. record'[c.env.task] # None
      BY <1>4, <1>5, <1>6 DEF Advanced
    <3> QED BY <1>5, <3>2, <3>3 DEF Advanced
  <2>4. overdue' # None => record'[overdue'.task] # None /\ inspections' > 0
    <3>1. overdue # None => overdue.task \in Tasks
      BY <1>0 DEF TypeOK
    <3> QED BY <1>0, <1>1, <1>7, <3>1 DEF RecordsKept, Remembered
  <2>5. RecordsKept' /\ WorkersHold'
    BY <1>0, <1>1, <1>7, <2>2, <2>3, <2>4, KeptRecords
  <2>6. Dispatches'
    <3>1. UNCHANGED <<workflow, intake>>
      BY <1>1 DEF intake
    <3> QED BY <1>0, <1>5, <3>1, DispatchesAdvance
  <2>7. Attempts'
    BY <1>0, <1>1 DEF Attempts
  <2> QED BY <2>1, <2>5, <2>6, <2>7 DEF ShapeInv
<1>9. ASSUME NEW u
      PROVE  /\ Sending(u)' = (Sending(u) \ {d}) \cup IF t = u THEN {c} ELSE {}
             /\ Cardinality(Sending(u)') = Cardinality(Sending(u))
             /\ d \in Sending(u) <=> t = u
  <2>1. d.step \in {"record", "publish"} /\ n \in {"record", "publish"}
    BY <1>1
  <2>2. d \in Sending(u) <=> t = u
    BY <2>1 DEF Sending
  <2>3. /\ Sending(u)' = (Sending(u) \ {d}) \cup IF d.env.task = u /\ n \in {"record", "publish"} THEN {c} ELSE {}
        /\ n \in {"record", "publish"} => Cardinality(Sending(u)') = Cardinality(Sending(u))
    BY <1>0, <1>5, <2>1, SendingAdvances
  <2> QED BY <2>1, <2>2, <2>3
<1>10. \A u : Posted(u)' = Posted(u) /\ Working(u)' = Working(u) /\ Reported(u)' = Reported(u) /\ Handling(u)' = Handling(u)
  BY <1>1 DEF Posted, Working, Reported, Handling
<1>11. ASSUME NEW u \in Tasks PROVE Holders(u)' = Holders(u)
  BY <1>9, <1>10 DEF Holders
<1>12. HoldInv' /\ RerouteBound'
  BY <1>0, <1>1, <1>11, SameHolders, SameBound
<1>13. FitInv'
  <2> SUFFICES ASSUME inspections = 0, NEW u \in Tasks PROVE Fits(u)' /\ RecordFits(u)'
    BY <1>1 DEF FitInv
  <2>1. Fits(u) /\ RecordFits(u)
    BY <1>0 DEF FitInv
  <2>2. Sending(u)' = (Sending(u) \ {d}) \cup (IF t = u THEN {c} ELSE {}) /\ (d \in Sending(u) <=> t = u) /\ c.env = d.env
    BY <1>5, <1>9 DEF Advanced
  <2>3. \A b \in Sending(u)' : b.env.agent = workflow[u].agent
    BY <2>1, <2>2 DEF Fits
  <2>4. Fits(u)'
    BY <1>1, <1>10, <2>1, <2>3 DEF Fits
  <2>5. CASE u = t
    <3>1. record'[u].agent = workflow'[u].agent
      BY <1>1, <1>4, <1>6, <2>1, <2>2, <2>5 DEF Fits
    <3> QED BY <2>4, <3>1 DEF RecordFits
  <2>6. CASE u # t
    <3>1. Sending(u)' = Sending(u) /\ record'[u] = record[u]
      BY <1>6, <2>2, <2>6
    <3>2. Underway(u)' => Underway(u)
      BY <1>1, <1>10, <3>1 DEF Underway
    <3>3. Underway(u)' => record'[u].agent = workflow'[u].agent
      BY <1>1, <2>1, <3>1, <3>2 DEF RecordFits
    <3> QED BY <2>4, <3>3 DEF RecordFits
  <2> QED BY <2>5, <2>6
<1> QED BY <1>8, <1>12, <1>13 DEF DeliveryInv

LEMMA DispatchPublishes ==
  ASSUME DeliveryInv, NEW d \in dispatching, DispatchPublish(d)
  PROVE  DeliveryInv'
<1> PICK e : e = d.env
  OBVIOUS
<1> PICK c : c = [d EXCEPT !.step = "status"]
  OBVIOUS
<1> PICK n : n = "status"
  OBVIOUS
<1>0. ShapeInv /\ HoldInv /\ FitInv /\ RerouteBound /\ TypeOK /\ RecordsKept /\ Dispatches /\ Attempts
  BY DEF DeliveryInv, ShapeInv
<1>1. /\ d.step = "publish" /\ Publish(e) /\ record' = record /\ dispatching' = Step(d, n)
      /\ workflow' = workflow /\ results' = results /\ UNCHANGED pool
      /\ result' = result /\ loaded' = loaded /\ overdue' = overdue /\ faults' = faults /\ inspections' = inspections
      /\ pc' = pc /\ env' = env /\ outcome' = outcome
  BY DEF DispatchPublish, pool, intake, counters
<1>2. e \in Envelope /\ e.task \in Tasks
  BY <1>0 DEF TypeOK, Envelope
<1>3. Registered(e.task)
  BY <1>0, <1>1 DEF RecordsKept
<1>4. /\ \A a \in Agents : \A i \in 1..Len(mailbox'[a]) :
           \/ mailbox'[a][i] = e /\ a = e.agent
           \/ i \in 1..Len(mailbox[a]) /\ mailbox'[a][i] = mailbox[a][i]
      /\ MailKept
      /\ \A t : Cardinality(Posted(t)') = Cardinality(Posted(t)) + IF e.task = t THEN 1 ELSE 0
  BY <1>0, <1>1, <1>2, <1>3, MailPublished
<1>5. /\ Advanced(d, c, n)
      /\ dispatching' \subseteq [step : DispatchSteps, env : Envelope, by : Tasks \cup ResultWorkers]
  <2>1. n \in DispatchSteps /\ d.step # n
    BY <1>1 DEF DispatchSteps
  <2> QED BY <1>0, <1>1, <2>1, StepAdvances
<1>6. SameRecords
  BY <1>0, <1>1, NotRewritten
<1>7. ShapeInv'
  <2>1. TypeOK'
    BY <1>0, <1>1, <1>4, <1>5 DEF TypeOK, MailKept
  <2>2. \A b \in dispatching' : b.step # "record" => record'[b.env.task] # None
    <3>1. \A b \in dispatching : b.step # "record" => record'[b.env.task] # None
      BY <1>0, <1>1 DEF RecordsKept, Registered
    <3>2. record'[c.env.task] # None
      BY <1>1, <1>3, <1>5 DEF Advanced, Registered
    <3> QED BY <1>5, <3>1, <3>2 DEF Advanced
  <2>3. overdue' # None => record'[overdue'.task] # None /\ inspections' > 0
    BY <1>0, <1>1 DEF RecordsKept, Registered
  <2>4. RecordsKept' /\ WorkersHold'
    BY <1>0, <1>1, <1>4, <1>6, <2>2, <2>3, KeptRecords, SameRemembered
  <2>5. Dispatches'
    <3>1. UNCHANGED <<workflow, intake>>
      BY <1>1 DEF intake
    <3> QED BY <1>0, <1>5, <3>1, DispatchesAdvance
  <2>6. Attempts'
    BY <1>0, <1>1 DEF Attempts
  <2> QED BY <2>1, <2>4, <2>5, <2>6 DEF ShapeInv
<1>8. ASSUME NEW u
      PROVE  /\ Sending(u)' = Sending(u) \ {d} /\ (d \in Sending(u) <=> e.task = u)
             /\ Cardinality(Sending(u)') \in Nat
             /\ Cardinality(Sending(u)) = Cardinality(Sending(u)') + IF e.task = u THEN 1 ELSE 0
  <2>1. d.step \in {"record", "publish"} /\ n \notin {"record", "publish"}
    BY <1>1
  <2>2. d \in Sending(u) <=> e.task = u
    BY <2>1 DEF Sending
  <2>3. /\ Sending(u)' = (Sending(u) \ {d}) \cup IF d.env.task = u /\ n \in {"record", "publish"} THEN {c} ELSE {}
        /\ Cardinality(Sending(u)') \in Nat
        /\ n \notin {"record", "publish"} =>
             Cardinality(Sending(u)) = Cardinality(Sending(u)') + IF d.env.task = u THEN 1 ELSE 0
    BY <1>0, <1>5, <2>1, SendingAdvances
  <2> QED BY <2>1, <2>2, <2>3
<1>9. \A u : Working(u)' = Working(u) /\ Reported(u)' = Reported(u) /\ Handling(u)' = Handling(u)
  BY <1>1 DEF Working, Reported, Handling
<1>10. ASSUME NEW u \in Tasks PROVE Holders(u)' = Holders(u)
  <2>1. /\ Cardinality(Sending(u)) \in Nat /\ Cardinality(Posted(u)) \in Nat /\ Cardinality(Working(u)) \in Nat
        /\ Cardinality(Reported(u)) \in Nat /\ Cardinality(Handling(u)) \in Nat
    BY <1>0, Counted
  <2>2. Cardinality(Posted(u)') = Cardinality(Posted(u)) + IF e.task = u THEN 1 ELSE 0
    BY <1>4
  <2>3. /\ Cardinality(Sending(u)') \in Nat
        /\ Cardinality(Sending(u)) = Cardinality(Sending(u)') + IF e.task = u THEN 1 ELSE 0
    BY <1>8
  <2> QED BY <1>9, <2>1, <2>2, <2>3 DEF Holders
<1>11. HoldInv' /\ RerouteBound'
  BY <1>0, <1>1, <1>10, SameHolders, SameBound
<1>12. FitInv'
  <2> SUFFICES ASSUME inspections = 0, NEW u \in Tasks PROVE Fits(u)' /\ RecordFits(u)'
    BY <1>1 DEF FitInv
  <2>1. Fits(u) /\ RecordFits(u)
    BY <1>0 DEF FitInv
  <2>2. Sending(u)' = Sending(u) \ {d} /\ (d \in Sending(u) <=> e.task = u)
    BY <1>8
  <2>3. e.task = u => e.agent = workflow[u].agent
    BY <2>1, <2>2 DEF Fits
  <2>4. \A a \in Agents : \A i \in 1..Len(mailbox'[a]) : mailbox'[a][i].task = u => a = workflow[u].agent
    BY <1>4, <2>1, <2>3 DEF Fits
  <2>5. Fits(u)'
    BY <1>1, <1>9, <2>1, <2>2, <2>4 DEF Fits
  <2>6. Underway(u)' => Underway(u)
    <3>1. e.task = u => Underway(u)
      BY <1>1, <2>2 DEF Underway
    <3>2. ASSUME NEW a \in Agents, NEW i \in 1..Len(mailbox'[a]), mailbox'[a][i].task = u PROVE Underway(u)
      BY <1>4, <3>1, <3>2 DEF Underway
    <3> QED BY <1>9, <2>2, <3>2 DEF Underway
  <2> QED BY <1>0, <1>1, <1>6, <2>1, <2>5, <2>6, StillUnderway
<1> QED BY <1>7, <1>11, <1>12 DEF DeliveryInv

LEMMA DispatchEnds ==
  ASSUME DeliveryInv, NEW d \in dispatching, DispatchStatus(d)
  PROVE  DeliveryInv'
<1> PICK t : t = d.env.task
  OBVIOUS
<1>0. ShapeInv /\ HoldInv /\ FitInv /\ RerouteBound /\ TypeOK /\ RecordsKept /\ Dispatches /\ Attempts
  BY DEF DeliveryInv, ShapeInv
<1>1. /\ d.step = "status" /\ dispatching' = dispatching \ {d}
      /\ record' = record \/ record' = [record EXCEPT ![t].status = "queued"]
      /\ workflow' = workflow /\ mailbox' = mailbox /\ results' = results /\ UNCHANGED pool
      /\ result' = result /\ loaded' = loaded /\ overdue' = overdue /\ faults' = faults /\ inspections' = inspections
      /\ pc' = pc /\ env' = env /\ outcome' = outcome
  BY DEF DispatchStatus, pool, intake, counters
<1>2. t \in Tasks /\ Registered(t) /\ record[t] \in Record
  BY <1>0, <1>1 DEF TypeOK, Envelope, RecordsKept, Registered
<1>3. SameRecords
  <2> PICK y : y = [record[t] EXCEPT !.status = "queued"]
    OBVIOUS
  <2>1. "queued" \in DeliveryStatus /\ record \in [Tasks -> Record \cup {None}]
    BY <1>0 DEF DeliveryStatus, TypeOK
  <2>2. y \in Record /\ y.agent = record[t].agent
    BY <1>2, <2>1 DEF Record
  <2>3. record' = record \/ record' = [record EXCEPT ![t] = y]
    BY <1>1, <1>2, <2>1
  <2>4. CASE record' = record
    BY <1>0, <2>4, NotRewritten
  <2>5. CASE record' = [record EXCEPT ![t] = y]
    BY <1>0, <1>2, <2>2, <2>5, Rewritten
  <2> QED BY <2>3, <2>4, <2>5
<1>4. ShapeInv'
  <2>1. TypeOK'
    BY <1>0, <1>1, <1>3 DEF TypeOK, SameRecords
  <2>2. MailKept
    BY <1>0, <1>1 DEF MailKept, RecordsKept, TypeOK
  <2>3. \A b \in dispatching' : b.step # "record" => record'[b.env.task] # None
    <3>1. \A b \in dispatching : b.env.task \in Tasks
      BY <1>0 DEF TypeOK, Envelope
    <3> QED BY <1>0, <1>1, <1>3, <3>1 DEF RecordsKept, SameRecords, Registered
  <2>4. overdue' # None => record'[overdue'.task] # None /\ inspections' > 0
    <3>1. overdue # None => overdue.task \in Tasks
      BY <1>0 DEF TypeOK
    <3> QED BY <1>0, <1>1, <1>3, <3>1 DEF RecordsKept, SameRecords, Registered
  <2>5. RecordsKept' /\ WorkersHold'
    BY <1>0, <1>1, <1>3, <2>2, <2>3, <2>4, KeptRecords, SameRemembered
  <2>6. Dispatches'
    <3>1. IsFiniteSet(dispatching')
      BY <1>0, <1>1, FS_RemoveElement DEF Dispatches
    <3> QED BY <1>0, <1>1, <3>1 DEF Dispatches
  <2>7. Attempts'
    BY <1>0, <1>1 DEF Attempts
  <2> QED BY <2>1, <2>5, <2>6, <2>7 DEF ShapeInv
<1>5. \A u : /\ Sending(u)' = Sending(u) /\ Posted(u)' = Posted(u) /\ Working(u)' = Working(u)
             /\ Reported(u)' = Reported(u) /\ Handling(u)' = Handling(u)
  BY <1>1 DEF Sending, Posted, Working, Reported, Handling
<1>6. ASSUME NEW u \in Tasks PROVE Holders(u)' = Holders(u)
  BY <1>5 DEF Holders
<1>7. HoldInv' /\ RerouteBound'
  BY <1>0, <1>1, <1>6, SameHolders, SameBound
<1>8. FitInv'
  <2> SUFFICES ASSUME inspections = 0, NEW u \in Tasks PROVE Fits(u)' /\ RecordFits(u)'
    BY <1>1 DEF FitInv
  <2>1. Fits(u) /\ RecordFits(u)
    BY <1>0 DEF FitInv
  <2>2. Fits(u)'
    BY <1>1, <1>5, <2>1 DEF Fits
  <2>3. Underway(u)' => Underway(u)
    BY <1>1, <1>5 DEF Underway
  <2> QED BY <1>0, <1>1, <1>3, <2>1, <2>2, <2>3, StillUnderway
<1> QED BY <1>4, <1>7, <1>8 DEF DeliveryInv

-----------------------------------------------------------------------------
(* Accepting a task, and the result workers.                               *)

LEMMA NobodyHolds ==
  ASSUME ShapeInv, NEW t, Holders(t) = 0
  PROVE  Sending(t) = {} /\ Posted(t) = {} /\ Working(t) = {} /\ Reported(t) = {} /\ Handling(t) = {}
<1>1. /\ IsFiniteSet(Sending(t)) /\ IsFiniteSet(Working(t)) /\ IsFiniteSet(Handling(t))
      /\ Cardinality(Sending(t)) \in Nat /\ Cardinality(Posted(t)) \in Nat /\ Cardinality(Working(t)) \in Nat
      /\ Cardinality(Reported(t)) \in Nat /\ Cardinality(Handling(t)) \in Nat
  BY Counted
<1>2. /\ Cardinality(Sending(t)) = 0 /\ Cardinality(Posted(t)) = 0 /\ Cardinality(Working(t)) = 0
      /\ Cardinality(Reported(t)) = 0 /\ Cardinality(Handling(t)) = 0
  BY <1>1 DEF Holders
<1>3. IsFiniteSet(Posted(t))
  <2>1. mailbox \in [Agents -> Seq(Envelope)] /\ Posted(t) = PostedIn(mailbox, t)
    BY DEF ShapeInv, TypeOK, Posted, PostedIn
  <2> QED BY <2>1, PostedFinite
<1>4. IsFiniteSet(Reported(t))
  <2>1. results \in Seq(Result) /\ Reported(t) = Places(results, t)
    BY DEF ShapeInv, TypeOK, Reported, Places
  <2> QED BY <2>1, PlacesFinite
<1>5. Sending(t) = {}
  BY <1>1, <1>2, FS_EmptySet
<1>6. Posted(t) = {}
  BY <1>2, <1>3, FS_EmptySet
<1>7. Working(t) = {}
  BY <1>1, <1>2, FS_EmptySet
<1>8. Reported(t) = {}
  BY <1>2, <1>4, FS_EmptySet
<1>9. Handling(t) = {}
  BY <1>1, <1>2, FS_EmptySet
<1> QED BY <1>5, <1>6, <1>7, <1>8, <1>9

\* Then nobody is on the way to anybody either.
LEMMA NothingMoves ==
  ASSUME ShapeInv, NEW t, Sending(t) = {}, Posted(t) = {}, Working(t) = {}, Reported(t) = {}
  PROVE  /\ ~Underway(t)
         /\ \A a \in Agents : \A i \in 1..Len(mailbox[a]) : mailbox[a][i].task # t
         /\ \A i \in 1..Len(results) : results[i].task # t
<1>0. mailbox \in [Agents -> Seq(Envelope)] /\ results \in Seq(Result)
  BY DEF ShapeInv, TypeOK
<1>1. \A a \in Agents : \A i \in 1..Len(mailbox[a]) : mailbox[a][i].task # t
  <2> SUFFICES ASSUME NEW a \in Agents, NEW i \in 1..Len(mailbox[a]), mailbox[a][i].task = t PROVE FALSE
    OBVIOUS
  <2>1. i \in DOMAIN mailbox[a]
    BY <1>0, LenProperties
  <2>2. <<a, i>> \in Posted(t)
    BY <2>1 DEF Posted
  <2> QED BY <2>2
<1>2. \A i \in 1..Len(results) : results[i].task # t
  <2>1. DOMAIN results = 1..Len(results)
    BY <1>0, LenProperties
  <2> QED BY <2>1 DEF Reported
<1> QED BY <1>1, <1>2 DEF Underway

\* As long as nobody inspects, who handles a result is the only one.
LEMMA OnlyHandler ==
  ASSUME DeliveryInv, NEW r \in ResultWorkers, NEW t \in Tasks, inspections = 0, r \in Handling(t)
  PROVE  /\ workflow[t].status = "running" /\ Handling(t) = {r}
         /\ Sending(t) = {} /\ Posted(t) = {} /\ Working(t) = {} /\ Reported(t) = {}
<1>0. ShapeInv /\ HoldInv
  BY DEF DeliveryInv
<1> PICK H : H = Handling(t)
  OBVIOUS
<1>1. /\ IsFiniteSet(Sending(t)) /\ IsFiniteSet(Working(t)) /\ IsFiniteSet(H)
      /\ Cardinality(Sending(t)) \in Nat /\ Cardinality(Posted(t)) \in Nat /\ Cardinality(Working(t)) \in Nat
      /\ Cardinality(Reported(t)) \in Nat /\ Cardinality(H) \in Nat
  BY <1>0, Counted
<1>2. /\ IsFiniteSet(H \ {r}) /\ Cardinality(H \ {r}) = Cardinality(H) - 1 /\ Cardinality(H \ {r}) \in Nat
  <2>1. IsFiniteSet(H \ {r}) /\ Cardinality(H \ {r}) = Cardinality(H) - 1
    BY <1>1, FS_RemoveElement
  <2> QED BY <2>1, FS_CardinalityType
<1>3. Cardinality(H) >= 1
  BY <1>1, <1>2
<1>4. Holders(t) = IF workflow[t].status = "running" THEN 1 ELSE 0
  BY <1>0 DEF HoldInv
<1>5. /\ workflow[t].status = "running" /\ Cardinality(H) = 1
      /\ Cardinality(Sending(t)) = 0 /\ Cardinality(Posted(t)) = 0 /\ Cardinality(Working(t)) = 0
      /\ Cardinality(Reported(t)) = 0
  BY <1>1, <1>3, <1>4 DEF Holders
<1>6. H = {r}
  <2>1. Cardinality(H \ {r}) = 0
    BY <1>2, <1>5
  <2>2. H \ {r} = {}
    BY <1>2, <2>1, FS_EmptySet
  <2> QED BY <2>2
<1>7. IsFiniteSet(Posted(t))
  <2>1. mailbox \in [Agents -> Seq(Envelope)] /\ Posted(t) = PostedIn(mailbox, t)
    BY <1>0 DEF ShapeInv, TypeOK, Posted, PostedIn
  <2> QED BY <2>1, PostedFinite
<1>8. IsFiniteSet(Reported(t))
  <2>1. results \in Seq(Result) /\ Reported(t) = Places(results, t)
    BY <1>0 DEF ShapeInv, TypeOK, Reported, Places
  <2> QED BY <2>1, PlacesFinite
<1>9. Sending(t) = {}
  BY <1>1, <1>5, FS_EmptySet
<1>10. Posted(t) = {}
  BY <1>5, <1>7, FS_EmptySet
<1>11. Working(t) = {}
  BY <1>1, <1>5, FS_EmptySet
<1>12. Reported(t) = {}
  BY <1>5, <1>8, FS_EmptySet
<1> QED BY <1>5, <1>6, <1>9, <1>10, <1>11, <1>12

\* A new dispatch by somebody who has none.
LEMMA SendingBegins ==
  ASSUME ShapeInv, NEW t \in Tasks, NEW a \in Agents, NEW n \in Nat, n >= 1, NEW k \in Tasks \cup ResultWorkers,
         \A d \in dispatching : d.by # k, BeginDispatch(t, a, n, k)
  PROVE  /\ dispatching' \subseteq [step : DispatchSteps, env : Envelope, by : Tasks \cup ResultWorkers]
         /\ IsFiniteSet(dispatching')
         /\ \A c, d \in dispatching' : c.by = d.by => c = d
         /\ \A d \in dispatching' : d.env.attempt >= 1 /\ (d.by = k \/ d \in dispatching)
         /\ \A d \in dispatching' : d.step # "record" => d \in dispatching
         /\ \A u : /\ u # t => Sending(u)' = Sending(u)
                   /\ \A d \in Sending(u)' : d \in Sending(u) \/ (d.env.agent = a /\ d.step = "record")
         /\ Cardinality(Sending(t)') = Cardinality(Sending(t)) + 1
<1> PICK b : b = [step |-> "record", env |-> [task |-> t, agent |-> a, attempt |-> n], by |-> k]
  OBVIOUS
<1>0. dispatching' = dispatching \cup {b} /\ Dispatches
      /\ dispatching \subseteq [step : DispatchSteps, env : Envelope, by : Tasks \cup ResultWorkers]
  BY DEF ShapeInv, TypeOK, BeginDispatch
<1>1. /\ b \in [step : DispatchSteps, env : Envelope, by : Tasks \cup ResultWorkers]
      /\ b.by = k /\ b.step = "record" /\ b.env.task = t /\ b.env.agent = a /\ b.env.attempt = n
  BY DEF DispatchSteps, Envelope
<1>2. b \notin dispatching
  BY <1>1
<1>3. IsFiniteSet(dispatching')
  BY <1>0, FS_AddElement DEF Dispatches
<1>4. \A u : Sending(u)' = IF u = t THEN Sending(u) \cup {b} ELSE Sending(u)
  BY <1>0, <1>1 DEF Sending
<1>5. Cardinality(Sending(t)') = Cardinality(Sending(t)) + 1
  <2>1. IsFiniteSet(Sending(t)) /\ b \notin Sending(t)
    BY <1>2, Counted DEF Sending
  <2>2. Cardinality(Sending(t) \cup {b}) = Cardinality(Sending(t)) + 1
    BY <2>1, FS_AddElement
  <2> QED BY <1>4, <2>2
<1>6. \A c, d \in dispatching' : c.by = d.by => c = d
  BY <1>0, <1>1 DEF Dispatches
<1>7. \A d \in dispatching' : d.env.attempt >= 1 /\ (d.by = k \/ d \in dispatching)
  BY <1>0, <1>1 DEF Dispatches
<1>8. \A d \in dispatching' : d.step # "record" => d \in dispatching
  BY <1>0, <1>1
<1>9. \A u : /\ u # t => Sending(u)' = Sending(u)
             /\ \A d \in Sending(u)' : d \in Sending(u) \/ (d.env.agent = a /\ d.step = "record")
  BY <1>1, <1>4
<1> QED BY <1>0, <1>1, <1>3, <1>5, <1>6, <1>7, <1>8, <1>9

\* Nothing about another task changes.
LEMMA FitOfOthers ==
  ASSUME NEW u \in Tasks, Fits(u), RecordFits(u), workflow'[u] = workflow[u], record' = record,
         Sending(u)' = Sending(u), mailbox' = mailbox, results' = results, Working(u)' = Working(u), env' = env,
         Handling(u)' = Handling(u), \A r \in Handling(u) : result'[r] = result[r] /\ loaded'[r] = loaded[r]
  PROVE  Fits(u)' /\ RecordFits(u)'
<1>1. Fits(u)'
  BY DEF Fits
<1>2. Underway(u)' => Underway(u)
  BY DEF Underway
<1>3. Underway(u)' => record'[u].agent = workflow'[u].agent
  BY <1>2 DEF RecordFits
<1> QED BY <1>1, <1>3 DEF RecordFits

LEMMA RejectKeeps ==
  ASSUME DeliveryInv, NEW t \in Tasks, Reject(t)
  PROVE  DeliveryInv'
<1>0. ShapeInv /\ HoldInv /\ FitInv /\ RerouteBound /\ TypeOK /\ RecordsKept /\ Dispatches /\ Attempts /\ WorkersHold
  BY DEF DeliveryInv, ShapeInv
<1>1. PICK s \in {"rejected", "failed"} : workflow' = [workflow EXCEPT ![t].status = s]
  BY DEF Reject
<1>2. /\ workflow[t].status = "queued"
      /\ record' = record /\ mailbox' = mailbox /\ results' = results /\ dispatching' = dispatching
      /\ pc' = pc /\ env' = env /\ outcome' = outcome /\ result' = result /\ loaded' = loaded
      /\ overdue' = overdue /\ faults' = faults /\ inspections' = inspections
  BY DEF Reject, pool, intake, counters
<1>3. /\ workflow \in [Tasks -> Workflow] /\ workflow[t] \in Workflow /\ workflow' \in [Tasks -> Workflow]
      /\ workflow'[t] = [workflow[t] EXCEPT !.status = s] /\ \A u \in Tasks \ {t} : workflow'[u] = workflow[u]
  <2>1. workflow \in [Tasks -> Workflow] /\ workflow[t] \in Workflow
    BY <1>0 DEF TypeOK
  <2>2. [workflow[t] EXCEPT !.status = s] \in Workflow
    BY <2>1 DEF Workflow, Terminal
  <2> QED BY <1>1, <2>1, <2>2
<1>4. /\ workflow'[t].status = s /\ workflow'[t].agent = workflow[t].agent
      /\ workflow'[t].attempt = workflow[t].attempt /\ workflow'[t].excluded = workflow[t].excluded
  BY <1>3 DEF Workflow
<1>5. TypeOK'
  BY <1>0, <1>2, <1>3 DEF TypeOK
<1>6. WorkersHold' /\ RecordsKept'
  BY <1>0, <1>2 DEF WorkersHold, RecordsKept, Registered
<1>7. Dispatches'
  <2>1. \A u \in Tasks : workflow[u].status # "queued" => workflow'[u].status # "queued"
    BY <1>2, <1>3
  <2> QED BY <1>0, <1>2, <2>1 DEF Dispatches
<1>8. Attempts'
  BY <1>0, <1>2, <1>3, <1>4 DEF Attempts
<1>9. \A u : /\ Sending(u)' = Sending(u) /\ Posted(u)' = Posted(u) /\ Working(u)' = Working(u)
             /\ Reported(u)' = Reported(u) /\ Handling(u)' = Handling(u)
  BY <1>2 DEF Sending, Posted, Working, Reported, Handling
<1>10. ASSUME NEW u \in Tasks PROVE Holders(u)' = Holders(u)
  BY <1>9 DEF Holders
<1>11. HoldInv'
  <2> SUFFICES ASSUME NEW u \in Tasks
               PROVE  /\ workflow'[u].status = "running" => Holders(u)' >= 1
                      /\ inspections' = 0 => Holders(u)' = IF workflow'[u].status = "running" THEN 1 ELSE 0
    BY DEF HoldInv
  <2>1. Holders(u)' = Holders(u)
    BY <1>10
  <2>2. workflow'[u].status = "running" <=> workflow[u].status = "running"
    BY <1>2, <1>3, <1>4
  <2> QED BY <1>0, <1>2, <2>1, <2>2 DEF HoldInv
<1>12. RerouteBound'
  BY <1>0, <1>2, <1>3, <1>4, ZenonT(60) DEF RerouteBound
<1>13. FitInv'
  <2> SUFFICES ASSUME inspections = 0, NEW u \in Tasks PROVE Fits(u)' /\ RecordFits(u)'
    BY <1>2 DEF FitInv
  <2>1. Fits(u) /\ RecordFits(u)
    BY <1>0 DEF FitInv
  <2>2. CASE u # t
    <3>1. workflow'[u] = workflow[u]
      BY <1>3, <2>2
    <3> QED BY <1>2, <1>9, <2>1, <3>1, FitOfOthers
  <2>3. CASE u = t
    <3>1. Holders(t) = 0
      BY <1>0, <1>2 DEF HoldInv
    <3>2. Handling(t) = {}
      BY <1>0, <3>1, NobodyHolds
    <3>3. Fits(t)'
      BY <1>2, <1>4, <1>9, <2>1, <2>3, <3>2 DEF Fits
    <3>4. Underway(t)' => Underway(t)
      BY <1>2, <1>9 DEF Underway
    <3>5. Underway(t)' => record'[t].agent = workflow'[t].agent
      BY <1>2, <1>4, <2>1, <2>3, <3>4 DEF RecordFits
    <3> QED BY <2>3, <3>3, <3>5 DEF RecordFits
  <2> QED BY <2>2, <2>3
<1> QED BY <1>5, <1>6, <1>7, <1>8, <1>11, <1>12, <1>13 DEF DeliveryInv, ShapeInv

LEMMA DispatchBegins ==
  ASSUME DeliveryInv, NEW t \in Tasks, DispatchTask(t)
  PROVE  DeliveryInv'
<1>0. ShapeInv /\ HoldInv /\ FitInv /\ RerouteBound /\ TypeOK /\ RecordsKept /\ Dispatches /\ Attempts /\ WorkersHold
  BY DEF DeliveryInv, ShapeInv
<1>1. PICK a \in Agents : /\ workflow' = [workflow EXCEPT ![t].status = "running", ![t].agent = a]
                          /\ BeginDispatch(t, a, workflow[t].attempt, t)
  BY DEF DispatchTask
<1>2. /\ workflow[t].status = "queued"
      /\ record' = record /\ mailbox' = mailbox /\ results' = results
      /\ pc' = pc /\ env' = env /\ outcome' = outcome /\ result' = result /\ loaded' = loaded
      /\ overdue' = overdue /\ faults' = faults /\ inspections' = inspections
  BY DEF DispatchTask, pool, intake, counters
<1> PICK x : x = [workflow[t] EXCEPT !.status = "running", !.agent = a]
  OBVIOUS
<1>3. /\ workflow \in [Tasks -> Workflow] /\ workflow[t] \in Workflow /\ workflow' \in [Tasks -> Workflow]
      /\ workflow'[t] = x /\ \A u \in Tasks \ {t} : workflow'[u] = workflow[u]
  <2>1. workflow \in [Tasks -> Workflow] /\ workflow[t] \in Workflow
    BY <1>0 DEF TypeOK
  <2>2. x \in Workflow
    BY <2>1 DEF Workflow, Terminal
  <2>3. workflow' = [workflow EXCEPT ![t] = x]
    BY <1>1, <2>1 DEF Workflow
  <2> QED BY <2>1, <2>2, <2>3
<1>4. /\ workflow'[t].status = "running" /\ workflow'[t].agent = a
      /\ workflow'[t].attempt = workflow[t].attempt /\ workflow'[t].excluded = workflow[t].excluded
      /\ workflow[t].attempt = 1 /\ workflow[t].excluded = {}
  <2>1. /\ x.status = "running" /\ x.agent = a /\ x.attempt = workflow[t].attempt /\ x.excluded = workflow[t].excluded
    BY <1>3 DEF Workflow
  <2> QED BY <1>0, <1>2, <1>3, <2>1 DEF Attempts
<1>5. \A d \in dispatching : d.by # t
  BY <1>0, <1>2 DEF Dispatches
<1>6. /\ dispatching' \subseteq [step : DispatchSteps, env : Envelope, by : Tasks \cup ResultWorkers]
      /\ IsFiniteSet(dispatching')
      /\ \A c, d \in dispatching' : c.by = d.by => c = d
      /\ \A d \in dispatching' : d.env.attempt >= 1 /\ (d.by = t \/ d \in dispatching)
      /\ \A d \in dispatching' : d.step # "record" => d \in dispatching
      /\ \A u : /\ u # t => Sending(u)' = Sending(u)
                /\ \A d \in Sending(u)' : d \in Sending(u) \/ (d.env.agent = a /\ d.step = "record")
      /\ Cardinality(Sending(t)') = Cardinality(Sending(t)) + 1
  <2> PICK n : n = workflow[t].attempt
    OBVIOUS
  <2>1. n \in Nat /\ n >= 1 /\ BeginDispatch(t, a, n, t) /\ t \in Tasks \cup ResultWorkers
    BY <1>1, <1>4
  <2> QED BY <1>0, <1>5, <2>1, SendingBegins
<1>7. TypeOK'
  BY <1>0, <1>2, <1>3, <1>6 DEF TypeOK
<1>8. WorkersHold' /\ RecordsKept'
  BY <1>0, <1>2, <1>6 DEF WorkersHold, RecordsKept, Registered
<1>9. Dispatches'
  <2>1. \A u \in Tasks : workflow[u].status # "queued" => workflow'[u].status # "queued"
    BY <1>2, <1>3
  <2>2. t \notin ResultWorkers
    BY DeliveryAssumption
  <2>3. \A d \in dispatching' : /\ d.by \in ResultWorkers => result'[d.by] = None
                                /\ d.by \in Tasks => workflow'[d.by].status # "queued"
    BY <1>0, <1>2, <1>4, <1>6, <2>1, <2>2 DEF Dispatches
  <2> QED BY <1>6, <2>3 DEF Dispatches
<1>10. Attempts'
  BY <1>0, <1>2, <1>3, <1>4 DEF Attempts
<1>11. \A u : Posted(u)' = Posted(u) /\ Working(u)' = Working(u) /\ Reported(u)' = Reported(u) /\ Handling(u)' = Handling(u)
  BY <1>2 DEF Posted, Working, Reported, Handling
<1>12. ASSUME NEW u \in Tasks, u # t PROVE Holders(u)' = Holders(u)
  BY <1>6, <1>11, <1>12 DEF Holders
<1>13. Holders(t)' = Holders(t) + 1 /\ Holders(t) \in Nat
  <2>1. /\ Cardinality(Sending(t)) \in Nat /\ Cardinality(Posted(t)) \in Nat /\ Cardinality(Working(t)) \in Nat
        /\ Cardinality(Reported(t)) \in Nat /\ Cardinality(Handling(t)) \in Nat
    BY <1>0, Counted
  <2>2. Cardinality(Sending(t)') = Cardinality(Sending(t)) + 1
    BY <1>6
  <2> QED BY <1>11, <2>1, <2>2 DEF Holders
<1>14. inspections = 0 => Holders(t) = 0
  BY <1>0, <1>2 DEF HoldInv
<1>15. HoldInv'
  <2> SUFFICES ASSUME NEW u \in Tasks
               PROVE  /\ workflow'[u].status = "running" => Holders(u)' >= 1
                      /\ inspections' = 0 => Holders(u)' = IF workflow'[u].status = "running" THEN 1 ELSE 0
    BY DEF HoldInv
  <2>1. CASE u = t
    BY <1>2, <1>4, <1>13, <1>14, <2>1
  <2>2. CASE u # t
    <3>1. Holders(u)' = Holders(u) /\ workflow'[u] = workflow[u]
      BY <1>3, <1>12, <2>2
    <3> QED BY <1>0, <1>2, <3>1 DEF HoldInv
  <2> QED BY <2>1, <2>2
<1>16. RerouteBound'
  <2> SUFFICES ASSUME inspections = 0, NEW u \in Tasks
               PROVE  workflow'[u].agent \notin workflow'[u].excluded /\ workflow'[u].attempt = Cardinality(workflow'[u].excluded) + 1
    BY <1>2 DEF RerouteBound
  <2>1. CASE u = t
    <3>1. Cardinality({}) = 0
      BY FS_EmptySet
    <3> QED BY <1>4, <2>1, <3>1, SMTT(40)
  <2>2. CASE u # t
    BY <1>0, <1>3, <2>2 DEF RerouteBound
  <2> QED BY <2>1, <2>2
<1>17. FitInv'
  <2> SUFFICES ASSUME inspections = 0, NEW u \in Tasks PROVE Fits(u)' /\ RecordFits(u)'
    BY <1>2 DEF FitInv
  <2>1. Fits(u) /\ RecordFits(u)
    BY <1>0 DEF FitInv
  <2>2. CASE u # t
    <3>1. workflow'[u] = workflow[u] /\ Sending(u)' = Sending(u)
      BY <1>3, <1>6, <2>2
    <3> QED BY <1>2, <1>11, <2>1, <3>1, FitOfOthers
  <2>3. CASE u = t
    <3>1. Sending(t) = {} /\ Posted(t) = {} /\ Working(t) = {} /\ Reported(t) = {} /\ Handling(t) = {}
      BY <1>0, <1>14, NobodyHolds
    <3>2. /\ \A b \in Agents : \A i \in 1..Len(mailbox[b]) : mailbox[b][i].task # t
          /\ \A i \in 1..Len(results) : results[i].task # t
      BY <1>0, <3>1, NothingMoves
    <3>3. \A d \in Sending(t)' : d.env.agent = a /\ d.step = "record"
      BY <1>6, <3>1
    <3>4. Fits(t)'
      BY <1>2, <1>4, <1>11, <3>1, <3>2, <3>3 DEF Fits
    <3>5. ~Underway(t)'
      BY <1>2, <1>11, <3>1, <3>2, <3>3 DEF Underway
    <3> QED BY <2>3, <3>4, <3>5 DEF RecordFits
  <2> QED BY <2>2, <2>3
<1> QED BY <1>7, <1>8, <1>9, <1>10, <1>15, <1>16, <1>17 DEF DeliveryInv, ShapeInv

LEMMA ResultTakes ==
  ASSUME DeliveryInv, NEW r \in ResultWorkers, ResultTake(r)
  PROVE  DeliveryInv'
<1> PICK x : x = Head(results)
  OBVIOUS
<1>0. ShapeInv /\ HoldInv /\ FitInv /\ RerouteBound /\ TypeOK /\ RecordsKept /\ Dispatches /\ Attempts /\ WorkersHold
  BY DEF DeliveryInv, ShapeInv
<1>1. /\ result[r] = None /\ (\A d \in dispatching : d.by # r) /\ results # <<>> /\ results' = Tail(results)
      /\ result' = [result EXCEPT ![r] = x] /\ loaded' = [loaded EXCEPT ![r] = workflow[x.task]]
      /\ workflow' = workflow /\ record' = record /\ mailbox' = mailbox /\ dispatching' = dispatching
      /\ pc' = pc /\ env' = env /\ outcome' = outcome
      /\ overdue' = overdue /\ faults' = faults /\ inspections' = inspections
  BY DEF ResultTake, pool, counters
<1>2. /\ results' \in Seq(Result) /\ x \in Result /\ 1 \in 1..Len(results) /\ x = results[1]
      /\ \A i \in 1..Len(results') : \E j \in 1..Len(results) : results'[i] = results[j]
      /\ \A t : Cardinality(Reported(t)) = Cardinality(Reported(t)') + IF x.task = t THEN 1 ELSE 0
  BY <1>0, <1>1, ReportTaken
<1>3. x # None /\ x.task \in Tasks /\ workflow[x.task] \in Workflow /\ workflow[x.task] # None
  <2>1. x # None /\ x.task \in Tasks
    BY <1>2, NoneAssumption DEF Result
  <2>2. workflow[x.task] \in Workflow
    BY <1>0, <2>1 DEF TypeOK
  <2> QED BY <2>1, <2>2, NoneAssumption
<1>4. /\ result' \in [ResultWorkers -> Result \cup {None}] /\ result'[r] = x /\ \A q \in ResultWorkers \ {r} : result'[q] = result[q]
      /\ loaded' \in [ResultWorkers -> Workflow \cup {None}] /\ loaded'[r] = workflow[x.task]
      /\ \A q \in ResultWorkers \ {r} : loaded'[q] = loaded[q]
  BY <1>0, <1>1, <1>2, <1>3 DEF TypeOK
<1>5. TypeOK'
  BY <1>0, <1>1, <1>2, <1>4 DEF TypeOK
<1>6. WorkersHold' /\ RecordsKept'
  BY <1>0, <1>1 DEF WorkersHold, RecordsKept, Registered
<1>7. Dispatches'
  BY <1>0, <1>1, <1>4 DEF Dispatches
<1>8. Attempts'
  BY <1>0, <1>1, <1>3, <1>4 DEF Attempts
<1>9. ASSUME NEW t
      PROVE  /\ r \notin Handling(t)
             /\ Handling(t)' = IF x.task = t THEN Handling(t) \cup {r} ELSE Handling(t)
             /\ Cardinality(Handling(t)') = Cardinality(Handling(t)) + IF x.task = t THEN 1 ELSE 0
  BY <1>0, <1>1, <1>3, HandlerTakes
<1>10. \A t : Sending(t)' = Sending(t) /\ Posted(t)' = Posted(t) /\ Working(t)' = Working(t)
  BY <1>1 DEF Sending, Posted, Working
<1>11. ASSUME NEW t \in Tasks PROVE Holders(t)' = Holders(t)
  <2>1. /\ Cardinality(Sending(t)) \in Nat /\ Cardinality(Posted(t)) \in Nat /\ Cardinality(Working(t)) \in Nat
        /\ Cardinality(Reported(t)) \in Nat /\ Cardinality(Handling(t)) \in Nat
    BY <1>0, Counted
  <2>2. Cardinality(Reported(t)') \in Nat
    <3>1. Reported(t)' = Places(results', t)
      BY DEF Reported, Places
    <3> QED BY <1>2, <3>1, PlacesFinite
  <2>3. Cardinality(Reported(t)) = Cardinality(Reported(t)') + IF x.task = t THEN 1 ELSE 0
    BY <1>2
  <2>4. Cardinality(Handling(t)') = Cardinality(Handling(t)) + IF x.task = t THEN 1 ELSE 0
    BY <1>9
  <2> QED BY <1>10, <2>1, <2>2, <2>3, <2>4 DEF Holders
<1>12. HoldInv' /\ RerouteBound'
  BY <1>0, <1>1, <1>11, SameHolders, SameBound
<1>13. FitInv'
  <2> SUFFICES ASSUME inspections = 0, NEW t \in Tasks PROVE Fits(t)' /\ RecordFits(t)'
    BY <1>1 DEF FitInv
  <2>1. Fits(t) /\ RecordFits(t)
    BY <1>0 DEF FitInv
  <2>2. r \notin Handling(t) /\ Handling(t)' = IF x.task = t THEN Handling(t) \cup {r} ELSE Handling(t)
    BY <1>9
  <2>3. \A i \in 1..Len(results') : results'[i].task = t => results'[i].agent = workflow[t].agent
    BY <1>2, <2>1 DEF Fits
  <2>4. \A q \in Handling(t) : q \in ResultWorkers \ {r}
    BY <2>2 DEF Handling
  <2>5. x.task = t => x.agent = workflow[t].agent
    BY <1>2, <2>1 DEF Fits
  <2>6. \A q \in Handling(t)' : result'[q].agent = workflow[t].agent /\ loaded'[q] = workflow[t]
    BY <1>4, <2>1, <2>2, <2>4, <2>5 DEF Fits
  <2>7. Fits(t)'
    BY <1>1, <1>10, <2>1, <2>3, <2>6 DEF Fits
  <2>8. Underway(t)' => Underway(t)
    BY <1>1, <1>10 DEF Underway
  <2>9. SameRecords
    BY <1>0, <1>1, NotRewritten
  <2> QED BY <1>0, <1>1, <2>1, <2>7, <2>8, <2>9, StillUnderway
<1> QED BY <1>5, <1>6, <1>7, <1>8, <1>12, <1>13 DEF DeliveryInv, ShapeInv

\* What a result worker at work has in hand, and what is left when it is done.
LEMMA HandlerHas ==
  ASSUME ShapeInv, NEW r \in ResultWorkers, result[r] # None
  PROVE  /\ result[r] \in Result /\ result[r].task \in Tasks /\ result[r].agent \in Agents
         /\ result[r].status \in {"completed", "failed", "dead_lettered"}
         /\ loaded[r] \in Workflow /\ loaded[r].attempt \in Nat /\ loaded[r].attempt >= 1
         /\ loaded[r].excluded \in SUBSET Agents
         /\ \A d \in dispatching : d.by # r
<1>0. TypeOK /\ Attempts /\ Dispatches
  BY DEF ShapeInv
<1>1. result[r] \in Result /\ loaded[r] \in Workflow
  BY <1>0 DEF TypeOK, Attempts
<1>2. loaded[r].attempt >= 1
  BY <1>0 DEF Attempts
<1>3. \A d \in dispatching : d.by # r
  BY <1>0 DEF Dispatches
<1> QED BY <1>1, <1>2, <1>3 DEF Result, Workflow

LEMMA HandlerLeaves ==
  ASSUME ShapeInv, NEW r \in ResultWorkers, ResultDone(r)
  PROVE  /\ result' \in [ResultWorkers -> Result \cup {None}] /\ loaded' \in [ResultWorkers -> Workflow \cup {None}]
         /\ result'[r] = None /\ loaded'[r] = None
         /\ \A q \in ResultWorkers \ {r} : result'[q] = result[q] /\ loaded'[q] = loaded[q]
         /\ \A q \in ResultWorkers : /\ result'[q] = None <=> loaded'[q] = None
                                     /\ loaded'[q] # None => loaded'[q].attempt >= 1
         /\ \A q \in ResultWorkers : result[q] = None => result'[q] = None
<1>0. TypeOK /\ Attempts
  BY DEF ShapeInv
<1>1. /\ result' \in [ResultWorkers -> Result \cup {None}] /\ loaded' \in [ResultWorkers -> Workflow \cup {None}]
      /\ result'[r] = None /\ loaded'[r] = None
      /\ \A q \in ResultWorkers \ {r} : result'[q] = result[q] /\ loaded'[q] = loaded[q]
  BY <1>0 DEF ResultDone, TypeOK
<1> QED BY <1>0, <1>1 DEF Attempts

LEMMA ResultReturned ==
  ASSUME DeliveryInv, NEW r \in ResultWorkers, ResultNack(r)
  PROVE  DeliveryInv'
<1> PICK x : x = result[r]
  OBVIOUS
<1>0. ShapeInv /\ HoldInv /\ FitInv /\ RerouteBound /\ TypeOK /\ RecordsKept /\ Dispatches /\ Attempts /\ WorkersHold
  BY DEF DeliveryInv, ShapeInv
<1>1. /\ result[r] # None /\ results' = <<x>> \o results /\ ResultDone(r)
      /\ workflow' = workflow /\ record' = record /\ mailbox' = mailbox /\ dispatching' = dispatching
      /\ pc' = pc /\ env' = env /\ outcome' = outcome
      /\ overdue' = overdue /\ faults < MaxFaults /\ faults' = faults + 1 /\ inspections' = inspections
  BY DEF ResultNack, pool
<1>2. x \in Result /\ x.task \in Tasks
  BY <1>0, <1>1, HandlerHas
<1>3. /\ results' \in Seq(Result)
      /\ \A i \in 1..Len(results') : results'[i] = x \/ \E j \in 1..Len(results) : results'[i] = results[j]
      /\ \A t : Cardinality(Reported(t)') = Cardinality(Reported(t)) + IF x.task = t THEN 1 ELSE 0
  BY <1>0, <1>1, <1>2, ReportReturned
<1>4. /\ result' \in [ResultWorkers -> Result \cup {None}] /\ loaded' \in [ResultWorkers -> Workflow \cup {None}]
      /\ result'[r] = None /\ loaded'[r] = None
      /\ \A q \in ResultWorkers \ {r} : result'[q] = result[q] /\ loaded'[q] = loaded[q]
      /\ \A q \in ResultWorkers : /\ result'[q] = None <=> loaded'[q] = None
                                  /\ loaded'[q] # None => loaded'[q].attempt >= 1
      /\ \A q \in ResultWorkers : result[q] = None => result'[q] = None
  BY <1>0, <1>1, HandlerLeaves
<1>5. TypeOK'
  <2>1. faults' \in 0..MaxFaults
    BY <1>0, <1>1, DeliveryAssumption DEF TypeOK
  <2> QED BY <1>0, <1>1, <1>3, <1>4, <2>1 DEF TypeOK
<1>6. WorkersHold' /\ RecordsKept'
  BY <1>0, <1>1 DEF WorkersHold, RecordsKept, Registered
<1>7. Dispatches'
  BY <1>0, <1>1, <1>4 DEF Dispatches
<1>8. Attempts'
  BY <1>0, <1>1, <1>4 DEF Attempts
<1>9. ASSUME NEW t
      PROVE  /\ Handling(t)' = Handling(t) \ {r} /\ (r \in Handling(t) <=> x.task = t)
             /\ Cardinality(Handling(t)') \in Nat
             /\ Cardinality(Handling(t)) = Cardinality(Handling(t)') + IF x.task = t THEN 1 ELSE 0
  BY <1>0, <1>1, HandlerDone
<1>10. \A t : Sending(t)' = Sending(t) /\ Posted(t)' = Posted(t) /\ Working(t)' = Working(t)
  BY <1>1 DEF Sending, Posted, Working
<1>11. ASSUME NEW t \in Tasks PROVE Holders(t)' = Holders(t)
  <2>1. /\ Cardinality(Sending(t)) \in Nat /\ Cardinality(Posted(t)) \in Nat /\ Cardinality(Working(t)) \in Nat
        /\ Cardinality(Reported(t)) \in Nat /\ Cardinality(Handling(t)) \in Nat
    BY <1>0, Counted
  <2>2. Cardinality(Reported(t)') = Cardinality(Reported(t)) + IF x.task = t THEN 1 ELSE 0
    BY <1>3
  <2>3. /\ Cardinality(Handling(t)') \in Nat
        /\ Cardinality(Handling(t)) = Cardinality(Handling(t)') + IF x.task = t THEN 1 ELSE 0
    BY <1>9
  <2> QED BY <1>10, <2>1, <2>2, <2>3 DEF Holders
<1>12. HoldInv' /\ RerouteBound'
  BY <1>0, <1>1, <1>11, SameHolders, SameBound
<1>13. FitInv'
  <2> SUFFICES ASSUME inspections = 0, NEW t \in Tasks PROVE Fits(t)' /\ RecordFits(t)'
    BY <1>1 DEF FitInv
  <2>1. Fits(t) /\ RecordFits(t)
    BY <1>0 DEF FitInv
  <2>2. Handling(t)' = Handling(t) \ {r} /\ (r \in Handling(t) <=> x.task = t)
    BY <1>9
  <2>3. \A i \in 1..Len(results') : results'[i].task = t => results'[i].agent = workflow[t].agent
    <3>1. x.task = t => x.agent = workflow[t].agent
      BY <2>1, <2>2 DEF Fits
    <3> QED BY <1>3, <2>1, <3>1 DEF Fits
  <2>4. \A q \in Handling(t)' : q \in ResultWorkers \ {r} /\ q \in Handling(t)
    BY <2>2 DEF Handling
  <2>5. \A q \in Handling(t)' : result'[q].agent = workflow[t].agent /\ loaded'[q] = workflow[t]
    BY <1>4, <2>1, <2>4 DEF Fits
  <2>6. Fits(t)'
    BY <1>1, <1>10, <2>1, <2>3, <2>5 DEF Fits
  <2>7. Underway(t)' => Underway(t)
    BY <1>1, <1>10 DEF Underway
  <2>8. SameRecords
    BY <1>0, <1>1, NotRewritten
  <2> QED BY <1>0, <1>1, <2>1, <2>6, <2>7, <2>8, StillUnderway
<1> QED BY <1>5, <1>6, <1>7, <1>8, <1>12, <1>13 DEF DeliveryInv, ShapeInv

LEMMA ResultEnds ==
  ASSUME DeliveryInv, NEW r \in ResultWorkers, ResultFinal(r)
  PROVE  DeliveryInv'
<1> PICK x : x = result[r]
  OBVIOUS
<1> PICK t : t = x.task
  OBVIOUS
<1> PICK y : y = [loaded[r] EXCEPT !.status = x.status]
  OBVIOUS
<1>0. ShapeInv /\ HoldInv /\ FitInv /\ RerouteBound /\ TypeOK /\ RecordsKept /\ Dispatches /\ Attempts /\ WorkersHold
  BY DEF DeliveryInv, ShapeInv
<1>1. /\ result[r] # None /\ workflow' = [workflow EXCEPT ![t] = y] /\ ResultDone(r)
      /\ results' = results /\ record' = record /\ mailbox' = mailbox /\ dispatching' = dispatching
      /\ pc' = pc /\ env' = env /\ outcome' = outcome
      /\ overdue' = overdue /\ faults' = faults /\ inspections' = inspections
  BY DEF ResultFinal, pool, counters
<1>2. /\ x \in Result /\ t \in Tasks /\ x.status \in {"completed", "failed", "dead_lettered"}
      /\ loaded[r] \in Workflow /\ loaded[r].attempt \in Nat /\ loaded[r].attempt >= 1
  BY <1>0, <1>1, HandlerHas
<1>3. /\ y \in Workflow /\ y.status = x.status /\ y.agent = loaded[r].agent /\ y.attempt = loaded[r].attempt
      /\ y.excluded = loaded[r].excluded
  BY <1>2 DEF Workflow, Terminal
<1>4. /\ workflow' \in [Tasks -> Workflow] /\ workflow'[t] = y /\ \A u \in Tasks \ {t} : workflow'[u] = workflow[u]
  BY <1>0, <1>1, <1>2, <1>3 DEF TypeOK
<1>5. /\ result' \in [ResultWorkers -> Result \cup {None}] /\ loaded' \in [ResultWorkers -> Workflow \cup {None}]
      /\ result'[r] = None /\ loaded'[r] = None
      /\ \A q \in ResultWorkers \ {r} : result'[q] = result[q] /\ loaded'[q] = loaded[q]
      /\ \A q \in ResultWorkers : /\ result'[q] = None <=> loaded'[q] = None
                                  /\ loaded'[q] # None => loaded'[q].attempt >= 1
      /\ \A q \in ResultWorkers : result[q] = None => result'[q] = None
  BY <1>0, <1>1, HandlerLeaves
<1>6. TypeOK'
  BY <1>0, <1>1, <1>4, <1>5 DEF TypeOK
<1>7. WorkersHold' /\ RecordsKept'
  BY <1>0, <1>1 DEF WorkersHold, RecordsKept, Registered
<1>8. Dispatches'
  <2>1. \A u \in Tasks : workflow[u].status # "queued" => workflow'[u].status # "queued"
    BY <1>2, <1>3, <1>4
  <2> QED BY <1>0, <1>1, <1>5, <2>1 DEF Dispatches
<1>9. Attempts'
  <2>1. \A u \in Tasks : /\ workflow'[u].attempt >= 1
                         /\ workflow'[u].status = "queued" => workflow'[u].attempt = 1 /\ workflow'[u].excluded = {}
    BY <1>0, <1>2, <1>3, <1>4, ZenonT(60) DEF Attempts
  <2> QED BY <1>5, <2>1 DEF Attempts
<1>10. ASSUME NEW u
      PROVE  /\ Handling(u)' = Handling(u) \ {r} /\ (r \in Handling(u) <=> t = u)
             /\ Cardinality(Handling(u)') \in Nat
             /\ Cardinality(Handling(u)) = Cardinality(Handling(u)') + IF t = u THEN 1 ELSE 0
  BY <1>0, <1>1, HandlerDone
<1>11. \A u : Sending(u)' = Sending(u) /\ Posted(u)' = Posted(u) /\ Working(u)' = Working(u) /\ Reported(u)' = Reported(u)
  BY <1>1 DEF Sending, Posted, Working, Reported
<1>12. ASSUME NEW u \in Tasks PROVE Holders(u) = Holders(u)' + (IF t = u THEN 1 ELSE 0) /\ Holders(u)' \in Nat
  <2>1. /\ Cardinality(Sending(u)) \in Nat /\ Cardinality(Posted(u)) \in Nat /\ Cardinality(Working(u)) \in Nat
        /\ Cardinality(Reported(u)) \in Nat /\ Cardinality(Handling(u)) \in Nat
    BY <1>0, Counted
  <2>2. /\ Cardinality(Handling(u)') \in Nat
        /\ Cardinality(Handling(u)) = Cardinality(Handling(u)') + IF t = u THEN 1 ELSE 0
    BY <1>10
  <2> QED BY <1>11, <2>1, <2>2 DEF Holders
<1>13. r \in Handling(t)
  BY <1>10
<1>14. HoldInv'
  <2> SUFFICES ASSUME NEW u \in Tasks
               PROVE  /\ workflow'[u].status = "running" => Holders(u)' >= 1
                      /\ inspections' = 0 => Holders(u)' = IF workflow'[u].status = "running" THEN 1 ELSE 0
    BY DEF HoldInv
  <2>1. CASE u = t
    <3>1. workflow'[u].status # "running"
      BY <1>2, <1>3, <1>4, <2>1
    <3>2. inspections = 0 => workflow[t].status = "running"
      BY <1>0, <1>2, <1>13, OnlyHandler
    <3>3. inspections = 0 => Holders(t) = 1
      BY <1>0, <1>2, <3>2 DEF HoldInv
    <3>4. Holders(t) = Holders(t)' + 1 /\ Holders(t)' \in Nat
      BY <1>2, <1>12
    <3> QED BY <1>1, <2>1, <3>1, <3>3, <3>4
  <2>2. CASE u # t
    <3>1. Holders(u) = Holders(u)' /\ workflow'[u] = workflow[u]
      BY <1>4, <1>12, <2>2
    <3> QED BY <1>0, <1>1, <3>1 DEF HoldInv
  <2> QED BY <2>1, <2>2
<1>15. ASSUME inspections = 0
       PROVE  /\ loaded[r] = workflow[t] /\ Handling(t) = {r}
              /\ Sending(t) = {} /\ Posted(t) = {} /\ Working(t) = {} /\ Reported(t) = {}
  <2>1. Fits(t)
    BY <1>0, <1>2, <1>15 DEF FitInv
  <2>2. /\ Handling(t) = {r}
        /\ Sending(t) = {} /\ Posted(t) = {} /\ Working(t) = {} /\ Reported(t) = {}
    BY <1>2, <1>13, <1>15, OnlyHandler
  <2> QED BY <1>13, <2>1, <2>2 DEF Fits
<1>16. RerouteBound'
  <2> SUFFICES ASSUME inspections = 0, NEW u \in Tasks
               PROVE  workflow'[u].agent \notin workflow'[u].excluded /\ workflow'[u].attempt = Cardinality(workflow'[u].excluded) + 1
    BY <1>1 DEF RerouteBound
  <2>1. workflow'[u].agent = workflow[u].agent /\ workflow'[u].excluded = workflow[u].excluded /\ workflow'[u].attempt = workflow[u].attempt
    BY <1>3, <1>4, <1>15
  <2> QED BY <1>0, <2>1 DEF RerouteBound
<1>17. FitInv'
  <2> SUFFICES ASSUME inspections = 0, NEW u \in Tasks PROVE Fits(u)' /\ RecordFits(u)'
    BY <1>1 DEF FitInv
  <2>1. Fits(u) /\ RecordFits(u)
    BY <1>0 DEF FitInv
  <2>2. CASE u # t
    <3>1. workflow'[u] = workflow[u]
      BY <1>4, <2>2
    <3>2. Handling(u)' = Handling(u) \ {r} /\ r \notin Handling(u)
      BY <1>10, <2>2
    <3>3. Handling(u)' = Handling(u) /\ \A q \in Handling(u) : result'[q] = result[q] /\ loaded'[q] = loaded[q]
      BY <1>5, <3>2 DEF Handling
    <3> QED BY <1>1, <1>11, <2>1, <3>1, <3>3, FitOfOthers
  <2>3. CASE u = t
    <3>1. Sending(t) = {} /\ Posted(t) = {} /\ Working(t) = {} /\ Reported(t) = {} /\ Handling(t) = {r}
      BY <1>15
    <3>2. Handling(t)' = {}
      BY <1>10, <3>1
    <3>3. /\ \A b \in Agents : \A i \in 1..Len(mailbox[b]) : mailbox[b][i].task # t
          /\ \A i \in 1..Len(results) : results[i].task # t
      BY <1>0, <3>1, NothingMoves
    <3>4. Fits(t)'
      BY <1>1, <1>11, <3>1, <3>2, <3>3 DEF Fits
    <3>5. ~Underway(t)'
      BY <1>1, <1>11, <3>1, <3>3 DEF Underway
    <3> QED BY <2>3, <3>4, <3>5 DEF RecordFits
  <2> QED BY <2>2, <2>3
<1> QED BY <1>6, <1>7, <1>8, <1>9, <1>14, <1>16, <1>17 DEF DeliveryInv, ShapeInv

LEMMA ResultReroutes ==
  ASSUME DeliveryInv, NEW r \in ResultWorkers, ResultReroute(r)
  PROVE  DeliveryInv'
<1> PICK x : x = result[r]
  OBVIOUS
<1> PICK t : t = x.task
  OBVIOUS
<1> PICK T : T = Tried(r)
  OBVIOUS
<1> PICK n : n = loaded[r].attempt + 1
  OBVIOUS
<1>0. ShapeInv /\ HoldInv /\ FitInv /\ RerouteBound /\ TypeOK /\ RecordsKept /\ Dispatches /\ Attempts /\ WorkersHold
  BY DEF DeliveryInv, ShapeInv
<1>a. PICK a \in Agents \ T :
        /\ workflow' = [workflow EXCEPT ![t] = [status |-> "running", agent |-> a, attempt |-> n, excluded |-> T]]
        /\ BeginDispatch(t, a, n, r)
  BY DEF ResultReroute
<1> PICK y : y = [status |-> "running", agent |-> a, attempt |-> n, excluded |-> T]
  OBVIOUS
<1>1. /\ result[r] # None /\ workflow' = [workflow EXCEPT ![t] = y] /\ ResultDone(r)
      /\ results' = results /\ record' = record /\ mailbox' = mailbox
      /\ pc' = pc /\ env' = env /\ outcome' = outcome
      /\ overdue' = overdue /\ faults' = faults /\ inspections' = inspections
  BY <1>a DEF ResultReroute, pool, counters
<1>2. /\ x \in Result /\ t \in Tasks /\ x.agent \in Agents
      /\ loaded[r] \in Workflow /\ loaded[r].attempt \in Nat /\ loaded[r].attempt >= 1 /\ loaded[r].excluded \in SUBSET Agents
      /\ \A d \in dispatching : d.by # r
  BY <1>0, <1>1, HandlerHas
<1>3. /\ y \in Workflow /\ y.status = "running" /\ y.agent = a /\ y.attempt = n /\ y.excluded = T
      /\ n \in Nat /\ n >= 1 /\ T = loaded[r].excluded \cup {x.agent} /\ T \in SUBSET Agents
  <2>1. n \in Nat /\ n >= 1 /\ T = loaded[r].excluded \cup {x.agent} /\ T \in SUBSET Agents
    BY <1>2 DEF Tried
  <2> QED BY <1>a, <2>1 DEF Workflow
<1>4. /\ workflow' \in [Tasks -> Workflow] /\ workflow'[t] = y /\ \A u \in Tasks \ {t} : workflow'[u] = workflow[u]
  BY <1>0, <1>1, <1>2, <1>3 DEF TypeOK
<1>5. /\ result' \in [ResultWorkers -> Result \cup {None}] /\ loaded' \in [ResultWorkers -> Workflow \cup {None}]
      /\ result'[r] = None /\ loaded'[r] = None
      /\ \A q \in ResultWorkers \ {r} : result'[q] = result[q] /\ loaded'[q] = loaded[q]
      /\ \A q \in ResultWorkers : /\ result'[q] = None <=> loaded'[q] = None
                                  /\ loaded'[q] # None => loaded'[q].attempt >= 1
      /\ \A q \in ResultWorkers : result[q] = None => result'[q] = None
  BY <1>0, <1>1, HandlerLeaves
<1>6. /\ dispatching' \subseteq [step : DispatchSteps, env : Envelope, by : Tasks \cup ResultWorkers]
      /\ IsFiniteSet(dispatching')
      /\ \A c, d \in dispatching' : c.by = d.by => c = d
      /\ \A d \in dispatching' : d.env.attempt >= 1 /\ (d.by = r \/ d \in dispatching)
      /\ \A d \in dispatching' : d.step # "record" => d \in dispatching
      /\ \A u : /\ u # t => Sending(u)' = Sending(u)
                /\ \A d \in Sending(u)' : d \in Sending(u) \/ (d.env.agent = a /\ d.step = "record")
      /\ Cardinality(Sending(t)') = Cardinality(Sending(t)) + 1
  <2>1. a \in Agents /\ r \in Tasks \cup ResultWorkers
    OBVIOUS
  <2> QED BY <1>0, <1>a, <1>2, <1>3, <2>1, SendingBegins
<1>7. TypeOK'
  BY <1>0, <1>1, <1>4, <1>5, <1>6 DEF TypeOK
<1>8. WorkersHold' /\ RecordsKept'
  BY <1>0, <1>1, <1>6 DEF WorkersHold, RecordsKept, Registered
<1>9. Dispatches'
  <2>1. \A u \in Tasks : workflow[u].status # "queued" => workflow'[u].status # "queued"
    BY <1>3, <1>4
  <2>2. r \notin Tasks
    BY DeliveryAssumption
  <2>3. \A d \in dispatching' : /\ d.by \in ResultWorkers => result'[d.by] = None
                                /\ d.by \in Tasks => workflow'[d.by].status # "queued"
    BY <1>0, <1>5, <1>6, <2>1, <2>2 DEF Dispatches
  <2> QED BY <1>6, <2>3 DEF Dispatches
<1>10. Attempts'
  <2>1. \A u \in Tasks : /\ workflow'[u].attempt >= 1
                         /\ workflow'[u].status = "queued" => workflow'[u].attempt = 1 /\ workflow'[u].excluded = {}
    BY <1>0, <1>3, <1>4 DEF Attempts
  <2> QED BY <1>5, <2>1 DEF Attempts
<1>11. ASSUME NEW u
      PROVE  /\ Handling(u)' = Handling(u) \ {r} /\ (r \in Handling(u) <=> t = u)
             /\ Cardinality(Handling(u)') \in Nat
             /\ Cardinality(Handling(u)) = Cardinality(Handling(u)') + IF t = u THEN 1 ELSE 0
  BY <1>0, <1>1, HandlerDone
<1>12. \A u : Posted(u)' = Posted(u) /\ Working(u)' = Working(u) /\ Reported(u)' = Reported(u)
  BY <1>1 DEF Posted, Working, Reported
<1>13. ASSUME NEW u \in Tasks PROVE Holders(u)' = Holders(u)
  <2>1. /\ Cardinality(Sending(u)) \in Nat /\ Cardinality(Posted(u)) \in Nat /\ Cardinality(Working(u)) \in Nat
        /\ Cardinality(Reported(u)) \in Nat /\ Cardinality(Handling(u)) \in Nat
    BY <1>0, Counted
  <2>2. /\ Cardinality(Handling(u)') \in Nat
        /\ Cardinality(Handling(u)) = Cardinality(Handling(u)') + IF t = u THEN 1 ELSE 0
    BY <1>11
  <2>3. Cardinality(Sending(u)') = Cardinality(Sending(u)) + IF t = u THEN 1 ELSE 0
    BY <1>6, <2>1
  <2> QED BY <1>12, <2>1, <2>2, <2>3 DEF Holders
<1>14. r \in Handling(t)
  BY <1>11
<1>15. ASSUME inspections = 0
       PROVE  /\ workflow[t].status = "running" /\ loaded[r] = workflow[t] /\ x.agent = workflow[t].agent /\ Handling(t) = {r}
              /\ Sending(t) = {} /\ Posted(t) = {} /\ Working(t) = {} /\ Reported(t) = {}
  <2>1. Fits(t)
    BY <1>0, <1>2, <1>15 DEF FitInv
  <2>2. /\ workflow[t].status = "running" /\ Handling(t) = {r}
        /\ Sending(t) = {} /\ Posted(t) = {} /\ Working(t) = {} /\ Reported(t) = {}
    BY <1>2, <1>14, <1>15, OnlyHandler
  <2> QED BY <1>14, <2>1, <2>2 DEF Fits
<1>16. HoldInv'
  <2> SUFFICES ASSUME NEW u \in Tasks
               PROVE  /\ workflow'[u].status = "running" => Holders(u)' >= 1
                      /\ inspections' = 0 => Holders(u)' = IF workflow'[u].status = "running" THEN 1 ELSE 0
    BY DEF HoldInv
  <2>0. Holders(u)' = Holders(u)
    BY <1>13
  <2>1. CASE u = t
    <3>1. workflow'[u].status = "running"
      BY <1>3, <1>4, <2>1
    <3>2. Holders(t)' >= 1
      <4>1. /\ Cardinality(Sending(t)) \in Nat /\ Cardinality(Posted(t)) \in Nat /\ Cardinality(Working(t)) \in Nat
            /\ Cardinality(Reported(t)) \in Nat
        BY <1>0, Counted
      <4>2. Cardinality(Handling(t)') \in Nat
        BY <1>11
      <4> QED BY <1>6, <1>12, <4>1, <4>2 DEF Holders
    <3>3. inspections = 0 => Holders(t) = 1
      BY <1>0, <1>2, <1>15 DEF HoldInv
    <3> QED BY <1>1, <2>0, <2>1, <3>1, <3>2, <3>3
  <2>2. CASE u # t
    <3>1. workflow'[u] = workflow[u]
      BY <1>4, <2>2
    <3> QED BY <1>0, <1>1, <2>0, <3>1 DEF HoldInv
  <2> QED BY <2>1, <2>2
<1>17. RerouteBound'
  <2> SUFFICES ASSUME inspections = 0, NEW u \in Tasks
               PROVE  workflow'[u].agent \notin workflow'[u].excluded /\ workflow'[u].attempt = Cardinality(workflow'[u].excluded) + 1
    BY <1>1 DEF RerouteBound
  <2>1. CASE u = t
    <3> PICK X : X = workflow[t].excluded
      OBVIOUS
    <3>1. /\ X \in SUBSET Agents /\ T = X \cup {x.agent} /\ x.agent \notin X /\ workflow[t].attempt = Cardinality(X) + 1
          /\ n = workflow[t].attempt + 1
      BY <1>0, <1>2, <1>3, <1>15 DEF RerouteBound
    <3>2. IsFiniteSet(X)
      BY <3>1, FS_Subset, DeliveryAssumption
    <3>3. Cardinality(X \cup {x.agent}) = Cardinality(X) + 1
      BY <3>1, <3>2, FS_AddElement
    <3>4. a \notin T
      BY <1>a
    <3> QED BY <1>3, <1>4, <2>1, <3>1, <3>3, <3>4, ZenonT(60)
  <2>2. CASE u # t
    BY <1>0, <1>4, <2>2 DEF RerouteBound
  <2> QED BY <2>1, <2>2
<1>18. FitInv'
  <2> SUFFICES ASSUME inspections = 0, NEW u \in Tasks PROVE Fits(u)' /\ RecordFits(u)'
    BY <1>1 DEF FitInv
  <2>1. Fits(u) /\ RecordFits(u)
    BY <1>0 DEF FitInv
  <2>2. CASE u # t
    <3>1. workflow'[u] = workflow[u] /\ Sending(u)' = Sending(u)
      BY <1>4, <1>6, <2>2
    <3>2. Handling(u)' = Handling(u) \ {r} /\ r \notin Handling(u)
      BY <1>11, <2>2
    <3>3. Handling(u)' = Handling(u) /\ \A q \in Handling(u) : result'[q] = result[q] /\ loaded'[q] = loaded[q]
      BY <1>5, <3>2 DEF Handling
    <3> QED BY <1>1, <1>12, <2>1, <3>1, <3>3, FitOfOthers
  <2>3. CASE u = t
    <3>1. Sending(t) = {} /\ Posted(t) = {} /\ Working(t) = {} /\ Reported(t) = {} /\ Handling(t) = {r}
      BY <1>15
    <3>2. Handling(t)' = {}
      BY <1>11, <3>1
    <3>3. /\ \A b \in Agents : \A i \in 1..Len(mailbox[b]) : mailbox[b][i].task # t
          /\ \A i \in 1..Len(results) : results[i].task # t
      BY <1>0, <3>1, NothingMoves
    <3>4. \A d \in Sending(t)' : d.env.agent = a /\ d.step = "record"
      BY <1>6, <3>1
    <3>5. workflow'[t].agent = a
      BY <1>3, <1>4
    <3>6. Fits(t)'
      BY <1>1, <1>12, <3>1, <3>2, <3>3, <3>4, <3>5 DEF Fits
    <3>7. ~Underway(t)'
      BY <1>1, <1>12, <3>1, <3>3, <3>4 DEF Underway
    <3> QED BY <2>3, <3>6, <3>7 DEF RecordFits
  <2> QED BY <2>2, <2>3
<1> QED BY <1>7, <1>8, <1>9, <1>10, <1>16, <1>17, <1>18 DEF DeliveryInv, ShapeInv

-----------------------------------------------------------------------------
(* InspectTimeouts, after which a task may have several holders but never  *)
(* fewer than before.                                                      *)

\* Once somebody has inspected, only that nobody strands is left to show.
LEMMA InspectedKeeps ==
  ASSUME ShapeInv, HoldInv, workflow' = workflow, inspections' \in Nat, inspections' > 0,
         \A t \in Tasks : Holders(t)' = Holders(t) \/ (Holders(t) \in Nat /\ Holders(t)' = Holders(t) + 1)
  PROVE  HoldInv' /\ FitInv' /\ RerouteBound'
<1>1. ASSUME NEW t \in Tasks, workflow'[t].status = "running" PROVE Holders(t)' >= 1
  <2>1. Holders(t) >= 1
    BY <1>1 DEF HoldInv
  <2>2. CASE Holders(t)' = Holders(t)
    BY <2>1, <2>2
  <2>3. CASE Holders(t) \in Nat /\ Holders(t)' = Holders(t) + 1
    BY <2>3
  <2> QED BY <2>2, <2>3
<1> QED BY <1>1 DEF HoldInv, FitInv, RerouteBound

Inspected == [step : {"act", "resend"}, task : Tasks, record : Record]

\* The inspector's own steps leave the holders alone.
LEMMA InspectShape ==
  ASSUME DeliveryInv, SameRecords, overdue' \in Inspected \cup {None}, inspections' \in 0..MaxInspections,
         inspections' > 0, overdue' # None => Registered(overdue'.task),
         UNCHANGED <<workflow, mailbox, results, dispatching, pool, intake, faults>>
  PROVE  DeliveryInv'
<1>0. ShapeInv /\ HoldInv /\ TypeOK /\ RecordsKept /\ Dispatches /\ Attempts /\ WorkersHold
  BY DEF DeliveryInv, ShapeInv
<1>1. /\ workflow' = workflow /\ mailbox' = mailbox /\ results' = results /\ dispatching' = dispatching
      /\ pc' = pc /\ env' = env /\ outcome' = outcome /\ result' = result /\ loaded' = loaded /\ faults' = faults
      /\ UNCHANGED pool
  BY DEF pool, intake
<1>2. TypeOK'
  BY <1>0, <1>1 DEF TypeOK, SameRecords, Inspected
<1>3. RecordsKept' /\ WorkersHold'
  <2>1. MailKept
    BY <1>0, <1>1 DEF MailKept, RecordsKept, TypeOK
  <2>2. \A d \in dispatching' : d.step # "record" => record'[d.env.task] # None
    <3>1. \A d \in dispatching : d.env.task \in Tasks
      BY <1>0 DEF TypeOK, Envelope
    <3> QED BY <1>0, <1>1, <3>1 DEF RecordsKept, SameRecords, Registered
  <2>3. overdue' # None => record'[overdue'.task] # None /\ inspections' > 0
    <3>1. overdue' # None => overdue'.task \in Tasks
      BY DEF Inspected
    <3> QED BY <3>1 DEF SameRecords, Registered
  <2> QED BY <1>0, <1>1, <2>1, <2>2, <2>3, KeptRecords, SameRemembered
<1>4. Dispatches' /\ Attempts'
  BY <1>0, <1>1 DEF Dispatches, Attempts
<1>5. \A t \in Tasks : Holders(t)' = Holders(t)
  BY <1>1 DEF Holders, Sending, Posted, Working, Reported, Handling
<1>6. inspections' \in Nat
  BY DeliveryAssumption
<1>7. HoldInv' /\ FitInv' /\ RerouteBound'
  BY <1>0, <1>1, <1>5, <1>6, InspectedKeeps
<1> QED BY <1>2, <1>3, <1>4, <1>7 DEF DeliveryInv, ShapeInv

LEMMA InspectChecks ==
  ASSUME DeliveryInv, NEW t \in Tasks, InspectCheck(t)
  PROVE  DeliveryInv'
<1>0. TypeOK
  BY DEF DeliveryInv, ShapeInv
<1>1. /\ record[t] # None /\ record' = record /\ inspections < MaxInspections /\ inspections' = inspections + 1
      /\ overdue' = [step |-> "act", task |-> t, record |-> record[t]]
      /\ UNCHANGED <<workflow, mailbox, results, dispatching, pool, intake, faults>>
  BY DEF InspectCheck
<1>2. inspections' \in 0..MaxInspections /\ inspections' > 0
  BY <1>0, <1>1, DeliveryAssumption DEF TypeOK
<1>3. overdue' \in Inspected \cup {None} /\ overdue'.task = t
  BY <1>0, <1>1 DEF TypeOK, Inspected
<1>4. SameRecords
  BY <1>0, <1>1, NotRewritten
<1>5. overdue' # None => Registered(overdue'.task)
  BY <1>1, <1>3 DEF Registered
<1> QED BY <1>1, <1>2, <1>3, <1>4, <1>5, InspectShape

\* What the inspector found, and where it stands now.
LEMMA InspectorHas ==
  ASSUME DeliveryInv, overdue # None
  PROVE  /\ overdue \in Inspected /\ overdue.task \in Tasks /\ overdue.record \in Record
         /\ Registered(overdue.task) /\ record[overdue.task] \in Record
         /\ inspections \in 0..MaxInspections /\ inspections > 0
<1>0. TypeOK /\ RecordsKept
  BY DEF DeliveryInv, ShapeInv
<1>1. overdue \in Inspected /\ Registered(overdue.task) /\ inspections > 0 /\ inspections \in 0..MaxInspections
  BY <1>0 DEF TypeOK, RecordsKept, Inspected
<1>2. overdue.task \in Tasks /\ overdue.record \in Record
  BY <1>1 DEF Inspected
<1>3. record[overdue.task] \in Record
  BY <1>0, <1>1, <1>2 DEF TypeOK, Registered
<1> QED BY <1>1, <1>2, <1>3

LEMMA InspectRetries ==
  ASSUME DeliveryInv, InspectRetry
  PROVE  DeliveryInv'
<1> PICK t : t = overdue.task
  OBVIOUS
<1>0. TypeOK /\ record \in [Tasks -> Record \cup {None}]
  BY DEF DeliveryInv, ShapeInv, TypeOK
<1>1. /\ overdue # None /\ overdue' = [overdue EXCEPT !.step = "resend"] /\ inspections' = inspections
      /\ record' = [record EXCEPT ![t].status = "retrying", ![t].retries = IF Current THEN @ + 1 ELSE @]
      /\ UNCHANGED <<workflow, mailbox, results, dispatching, pool, intake, faults>>
  BY DEF InspectRetry, counters
<1>2. /\ overdue \in Inspected /\ t \in Tasks /\ Registered(t) /\ record[t] \in Record
      /\ inspections \in 0..MaxInspections /\ inspections > 0
  BY <1>1, InspectorHas
<1>3. overdue' \in Inspected /\ overdue'.task = t
  BY <1>1, <1>2 DEF Inspected
<1> PICK k : k = IF Current THEN record[t].retries + 1 ELSE record[t].retries
  OBVIOUS
<1> PICK y : y = [record[t] EXCEPT !.status = "retrying", !.retries = k]
  OBVIOUS
<1>4. k \in Nat
  BY <1>2 DEF Record
<1>5. y \in Record /\ y.agent = record[t].agent
  <2>1. "retrying" \in DeliveryStatus
    BY DEF DeliveryStatus
  <2> QED BY <1>2, <1>4, <2>1 DEF Record
<1>6. record' = [record EXCEPT ![t] = y]
  BY <1>0, <1>1, <1>2 DEF Record
<1>7. SameRecords
  BY <1>0, <1>2, <1>5, <1>6, Rewritten
<1>8. overdue' # None => Registered(overdue'.task)
  BY <1>2, <1>3
<1> QED BY <1>1, <1>2, <1>3, <1>7, <1>8, InspectShape

LEMMA InspectDeadLetters ==
  ASSUME DeliveryInv, InspectDeadLetter
  PROVE  DeliveryInv'
<1> PICK t : t = overdue.task
  OBVIOUS
<1>0. TypeOK /\ record \in [Tasks -> Record \cup {None}]
  BY DEF DeliveryInv, ShapeInv, TypeOK
<1>1. /\ overdue # None /\ overdue' = None /\ inspections' = inspections
      /\ record' = [record EXCEPT ![t].status = IF Current THEN "dead_lettered" ELSE @]
      /\ UNCHANGED <<workflow, mailbox, results, dispatching, pool, intake, faults>>
  BY DEF InspectDeadLetter, counters
<1>2. /\ t \in Tasks /\ Registered(t) /\ record[t] \in Record
      /\ inspections \in 0..MaxInspections /\ inspections > 0
  BY <1>1, InspectorHas
<1> PICK k : k = IF Current THEN "dead_lettered" ELSE record[t].status
  OBVIOUS
<1> PICK y : y = [record[t] EXCEPT !.status = k]
  OBVIOUS
<1>3. k \in DeliveryStatus
  BY <1>2 DEF Record, DeliveryStatus, Settled
<1>4. y \in Record /\ y.agent = record[t].agent
  BY <1>2, <1>3 DEF Record
<1>5. record' = [record EXCEPT ![t] = y]
  BY <1>0, <1>1, <1>2 DEF Record
<1>6. SameRecords
  BY <1>0, <1>2, <1>4, <1>5, Rewritten
<1> QED BY <1>1, <1>2, <1>6, InspectShape

LEMMA InspectResends ==
  ASSUME DeliveryInv, InspectResend
  PROVE  DeliveryInv'
<1> PICK e : e = [task |-> overdue.task, agent |-> overdue.record.agent, attempt |-> overdue.record.attempt]
  OBVIOUS
<1>0. ShapeInv /\ HoldInv /\ TypeOK /\ RecordsKept /\ Dispatches /\ Attempts /\ WorkersHold
  BY DEF DeliveryInv, ShapeInv
<1>1. /\ overdue # None /\ Publish(e) /\ overdue' = None /\ inspections' = inspections /\ record' = record
      /\ workflow' = workflow /\ results' = results /\ dispatching' = dispatching
      /\ pc' = pc /\ env' = env /\ outcome' = outcome /\ result' = result /\ loaded' = loaded /\ faults' = faults
      /\ UNCHANGED pool
  BY DEF InspectResend, counters, pool, intake
<1>2. /\ overdue.task \in Tasks /\ Registered(overdue.task) /\ overdue.record \in Record
      /\ inspections \in 0..MaxInspections /\ inspections > 0
  BY <1>1, InspectorHas
<1>3. e \in Envelope /\ e.task = overdue.task /\ Registered(e.task)
  BY <1>2 DEF Envelope, Record
<1>4. /\ mailbox' \in [Agents -> Seq(Envelope)] /\ MailKept
      /\ \A t : Cardinality(Posted(t)') = Cardinality(Posted(t)) + IF e.task = t THEN 1 ELSE 0
  BY <1>0, <1>1, <1>3, MailPublished
<1>5. SameRecords
  BY <1>0, <1>1, NotRewritten
<1>6. TypeOK'
  BY <1>0, <1>1, <1>4 DEF TypeOK
<1>7. RecordsKept' /\ WorkersHold'
  <2>1. \A d \in dispatching' : d.step # "record" => record'[d.env.task] # None
    BY <1>0, <1>1 DEF RecordsKept, Registered
  <2> QED BY <1>0, <1>1, <1>4, <1>5, <2>1, KeptRecords, SameRemembered
<1>8. Dispatches' /\ Attempts'
  BY <1>0, <1>1 DEF Dispatches, Attempts
<1>9. ASSUME NEW t \in Tasks PROVE Holders(t)' = Holders(t) \/ (Holders(t) \in Nat /\ Holders(t)' = Holders(t) + 1)
  <2>1. /\ Cardinality(Sending(t)) \in Nat /\ Cardinality(Posted(t)) \in Nat /\ Cardinality(Working(t)) \in Nat
        /\ Cardinality(Reported(t)) \in Nat /\ Cardinality(Handling(t)) \in Nat
    BY <1>0, Counted
  <2>2. Sending(t)' = Sending(t) /\ Working(t)' = Working(t) /\ Reported(t)' = Reported(t) /\ Handling(t)' = Handling(t)
    BY <1>1 DEF Sending, Working, Reported, Handling
  <2>3. Cardinality(Posted(t)') = Cardinality(Posted(t)) + IF e.task = t THEN 1 ELSE 0
    BY <1>4
  <2> QED BY <2>1, <2>2, <2>3 DEF Holders
<1>10. inspections' \in Nat /\ inspections' > 0
  BY <1>1, <1>2, DeliveryAssumption
<1>11. HoldInv' /\ FitInv' /\ RerouteBound'
  BY <1>0, <1>1, <1>9, <1>10, InspectedKeeps
<1> QED BY <1>6, <1>7, <1>8, <1>11 DEF DeliveryInv, ShapeInv

-----------------------------------------------------------------------------
LEMMA NextDeliveryInv == DeliveryInv /\ [Next]_vars => DeliveryInv'
<1> SUFFICES ASSUME DeliveryInv, [Next]_vars PROVE DeliveryInv'
  OBVIOUS
<1>1. ASSUME NEW t \in Tasks, Reject(t) \/ DispatchTask(t) PROVE DeliveryInv'
  BY <1>1, RejectKeeps, DispatchBegins
<1>2. ASSUME Dispatcher PROVE DeliveryInv'
  BY <1>2, DispatchRecords, DispatchPublishes, DispatchEnds DEF Dispatcher
<1>3. ASSUME NEW w \in Workers, Worker(w) PROVE DeliveryInv'
  BY <1>3, WorkerReceives, WorkerHandshake, WorkerRuns, WorkerRetries, WorkerPublishes, WorkerAccepts, WorkerResends,
     WorkerDeadLetters DEF Worker
<1>4. ASSUME NEW r \in ResultWorkers, ResultWorker(r) PROVE DeliveryInv'
  BY <1>4, ResultTakes, ResultReroutes, ResultEnds, ResultReturned DEF ResultWorker
<1>5. ASSUME Inspector PROVE DeliveryInv'
  BY <1>5, InspectChecks, InspectRetries, InspectResends, InspectDeadLetters DEF Inspector
<1>6. CASE UNCHANGED vars
  <2>1. /\ workflow' = workflow /\ record' = record /\ mailbox' = mailbox /\ results' = results
        /\ dispatching' = dispatching /\ pc' = pc /\ env' = env /\ outcome' = outcome /\ result' = result
        /\ loaded' = loaded /\ overdue' = overdue /\ faults' = faults /\ inspections' = inspections
    BY <1>6 DEF vars, pool, intake, counters
  <2>2. ShapeInv'
    BY <2>1 DEF DeliveryInv, ShapeInv, TypeOK, WorkersHold, RecordsKept, Registered, Dispatches, Attempts
  <2>3. \A t : /\ Sending(t)' = Sending(t) /\ Posted(t)' = Posted(t) /\ Working(t)' = Working(t)
               /\ Reported(t)' = Reported(t) /\ Handling(t)' = Handling(t)
    BY <2>1 DEF Sending, Posted, Working, Reported, Handling
  <2>4. HoldInv'
    BY <2>1, <2>3 DEF DeliveryInv, HoldInv, Holders
  <2>5. FitInv'
    BY <2>1, <2>3 DEF DeliveryInv, FitInv, Fits, RecordFits, Underway
  <2>6. RerouteBound'
    BY <2>1 DEF DeliveryInv, RerouteBound
  <2> QED BY <2>2, <2>4, <2>5, <2>6 DEF DeliveryInv
<1> QED BY <1>1, <1>2, <1>3, <1>4, <1>5, <1>6 DEF Next

\* For any tasks, agents, workers, result workers and limits: whatever fails, is
\* retried, re-routed or inspected, a running workflow has somebody who will
\* report on it, exactly one as long as nobody inspects, and it is tried at most
\* once by each agent.
THEOREM ResponsibilityHeldCorrect == Spec => []ResponsibilityHeld
<1>1. Init => DeliveryInv
  BY InitDeliveryInv
<1>2. DeliveryInv /\ [Next]_vars => DeliveryInv'
  BY NextDeliveryInv
<1>3. DeliveryInv => ResponsibilityHeld
  BY DEF DeliveryInv, ShapeInv, HoldInv, ResponsibilityHeld, OneHolder, NotStranded
<1> QED BY <1>1, <1>2, <1>3, PTL DEF Spec

-----------------------------------------------------------------------------
(* What has ended stays as it ended.                                       *)

\* Only a submission that is queued or a task whose result is in somebody's
\* hands changes, and without inspections the latter is running.
LEMMA TerminalKept ==
  ASSUME DeliveryInv, [Next]_vars
  PROVE  KeepsTerminal
<1> SUFFICES ASSUME inspections = 0, NEW t \in Tasks, workflow[t].status \in Terminal PROVE workflow'[t] = workflow[t]
  BY DEF KeepsTerminal
<1>0. ShapeInv /\ workflow \in [Tasks -> Workflow]
  BY DEF DeliveryInv, ShapeInv, TypeOK
<1>1. ASSUME NEW u \in Tasks, Reject(u) \/ DispatchTask(u) PROVE workflow'[t] = workflow[t]
  <2>1. u # t
    BY <1>1 DEF Reject, DispatchTask, Terminal
  <2> QED BY <1>0, <1>1, <2>1 DEF Reject, DispatchTask
<1>2. ASSUME NEW r \in ResultWorkers, ResultReroute(r) \/ ResultFinal(r) PROVE workflow'[t] = workflow[t]
  <2> PICK u : u = result[r].task
    OBVIOUS
  <2>1. result[r] # None /\ r \in Handling(u)
    BY <1>2 DEF ResultReroute, ResultFinal, Handling
  <2>2. u \in Tasks
    BY <1>0, <2>1, HandlerHas
  <2>3. workflow[u].status = "running"
    BY <2>1, <2>2, OnlyHandler
  <2>4. u # t
    BY <2>3 DEF Terminal
  <2>5. \E y : workflow' = [workflow EXCEPT ![u] = y]
    BY <1>2 DEF ResultReroute, ResultFinal
  <2> QED BY <1>0, <2>2, <2>4, <2>5
<1>3. CASE workflow' = workflow
  BY <1>3
<1>4. \/ workflow' = workflow
      \/ \E u \in Tasks : Reject(u) \/ DispatchTask(u)
      \/ \E r \in ResultWorkers : ResultReroute(r) \/ ResultFinal(r)
  <2>1. Dispatcher => workflow' = workflow
    BY DEF Dispatcher, DispatchRecord, DispatchPublish, DispatchStatus
  <2>2. \A w \in Workers : Worker(w) => workflow' = workflow
    BY DEF Worker, WorkerReceive, WorkerConfirm, WorkerAckValidated, WorkerAckInvalid, WorkerEstablish, WorkerExecute,
           WorkerPublish, WorkerAccept, WorkerHandlerError, WorkerRetry, WorkerResend, WorkerDeadLetter
  <2>3. \A r \in ResultWorkers : ResultTake(r) \/ ResultNack(r) => workflow' = workflow
    BY DEF ResultTake, ResultNack
  <2>4. Inspector => workflow' = workflow
    BY DEF Inspector, InspectCheck, InspectRetry, InspectResend, InspectDeadLetter
  <2> QED BY <2>1, <2>2, <2>3, <2>4 DEF Next, vars, ResultWorker
<1> QED BY <1>1, <1>2, <1>3, <1>4

\* Only the result worker stores an outcome, and over one that is stored only
\* the dead letter of a later life.
LEMMA OutcomeKept ==
  ASSUME BrInv, [BrNext]_brVars
  PROVE  KeepsOutcome
<1>0. BrTypes /\ OutcomeInv
  BY DEF BrInv
<1>1. CASE brStored' = brStored
  BY <1>1 DEF KeepsOutcome
<1>2. CASE BrResult
  <2> PICK h : h = Head(brResults)
    OBVIOUS
  <2>1. h = brResults[1] /\ 1 \in 1..Len(brResults)
    BY <1>0, <1>2, HeadTailProperties, EmptySeq, LenProperties DEF BrTypes, BrResult
  <2>2. brStored' = [brStored EXCEPT ![h.task] = h.status]
    BY <1>2 DEF BrResult
  <2>3. brStored[h.task] \in Ended => h.status = "dead_lettered" /\ brCrashes > 0
    BY <1>0, <2>1 DEF OutcomeInv, Late
  <2> QED BY <1>0, <2>2, <2>3 DEF KeepsOutcome, BrTypes
<1>3. brStored' = brStored \/ BrResult
  BY DEF BrNext, BrWork, BrSending, brBroker, brTold, brVars, BrDispatch, BrPublish, BrPublishLost, BrRegister, BrStatus,
         BrPush, BrRefuse, BrExpire, BrHandOver, BrConfirm, BrRun, BrRunFails, BrAccept, BrAck, BrRetry, BrGiveUp,
         BrDeadLetter, BrNack, BrCrash, BrRestart
<1> QED BY <1>1, <1>2, <1>3

\* For any tasks, agents, workers and limits: a workflow that has ended keeps its
\* status as long as nobody inspects, and the outcome of a task delivered over
\* the broker is only ever replaced by the dead letter of a later life.
THEOREM OutcomesStandCorrect == MCSpec => OutcomesStand
<1>1. MCInit => DeliveryInv /\ BrInv
  BY InitDeliveryInv, InitBrInv DEF MCInit
<1>2. [MCNext]_mcVars => [Next]_vars /\ [BrNext]_brVars
  BY DEF MCNext, Limited, OfBroker, mcVars
<1>3. DeliveryInv /\ BrInv /\ [MCNext]_mcVars => (DeliveryInv /\ BrInv)'
  BY <1>2, NextDeliveryInv, NextBrInv
<1>4. DeliveryInv /\ BrInv /\ [MCNext]_mcVars => [KeepsTerminal /\ KeepsOutcome]_mcVars
  <2> SUFFICES ASSUME DeliveryInv, BrInv, [MCNext]_mcVars PROVE KeepsTerminal /\ KeepsOutcome
    OBVIOUS
  <2> QED BY <1>2, TerminalKept, OutcomeKept
<1> QED BY <1>1, <1>3, <1>4, PTL DEF MCSpec, OutcomesStand

=============================================================================
