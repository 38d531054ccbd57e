------------------------- MODULE MCWorkflowWaiters -------------------------
(* Instances of WorkflowWaiters and, beside it, of CodingRuntime for TLC:  *)
(* "part" is what moves: the waiters, one call of the runtime, or two.      *)
EXTENDS WorkflowWaiters, CodingRuntime

CONSTANTS w1, w2, r1, r2, a, b, missing

VARIABLE part

OneLane == [s \in {a} |-> {}]

\* Two lanes side by side; one after the other; one that waits for nothing
\* the plan has; a single lane; no lanes at all.
SomePlans == { [s \in {a, b} |-> {}],
               [s \in {a, b} |-> IF s = b THEN {a} ELSE {}],
               [s \in {a, b} |-> IF s = b THEN {missing} ELSE {}],
               OneLane, <<>> }

\* Call 1 alone has any of them; of the two together one has a lane.
PlansOfCalls == [c \in Calls |-> SomePlans]

PairPlans == [c \in Calls |-> IF c = 1 THEN OneLane ELSE <<>>]

BothInit ==
  /\ Init /\ CodingInit
  /\ part \in {"waiters", "alone", "pair"} /\ (part # "waiters" => path = "coding")

BothNext ==
  \/ part = "waiters" /\ Next /\ UNCHANGED <<codingVars, part>>
  \/ part # "waiters" /\ CodingNext /\ UNCHANGED <<vars, part>>
     /\ \A c \in Calls : \/ call'[c] = "idle"
                         \/ IF part = "pair" THEN plan'[c] = PairPlans[c] ELSE c = 1

\* Goroutines are scheduled, and a lane has a timeout.
Goroutines ==
  /\ \A w \in Waiters : WF_vars(part = "waiters" /\ Waiting(w))
  /\ \A r \in Reporters : WF_vars(part = "waiters" /\ Reporting(r))
  /\ \A c \in Calls :
       /\ WF_codingVars(part # "waiters" /\ ~down /\ CallStep(c))
       /\ WF_codingVars(part # "waiters" /\ ~down /\ SessionGoroutine(c))
       /\ \A s \in Steps :
            WF_codingVars(part # "waiters" /\ ~down /\ LaneGoroutine(c, s))

BothSpec == BothInit /\ [][BothNext]_<<vars, codingVars, part>> /\ Goroutines

\* A delegated workflow comes out as a goroutine of its session did: lanes in
\* order, completed only when all are, nothing left bound, and the process
\* stops only for its two reasons.
DelegateSound == TypeOK /\ CodingSound

\* A waiter registered in time gets its answer, and every call of the coding
\* runtime returns unless the process stops.
EveryoneReturns == RegisteredIsServed /\ CallsReturn

\* The waiters alone.
WaitersSpec ==
  (part = "waiters" /\ BothInit) /\ [][BothNext]_<<vars, codingVars, part>> /\ Goroutines
=============================================================================
