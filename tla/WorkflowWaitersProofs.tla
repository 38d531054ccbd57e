----------------------- MODULE WorkflowWaitersProofs -----------------------
(***************************************************************************)
(* Theorems about WorkflowWaiters for any number of waiters and reporters, *)
(* and about the coding runtime for any calls and plans.                   *)
(***************************************************************************)
EXTENDS MCWorkflowWaiters, TLAPS

\* A call holds its place in the map from Register to removeWorkflowWaiter, and
\* every channel a reporter still has to serve was registered.
WaitersInv == TypeOK /\ NoLeak

LEMMA InitWaitersInv == Init => WaitersInv
  BY ReopenedAssumption DEF Init, WaitersInv, TypeOK, NoLeak, Records

LEMMA NextWaitersInv == WaitersInv /\ [Next]_vars => WaitersInv'
<1> SUFFICES ASSUME WaitersInv, [Next]_vars PROVE WaitersInv'
  OBVIOUS
<1> USE DEF WaitersInv, TypeOK, NoLeak, Records
<1>1. ASSUME NEW w \in Waiters, Check(w) PROVE WaitersInv'
  BY <1>1 DEF Check, Move, reporting
<1>2. ASSUME NEW w \in Waiters, Register(w) PROVE WaitersInv'
  BY <1>2 DEF Register, Move, reporting
<1>3. ASSUME NEW w \in Waiters, Receive(w) PROVE WaitersInv'
  BY <1>3 DEF Receive, Move, reporting
<1>4. ASSUME NEW w \in Waiters, Cancelled(w) PROVE WaitersInv'
  BY <1>4 DEF Cancelled, Move, reporting
<1>5. ASSUME NEW w \in Waiters, RemoveWorkflowWaiter(w) PROVE WaitersInv'
  BY <1>5 DEF RemoveWorkflowWaiter, Move, reporting
<1>6. ASSUME NEW r \in Reporters, Save(r) \/ CodingStartFails(r) \/ CodingSaveFails(r)
      PROVE  WaitersInv'
  BY <1>6 DEF Save, CodingStartFails, CodingSaveFails
<1>10. ASSUME NEW r \in Reporters, SaveRunning(r) PROVE WaitersInv'
  <2>1. reopened' = reopened + 1 /\ reopened < MaxReopened /\ stored' = "open"
        /\ UNCHANGED <<path, registered, chan, waiter, reporter, record, targets>>
    BY <1>10 DEF SaveRunning, reporting
  <2>2. reopened' \in 0 .. MaxReopened
    BY <2>1, ReopenedAssumption
  <2> QED BY <2>1, <2>2
<1>7. ASSUME NEW r \in Reporters, CollectWaiters(r) PROVE WaitersInv'
  BY <1>7 DEF CollectWaiters
<1>8. ASSUME NEW r \in Reporters, NEW w \in Waiters, Send(r, w) PROVE WaitersInv'
  BY <1>8 DEF Send
<1>9. CASE UNCHANGED vars
  BY <1>9 DEF vars, reporting
<1> QED BY <1>1, <1>2, <1>3, <1>4, <1>5, <1>6, <1>7, <1>8, <1>9, <1>10
        DEF Next, Waiting, Reporting

\* The map of waiters never keeps the channel of a call that has returned,
\* whatever reporters do meanwhile.
THEOREM NoLeakCorrect == Spec => []NoLeak
<1>1. Init => WaitersInv BY InitWaitersInv
<1>2. WaitersInv /\ [Next]_vars => WaitersInv' BY NextWaitersInv
<1>3. WaitersInv => NoLeak BY DEF WaitersInv
<1> QED BY <1>1, <1>2, <1>3, PTL DEF Spec

-----------------------------------------------------------------------------
\* The inductive strengthening of SleeperIsKnown: agents' reporters announce
\* only ends; the coding runtime has one reporter, so a channel that holds an
\* open record will not be offered a terminal one.
KnownInv ==
  /\ \A r \in Reporters : reporter[r] = "working" => record[r] = "open"
  /\ \A r \in Reporters : reporter[r] # "sending" => targets[r] = {}
  /\ \A r \in Reporters : path = "agents" /\ reporter[r] # "working" => record[r] = "terminal"
  /\ \A q, r \in Reporters :
       path = "coding" /\ reporter[q] # "working" /\ reporter[r] # "working" => q = r
  /\ \A w \in Waiters : chan[w] = "open" =>
       \E r \in Reporters : reporter[r] = "sending" /\ record[r] = "open"
  /\ SleeperIsKnown

LEMMA InitKnownInv == Init => KnownInv
  BY DEF Init, KnownInv, SleeperIsKnown

LEMMA NextKnownInv == TypeOK /\ KnownInv /\ [Next]_vars => KnownInv'
<1> SUFFICES ASSUME TypeOK, KnownInv, [Next]_vars PROVE KnownInv'
  OBVIOUS
<1> USE DEF TypeOK, KnownInv, SleeperIsKnown, Records
<1>1. ASSUME NEW w \in Waiters, Check(w) PROVE KnownInv'
  BY <1>1 DEF Check, Move, reporting
<1>2. ASSUME NEW w \in Waiters, Register(w) PROVE KnownInv'
  BY <1>2 DEF Register, Move, reporting
<1>3. ASSUME NEW w \in Waiters, Receive(w) PROVE KnownInv'
  BY <1>3 DEF Receive, Move, reporting
<1>4. ASSUME NEW w \in Waiters, Cancelled(w) PROVE KnownInv'
  BY <1>4 DEF Cancelled, Move, reporting
<1>5. ASSUME NEW w \in Waiters, RemoveWorkflowWaiter(w) PROVE KnownInv'
  BY <1>5 DEF RemoveWorkflowWaiter, Move, reporting
<1>6. ASSUME NEW r \in Reporters, Save(r) \/ CodingStartFails(r) \/ CodingSaveFails(r)
      PROVE  KnownInv'
  <2>1. /\ MayReport(r)
        /\ reporter' = [reporter EXCEPT ![r] = "saved"]
        /\ record' \in [Reporters -> Records]
        /\ path = "agents" => record'[r] = "terminal"
        /\ \A q \in Reporters \ {r} : record'[q] = record[q]
        /\ UNCHANGED <<path, registered, chan, waiter, targets>>
    <3>1. CASE Save(r) BY <3>1 DEF Save
    <3>2. CASE CodingStartFails(r) BY <3>2 DEF CodingStartFails
    <3>3. CASE CodingSaveFails(r) BY <3>3 DEF CodingSaveFails
    <3> QED BY <1>6, <3>1, <3>2, <3>3
  <2>2. \A w \in Waiters : chan[w] # "open"
    BY <2>1 DEF MayReport
  <2>3. \A q \in Reporters \ {r} : reporter'[q] = reporter[q] /\ record'[q] = record[q]
    BY <2>1
  <2>4. /\ reporter'[r] = "saved" /\ targets[r] = {}
        /\ path = "agents" => record'[r] = "terminal"
    BY <2>1 DEF MayReport
  <2>5. SleeperIsKnown'
    BY <2>1, <2>3, <2>4
  <2> QED BY <2>1, <2>2, <2>3, <2>4, <2>5 DEF MayReport
<1>10. ASSUME NEW r \in Reporters, SaveRunning(r) PROVE KnownInv'
  BY <1>10 DEF SaveRunning, reporting
<1>7. ASSUME NEW r \in Reporters, CollectWaiters(r) PROVE KnownInv'
  <2>1. /\ reporter[r] = "saved" /\ targets[r] = {}
        /\ targets' = [targets EXCEPT ![r] = registered]
        /\ registered' = IF record[r] = "terminal" THEN {} ELSE registered
        /\ reporter' = [reporter EXCEPT ![r] = "sending"]
        /\ UNCHANGED <<path, stored, chan, waiter, record>>
    BY <1>7 DEF CollectWaiters
  <2>2. SleeperIsKnown'
    BY <2>1
  <2> QED BY <2>1, <2>2
<1>8. ASSUME NEW r \in Reporters, NEW w \in Waiters, Send(r, w) PROVE KnownInv'
  <2>1. /\ w \in targets[r] /\ reporter[r] = "sending"
        /\ targets' = [targets EXCEPT ![r] = @ \ {w}]
        /\ chan' = IF chan[w] = "empty" THEN [chan EXCEPT ![w] = record[r]] ELSE chan
        /\ UNCHANGED <<path, stored, registered, waiter, reporter, record>>
    BY <1>8 DEF Send
  <2>2. \A v \in Waiters \ {w} : chan'[v] = chan[v]
    BY <2>1
  <2>3. \A v \in Waiters \ {w}, q \in Reporters : v \in targets[q] => v \in targets'[q]
    BY <2>1
  <2>4. record[r] = "terminal" => chan'[w] = "terminal"
    <3>1. record[r] = "terminal" => chan[w] # "open"
      BY <2>1
    <3> QED BY <2>1, <3>1
  <2>5. record[r] = "open" => \A q \in Reporters : record[q] = "open"
    BY <2>1
  <2>6. SleeperIsKnown'
    BY <2>1, <2>2, <2>3, <2>4, <2>5
  <2>7. \A q \in Reporters : reporter'[q] # "sending" => targets'[q] = {}
    BY <2>1
  <2>8. \A v \in Waiters : chan'[v] = "open" =>
          \E q \in Reporters : reporter'[q] = "sending" /\ record'[q] = "open"
    BY <2>1, <2>2
  <2> QED BY <2>1, <2>6, <2>7, <2>8
<1>9. CASE UNCHANGED vars
  BY <1>9 DEF vars, reporting
<1> QED BY <1>1, <1>2, <1>3, <1>4, <1>5, <1>6, <1>7, <1>8, <1>9, <1>10
        DEF Next, Waiting, Reporting

\* notifyWorkflowWaiters never takes a waiter off the list, or drops a record
\* for it, without its being told of the workflow's end.
THEOREM SleeperIsKnownCorrect == Spec => []SleeperIsKnown
<1>1. Init => WaitersInv /\ KnownInv BY InitWaitersInv, InitKnownInv
<1>2. (WaitersInv /\ KnownInv) /\ [Next]_vars => (WaitersInv /\ KnownInv)'
  BY NextWaitersInv, NextKnownInv DEF WaitersInv
<1>3. KnownInv => SleeperIsKnown BY DEF KnownInv
<1> QED BY <1>1, <1>2, <1>3, PTL DEF Spec

-----------------------------------------------------------------------------
(* The coding runtime and its delegate.                                    *)

LEMMA ToSetAppend ==
  ASSUME NEW S, NEW s \in Seq(S), NEW e \in S
  PROVE  Append(s, e) \in Seq(S) /\ \A z \in ToSet(Append(s, e)) : z = e \/ z \in ToSet(s)
  BY DEF ToSet

LEMMA ToSetHead ==
  ASSUME NEW S, NEW s \in Seq(S), s # <<>>
  PROVE  /\ Head(s) \in ToSet(s) /\ Head(s) \in S /\ Tail(s) \in Seq(S)
         /\ \A z \in ToSet(Tail(s)) : z \in ToSet(s)
  BY DEF ToSet

Plans == {<<>>} \cup UNION {LanePlans[c] : c \in Calls}
LaneStates == {"idle", "begun", "noted", "running", "ok", "failed"}
Places == {"idle", "bind", "save", "wait", "waiting", "store", "unbind", "returned"}

LEMMA PlansOverSteps == \A p \in Plans : DOMAIN p \subseteq Steps
<1>1. DOMAIN <<>> = {}
  OBVIOUS
<1> QED BY <1>1, CodingAssumption DEF Plans

SessionTyped ==
  /\ table \in Calls \cup {None}
  /\ plan \in [Calls -> Plans]
  /\ runner \in [Calls -> {"none", "launched", "run", "closing", "closed"}]
  /\ of \in [Calls -> Calls \cup {None}]
  /\ outcome \in [Calls -> {"none", "completed", "failed"}]
  /\ begun \in [Calls -> SUBSET Steps] /\ done \in [Calls -> SUBSET Steps]
  /\ results \in [Calls -> Seq(Steps)]
  /\ lane \in [Calls -> [Steps -> LaneStates]]

CallTyped ==
  /\ bound \in Calls \cup {None}
  /\ call \in [Calls -> Places]
  /\ waitsFor \in [Calls -> Calls \cup {None}]
  /\ answer \in [Calls -> {"none", "completed", "failed"}]
  /\ workflow \in [status : {"none", "accepted", "completed", "failed"}, session : Calls \cup {None}]
  /\ faults \in 0 .. MaxFaults /\ down \in BOOLEAN

\* A session's goroutine: nothing of it before it has looked a state up, a
\* result once it closes; its steps begin, end and are taken in this order,
\* while it runs all that were taken succeeded, and a step has begun only over
\* such ones.
SessionInv(c) ==
  /\ call[c] = "idle" => runner[c] = "none"
  /\ runner[c] \in {"none", "launched"} => of[c] = None /\ begun[c] = {} /\ done[c] = {} /\ results[c] = <<>>
  /\ runner[c] \in {"run", "closing", "closed"} => of[c] \in Calls
  /\ of[c] # None => call[of[c]] # "idle"
  /\ runner[c] \in {"none", "launched", "run"} => outcome[c] = "none"
  /\ runner[c] \in {"closing", "closed"} => outcome[c] # "none"
  /\ done[c] \subseteq begun[c] /\ begun[c] \subseteq DOMAIN PlanOf(c) /\ ToSet(results[c]) \subseteq begun[c]
  /\ \A s \in Steps : lane[c][s] # "idle" => s \in begun[c]
  /\ \A s \in done[c] \cup ToSet(results[c]) : lane[c][s] \in {"ok", "failed"}
  /\ runner[c] = "run" => \A s \in done[c] : lane[c][s] = "ok"
  /\ \A s \in begun[c] : \A d \in PlanOf(c)[s] : d \in done[c] /\ lane[c][d] = "ok"
  /\ outcome[c] = "completed" => \A s \in DOMAIN PlanOf(c) : lane[c][s] = "ok"

\* A goroutine closed the state, having completed it.
Whole(state) == \E d \in Calls : of[d] = state /\ runner[d] = "closed" /\ outcome[d] = "completed"

\* The calls: what a call waits for is a state, what it has as completed a
\* goroutine of the state completed, and so for the saved workflow; a call is
\* bound until it unbinds.
CallInv ==
  /\ table # None => call[table] # "idle"
  /\ \A c \in Calls :
       /\ call[c] # "idle" => table \in Calls
       /\ call[c] \in {"waiting", "store"} => waitsFor[c] \in Calls
       /\ call[c] = "store" /\ answer[c] = "completed" => Whole(waitsFor[c])
  /\ workflow.status = "completed" => Whole(workflow.session)
  /\ bound # None => call[bound] \in {"save", "wait", "waiting", "store", "unbind"}

LEMMA PlanOverSteps ==
  ASSUME SessionTyped, NEW c \in Calls PROVE DOMAIN PlanOf(c) \subseteq Steps
<1>1. PlanOf(c) \in Plans
  BY DEF SessionTyped, PlanOf, Plans
<1> QED BY <1>1, PlansOverSteps

CodingInv == SessionTyped /\ CallTyped /\ (\A c \in Calls : SessionInv(c)) /\ CallInv /\ StopHasCause

LEMMA CodingInvSound == ASSUME CodingInv PROVE CodingSound
<1>1. CodingTypeOK
  <2>1. ASSUME NEW c \in Calls
        PROVE  of[c] \in IF runner[c] \in {"none", "launched"} THEN {None} ELSE Calls
    BY DEF CodingInv, SessionTyped, SessionInv
  <2> QED BY <2>1 DEF CodingInv, SessionTyped, CallTyped, SessionInv, CodingTypeOK, LaneStates, Places
<1>2. LaneOrder
  BY DEF CodingInv, SessionInv, LaneOrder
<1>3. CompletedIsWhole
  BY DEF CodingInv, SessionInv, CallInv, Whole, CompletedIsWhole
<1>4. NothingBound
  <2>1. None \notin Calls
    BY CodingAssumption
  <2>2. bound \in Calls \cup {None} /\ (bound # None => call[bound] \in {"save", "wait", "waiting", "store", "unbind"})
    BY DEF CodingInv, CallTyped, CallInv
  <2> QED BY <2>1, <2>2 DEF NothingBound
<1> QED BY <1>1, <1>2, <1>3, <1>4 DEF CodingInv, CodingSound

LEMMA InitCodingInv == ASSUME CodingInit PROVE CodingInv
<1>0. 0 \in 0 .. MaxFaults
  <2>1. MaxFaults \in Nat
    BY CodingAssumption
  <2> QED BY <2>1
<1>1. SessionTyped
  BY DEF CodingInit, SessionTyped, Plans, LaneStates
<1>2. CallTyped
  BY <1>0 DEF CodingInit, CallTyped, Places
<1>3. ASSUME NEW c \in Calls PROVE SessionInv(c)
  <2>1. ToSet(<<>>) = {}
    BY DEF ToSet
  <2>2. PlanOf(c) = <<>>
    BY DEF CodingInit, PlanOf
  <2> QED BY <2>1, <2>2 DEF CodingInit, SessionInv
<1>4. CallInv /\ StopHasCause
  BY DEF CodingInit, CallInv, StopHasCause
<1> QED BY <1>1, <1>2, <1>3, <1>4 DEF CodingInv

\* A step of session c: the calls stay where they are, other sessions as they
\* are, and who has closed a state stays as it is.
OfSession(c) ==
  /\ UNCHANGED <<callVars, table, plan, of>>
  /\ \A d \in Calls \ {c} : /\ runner'[d] = runner[d] /\ outcome'[d] = outcome[d] /\ begun'[d] = begun[d]
                            /\ done'[d] = done[d] /\ results'[d] = results[d] /\ lane'[d] = lane[d]
  /\ runner[c] = "closed" => runner'[c] = "closed" /\ outcome'[c] = outcome[c]

LEMMA SessionKeeps ==
  ASSUME CodingInv, NEW c \in Calls, OfSession(c), SessionTyped', down' \in BOOLEAN, SessionInv(c)', StopHasCause'
  PROVE  CodingInv'
<1>1. CallTyped'
  BY DEF CodingInv, CallTyped, OfSession, callVars
<1>2. ASSUME NEW d \in Calls PROVE SessionInv(d)'
  <2>1. CASE d = c BY <2>1
  <2>2. CASE d # c
    <3>1. PlanOf(d)' = PlanOf(d)
      BY DEF OfSession, PlanOf
    <3> QED BY <2>2, <3>1 DEF CodingInv, SessionInv, OfSession, callVars
  <2> QED BY <2>1, <2>2
<1>3. \A state : Whole(state) => Whole(state)'
  BY DEF OfSession, Whole
<1>4. CallInv'
  BY <1>3 DEF CodingInv, CallInv, OfSession, callVars
<1> QED BY <1>1, <1>2, <1>4 DEF CodingInv

\* A goroutine that has not closed its state sends on it, or closes it.
LEMMA TouchKeeps ==
  ASSUME NEW c \in Calls, runner[c] # "closed", Touches(c), UNCHANGED of,
         \A d \in Calls \ {c} : runner'[d] = runner[d]
  PROVE  StopHasCause' /\ down' \in BOOLEAN
<1>1. down' \in BOOLEAN /\ (down' => \E d \in Calls : of[d] = of[c] /\ runner[d] = "closed")
  BY DEF Touches, Closed
<1>2. ASSUME down' PROVE \E b1, d \in Calls : b1 # d /\ of'[b1] = of'[d] /\ runner'[b1] = "closed"
  <2>1. PICK d \in Calls : of[d] = of[c] /\ runner[d] = "closed"
    BY <1>1, <1>2
  <2>2. d # c /\ of'[d] = of'[c] /\ runner'[d] = "closed"
    BY <2>1
  <2> QED BY <2>2
<1> QED BY <1>1, <1>2 DEF StopHasCause

\* The session ends.
LEMMA EndsKeeps ==
  ASSUME CodingInv, ~down, NEW c \in Calls, runner[c] = "run", NEW result \in {"completed", "failed"},
         EndSession(c, result), Touches(c), UNCHANGED <<plan, table, of, begun, done, results, lane, callVars>>,
         result = "completed" => \A s \in DOMAIN PlanOf(c) : lane[c][s] = "ok"
  PROVE  CodingInv'
<1>1. SessionTyped /\ SessionInv(c)
  BY DEF CodingInv
<1>2. /\ outcome' = [outcome EXCEPT ![c] = result] /\ runner' = [runner EXCEPT ![c] = "closing"]
  BY DEF EndSession
<1>3. outcome'[c] = result /\ runner'[c] = "closing" /\ outcome[c] = "none"
  BY <1>1, <1>2 DEF SessionTyped, SessionInv
<1>4. OfSession(c)
  BY <1>1, <1>2, <1>3 DEF OfSession, SessionTyped
<1>5. SessionTyped'
  BY <1>1, <1>2 DEF SessionTyped
<1>p. PlanOf(c)' = PlanOf(c)
  BY DEF PlanOf
<1>6. SessionInv(c)'
  BY <1>1, <1>3, <1>p DEF SessionInv, callVars
<1>7. StopHasCause' /\ down' \in BOOLEAN
  BY <1>1, <1>2, TouchKeeps DEF SessionTyped
<1> QED BY <1>4, <1>5, <1>6, <1>7, SessionKeeps

\* The goroutine of a session.
LEMMA SessionNext == ASSUME CodingInv, ~down, NEW c \in Calls, SessionGoroutine(c) PROVE CodingInv'
<1>0. SessionTyped /\ SessionInv(c) /\ DOMAIN PlanOf(c) \subseteq Steps
  BY PlanOverSteps DEF CodingInv
<1>p. ASSUME UNCHANGED <<plan, of>> PROVE PlanOf(c)' = PlanOf(c)
  BY <1>p DEF PlanOf
<1>1. ASSUME NEW result \in {"completed", "failed"}, SingleRun(c, result) PROVE CodingInv'
  <2>1. /\ runner[c] = "run" /\ PlanOf(c) = <<>> /\ EndSession(c, result)
        /\ Touches(c) /\ UNCHANGED <<plan, table, of, begun, done, results, lane, callVars>>
    BY <1>1 DEF SingleRun
  <2>2. \A s \in DOMAIN PlanOf(c) : lane[c][s] = "ok"
    BY <2>1
  <2> QED BY <2>1, <2>2, EndsKeeps
<1>2. CASE LaunchLanes(c)
  <2>1. PICK R : R = ReadySteps(c)
    OBVIOUS
  <2>2. /\ runner[c] = "run"
        /\ begun' = [begun EXCEPT ![c] = @ \cup R]
        /\ lane' = [lane EXCEPT ![c] = [s \in Steps |-> IF s \in R THEN "begun" ELSE lane[c][s]]]
        /\ Touches(c) /\ UNCHANGED <<plan, table, runner, of, outcome, done, results, callVars>>
    BY <1>2, <2>1 DEF LaunchLanes
  <2>3. R \subseteq DOMAIN PlanOf(c) /\ R \cap begun[c] = {} /\ R \subseteq Steps
        /\ \A s \in R : PlanOf(c)[s] \subseteq done[c]
    BY <1>0, <2>1 DEF ReadySteps
  <2>4. /\ begun'[c] = begun[c] \cup R
        /\ \A s \in Steps : lane'[c][s] = IF s \in R THEN "begun" ELSE lane[c][s]
    BY <1>0, <2>2 DEF SessionTyped
  <2>5. SessionTyped'
    BY <1>0, <2>2, <2>3 DEF SessionTyped, LaneStates
  <2>6. OfSession(c)
    BY <1>0, <2>2 DEF OfSession, SessionTyped
  <2>7. \A s \in begun[c] : lane'[c][s] = lane[c][s]
    BY <1>0, <2>3, <2>4 DEF SessionTyped
  <2>8. outcome[c] = "none" /\ call[c] # "idle" /\ call' = call
    BY <1>0, <2>2 DEF SessionInv, callVars
  <2>9. /\ \A s \in Steps : lane'[c][s] # "idle" => s \in begun'[c]
        /\ \A s \in done[c] \cup ToSet(results[c]) : lane'[c][s] \in {"ok", "failed"}
        /\ \A s \in done[c] : lane'[c][s] = "ok"
    BY <1>0, <2>2, <2>3, <2>4, <2>7 DEF SessionInv
  <2>10. \A s \in begun'[c] : \A d \in PlanOf(c)[s] : d \in done[c] /\ lane'[c][d] = "ok"
    <3>1. \A s \in begun'[c] : \A d \in PlanOf(c)[s] : d \in done[c]
      BY <1>0, <2>3, <2>4 DEF SessionInv
    <3> QED BY <2>9, <3>1
  <2>11. done[c] \subseteq begun'[c] /\ begun'[c] \subseteq DOMAIN PlanOf(c) /\ ToSet(results[c]) \subseteq begun'[c]
    BY <1>0, <2>3, <2>4 DEF SessionInv
  <2>12. SessionInv(c)'
    BY <1>0, <1>p, <2>2, <2>8, <2>9, <2>10, <2>11 DEF SessionInv
  <2>13. StopHasCause' /\ down' \in BOOLEAN
    BY <2>2, TouchKeeps
  <2> QED BY <2>13, <2>2, <2>5, <2>6, <2>12, SessionKeeps
<1>3. CASE LanesBlocked(c)
  <2>1. /\ runner[c] = "run" /\ EndSession(c, "failed")
        /\ Touches(c) /\ UNCHANGED <<plan, table, of, begun, done, results, lane, callVars>>
    BY <1>3 DEF LanesBlocked
  <2>2. PICK result \in {"completed", "failed"} : result = "failed"
    OBVIOUS
  <2>3. EndSession(c, result) /\ (result = "completed" => \A s \in DOMAIN PlanOf(c) : lane[c][s] = "ok")
    BY <2>1, <2>2
  <2> QED BY <2>1, <2>3, EndsKeeps
<1>4. CASE LanesComplete(c)
  <2>1. /\ runner[c] = "run" /\ EndSession(c, "completed") /\ done[c] = DOMAIN PlanOf(c)
        /\ Touches(c) /\ UNCHANGED <<plan, table, of, begun, done, results, lane, callVars>>
    BY <1>4 DEF LanesComplete
  <2>2. PICK result \in {"completed", "failed"} : result = "completed"
    OBVIOUS
  <2>3. EndSession(c, result) /\ (result = "completed" => \A s \in DOMAIN PlanOf(c) : lane[c][s] = "ok")
    BY <1>0, <2>1, <2>2 DEF SessionInv
  <2> QED BY <2>1, <2>3, EndsKeeps
<1>5. CASE TakeResult(c)
  <2>1. PICK s : s = Head(results[c])
    OBVIOUS
  <2>2. /\ runner[c] = "run" /\ results[c] # <<>>
        /\ results' = [results EXCEPT ![c] = Tail(@)]
        /\ done' = [done EXCEPT ![c] = @ \cup {s}]
        /\ Touches(c) /\ UNCHANGED <<plan, table, of, begun, lane, callVars>>
        /\ IF lane[c][s] = "failed" THEN EndSession(c, "failed") ELSE UNCHANGED <<outcome, runner>>
    BY <1>5, <2>1 DEF TakeResult
  <2>3. results[c] \in Seq(Steps)
    BY <1>0 DEF SessionTyped
  <2>4. /\ s \in ToSet(results[c]) /\ s \in Steps /\ Tail(results[c]) \in Seq(Steps)
        /\ \A z \in ToSet(Tail(results[c])) : z \in ToSet(results[c])
    BY <2>1, <2>2, <2>3, ToSetHead
  <2>5. results'[c] = Tail(results[c]) /\ done'[c] = done[c] \cup {s} /\ outcome[c] = "none" /\ call[c] # "idle"
    BY <1>0, <2>2 DEF SessionTyped, SessionInv
  <2>6. /\ runner'[c] \in {"run", "closing"} /\ (runner'[c] = "run" => outcome'[c] = "none" /\ lane[c][s] # "failed")
        /\ (runner'[c] = "closing" => outcome'[c] = "failed")
        /\ runner' \in [Calls -> {"none", "launched", "run", "closing", "closed"}]
        /\ outcome' \in [Calls -> {"none", "completed", "failed"}]
        /\ \A d \in Calls \ {c} : runner'[d] = runner[d] /\ outcome'[d] = outcome[d]
    BY <1>0, <2>2, <2>5 DEF SessionTyped, EndSession
  <2>7. SessionTyped'
    BY <1>0, <2>2, <2>4, <2>6 DEF SessionTyped
  <2>8. OfSession(c)
    BY <1>0, <2>2, <2>5, <2>6 DEF OfSession, SessionTyped
  <2>9. /\ done'[c] \subseteq begun[c] /\ ToSet(results'[c]) \subseteq begun[c]
        /\ \A z \in done'[c] \cup ToSet(results'[c]) : lane[c][z] \in {"ok", "failed"}
        /\ runner'[c] = "run" => \A z \in done'[c] : lane[c][z] = "ok"
    BY <1>0, <2>2, <2>4, <2>5, <2>6 DEF SessionInv
  <2>10. \A z \in begun[c] : \A d \in PlanOf(c)[z] : d \in done'[c] /\ lane[c][d] = "ok"
    BY <1>0, <2>5 DEF SessionInv
  <2>11. SessionInv(c)'
    BY <1>0, <1>p, <2>2, <2>5, <2>6, <2>9, <2>10 DEF SessionInv, callVars
  <2>12. StopHasCause' /\ down' \in BOOLEAN
    BY <2>2, <2>6, TouchKeeps
  <2> QED BY <2>12, <2>2, <2>7, <2>8, <2>11, SessionKeeps
<1>6. CASE CloseSession(c)
  <2>1. /\ runner[c] = "closing" /\ runner' = [runner EXCEPT ![c] = "closed"]
        /\ Touches(c) /\ UNCHANGED <<plan, table, of, outcome, begun, done, results, lane, callVars>>
    BY <1>6 DEF CloseSession
  <2>2. runner'[c] = "closed"
    BY <1>0, <2>1 DEF SessionTyped
  <2>3. SessionTyped'
    BY <1>0, <2>1 DEF SessionTyped
  <2>4. OfSession(c)
    BY <1>0, <2>1 DEF OfSession, SessionTyped
  <2>5. SessionInv(c)'
    BY <1>0, <1>p, <2>1, <2>2 DEF SessionInv, callVars
  <2>6. StopHasCause' /\ down' \in BOOLEAN
    BY <1>0, <2>1, TouchKeeps DEF SessionTyped
  <2> QED BY <2>6, <2>1, <2>3, <2>4, <2>5, SessionKeeps
<1>7. CASE LookUp(c)
  <2>1. /\ runner[c] = "launched" /\ of' = [of EXCEPT ![c] = table] /\ runner' = [runner EXCEPT ![c] = "run"]
        /\ UNCHANGED <<plan, table, outcome, begun, done, results, lane, callVars, down>>
    BY <1>7 DEF LookUp
  <2>2. /\ SessionTyped /\ CallTyped /\ CallInv /\ call[c] # "idle" /\ table \in Calls /\ call[table] # "idle"
        /\ UNCHANGED <<call, waitsFor, answer, bound, workflow, faults>>
    <3>1. SessionTyped /\ CallTyped /\ CallInv /\ SessionInv(c)
      BY DEF CodingInv
    <3>2. call[c] # "idle"
      BY <2>1, <3>1 DEF SessionInv
    <3>3. table \in Calls /\ None \notin Calls
      BY <3>1, <3>2, CodingAssumption DEF CallInv
    <3> QED BY <2>1, <3>1, <3>2, <3>3 DEF CallInv, callVars
  <2>3. /\ of'[c] = table /\ runner'[c] = "run" /\ \A d \in Calls \ {c} : of'[d] = of[d] /\ runner'[d] = runner[d]
    BY <2>1, <2>2 DEF SessionTyped
  <2>4. SessionTyped'
    BY <2>1, <2>2 DEF SessionTyped
  <2>5. CallTyped' /\ StopHasCause'
    <3>1. down' = down /\ down \in BOOLEAN
      BY <2>1, <2>2 DEF CallTyped
    <3>2. ~down'
      BY <3>1
    <3> QED BY <2>1, <2>2, <3>1, <3>2 DEF CallTyped, StopHasCause
  <2>6. ASSUME NEW d \in Calls PROVE SessionInv(d)'
    <3>1. SessionInv(d)
      BY DEF CodingInv
    <3>2. CASE d # c
      <4>1. PlanOf(d)' = PlanOf(d)
        BY <2>1, <2>3, <3>2 DEF PlanOf
      <4> QED BY <2>1, <2>2, <2>3, <3>1, <3>2, <4>1 DEF SessionInv
    <3>3. CASE d = c
      <4>1. /\ begun[c] = {} /\ done[c] = {} /\ results[c] = <<>> /\ outcome[c] = "none"
            /\ \A s \in Steps : lane[c][s] = "idle"
        BY <1>0, <2>1 DEF SessionInv
      <4>2. ToSet(<<>>) = {}
        BY DEF ToSet
      <4> QED BY <2>1, <2>2, <2>3, <3>3, <4>1, <4>2 DEF SessionInv
    <3> QED BY <3>2, <3>3
  <2>7. \A state : Whole(state) => Whole(state)'
    BY <2>1, <2>3 DEF Whole
  <2>8. CallInv'
    BY <2>1, <2>2, <2>7 DEF CallInv
  <2> QED BY <2>4, <2>5, <2>6, <2>8 DEF CodingInv
<1> QED BY <1>1, <1>2, <1>3, <1>4, <1>5, <1>6, <1>7 DEF SessionGoroutine

\* A lane's goroutine moves on to the state z.
LaneMoves(c, s, z) ==
  /\ lane' = [lane EXCEPT ![c][s] = z]
  /\ UNCHANGED <<plan, table, runner, of, outcome, begun, done, callVars>>

LEMMA LaneNext ==
  ASSUME CodingInv, ~down, NEW c \in Calls, NEW s \in Steps, LaneGoroutine(c, s)
  PROVE  CodingInv'
<1>0. SessionTyped /\ SessionInv(c) /\ DOMAIN PlanOf(c) \subseteq Steps
  BY PlanOverSteps DEF CodingInv
<1>p. ASSUME UNCHANGED <<plan, of>> PROVE PlanOf(c)' = PlanOf(c)
  BY <1>p DEF PlanOf
<1>d. ASSUME UNCHANGED down PROVE ~down' /\ StopHasCause' /\ down' \in BOOLEAN
  <2>1. down' = down /\ down \in BOOLEAN
    BY <1>d DEF CodingInv, CallTyped
  <2>2. ~down'
    BY <2>1
  <2> QED BY <2>1, <2>2 DEF StopHasCause
<1>1. lane[c][s] \in {"begun", "noted", "running"}
  BY DEF LaneGoroutine, LaneRejected, LaneNoted, LaneEmits, LaneExecuted
<1>2. s \in begun[c] /\ s \notin done[c] /\ s \notin ToSet(results[c]) /\ s \in DOMAIN PlanOf(c)
  BY <1>0, <1>1 DEF SessionInv
<1>3. outcome[c] # "completed"
  BY <1>0, <1>1, <1>2 DEF SessionInv
<1>4. runner[c] \in {"run", "closing", "closed"} /\ call[c] # "idle"
  BY <1>0, <1>2 DEF SessionInv, SessionTyped
\* what any of its moves keeps
<1>5. ASSUME NEW z \in LaneStates \ {"idle"}, LaneMoves(c, s, z),
             results' \in [Calls -> Seq(Steps)], \A d \in Calls \ {c} : results'[d] = results[d],
             \A y \in ToSet(results'[c]) : y \in ToSet(results[c]) \/ (y = s /\ z \in {"ok", "failed"})
      PROVE  OfSession(c) /\ SessionTyped' /\ SessionInv(c)' /\ lane'[c][s] = z
  <2>1. /\ lane'[c][s] = z /\ lane'[c] \in [Steps -> LaneStates]
        /\ \A y \in Steps \ {s} : lane'[c][y] = lane[c][y]
        /\ \A d \in Calls \ {c} : lane'[d] = lane[d]
        /\ lane' \in [Calls -> [Steps -> LaneStates]]
    BY <1>0, <1>5 DEF LaneMoves, SessionTyped
  <2>2. UNCHANGED <<plan, table, runner, of, outcome, begun, done, callVars>>
    BY <1>5 DEF LaneMoves
  <2>3. OfSession(c)
    BY <1>3, <1>5, <2>1, <2>2 DEF OfSession
  <2>4. SessionTyped'
    BY <1>0, <1>5, <2>1, <2>2 DEF SessionTyped
  <2>5. begun[c] \subseteq Steps /\ done[c] \subseteq Steps
    BY <1>0 DEF SessionTyped
  <2>6. /\ ToSet(results'[c]) \subseteq begun[c]
        /\ \A y \in done[c] \cup ToSet(results'[c]) : lane'[c][y] \in {"ok", "failed"}
        /\ runner[c] = "run" => \A y \in done[c] : lane'[c][y] = "ok"
        /\ \A y \in Steps : lane'[c][y] # "idle" => y \in begun[c]
    BY <1>0, <1>2, <1>5, <2>1, <2>5, ZenonT(60) DEF SessionInv
  <2>7. \A y \in begun[c] : \A d \in PlanOf(c)[y] : d \in done[c] /\ lane'[c][d] = "ok"
    BY <1>0, <1>2, <2>1, <2>5 DEF SessionInv
  <2>8. SessionInv(c)'
    BY <1>0, <1>3, <1>4, <1>p, <2>2, <2>6, <2>7 DEF SessionInv, callVars
  <2> QED BY <2>1, <2>3, <2>4, <2>8
<1>6. ASSUME NEW z \in {"ok", "failed"}, LaneEnds(c, s, z) PROVE CodingInv'
  <2>1. LaneMoves(c, s, z) /\ results' = [results EXCEPT ![c] = Append(@, s)] /\ UNCHANGED down
    BY <1>6 DEF LaneEnds, LaneMoves
  <2>2. results[c] \in Seq(Steps)
    BY <1>0 DEF SessionTyped
  <2>3. Append(results[c], s) \in Seq(Steps) /\ \A y \in ToSet(Append(results[c], s)) : y = s \/ y \in ToSet(results[c])
    BY <2>2, ToSetAppend
  <2>4. /\ results' \in [Calls -> Seq(Steps)] /\ \A d \in Calls \ {c} : results'[d] = results[d]
        /\ results'[c] = Append(results[c], s)
    BY <1>0, <2>1, <2>3 DEF SessionTyped
  <2>5. OfSession(c) /\ SessionTyped' /\ SessionInv(c)'
    BY <1>5, <2>1, <2>3, <2>4 DEF LaneStates
  <2> QED BY <1>d, <2>1, <2>5, SessionKeeps
<1>7. CASE LaneNoted(c, s)
  <2>1. LaneMoves(c, s, "noted") /\ UNCHANGED <<results, down>>
    BY <1>7 DEF LaneNoted, LaneMoves
  <2>2. OfSession(c) /\ SessionTyped' /\ SessionInv(c)'
    BY <1>0, <1>5, <2>1 DEF LaneStates, SessionTyped
  <2> QED BY <1>d, <2>1, <2>2, SessionKeeps
<1>8. CASE LaneEmits(c, s)
  <2>1. LaneMoves(c, s, "running") /\ UNCHANGED <<results, of>> /\ Touches(c)
    BY <1>8 DEF LaneEmits, LaneMoves
  <2>2. OfSession(c) /\ SessionTyped' /\ SessionInv(c)' /\ lane'[c][s] = "running"
    BY <1>0, <1>5, <2>1 DEF LaneStates, SessionTyped
  <2>3. CASE runner[c] # "closed"
    <3>1. StopHasCause' /\ down' \in BOOLEAN
      BY <2>1, <2>3, TouchKeeps DEF LaneMoves
    <3> QED BY <2>2, <3>1, SessionKeeps
  <2>4. CASE runner[c] = "closed"
    <3>1. outcome[c] = "failed"
      BY <1>0, <1>3, <2>4 DEF SessionInv, SessionTyped
    <3>2. outcome' = outcome /\ begun' = begun /\ done' = done
      BY <2>1 DEF LaneMoves
    <3>3. StopHasCause'
      BY <1>2, <2>2, <3>1, <3>2 DEF StopHasCause
    <3>4. down' \in BOOLEAN
      BY <2>1 DEF Touches, Closed
    <3> QED BY <2>2, <3>3, <3>4, SessionKeeps
  <2> QED BY <2>3, <2>4
<1> QED BY <1>6, <1>7, <1>8 DEF LaneGoroutine, LaneRejected, LaneExecuted

\* A step of a call, with the sessions as they are: c goes from one place to
\* another, neither of them "idle".
OfCall(c) ==
  /\ UNCHANGED <<sessionVars, down>>
  /\ call[c] # "idle" /\ call' = [call EXCEPT ![c] = call'[c]] /\ call'[c] \in Places \ {"idle"}

LEMMA CallKeeps ==
  ASSUME CodingInv, ~down, NEW c \in Calls, OfCall(c),
         waitsFor' \in [Calls -> Calls \cup {None}], answer' \in [Calls -> {"none", "completed", "failed"}],
         \A d \in Calls \ {c} : waitsFor'[d] = waitsFor[d] /\ answer'[d] = answer[d],
         call'[c] \in {"waiting", "store"} => waitsFor'[c] \in Calls,
         call'[c] = "store" /\ answer'[c] = "completed" => Whole(waitsFor'[c]),
         workflow' \in [status : {"none", "accepted", "completed", "failed"}, session : Calls \cup {None}],
         workflow'.status = "completed" => Whole(workflow'.session),
         bound' \in Calls \cup {None},
         bound' # None => call'[bound'] \in {"save", "wait", "waiting", "store", "unbind"},
         faults' \in 0 .. MaxFaults
  PROVE  CodingInv'
<1>1. call' \in [Calls -> Places] /\ \A d \in Calls \ {c} : call'[d] = call[d]
  BY DEF OfCall, CodingInv, CallTyped
<1>2. UNCHANGED <<plan, table, runner, of, outcome, begun, done, results, lane, down>>
  BY DEF OfCall, sessionVars
<1>3. SessionTyped'
  BY <1>2 DEF CodingInv, SessionTyped
<1>4. down' \in BOOLEAN /\ StopHasCause'
  <2>1. down' = down /\ down \in BOOLEAN
    BY <1>2 DEF CodingInv, CallTyped
  <2>2. ~down'
    BY <2>1
  <2> QED BY <2>1, <2>2 DEF StopHasCause
<1>5. CallTyped'
  BY <1>1, <1>4 DEF CallTyped
<1>6. ASSUME NEW d \in Calls PROVE SessionInv(d)'
  <2>1. \A z \in Calls : call'[z] = "idle" => call[z] = "idle"
    BY <1>1 DEF OfCall
  <2>2. PlanOf(d)' = PlanOf(d) /\ of[d] \in Calls \cup {None}
    BY <1>2 DEF PlanOf, CodingInv, SessionTyped
  <2> QED BY <1>2, <2>1, <2>2 DEF CodingInv, SessionInv
<1>7. table \in Calls /\ call[table] # "idle" /\ call'[table] # "idle"
  <2>1. table \in Calls /\ None \notin Calls
    BY CodingAssumption DEF OfCall, CodingInv, CallInv
  <2>2. call[table] # "idle"
    BY <2>1 DEF CodingInv, CallInv
  <2> QED BY <1>1, <2>1, <2>2 DEF OfCall
<1>9. \A state : Whole(state) => Whole(state)'
  BY <1>2 DEF Whole
<1>8. CallInv'
  BY <1>1, <1>2, <1>7, <1>9 DEF CodingInv, CallInv
<1> QED BY <1>3, <1>4, <1>5, <1>6, <1>8 DEF CodingInv

LEMMA CallNext == ASSUME CodingInv, ~down, NEW c \in Calls, CallStep(c) PROVE CodingInv'
<1>0. CallTyped /\ CallInv /\ SessionTyped
  BY DEF CodingInv
<1>g. ASSUME NEW place \in Places \ {"idle"}, GoTo(c, place), call[c] # "idle", UNCHANGED <<sessionVars, down>>
      PROVE  /\ OfCall(c) /\ call'[c] = place
             /\ \A d \in Calls \ {c} : call'[d] = call[d]
  <2>1. call'[c] = place /\ \A d \in Calls \ {c} : call'[d] = call[d]
    BY <1>0, <1>g DEF GoTo, CallTyped
  <2>2. call' = [call EXCEPT ![c] = call'[c]]
    BY <1>g, <2>1 DEF GoTo
  <2> QED BY <1>g, <2>1, <2>2 DEF OfCall
<1>n. None \notin Calls /\ MaxFaults \in Nat
  <2>1. None \notin Calls BY CodingAssumption
  <2>2. MaxFaults \in Nat BY CodingAssumption
  <2> QED BY <2>1, <2>2
\* the binding of another call, or of this one until it unbinds
<1>b. ASSUME UNCHANGED bound, call'[c] \in {"save", "wait", "waiting", "store", "unbind"},
             \A d \in Calls \ {c} : call'[d] = call[d]
      PROVE  bound' \in Calls \cup {None} /\ (bound' # None => call'[bound'] \in {"save", "wait", "waiting", "store", "unbind"})
  BY <1>0, <1>b DEF CallTyped, CallInv
<1>1. CASE BindSession(c)
  <2>1. /\ OfCall(c) /\ call'[c] = "save" /\ bound' = c /\ UNCHANGED <<waitsFor, answer, workflow, faults>>
    BY <1>1, <1>g DEF BindSession, Places
  <2>2. bound' \in Calls \cup {None} /\ call'[bound'] \in {"save", "wait", "waiting", "store", "unbind"}
    BY <2>1
  <2> QED BY <1>0, <2>1, <2>2, CallKeeps DEF CallTyped, CallInv
<1>2. CASE SaveAccepted(c)
  <2>1. /\ OfCall(c) /\ call'[c] = "wait" /\ workflow' = [status |-> "accepted", session |-> None]
        /\ UNCHANGED <<waitsFor, answer, bound, faults>> /\ \A d \in Calls \ {c} : call'[d] = call[d]
    BY <1>2, <1>g DEF SaveAccepted, Places
  <2>2. bound' \in Calls \cup {None} /\ (bound' # None => call'[bound'] \in {"save", "wait", "waiting", "store", "unbind"})
    BY <1>b, <2>1
  <2> QED BY <1>0, <2>1, <2>2, CallKeeps DEF CallTyped, CallInv
<1>3. CASE SaveAcceptedFails(c)
  <2>1. /\ OfCall(c) /\ call'[c] = "returned" /\ bound' = None /\ faults' = faults + 1 /\ faults < MaxFaults
        /\ UNCHANGED <<waitsFor, answer, workflow>>
    BY <1>3, <1>g DEF SaveAcceptedFails, Places
  <2>2. faults' \in 0 .. MaxFaults
    BY <1>0, <1>n, <2>1 DEF CallTyped
  <2> QED BY <1>0, <2>1, <2>2, CallKeeps DEF CallTyped, CallInv
<1>4. CASE WaitTask(c)
  <2>1. /\ OfCall(c) /\ call'[c] = "waiting" /\ waitsFor' = [waitsFor EXCEPT ![c] = table] /\ call[c] # "idle"
        /\ UNCHANGED <<answer, bound, workflow, faults>> /\ \A d \in Calls \ {c} : call'[d] = call[d]
    BY <1>4, <1>g DEF WaitTask, Places
  <2>2. bound' \in Calls \cup {None} /\ (bound' # None => call'[bound'] \in {"save", "wait", "waiting", "store", "unbind"})
    BY <1>b, <2>1
  <2>3. table \in Calls
    BY <1>0, <2>1 DEF CallInv
  <2>4. /\ waitsFor'[c] \in Calls /\ \A d \in Calls \ {c} : waitsFor'[d] = waitsFor[d]
        /\ waitsFor' \in [Calls -> Calls \cup {None}]
    BY <1>0, <2>1, <2>3 DEF CallTyped
  <2> QED BY <1>0, <2>1, <2>2, <2>4, CallKeeps DEF CallTyped, CallInv
<1>5. CASE WaitDone(c) \/ WaitLeaves(c)
  <2>1. /\ call[c] = "waiting"
        /\ \/ answer' = [answer EXCEPT ![c] = "failed"]
           \/ \E d \in Calls : /\ of[d] = waitsFor[c] /\ runner[d] = "closed"
                               /\ answer' = [answer EXCEPT ![c] = outcome[d]]
    BY <1>5 DEF WaitDone, WaitLeaves
  <2>2. /\ OfCall(c) /\ call'[c] = "store" /\ UNCHANGED <<waitsFor, bound, workflow, faults>>
        /\ \A d \in Calls \ {c} : call'[d] = call[d]
    BY <1>5, <1>g DEF WaitDone, WaitLeaves, Places
  <2>3. bound' \in Calls \cup {None} /\ (bound' # None => call'[bound'] \in {"save", "wait", "waiting", "store", "unbind"})
    BY <1>b, <2>2
  <2>4. waitsFor[c] \in Calls
    BY <1>0, <2>1 DEF CallInv
  <2>6. /\ answer' \in [Calls -> {"none", "completed", "failed"}]
        /\ answer'[c] = "completed" => Whole(waitsFor[c])
        /\ \A d \in Calls \ {c} : answer'[d] = answer[d]
    <3>1. CASE answer' = [answer EXCEPT ![c] = "failed"]
      BY <1>0, <3>1 DEF CallTyped
    <3>2. ASSUME NEW d \in Calls, of[d] = waitsFor[c], runner[d] = "closed", answer' = [answer EXCEPT ![c] = outcome[d]]
          PROVE  /\ answer' \in [Calls -> {"none", "completed", "failed"}]
                 /\ answer'[c] = "completed" => Whole(waitsFor[c])
                 /\ \A z \in Calls \ {c} : answer'[z] = answer[z]
      <4>1. answer'[c] = outcome[d] /\ outcome[d] \in {"none", "completed", "failed"}
        BY <1>0, <3>2 DEF CallTyped, SessionTyped
      <4>2. answer'[c] = "completed" => Whole(waitsFor[c])
        BY <3>2, <4>1 DEF Whole
      <4> QED BY <1>0, <3>2, <4>1, <4>2 DEF CallTyped
    <3> QED BY <2>1, <3>1, <3>2
  <2> QED BY <1>0, <2>1, <2>2, <2>3, <2>4, <2>6, CallKeeps DEF CallTyped, CallInv
<1>6. CASE SaveResult(c)
  <2>1. /\ OfCall(c) /\ call'[c] = "unbind" /\ call[c] = "store"
        /\ workflow' = [status |-> answer[c], session |-> waitsFor[c]]
        /\ UNCHANGED <<waitsFor, answer, bound, faults>> /\ \A d \in Calls \ {c} : call'[d] = call[d]
    BY <1>6, <1>g DEF SaveResult, Places
  <2>2. bound' \in Calls \cup {None} /\ (bound' # None => call'[bound'] \in {"save", "wait", "waiting", "store", "unbind"})
    BY <1>b, <2>1
  <2>3. /\ workflow' \in [status : {"none", "accepted", "completed", "failed"}, session : Calls \cup {None}]
        /\ workflow'.status = "completed" => Whole(workflow'.session)
    BY <1>0, <2>1 DEF CallTyped, CallInv
  <2> QED BY <1>0, <2>1, <2>2, <2>3, CallKeeps DEF CallTyped, CallInv
<1>7. CASE SaveResultFails(c)
  <2>1. /\ OfCall(c) /\ call'[c] = "unbind" /\ UNCHANGED <<waitsFor, answer, bound, workflow>>
        /\ \A d \in Calls \ {c} : call'[d] = call[d]
        /\ faults' = faults \/ (faults < MaxFaults /\ faults' = faults + 1)
    BY <1>7, <1>g DEF SaveResultFails, Places
  <2>2. bound' \in Calls \cup {None} /\ (bound' # None => call'[bound'] \in {"save", "wait", "waiting", "store", "unbind"})
    BY <1>b, <2>1
  <2>3. faults' \in 0 .. MaxFaults
    BY <1>0, <1>n, <2>1 DEF CallTyped
  <2> QED BY <1>0, <2>1, <2>2, <2>3, CallKeeps DEF CallTyped, CallInv
<1>8. CASE UnbindSession(c)
  <2>1. OfCall(c) /\ call'[c] = "returned" /\ bound' = None /\ UNCHANGED <<waitsFor, answer, workflow, faults>>
    BY <1>8, <1>g DEF UnbindSession, Places
  <2> QED BY <1>0, <2>1, CallKeeps DEF CallTyped, CallInv
<1> QED BY <1>1, <1>2, <1>3, <1>4, <1>5, <1>6, <1>7, <1>8 DEF CallStep

LEMMA StartNext ==
  ASSUME CodingInv, ~down, NEW c \in Calls, NEW deps \in LanePlans[c], StartTask(c, deps)
  PROVE  CodingInv'
<1>0. SessionTyped /\ CallTyped /\ CallInv /\ SessionInv(c)
  BY DEF CodingInv
<1>1. /\ call[c] = "idle" /\ call' = [call EXCEPT ![c] = "bind"]
      /\ plan' = [plan EXCEPT ![c] = deps] /\ runner' = [runner EXCEPT ![c] = "launched"] /\ table' = c
      /\ UNCHANGED <<of, outcome, begun, done, results, lane, waitsFor, answer, bound, workflow, faults, down>>
  BY DEF StartTask, GoTo
<1>2. deps \in Plans
  BY DEF Plans
<1>3. /\ call'[c] = "bind" /\ plan'[c] = deps /\ runner'[c] = "launched"
      /\ \A d \in Calls \ {c} : call'[d] = call[d] /\ plan'[d] = plan[d] /\ runner'[d] = runner[d]
  BY <1>0, <1>1 DEF SessionTyped, CallTyped
<1>4. SessionTyped'
  BY <1>0, <1>1, <1>2 DEF SessionTyped
<1>5. down' \in BOOLEAN /\ StopHasCause'
  <2>1. down' = down /\ down \in BOOLEAN
    BY <1>0, <1>1 DEF CallTyped
  <2>2. ~down'
    BY <2>1
  <2> QED BY <2>1, <2>2 DEF StopHasCause
<1>6. CallTyped'
  BY <1>0, <1>1, <1>5 DEF CallTyped, Places
<1>7. ToSet(<<>>) = {}
  BY DEF ToSet
<1>u. \A d \in Calls : of[d] # c
  <2>1. ASSUME NEW d \in Calls PROVE of[d] # c
    <3>1. SessionInv(d) /\ None \notin Calls
      BY CodingAssumption DEF CodingInv
    <3> QED BY <1>1, <3>1 DEF SessionInv
  <2> QED BY <2>1
<1>p. \A d \in Calls : PlanOf(d)' = PlanOf(d)
  BY <1>0, <1>1, <1>3, <1>u DEF PlanOf, SessionTyped
<1>8. SessionInv(c)'
  <2>1. /\ begun[c] = {} /\ done[c] = {} /\ results[c] = <<>> /\ outcome[c] = "none" /\ of[c] = None
        /\ \A s \in Steps : lane[c][s] = "idle"
    BY <1>0, <1>1 DEF SessionInv
  <2> QED BY <1>1, <1>3, <1>7, <2>1 DEF SessionInv
<1>9. ASSUME NEW d \in Calls, d # c PROVE SessionInv(d)'
  <2>1. SessionInv(d) /\ of[d] \in Calls \cup {None}
    BY <1>0 DEF CodingInv, SessionTyped
  <2>2. of[d] # None => call'[of[d]] # "idle"
    BY <1>3, <1>u, <2>1 DEF SessionInv
  <2>3. PlanOf(d)' = PlanOf(d)
    BY <1>p
  <2> QED BY <1>1, <1>3, <1>9, <2>1, <2>2, <2>3 DEF SessionInv
<1>10. CallInv'
  <2>1. bound # None => bound # c
    BY <1>0, <1>1 DEF CallInv
  <2>2. \A state : Whole(state) => Whole(state)'
    <3>1. runner[c] = "none"
      BY <1>0, <1>1 DEF SessionInv
    <3> QED BY <1>1, <1>3, <3>1 DEF Whole
  <2>3. table' = c /\ call'[c] # "idle"
    BY <1>1, <1>3
  <2> QED BY <1>0, <1>1, <1>3, <2>1, <2>2, <2>3 DEF CallInv, CallTyped
<1> QED BY <1>4, <1>5, <1>6, <1>8, <1>9, <1>10 DEF CodingInv

LEMMA CodingNextInv == ASSUME CodingInv, [CodingNext]_codingVars PROVE CodingInv'
<1>1. CASE CodingNext
  <2>0. ~down
    BY <1>1 DEF CodingNext
  <2>2. ASSUME NEW cs, ContextEnds(cs) PROVE CodingInv'
    <3>1. UNCHANGED <<plan, table, runner, of, outcome, begun, done, results, lane, call, waitsFor, answer, bound,
                      workflow, faults, down>>
      BY <2>2 DEF ContextEnds, sessionVars
    <3> QED BY <3>1 DEF CodingInv, SessionTyped, CallTyped, SessionInv, CallInv, StopHasCause, PlanOf, Whole
  <2> QED BY <1>1, <2>0, <2>2, StartNext, CallNext, SessionNext, LaneNext DEF CodingNext
<1>2. CASE UNCHANGED codingVars
  BY <1>2 DEF CodingInv, SessionTyped, CallTyped, SessionInv, CallInv, StopHasCause, PlanOf, Whole, codingVars, callVars, sessionVars
<1> QED BY <1>1, <1>2

-----------------------------------------------------------------------------
(* The delegate and the waiters.                                           *)

DelegateInv == WaitersInv /\ CodingInv

\* For any waiters, reporters, calls and plans a delegated workflow comes out as
\* a goroutine of its session did, and the process stops over nothing but an
\* unannounced lane of a failed session or two goroutines of one state.
THEOREM DelegateSoundCorrect == BothSpec => []DelegateSound
<1>1. BothInit => DelegateInv
  BY InitWaitersInv, InitCodingInv DEF BothInit, DelegateInv
<1>2. DelegateInv /\ [BothNext]_<<vars, codingVars, part>> => DelegateInv'
  <2> SUFFICES ASSUME DelegateInv, [BothNext]_<<vars, codingVars, part>> PROVE DelegateInv'
    OBVIOUS
  <2>1. [Next]_vars /\ [CodingNext]_codingVars
    BY DEF BothNext
  <2>2. WaitersInv'
    BY <2>1, NextWaitersInv DEF DelegateInv
  <2>3. CodingInv'
    BY <2>1, CodingNextInv DEF DelegateInv
  <2> QED BY <2>2, <2>3 DEF DelegateInv
<1>3. DelegateInv => DelegateSound
  BY CodingInvSound DEF DelegateInv, WaitersInv, DelegateSound
<1> QED BY <1>1, <1>2, <1>3, PTL DEF BothSpec
=============================================================================
