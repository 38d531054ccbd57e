--------------------------- MODULE RuntimeManager ---------------------------
(***************************************************************************)
(* The runtime state of every agent (its lane): health, error rate,        *)
(* and suppression, kept by the registry and changed by the runtime        *)
(* manager.                                                                *)
(*                                                                         *)
(* The registry locks single reads and single writes.  Every operation of  *)
(* the manager reads a whole record, writes it back normalised, writes it  *)
(* again with its change, and then does the same with every lane to        *)
(* refresh the routing weights: several calls interleave at each of these. *)
(*                                                                         *)
(* Error rates are in quarters.  A weight is abstracted to whether it is   *)
(* positive, which is all the router's filter asks.  Load only scales a    *)
(* positive weight: load and texts are left out, so that a capacity report *)
(* changes nothing itself and still writes back the record it read.  Every *)
(* agent has a provider of its own.  An execution and a dispatch call the  *)
(* manager several times; each of these calls is an operation here, and    *)
(* their callers may be anywhere in between.                               *)
(***************************************************************************)
EXTENDS Integers, Sequences, SequencesExt

CONSTANTS
  Lanes,     \* the registered agents in the order of their ids
  Listed,    \* the status each agent declares of itself
  Callers,   \* pool workers, dispatchers, routers and API requests
  Past,      \* failures each lane starts with
  Brief,     \* how long the adaptive runtime suppresses a lane
  Quarantine,\* how long a lane is suppressed that keeps failing
  Spans,     \* how long the operator may suppress one
  MaxSpan,   \* bound: of all these
  MaxTime,   \* bound: time that passes
  MaxCalls   \* bound: operations begun

Agents   == ToSet(Lanes)
Statuses == {"ready", "busy", "degraded", "maintenance", "offline"}
Health   == {"missing", "unconfigured", "unusable", "ok"}

ASSUME ManagerAssumption ==
  /\ Lanes \in Seq(Agents) \ {<<>>} /\ IsFiniteSet(Callers)
  /\ Listed \in [Agents -> Statuses]
  /\ MaxSpan \in Nat /\ Spans \cup {Brief, Quarantine} \subseteq 1..MaxSpan
  /\ MaxTime \in Nat /\ MaxCalls \in Nat /\ Past \in 0..2

VARIABLES
  now,       \* time, in units of which all suppressions are multiples
  lane,      \* Registry.runtimeStates
  weights,   \* routingWeights
  call,      \* per caller: the operation under way
  calls,     \* operations begun
  failures,  \* history: failed executions of each agent
  raced      \* history: two operations were under way together

history == <<calls, failures, raced>>
vars == <<now, lane, weights, call, history>>

NoAgent == [status |-> "offline", err |-> 0, until |-> 0]
Idle == [op |-> "none", todo |-> <<>>, left |-> <<>>, step |-> "idle",
         copy |-> NoAgent, built |-> {}]

LaneType == [status : Statuses, err : 0..4, until : 0..MaxTime + MaxSpan]
Ops == {"none", "state", "refresh", "capacity", "suppress", "quarantine", "recover", "failure",
        "action", "success", "probe", "sync", "adaptive", "diagnose", "curb"}
Steps == {"idle", "read", "normalize", "apply", "refresh", "renormalize", "score",
          "publish"}

TypeOK ==
  /\ now \in 0..MaxTime
  /\ lane \in [Agents -> LaneType]
  /\ weights \in [Agents -> {"unset", "zero", "positive"}]
  /\ \A c \in Callers :
       /\ call[c].op \in Ops /\ call[c].step \in Steps
       /\ ToSet(call[c].todo) \subseteq Agents
       /\ IsSuffix(call[c].left, Lanes)
       /\ call[c].copy \in LaneType
       /\ call[c].built \subseteq Agents
  /\ calls \in 0..MaxCalls
  /\ failures \in [Agents -> 0..Past + MaxCalls]
  /\ raced \in BOOLEAN

\* RegisterAgent of an agent, and the failures it has had since.
Init ==
  /\ now = 0
  /\ lane = [a \in Agents |-> [status |-> IF Past = 0 THEN Listed[a] ELSE "degraded",
                              err |-> Past, until |-> 0]]
  /\ weights = [a \in Agents |-> IF Past = 0 THEN "unset" ELSE "positive"]
  /\ call = [c \in Callers |-> Idle]
  /\ calls = 0
  /\ failures = [a \in Agents |-> Past]
  /\ raced = FALSE

-----------------------------------------------------------------------------
(* What the operations make of a record.  until = 0 stands for nil.        *)

Suppressed(s) == s.until > now

Normalized(s) ==
  IF s.until # 0 /\ ~Suppressed(s)
  THEN [s EXCEPT !.until = 0, !.status = IF @ = "maintenance" THEN "ready" ELSE @]
  ELSE s

Allows(s) == s.status \notin {"offline", "maintenance"} /\ ~Suppressed(s)

\* runtimePriorityWeight is zero for these and at least 0.05 * 0.10 * 0.45 else.
Weightless(s) == ~Allows(s)

Least(x, y) == IF x < y THEN x ELSE y
Most(x, y)  == IF x > y THEN x ELSE y

\* Whatever suppression there was is replaced.
SuppressLane(s, span) == [s EXCEPT !.status = "maintenance", !.until = now + span]

RecoverLane(s, a) ==
  [s EXCEPT !.until = 0,
            !.status = IF s.err >= 1 THEN "degraded"
                       ELSE IF Listed[a] = "maintenance" THEN "ready" ELSE Listed[a]]

\* Mutant: a failure is counted for the execution and again for its report.
RecordRuntimeFailureTwice(s) ==
  LET e == Least(4, s.err + 2)
  IN  [s EXCEPT !.err = e, !.status = IF e >= 3 THEN "maintenance" ELSE "degraded"]

RecordRuntimeFailure(s) ==
  LET e == Least(4, s.err + 1)
  IN  [s EXCEPT !.err = e, !.status = IF e >= 3 THEN "maintenance" ELSE "degraded"]

\* Mutant: a success lifts the suppression.
RecordSuccessLifts(s) ==
  LET e == Most(0, s.err - 2)
  IN  [s EXCEPT !.err = e, !.until = 0, !.status = IF e < 1 THEN "ready" ELSE "degraded"]

RecordSuccess(s) ==
  LET e == Most(0, s.err - 2)
  IN  [s EXCEPT !.err = e,
                !.status = IF Suppressed(s) THEN @
                           ELSE IF e < 1 THEN "ready" ELSE "degraded"]

\* A provider's health; unusable is one that cannot be reached or whose catalog
\* does not confirm the agent's model.
ProbeProvider(s, health) ==
  [s EXCEPT !.status = CASE health = "unconfigured" -> "offline"
                         [] health = "unusable" -> "degraded"
                         [] health = "ok" /\ ~Suppressed(s) -> "ready"
                         [] OTHER -> @]

\* The normalised record is suppressed as of the time the sync began exactly
\* when State left it its end.
SyncProviderHealth(s, health) ==
  [s EXCEPT !.status = CASE s.until # 0 -> "maintenance"
                         [] s.until = 0 /\ health = "unconfigured" -> "offline"
                         [] s.until = 0 /\ health = "unusable" -> "degraded"
                         [] s.until = 0 /\ health = "ok"
                              -> IF s.err >= 1 THEN "degraded"
                                 ELSE IF @ = "busy" THEN @ ELSE "ready"
                         [] OTHER -> @]

\* What an operation may leave of agent a's record s; the health a probe or a
\* sync finds is an input.
Changed(op, a, s) ==
  CASE op = "capacity" -> {s}
    [] op = "suppress" -> {SuppressLane(s, span) : span \in Spans}
    [] op = "quarantine" -> {SuppressLane(s, Quarantine)}
    [] op = "curb" -> {SuppressLane(s, Brief)}
    [] op = "recover" -> {RecoverLane(s, a)}
    [] op = "failure" -> {RecordRuntimeFailure(s)}
    [] op = "success" -> {RecordSuccess(s)}
    [] op = "probe" -> {ProbeProvider(s, h) : h \in Health \ {"missing"}}
    [] op = "sync" -> {SyncProviderHealth(s, h) : h \in Health}

-----------------------------------------------------------------------------
(* The steps of a call.                                                    *)

Busy(c, s) == call[c].step = s
Resting(c) == Busy(c, "idle")

Begin(c, op, agents) ==
  /\ Resting(c)
  /\ calls < MaxCalls
  /\ calls' = calls + 1
  /\ raced' = (raced \/ \E d \in Callers \ {c} : ~Resting(d))
  /\ call' = [call EXCEPT ![c] =
                [Idle EXCEPT !.op = op, !.todo = agents,
                             !.left = IF op \in {"refresh", "adaptive"} THEN Lanes ELSE <<>>,
                             !.step = IF op \in {"refresh", "adaptive"} THEN "refresh"
                                      ELSE "read"]]
  /\ UNCHANGED <<now, lane, weights>>

\* acquireExecutionSlots and its release report their usage, and in between an
\* execution reports its outcome.
Execution(c, a) ==
  \/ \E op \in {"capacity", "success"} :
       Begin(c, op, <<a>>) /\ UNCHANGED failures
  \/ Begin(c, "failure", <<a>>) /\ failures' = [failures EXCEPT ![a] = @ + 1]

\* A router's look at a lane and applyAdaptivePolicy of a dispatch.
Dispatch(c, a) ==
  /\ Begin(c, "state", <<a>>) \/ Begin(c, "adaptive", <<>>)
  /\ UNCHANGED failures

\* The operator's requests and StateSnapshot.
Request(c, a) ==
  /\ \/ \E op \in {"suppress", "recover", "probe"} : Begin(c, op, <<a>>)
     \/ Begin(c, "refresh", <<>>)
     \/ Begin(c, "sync", Lanes)
  /\ UNCHANGED failures

\* State: Registry.RuntimeState, then SetRuntimeState of the normalised copy.
Read(c) ==
  /\ Busy(c, "read")
  /\ call' = [call EXCEPT ![c].copy = lane[Head(call[c].todo)], ![c].step = "normalize"]
  /\ UNCHANGED <<now, lane, weights, history>>

\* What follows State in operations that change nothing themselves:
\* RecoveryActionForFailure asks for a quarantine, collectDiagnostics for a
\* suppression before it goes on to the next lane.
Looked(c, s) ==
  LET k == call[c]
      on == [k EXCEPT !.copy = NoAgent]
  IN CASE k.op = "action" /\ s.err >= 3 -> [on EXCEPT !.op = "quarantine", !.step = "read"]
       [] k.op = "diagnose" /\ s.err >= 3 /\ s.status # "offline"
            -> [on EXCEPT !.op = "curb", !.step = "read"]
       [] k.op = "diagnose" /\ (s.err < 3 \/ s.status = "offline") /\ Len(k.todo) > 1
            -> [on EXCEPT !.todo = Tail(@), !.step = "read"]
       [] OTHER -> Idle

Normalize(c) ==
  LET k == call[c]
      s == Normalized(k.copy)
  IN /\ Busy(c, "normalize")
     /\ lane' = [lane EXCEPT ![Head(k.todo)] = s]
     /\ call' = [call EXCEPT ![c] = IF k.op \in {"state", "action", "diagnose"}
                                    THEN Looked(c, s)
                                    ELSE [k EXCEPT !.copy = s, !.step = "apply"]]
     /\ UNCHANGED <<now, weights, history>>

\* The change itself; a sync goes through all agents first.
Apply(c) ==
  LET k == call[c]
      a == Head(k.todo)
      more == k.op = "sync" /\ Len(k.todo) > 1
  IN /\ Busy(c, "apply")
     /\ \E s \in Changed(k.op, a, k.copy) : lane' = [lane EXCEPT ![a] = s]
     /\ call' = [call EXCEPT ![c] =
                   IF more THEN [k EXCEPT !.copy = NoAgent, !.todo = Tail(@), !.step = "read"]
                   ELSE [k EXCEPT !.copy = NoAgent, !.left = Lanes, !.step = "refresh"]]
     /\ UNCHANGED <<now, weights, history>>

(* RefreshRoutingWeights: every lane is read, written back normalised and  *)
(* written once more with its score; then the new weights are published.   *)

Refresh(c) ==
  /\ Busy(c, "refresh")
  /\ call' = [call EXCEPT ![c].copy = lane[Head(call[c].left)], ![c].step = "renormalize"]
  /\ UNCHANGED <<now, lane, weights, history>>

Renormalize(c) ==
  LET s == Normalized(call[c].copy)
  IN /\ Busy(c, "renormalize")
     /\ lane' = [lane EXCEPT ![Head(call[c].left)] = s]
     /\ call' = [call EXCEPT ![c].copy = s, ![c].step = "score"]
     /\ UNCHANGED <<now, weights, history>>

Score(c) ==
  LET k == call[c]
      a == Head(k.left)
  IN /\ Busy(c, "score")
     /\ lane' = [lane EXCEPT ![a] = k.copy]
     /\ call' = [call EXCEPT ![c] =
                   [k EXCEPT !.copy = NoAgent, !.left = Tail(@),
                             !.built = IF Weightless(k.copy) THEN @ ELSE @ \cup {a},
                             !.step = IF Len(k.left) > 1 THEN "refresh" ELSE "publish"]]
     /\ UNCHANGED <<now, weights, history>>

\* A recorded failure is followed by RecoveryActionForFailure, the refresh of
\* the adaptive runtime by a look at every lane, and a lane it suppressed by
\* the next one.
Continued(k) ==
  LET look == [k EXCEPT !.built = {}, !.step = "read"]
  IN CASE k.op = "failure"  -> [look EXCEPT !.op = "action"]
       [] k.op = "adaptive" -> [look EXCEPT !.op = "diagnose", !.todo = Lanes]
       [] k.op = "curb" /\ Len(k.todo) > 1
                            -> [look EXCEPT !.op = "diagnose", !.todo = Tail(@)]
       [] OTHER -> Idle

Publish(c) ==
  /\ Busy(c, "publish")
  /\ weights' = [a \in Agents |-> IF a \in call[c].built THEN "positive" ELSE "zero"]
  /\ call' = [call EXCEPT ![c] = Continued(call[c])]
  /\ UNCHANGED <<now, lane, history>>

Calling(c) ==
  \/ Read(c) \/ Normalize(c) \/ Apply(c)
  \/ Refresh(c) \/ Renormalize(c) \/ Score(c) \/ Publish(c)

\* Time passes, and with it suppressions end.
Elapse ==
  /\ now < MaxTime
  /\ now' = now + 1
  /\ UNCHANGED <<lane, weights, call, history>>

Next ==
  \/ \E c \in Callers, a \in Agents : Execution(c, a) \/ Dispatch(c, a) \/ Request(c, a)
  \/ \E c \in Callers : Calling(c)
  \/ Elapse

Spec == Init /\ [][Next]_vars

-----------------------------------------------------------------------------
(* Properties.                                                             *)

\* However calls overwrite each other's records, no failure counts twice: the
\* error rate of a lane, and of every copy about to be written back, is covered
\* by executions that really failed.
FailuresCountOnce ==
  \A a \in Agents :
    /\ lane[a].err <= failures[a]
    /\ \A c \in Callers :
         /\ call[c].step \in {"normalize", "apply"} /\ Head(call[c].todo) = a
              => call[c].copy.err <= failures[a]
         /\ call[c].step \in {"renormalize", "score"} /\ Head(call[c].left) = a
              => call[c].copy.err <= failures[a]

\* With operations one after another, the published weights close every lane
\* that is suppressed.
SuppressedHasNoWeight ==
  ~raced /\ (\A c \in Callers : Resting(c)) =>
    \A a \in Agents : Suppressed(lane[a]) => weights[a] = "zero"

\* With operations one after another, a suppression ends with its time, with
\* RecoverLane, or with a later suppression that replaces it, be it a shorter one:
\* no probe, sync, report or success opens the lane early, and the later
\* suppression does not open it at once.
SuppressionStands ==
  [][\A a \in Agents :
       Suppressed(lane[a]) /\ lane'[a].until < lane[a].until =>
         \/ raced
         \/ \E c \in Callers :
              /\ call[c].step = "apply"
              /\ \/ call[c].op = "recover"
                 \/ call[c].op \in {"suppress", "quarantine", "curb"} /\ Suppressed(lane[a])']_vars

\* What the manager keeps of a lane is true of it: failures count once, and
\* one that is suppressed has no weight, however calls overwrite each other.
LanesSound == TypeOK /\ FailuresCountOnce /\ SuppressedHasNoWeight
=============================================================================
