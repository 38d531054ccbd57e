--------------------------- MODULE ProviderProbes ---------------------------
(***************************************************************************)
(* The provider probe manager: health requests put providers into a        *)
(* bounded queue, workers take them out and probe them without the lock.   *)
(* The health that is reported meanwhile is left out: nothing here depends *)
(* on it.                                                                  *)
(***************************************************************************)
EXTENDS Integers, Sequences, SequencesExt

CONSTANTS
  Probed,        \* providers
  ProbeWorkers,  \* the manager's goroutines
  ProbeQueue,    \* capacity of the queue
  ReadyTTL, FailureCooldown, RateLimitCooldown,
  LastTick       \* bound: ticks

\* Durations that are not configured have defaults; none is negative.
ASSUME ProbesAssumption ==
  {ProbeQueue, ReadyTTL, FailureCooldown, RateLimitCooldown, LastTick} \subseteq Nat

\* OpenAICompatibleAgent.Probe, the one reporter there is: the status of the
\* health it reports for the provider's answer.
Answers == {"unconfigured", "timeout", "unreachable", "ok", "429", "busy text", "5xx", "4xx"}
Probe(answer) ==
  CASE answer = "unconfigured"             -> "not_configured"
    [] answer \in {"timeout", "5xx"}       -> "degraded"
    [] answer \in {"unreachable", "4xx"}   -> "unavailable"
    [] answer \in {"429", "busy text"}     -> "rate_limited"
    [] answer = "ok"                       -> "ready"

VARIABLES
  tick,       \* the clock
  backlog,    \* providerProbeManager.queue
  state,      \* providerProbeManager.states
  prober,     \* per worker: "idle", "taken", "probing" or "gone", and its provider
  stopped     \* the background context is done

probeVars == <<tick, backlog, state, prober, stopped>>

Idle      == [at |-> "idle", provider |-> "none"]
NoState   == [reporter |-> FALSE, refreshAfter |-> 0, cooldownUntil |-> 0,
              inflight |-> FALSE, queued |-> FALSE]

ProbesTypeOK ==
  /\ tick \in 0..LastTick /\ stopped \in BOOLEAN
  /\ Len(backlog) <= ProbeQueue /\ ToSet(backlog) \subseteq Probed
  /\ \A p \in Probed : {state[p].refreshAfter, state[p].cooldownUntil} \subseteq Nat
  /\ \A w \in ProbeWorkers : prober[w].at \in {"idle", "taken", "probing", "gone"}

ProbesInit ==
  /\ tick = 0 /\ backlog = <<>> /\ stopped = FALSE
  /\ state = [p \in Probed |-> NoState]
  /\ prober = [w \in ProbeWorkers |-> Idle]

ShouldQueueEager(s) == s.reporter /\ ~s.queued /\ ~s.inflight

\* A zero time stands for no time: every test of it is passed.
ShouldQueue(s) ==
  /\ s.reporter /\ ~s.queued /\ ~s.inflight
  /\ tick >= s.cooldownUntil /\ tick >= s.refreshAfter

\* Observe, with or without a reporter, to probe or only to look.
Observe(p, reporter, probe) ==
  LET seen == [state[p] EXCEPT !.reporter = reporter]
      add  == probe /\ ShouldQueue(seen) /\ Len(backlog) < ProbeQueue
  IN  /\ backlog' = IF add THEN Append(backlog, p) ELSE backlog
      /\ state' = [state EXCEPT ![p] = [seen EXCEPT !.queued = @ \/ add]]
      /\ UNCHANGED <<tick, prober, stopped>>

\* The select of the worker loop: either case when both are ready.
ProbeTake(w) ==
  /\ prober[w].at = "idle" /\ backlog # <<>>
  /\ prober' = [prober EXCEPT ![w] = [at |-> "taken", provider |-> Head(backlog)]]
  /\ backlog' = Tail(backlog)
  /\ UNCHANGED <<tick, state, stopped>>

ProbeExit(w) ==
  /\ prober[w].at = "idle" /\ stopped
  /\ prober' = [prober EXCEPT ![w].at = "gone"]
  /\ UNCHANGED <<tick, backlog, state, stopped>>

\* A provider whose reporter has gone in between is only taken out.
ProbeBegin(w) ==
  LET p == prober[w].provider IN
  /\ prober[w].at = "taken"
  /\ state' = [state EXCEPT ![p].queued = FALSE, ![p].inflight = state[p].reporter]
  /\ prober' = [prober EXCEPT ![w] = IF state[p].reporter THEN [@ EXCEPT !.at = "probing"]
                                     ELSE Idle]
  /\ UNCHANGED <<tick, backlog, stopped>>

\* scheduleFor: how long the result is good, and how long probes pause.
ScheduleFor(status) ==
  CASE status = "ready"        -> [refresh |-> ReadyTTL, cooldown |-> 0]
    [] status = "rate_limited" -> [refresh |-> RateLimitCooldown, cooldown |-> RateLimitCooldown]
    [] OTHER                   -> [refresh |-> FailureCooldown, cooldown |-> FailureCooldown]

\* The probe answers, or times out with the result of a failure.
ProbeEnd(w, answer) ==
  LET p == prober[w].provider
      plan == ScheduleFor(Probe(answer))
  IN  /\ prober[w].at = "probing"
      /\ state' = [state EXCEPT ![p] =
           [@ EXCEPT !.inflight = FALSE, !.queued = FALSE,
                     !.refreshAfter = IF plan.refresh > 0 THEN tick + plan.refresh ELSE 0,
                     !.cooldownUntil = IF plan.cooldown > 0 THEN tick + plan.cooldown ELSE 0]]
      /\ prober' = [prober EXCEPT ![w] = Idle]
      /\ UNCHANGED <<tick, backlog, stopped>>

ProbeTick == tick < LastTick /\ tick' = tick + 1 /\ UNCHANGED <<backlog, state, prober, stopped>>
ProbeStop == ~stopped /\ stopped' = TRUE /\ UNCHANGED <<tick, backlog, state, prober>>

ProbeWorker(w) ==
  \/ ProbeTake(w)
  \/ ProbeExit(w)
  \/ ProbeBegin(w)
  \/ \E answer \in Answers : ProbeEnd(w, answer)

ProbesNext ==
  \/ \E p \in Probed, reporter, probe \in BOOLEAN : Observe(p, reporter, probe)
  \/ \E w \in ProbeWorkers : ProbeWorker(w)
  \/ ProbeTick
  \/ ProbeStop

(***************************************************************************)
(* A provider marked queued is in the queue or in the hands of exactly one *)
(* worker that has not begun, and one marked in flight is being probed by  *)
(* exactly one worker: no provider is probed twice at once, and none is    *)
(* left marked, which would keep it from ever being probed again.          *)
(***************************************************************************)
ProbeHeldOnce ==
  \A p \in Probed :
    LET places == {i \in DOMAIN backlog : backlog[i] = p}
        taken  == {w \in ProbeWorkers : prober[w] = [at |-> "taken", provider |-> p]}
        busy   == {w \in ProbeWorkers : prober[w] = [at |-> "probing", provider |-> p]}
        single(s)  == \E x \in s : s = {x}
    IN  /\ IF state[p].queued
           THEN (single(places) /\ taken = {}) \/ (places = {} /\ single(taken))
           ELSE places = {} /\ taken = {}
        /\ IF state[p].inflight THEN single(busy) ELSE busy = {}

(***************************************************************************)
(* A provider waits for a probe only when the pause its last result asked  *)
(* for is over: a rate limit is not answered with another request.         *)
(***************************************************************************)
PauseKept ==
  \A p \in Probed : state[p].queued \/ state[p].inflight =>
                      tick >= state[p].cooldownUntil /\ tick >= state[p].refreshAfter

(***************************************************************************)
(* What was queued has been taken out and probed, unless the background    *)
(* context ended.                                                          *)
(***************************************************************************)
Served(p) == ~state[p].queued \/ stopped

\* A provider is probed by one worker at a time and not before its pause is
\* over, however health requests queue it meanwhile.
ProbesSound == ProbesTypeOK /\ ProbeHeldOnce /\ PauseKept
=============================================================================
