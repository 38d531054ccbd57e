------------------------------ MODULE LiveMetrics ------------------------------
(***************************************************************************)
(* The live metrics per model, which the router reads when it scores       *)
(* agents.  Sessions of the managed coding runtime are observed as lanes   *)
(* start and end and completed when they end; the deltas of agents are     *)
(* observed for these and for the sessions of ordinary tasks, which        *)
(* nothing completes.                                                      *)
(*                                                                         *)
(* A model stands for provider and name.  Of a histogram only the number   *)
(* of observations is kept, of the totals of deltas nothing.  A coding     *)
(* session whose task is submitted again runs again under the same id.     *)
(***************************************************************************)
EXTENDS Integers, FiniteSets, FiniteSums

CONSTANTS
  LmCoding,    \* session ids of the coding runtime
  LmTasks,     \* session ids of ordinary tasks
  LmModels,
  LmKinds,     \* kinds of deltas whose first is timed
  LmTransports,
  LmMaxRuns,   \* bound: runs of coding sessions
  LmMaxPicks   \* bound: selections of a model, each of which may count a session again

ASSUME MetricsAssumption ==
  /\ LmMaxRuns \in Nat /\ LmMaxPicks \in Nat /\ LmCoding \cap LmTasks = {} /\ "none" \notin LmModels
  /\ IsFiniteSet(LmCoding) /\ IsFiniteSet(LmTasks) /\ IsFiniteSet(LmModels) /\ IsFiniteSet(LmTransports)

VARIABLES
  lmSession,   \* LiveRealtimeMetricsCollector.sessions, a set of at most one record per id
  lmModel,     \* LiveRealtimeMetricsCollector.models
  lmLive,      \* per coding session: runs and selections so far, whether a run is on, the model selected
  lmUnseen,    \* history: sessions the collector first heard of by their end
  lmAgain      \* history: some session has run again

lmVars == <<lmSession, lmModel, lmLive, lmUnseen, lmAgain>>

LmIds == LmCoding \cup LmTasks

LmInit ==
  /\ lmSession = [s \in LmIds |-> {}]
  /\ lmModel = [m \in LmModels |-> [active |-> 0, started |-> 0, completed |-> 0, failed |-> 0,
                                    carried |-> [t \in LmTransports |-> 0],
                                    firsts |-> [k \in LmKinds |-> 0]]]
  /\ lmLive = [s \in LmCoding |-> [runs |-> 0, picks |-> 0, on |-> FALSE, model |-> "none"]]
  /\ lmUnseen = {} /\ lmAgain = FALSE

Tracked(s) == CHOOSE x \in lmSession[s] : TRUE
NewSession == [model |-> "none", active |-> TRUE, completed |-> FALSE, firsts |-> {}, counted |-> FALSE]

Less(n) == IF n > 0 THEN n - 1 ELSE 0

\* A session counts for a model.
Begun(x) == [x EXCEPT !.active = @ + 1, !.started = @ + 1]

-----------------------------------------------------------------------------
(* The coding runtime around its sessions.                                 *)

\* StartSession: a new state under the session's id.
BeginRun(s) ==
  /\ ~lmLive[s].on /\ SumOf([r \in LmCoding |-> lmLive[r].runs], LmCoding) < LmMaxRuns
  /\ lmLive' = [lmLive EXCEPT ![s] = [lmLive[s] EXCEPT !.runs = @ + 1, !.on = TRUE, !.model = "none"]]
  /\ lmAgain' = (lmAgain \/ lmLive[s].runs > 0)
  /\ UNCHANGED <<lmSession, lmModel, lmUnseen>>

\* setSelected: routing, the budget policy or another lane selects a model.
SetSelected(s, m) ==
  /\ lmLive[s].on /\ lmLive[s].model # m
  /\ SumOf([r \in LmCoding |-> lmLive[r].picks], LmCoding) < LmMaxPicks
  /\ lmLive' = [lmLive EXCEPT ![s] = [lmLive[s] EXCEPT !.model = m, !.picks = @ + 1]]
  /\ UNCHANGED <<lmSession, lmModel, lmUnseen, lmAgain>>

-----------------------------------------------------------------------------
(* The collector; each operation holds its lock throughout.                *)

\* What a session known before, now seen at another model, takes from the one
\* it had: its active count, and its start unless it has done something there.
Leave(x, c) == [c EXCEPT !.active = Less(@), !.started = IF x.firsts = {} THEN Less(@) ELSE @]

\* A session seen again is active unless it completed.
Revived(x) == [x EXCEPT !.active = @ \/ ~x.completed]

\* setActiveWorkers, with the model selected by then.  A session that had no
\* model and is active takes this one without being counted.
ObserveSession(s) ==
  LET m == lmLive[s].model
      known == lmSession[s] # {}
      x == IF known THEN Revived(Tracked(s)) ELSE NewSession
      changed == x.model \notin {"none", m}
      left == IF changed THEN [lmModel EXCEPT ![x.model] = Leave(x, lmModel[x.model])] ELSE lmModel
  IN /\ lmLive[s].on /\ m # "none"
     /\ lmSession' = [lmSession EXCEPT ![s] = {[x EXCEPT !.model = m]}]
     /\ lmModel' = IF x.model = m \/ (known /\ ~changed /\ x.active) THEN left
                   ELSE [left EXCEPT ![m] = Begun(left[m])]
     /\ UNCHANGED <<lmLive, lmUnseen, lmAgain>>

\* publishAgentDelta: an agent with model m works for the session.  The delta
\* counts for the model the session has, whichever model sent it; its first of
\* a kind is timed, and the first of all decides the transport.  A kind of
\* delta that is not timed is "other".
ObserveDelta(s, m, k, t) ==
  LET fresh == lmSession[s] = {}
      x == IF fresh THEN NewSession ELSE Tracked(s)
      joins == x.model = "none"
      at == IF joins THEN m ELSE x.model
      begun == IF joins THEN Begun(lmModel[at]) ELSE lmModel[at]
      carried == IF x.counted THEN begun ELSE [begun EXCEPT !.carried = [begun.carried EXCEPT ![t] = @ + 1]]
      timed == k \in LmKinds \ x.firsts
  IN /\ s \in LmCoding => lmLive[s].on
     /\ lmSession' = [lmSession EXCEPT ![s] =
          {[x EXCEPT !.model = at, !.counted = TRUE, !.firsts = IF timed THEN x.firsts \cup {k} ELSE x.firsts]}]
     /\ lmModel' = [lmModel EXCEPT ![at] =
          IF timed THEN [carried EXCEPT !.firsts = [carried.firsts EXCEPT ![k] = @ + 1]] ELSE carried]
     /\ UNCHANGED <<lmLive, lmUnseen, lmAgain>>

\* Mutant: a session completes as often as it runs.
OnceEach(x, c, failed) ==
  [c EXCEPT !.completed = @ + 1, !.failed = IF failed THEN @ + 1 ELSE @]

\* The first end of a session is counted.
Once(x, c, failed) ==
  IF x.completed THEN c
  ELSE [c EXCEPT !.completed = @ + 1, !.failed = IF failed THEN @ + 1 ELSE @]

\* runSession ends: the session is completed with the model selected last, or
\* the one it has.  Without either it is tracked and nothing is counted.
CompleteSession(s, failed) ==
  LET fresh == lmSession[s] = {}
      x0 == IF fresh THEN [NewSession EXCEPT !.active = FALSE] ELSE Tracked(s)
      x == IF x0.model = "none" THEN [x0 EXCEPT !.model = lmLive[s].model] ELSE x0
      Down(c) == IF x.active THEN [c EXCEPT !.active = Less(@)] ELSE c
  IN /\ lmLive[s].on
     /\ lmLive' = [lmLive EXCEPT ![s] = [lmLive[s] EXCEPT !.on = FALSE]]
     /\ IF x.model = "none"
        THEN lmSession' = [lmSession EXCEPT ![s] = {x}] /\ lmModel' = lmModel
        ELSE /\ lmSession' = [lmSession EXCEPT ![s] = {[x EXCEPT !.active = FALSE, !.completed = TRUE]}]
             /\ lmModel' = [lmModel EXCEPT ![x.model] = Once(x, Down(lmModel[x.model]), failed)]
     /\ lmUnseen' = IF fresh THEN lmUnseen \cup {s} ELSE lmUnseen
     /\ UNCHANGED lmAgain

LmNext ==
  \/ \E s \in LmCoding : BeginRun(s) \/ ObserveSession(s)
  \/ \E s \in LmCoding, m \in LmModels : SetSelected(s, m)
  \/ \E s \in LmCoding, failed \in BOOLEAN : CompleteSession(s, failed)
  \/ \E s \in LmIds, m \in LmModels, k \in LmKinds \cup {"other"}, t \in LmTransports :
       ObserveDelta(s, m, k, t)

LmSpec == LmInit /\ [][LmNext]_lmVars

-----------------------------------------------------------------------------
(* What the router reads.                                                  *)

\* liveFailureRate, as a fraction: numerator and denominator.
FailureRate(c) ==
  IF c.started <= 0 \/ c.failed <= 0 THEN <<0, 1>>
  ELSE IF c.failed > c.started THEN <<1, 1>> ELSE <<c.failed, c.started>>

-----------------------------------------------------------------------------
(* Properties.                                                             *)

OfModel(m) == {s \in LmIds : \E x \in lmSession[s] : x.model = m}
Ended        == {s \in LmIds : \E x \in lmSession[s] : x.completed}
Carried      == {s \in LmIds : \E x \in lmSession[s] : x.counted}
Timed(k)     == {s \in LmIds : \E x \in lmSession[s] : k \in x.firsts}
ActiveAt(m)  == {s \in LmIds : \E x \in lmSession[s] : x.model = m /\ x.active}

LmTypeOK ==
  /\ \A s \in LmIds : Cardinality(lmSession[s]) <= 1
                      /\ \A x \in lmSession[s] : x.model \in LmModels \cup {"none"} /\ ~(x.active /\ x.completed)
  /\ \A m \in LmModels : lmModel[m].failed \in 0..lmModel[m].completed

\* However often a session runs, whichever models work for it: it is completed
\* once, its transport is counted once and its first delta of a kind is timed
\* once, at one of the models.
CountedOnce ==
  /\ SumOf([m \in LmModels |-> lmModel[m].completed], LmModels) = Cardinality(Ended)
  /\ SumOf([m \in LmModels |-> SumOf(lmModel[m].carried, LmTransports)], LmModels) = Cardinality(Carried)
  /\ \A k \in LmKinds :
       SumOf([m \in LmModels |-> lmModel[m].firsts[k]], LmModels) = Cardinality(Timed(k))

\* As long as no session has run again, the sessions shown as active at a model
\* are those that are, through every change of models.
ActiveAccurate ==
  ~lmAgain => \A m \in LmModels :
    lmModel[m].active = Cardinality(ActiveAt(m))

\* As long as no session has run again, a model has started what it completed,
\* except for sessions only heard of when they ended: no failure is rated 0.
FailuresHaveStarts ==
  ~lmAgain => \A m \in LmModels :
    /\ lmModel[m].completed <= lmModel[m].started + Cardinality(lmUnseen \cap OfModel(m))
    /\ lmModel[m].failed > 0 /\ lmUnseen = {} => FailureRate(lmModel[m])[1] > 0

\* What the collector shows of sessions, models and transports agrees with the
\* sessions it has seen, in whatever order they are observed, change models
\* and complete.
MetricsSound == LmTypeOK /\ CountedOnce /\ ActiveAccurate /\ FailuresHaveStarts
=============================================================================
