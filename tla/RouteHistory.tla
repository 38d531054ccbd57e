----------------------------- MODULE RouteHistory -----------------------------
(***************************************************************************)
(* The memory of how agents fared, which the router adds to their scores.  *)
(* persistExecutionState records every outcome; RouteHistoryScore lists    *)
(* the latest of all agents, takes the ones most like the task at hand,    *)
(* keeps those of the agent and averages them.                             *)
(*                                                                         *)
(* Outcomes come one after another, so that a later one is more recent.    *)
(* What makes tasks alike is summed up in a similarity in percent, what    *)
(* review and tests said of an outcome in its grade.  All outcomes are of  *)
(* the same project, repository, capability and hours and without cost.    *)
(***************************************************************************)
EXTENDS Integers, Sequences, FiniteSets, FiniteSums

CONSTANTS
  RhAgents,
  RhOutcomes,      \* the outcomes that may come: [agent, sim, grade, conf]
  RhCandidates,    \* outcomes listed: defaultRouteMemoryCandidateCap
  RhTopK,          \* of them looked at: defaultRouteMemoryTopK
  RhMaxOutcomes    \* bound: outcomes recorded


VARIABLE rhLog     \* the route memories in the order they were recorded
rhVars == <<rhLog>>

\* An outcome: how like the task at hand its task was; failed, done with failing
\* tests or review, or passed; the confidence in percent that the agent gave.
RhGrades == {"failed", "untested", "unreviewed", "passed"}
Outcomes == [agent : RhAgents, sim : 0..100, grade : RhGrades, conf : 0..100]

ASSUME HistoryAssumption ==
  /\ RhCandidates \in Nat \ {0} /\ RhTopK \in Nat \ {0} /\ RhMaxOutcomes \in Nat
  /\ RhOutcomes \subseteq Outcomes

RhInit == rhLog = <<>>

\* RecordRouteOutcome: each execution is a record of its own.
RecordOutcome ==
  /\ Len(rhLog) < RhMaxOutcomes
  /\ \E o \in RhOutcomes : rhLog' = Append(rhLog, o)

RhNext == RecordOutcome
RhSpec == RhInit /\ [][RhNext]_rhVars

-----------------------------------------------------------------------------
(* Looking up.                                                             *)

\* ListRouteMemories: the most recent, up to the cap.
Latest(log) == {i \in DOMAIN log : i + RhCandidates > Len(log)}

\* routeSimilarity below 0.18 is no match.
Alike(log) == {i \in Latest(log) : log[i].sim >= 18}

\* More alike, and among equals more recent.
Ahead(log, i, j) == log[i].sim > log[j].sim \/ (log[i].sim = log[j].sim /\ i > j)

\* SearchRouteMemories: the best matches of all agents together.
Search(log) == {i \in Alike(log) : Cardinality({j \in Alike(log) : Ahead(log, j, i)}) < RhTopK}

\* routeScoreBreakdown: averages weighted by similarity, rounded to hundredths.
Weight(log) == [i \in DOMAIN log |-> 55 * 100 + 45 * log[i].sim]
Average(w, v, S) ==
  LET total == SumOf(w, S)
  IN IF S = {} THEN 0 ELSE (SumOf([i \in S |-> w[i] * v[i]], S) + total \div 2) \div total

\* What is averaged, in percent.
Graded(log, good) == [i \in DOMAIN log |-> IF log[i].grade \in good THEN 100 ELSE 0]
Confidence(log)   == [i \in DOMAIN log |-> log[i].conf]

\* Success, confidence, review, tests, recency and, without cost, 0.6.
Breakdown(log, S) ==
  (35 * Average(Weight(log), Graded(log, RhGrades \ {"failed"}), S)
   + 20 * Average(Weight(log), Confidence(log), S)
   + 15 * Average(Weight(log), Graded(log, {"untested", "passed"}), S)
   + 15 * Average(Weight(log), Graded(log, {"unreviewed", "passed"}), S)
   + 10 * 100 + 5 * 60 + 50) \div 100

\* Mutant: whoever they are of.
SeenAnyone(log, a) == Search(log)

\* The agent's own among them.
Seen(log, a) == {i \in Search(log) : log[i].agent = a}

\* RouteHistoryScore: of fewer than two outcomes nothing is concluded.
HistoryScore(log, a) ==
  IF Cardinality(Seen(log, a)) < 2 THEN 0 ELSE Breakdown(log, Seen(log, a))

-----------------------------------------------------------------------------
(* Properties.                                                             *)

Worst(o) == o.grade = "failed" /\ o.conf = 0
Perfect(o) == o.grade = "passed" /\ \A p \in RhOutcomes : p.conf <= o.conf

\* What the router adds to an agent is a share, and a score from failures alone
\* stays below what one perfect outcome in two gives.
RhTypeOK ==
  \A a \in RhAgents :
    /\ HistoryScore(rhLog, a) \in 0..100
    /\ (\A i \in Seen(rhLog, a) : Worst(rhLog[i])) => HistoryScore(rhLog, a) <= 13

\* Once an agent has a score, another failure of its own never raises it and
\* another perfect outcome never lowers it, as long as nothing else comes into
\* sight of its own or goes out of it.
Monotone ==
  rhLog' # rhLog => \A a \in RhAgents :
    LET o == rhLog'[Len(rhLog')]
        before == HistoryScore(rhLog, a)  after == HistoryScore(rhLog', a)
        only == Seen(rhLog', a) = Seen(rhLog, a) \cup {Len(rhLog')}
    IN o.agent = a /\ before > 0 /\ only =>
         /\ Worst(o) => after <= before
         /\ Perfect(o) => after >= before

\* The outcome of one execution says nothing: an agent is neither helped nor
\* hurt by the first, however it went.
FirstIsNeutral ==
  \A a \in RhAgents :
    Cardinality({i \in DOMAIN rhLog : rhLog[i].agent = a}) <= 1 => HistoryScore(rhLog, a) = 0

\* Another agent's outcome changes what is seen of an agent in two ways only.
\* As long as what is looked at stays listed, it takes the place of one of the
\* agent's own outcomes, when as many are looked at as can be.  When one of those
\* is no longer listed, no other of the agent's own goes out of sight, and at most
\* one comes into sight.
OthersOnlyCrowdOut ==
  rhLog' # rhLog => \A a \in RhAgents :
    LET before == Seen(rhLog, a)  after == Seen(rhLog', a)
    IN rhLog'[Len(rhLog')].agent # a =>
         IF Search(rhLog) \subseteq Latest(rhLog')
         THEN /\ after \subseteq before /\ Cardinality(before \ after) <= 1
              /\ after # before => Cardinality(Search(rhLog)) = RhTopK
         ELSE before \ after \subseteq DOMAIN rhLog \ Latest(rhLog') /\ Cardinality(after \ before) <= 1

\* A history is fair to its agents: the first outcome says nothing, an agent's
\* own failures never raise its score and its successes never lower it, and
\* others' outcomes change what is seen of it by one outcome at a time.
HistoryFair == [][RhTypeOK' /\ FirstIsNeutral' /\ Monotone /\ OthersOnlyCrowdOut]_rhVars
=============================================================================
