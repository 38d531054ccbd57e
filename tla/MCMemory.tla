------------------------------ MODULE MCMemory ------------------------------
(* What the orchestrator remembers: records and retrievals, the ranking of *)
(* what is found, the history of routes, the live metrics and the state of *)
(* the lanes, each on its own: "part" is the one that moves.               *)
EXTENDS RuntimeManager, MemoryRecords, RetrievalRanking, RouteHistory, LiveMetrics, TLC

CONSTANTS c1, c2, a1, a2

TwoLanes == <<a1, a2>>
AllReady == [a \in Agents |-> "ready"]

VARIABLE part

\* A memory of the session that retrieves (the three kinds of traces are alike
\* here), exchanges of another session, a document kept in deep history, and
\* one the session has on another branch.
ItemsOfEachKind ==
  {ReasoningTrace("s", "main"), DegradationTrace("s", "main"), AdaptiveDecision("s", "main"),
   TaskExchange("t", "main"), PeerExchange("t", "main"),
   [kind |-> "document", owner |-> "t", branch |-> "main", deep |-> TRUE],
   [kind |-> "document", owner |-> "s", branch |-> "topic", deep |-> FALSE]}

ATask(type, complexity, scope, files) ==
  [type |-> type, complexity |-> complexity, scope |-> scope, files |-> files, criteria |-> 0]

\* One task for each set of weights, with budgets from small to large.
TasksOfEachWeighting ==
  {ATask("code", "medium", "session", 0), ATask("research", "high", "session", 0),
   ATask("docs", "low", "distilled", 0), ATask("docs", "critical", "task", 4)}

AChunk(source, cos, ov, hits, age, imp, conf, scope, input, words) ==
  [source |-> source, cos |-> cos, ov |-> ov, hits |-> hits, age |-> age, imp |-> imp,
   conf |-> conf, scope |-> scope, input |-> input, words |-> words]

\* Near, far and opposed, fresh and old, importance as a share, as exactly 1 and in
\* percent, at both thresholds, from empty to larger than any budget.
ChunksOfAllKinds ==
  {AChunk("a", 60, 30, 4, "new", 8000, 90, "session", FALSE, 100),
   AChunk("a", 60, 30, 4, "old", 99, 90, "session", FALSE, 1000),
   AChunk("b", 40, 10, 1, "week", 100, 50, "session", FALSE, 4000),
   AChunk("b", 40, 10, 1, "week", 50, 50, "task", FALSE, 1000),
   AChunk("own", 90, 60, 6, "new", 0, 0, "task", TRUE, 1000),
   AChunk("c", -5, 9, 1, "none", 0, 0, "distilled", FALSE, 0),
   AChunk("c", 11, 7, 1, "none", 0, 0, "session", FALSE, 10),
   AChunk("b", 12, 0, 0, "new", 100, 86, "session", FALSE, 1000)}

\* Around the multiples of a chunk's length and of the stride.
LengthsAroundLimits ==
  {0, 1, 2, 24} \cup UNION {(n - 1)..(n + 1) : n \in {96, 120, 144, 192, 216, 312}}

AnOutcome(agent, sim, grade, conf) == [agent |-> agent, sim |-> sim, grade |-> grade, conf |-> conf]

\* Outcomes of every grade, on tasks like and unlike the one at hand.
OutcomesOfAllKinds ==
  {AnOutcome("a", 40, "untested", 90), AnOutcome("a", 40, "passed", 90), AnOutcome("a", 90, "passed", 90)}
    \cup {AnOutcome("a", s, "failed", 0) : s \in {10, 90}}
    \cup {AnOutcome("b", 40, "unreviewed", 0), AnOutcome("b", 90, "passed", 90),
          AnOutcome("b", 10, "failed", 0)}

mcVars == <<vars, meVars, rkVars, rhVars, lmVars, part>>

OfRecords(A) == part = "records" /\ A /\ UNCHANGED <<rkVars, rhVars, lmVars, vars, part>>
OfRanking(A) == part = "ranking" /\ A /\ UNCHANGED <<meVars, rhVars, lmVars, vars, part>>
OfHistory(A) == part = "history" /\ A /\ UNCHANGED <<meVars, rkVars, lmVars, vars, part>>
OfMetrics(A) == part = "metrics" /\ A /\ UNCHANGED <<meVars, rkVars, rhVars, vars, part>>
OfLanes(A) == part = "lanes" /\ A /\ UNCHANGED <<meVars, rkVars, rhVars, lmVars, part>>

MCInit ==
  /\ part \in {"records", "ranking", "history", "metrics", "lanes"}
  /\ Init /\ MeInit /\ RkInit /\ RhInit /\ LmInit

MCNext ==
  \/ OfRecords(MeNext)
  \/ OfRanking(RkNext)
  \/ OfHistory(RhNext)
  \/ OfMetrics(LmNext)
  \/ OfLanes(Next)

MCSpec == MCInit /\ [][MCNext]_mcVars

\* A retrieval brings what it should: the records it finds, and the order and
\* the selection in which it presents them.
RetrievalSound == RecordsFound /\ RankingSound

\* Callers of the lanes are alike, and so are writers and coding sessions.
Interchangeable == Permutations({c1, c2})
=============================================================================
