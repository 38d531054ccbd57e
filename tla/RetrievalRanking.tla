--------------------------- MODULE RetrievalRanking ---------------------------
(***************************************************************************)
(* How a retrieval turns what it found into the context of a prompt:       *)
(* buildRetrievalPolicy, rankVectorChunks, selectDiverseVectorResults,     *)
(* packVectorResults, and chunkText, which cut the texts that are ranked.  *)
(*                                                                         *)
(* Cosine, overlap, recency and confidence are in percent; importance is   *)
(* in hundredths, as the records give it: a share up to 100 (1.0) or a     *)
(* percentage above.  Scores are in units of 10^-5, reciprocal ranks cut   *)
(* off there, and rounded to hundredths as the code does before it sorts.  *)
(***************************************************************************)
EXTENDS Integers, Sequences, FiniteSets, FiniteSetsExt

CONSTANTS
  RkTypes, RkComplexities, RkScopes, RkFiles, RkCriteria,  \* what a task may be
  RkAskedTopK,   \* the number of results a caller may ask for
  RkRanked,      \* bound: the tasks whose retrieval goes on to rank
  RkChunks,      \* the chunks a retrieval may have found
  RkMaxFound,    \* bound: chunks found at once
  RkWords        \* the lengths in words of texts to cut

ASSUME RankingAssumption ==
  /\ RkMaxFound \in Nat /\ RkAskedTopK \subseteq Nat /\ RkWords \subseteq Nat
  /\ RkFiles \subseteq Nat /\ RkCriteria \subseteq Nat
  /\ \A c \in RkChunks :
       /\ c.cos \in -100..100 /\ c.ov \in 0..100 /\ c.hits \in Nat /\ c.imp \in Nat /\ c.conf \in Nat
       /\ c.words \in Nat /\ c.input \in BOOLEAN

VARIABLE rkCase
rkVars == <<rkCase>>

RkTasks == [type : RkTypes, complexity : RkComplexities, scope : RkScopes,
            files : RkFiles, criteria : RkCriteria]

AtMost(a, b) == IF a < b THEN a ELSE b
AtLeast(a, b) == IF a > b THEN a ELSE b
Percent(n) == AtMost(100, AtLeast(0, n))

-----------------------------------------------------------------------------
(* The policy of a retrieval.                                              *)

CodeType(t) == t.type \in {"code", "fix", "review"}
DeepType(t) == t.type \in {"research", "plan"}

\* retrievalTokenBudget; the description's length adds the same to any task.
TokenBudget(t) ==
  LET budget == 1536
        + (CASE t.complexity = "medium" -> 192 [] t.complexity = "high" -> 384
             [] t.complexity = "critical" -> 640 [] OTHER -> 0)
        + (IF CodeType(t) THEN 192 ELSE IF DeepType(t) THEN 384 ELSE 0)
        + AtMost(256, 16 * t.criteria) + AtMost(320, 24 * t.files)
  IN AtMost(3072, AtLeast(512, budget))

\* The scope that is searched: research and planning look into deep history.
PolicyScope(t) == IF DeepType(t) THEN "deep-history" ELSE t.scope

\* The number of results: more for hard tasks and wide scopes.
TopK(t, asked) ==
  LET k == (IF asked = 0 THEN 12 ELSE asked)
        + (CASE t.complexity = "high" -> 2 [] t.complexity = "critical" -> 4 [] OTHER -> 0)
        + (IF DeepType(t) THEN 2 ELSE 0)
        + (CASE PolicyScope(t) \in {"history", "distilled"} -> 2
             [] PolicyScope(t) = "deep-history" -> 4 [] OTHER -> 0)
  IN AtMost(24, AtLeast(IF asked > 0 THEN 1 ELSE 4, k))

CandidateLimit(t) ==
  LET n == 2048
        + (CASE t.complexity = "high" -> 512 [] t.complexity = "critical" -> 1024 [] OTHER -> 0)
        + (IF t.files >= 4 THEN 256 ELSE 0) + (IF DeepType(t) THEN 512 ELSE 0)
        + (CASE PolicyScope(t) = "history" -> 512 [] PolicyScope(t) = "deep-history" -> 1536
             [] PolicyScope(t) = "distilled" -> 256 [] OTHER -> 0)
  IN AtMost(5000, AtLeast(256, n))

\* The weights of the reranker, in percent.
Reranker(t) ==
  LET distilled == PolicyScope(t) = "distilled"
  IN [semantic |-> IF DeepType(t) THEN 32 ELSE 28,
      lexical  |-> IF DeepType(t) THEN 16 ELSE IF CodeType(t) THEN 20 ELSE 18,
      importance |-> IF distilled THEN 17 ELSE 12,
      scope    |-> (IF DeepType(t) \/ CodeType(t) THEN 10 ELSE 8) + (IF distilled THEN 3 ELSE 0),
      trust    |-> IF CodeType(t) THEN 4 ELSE 3,
      min      |-> IF DeepType(t) THEN 16000 ELSE 18000]

BuildPolicy(t, asked) ==
  [topK |-> TopK(t, asked), limit |-> CandidateLimit(t), budget |-> TokenBudget(t),
   reranker |-> Reranker(t)]

-----------------------------------------------------------------------------
(* Ranking.  A chunk is [source, cos, ov, hits, age, imp, conf, scope,     *)
(* input, words]: source "own" is the task itself, input says that it is   *)
(* of the kind task_input.                                                 *)

Recency(c)   == CASE c.age = "new" -> 100 [] c.age = "week" -> 30 [] c.age = "old" -> 3 [] OTHER -> 40
Freshness(c) == CASE c.age = "new" -> 100 [] c.age = "week" -> 70 [] c.age = "old" -> 15 [] OTHER -> 0

\* extractNumeric cuts the value off to an integer and reads it as a
\* percentage; only when that is 0 it is read as a share.
Share(raw) == IF raw \div 100 # 0 THEN Percent(raw \div 100) ELSE Percent(raw)

\* trustScore reads values above 1 as percentages, in units of 10^-4.
TrustShare(raw) == IF raw > 100 THEN Percent(raw \div 100) ELSE Percent(raw)
Trust(c) ==
  AtMost(10000, 55 * TrustShare(c.imp) + 45 * TrustShare(c.conf)
               + (IF c.input THEN 800 ELSE 0) + (IF c.scope = "session" THEN 400 ELSE 0))

\* scopeConfidenceScore without project and branch, which chunks share.
ScopeSignal(t, c) ==
  35 + (IF t.scope = c.scope THEN 35 ELSE 0)
     + (IF t.scope = "session" /\ c.scope = "task" THEN 10 ELSE 0)
ScopeConfidence(t, c) == ScopeSignal(t, c) + Share(c.conf)   \* twice the value

\* Chunks close to the query by neither measure are dropped.
Candidates(found) == {i \in DOMAIN found : ~(found[i].cos < 12 /\ found[i].ov < 8)}

\* A stable sort by falling keys: the place of i, and what is in each place.
SortPlace(key, i) ==
  1 + Cardinality({j \in DOMAIN key : key[j] > key[i] \/ (key[j] = key[i] /\ j < i)})
Sorted(key) ==
  [k \in 1..Cardinality(DOMAIN key) |-> CHOOSE i \in DOMAIN key : SortPlace(key, i) = k]

\* By one measure and then by another of at most 100.
Then(n, m) == 101 * n + m

Nearness(found)   == [i \in Candidates(found) |-> Then(found[i].cos, Recency(found[i]))]
Likelihood(found) == [i \in Candidates(found) |-> Then(Then(found[i].hits, found[i].ov), Recency(found[i]))]

RRF(found, i) ==
  630000 \div (60 + SortPlace(Nearness(found), i)) + 630000 \div (60 + SortPlace(Likelihood(found), i))

RankScore(t, w, found, i) ==
  LET c == found[i]
  IN c.cos * w.semantic * 10 + c.ov * w.lexical * 10 + Share(c.imp) * w.importance * 10
     + Recency(c) * 70 + ScopeConfidence(t, c) * w.scope * 5 + RRF(found, i)
     + AtMost(4000, 5000 * c.hits) + (Trust(c) * w.trust) \div 10 + Freshness(c) * 30
     - (IF c.source = "own" THEN 8000 ELSE 0)

\* Results at or above the least score; "at" is the place found.
Eligible(t, w, found) == {i \in Candidates(found) : RankScore(t, w, found, i) >= w.min}
Result(t, w, found, i) ==
  [chunk |-> found[i], at |-> i, score |-> (RankScore(t, w, found, i) + 500) \div 1000]

\* Best score first, and of equal scores the most recent.
Goodness(t, w, found) ==
  [i \in Eligible(t, w, found) |-> Then(Result(t, w, found, i).score, Recency(found[i]))]
Ranked(t, w, found) ==
  LET order == Sorted(Goodness(t, w, found))
  IN [k \in DOMAIN order |-> Result(t, w, found, order[k])]

\* The first result of each source, in order, then the others, up to topK.
FirstOfSource(rs, i) == \A j \in 1..(i - 1) : rs[j].chunk.source # rs[i].chunk.source
Diversity(rs) == [i \in DOMAIN rs |-> IF FirstOfSource(rs, i) THEN 1 ELSE 0]
SelectDiverse(rs, topK) ==
  LET order == Sorted(Diversity(rs))
  IN IF Len(rs) <= topK THEN rs ELSE [k \in 1..topK |-> rs[order[k]]]

-----------------------------------------------------------------------------
(* Packing.                                                                *)

\* approximateTokenCount and the overhead of a chunk.
Tokens(c) == (IF c.words = 0 THEN 0 ELSE AtLeast(1, (c.words * 5) \div 4)) + 8

NothingPacked(budget, rs) ==
  [packed |-> <<>>, used |-> 0, truncated |-> 0, budget |-> budget, candidates |-> Len(rs), full |-> FALSE]

\* One turn of packVectorResults: a chunk larger than the budget is left out,
\* the first that no longer fits ends the packing, and then every result that
\* is not packed counts as truncated, whether it was counted before or not.
PackOne(u, r) ==
  LET n == Tokens(r.chunk)
  IN IF u.full THEN u
     ELSE IF n > u.budget THEN [u EXCEPT !.truncated = @ + 1]
     ELSE IF u.used + n > u.budget
       THEN [u EXCEPT !.truncated = @ + u.candidates - Len(u.packed), !.full = TRUE]
     ELSE [u EXCEPT !.used = @ + n, !.packed = Append(@, r)]

PackResults(rs, budget) ==
  LET pack[k \in 0..Len(rs)] ==
        IF k = 0 THEN NothingPacked(budget, rs) ELSE PackOne(pack[k - 1], rs[k])
  IN pack[Len(rs)]

\* retrievalQualitySummary and retrievalQualityTier.
BestOf(packed, f(_)) == Max({0} \cup {f(packed[i]) : i \in DOMAIN packed})

Tier(u) ==
  LET score == BestOf(u.packed, LAMBDA r : r.score)
      overlap == BestOf(u.packed, LAMBDA r : r.chunk.ov)
  IN CASE score >= 78 /\ overlap >= 20 /\ 100 * u.truncated < 35 * u.candidates -> "high"
       [] score >= 52 /\ u.packed # <<>> -> "medium"
       [] u.packed # <<>> -> "low"
       [] OTHER -> "empty"

-----------------------------------------------------------------------------
(* Cutting a text.                                                         *)

\* The words each chunk starts after: every 96 words, until one reaches the end.
ChunkStarts(words) == {96 * k : k \in {j \in 0..(words \div 96) : 96 * j < words /\ (j = 0 \/ 96 * (j - 1) + 120 < words)}}

\* chunkText: 120 words each, 24 of them shared with the one before.
ChunkText(words) == {(s + 1)..AtMost(s + 120, words) : s \in ChunkStarts(words)}

-----------------------------------------------------------------------------
(* One retrieval, or one text cut.                                         *)

RkInit == rkCase = [stage |-> "start"]

\* Retrieve decides how to search.
Ask ==
  /\ rkCase.stage = "start"
  /\ \E t \in RkTasks, asked \in RkAskedTopK :
       rkCase' = [stage |-> "asked", task |-> t, asked |-> asked, policy |-> BuildPolicy(t, asked)]

\* It ranks what the listings brought and keeps the best.
Rank ==
  /\ rkCase.stage = "asked" /\ rkCase.task \in RkRanked
  /\ \E n \in 0..RkMaxFound : \E found \in [1..n -> RkChunks] :
       LET ranked == Ranked(rkCase.task, rkCase.policy.reranker, found)
       IN rkCase' = [stage |-> "ranked", task |-> rkCase.task, policy |-> rkCase.policy,
                     ranked |-> ranked, results |-> SelectDiverse(ranked, rkCase.policy.topK)]

\* It packs them into the budget and grades the whole.
Pack ==
  /\ rkCase.stage = "ranked"
  /\ LET usage == PackResults(rkCase.results, rkCase.policy.budget)
     IN rkCase' = [stage |-> "packed", results |-> rkCase.results, usage |-> usage, tier |-> Tier(usage)]

\* IngestText cuts a text.
Cut ==
  /\ rkCase.stage = "start"
  /\ \E words \in RkWords : rkCase' = [stage |-> "cut", words |-> words, chunks |-> ChunkText(words)]

RkNext == Ask \/ Rank \/ Pack \/ Cut

RkSpec == RkInit /\ [][RkNext]_rkVars

-----------------------------------------------------------------------------
(* Properties.                                                             *)

\* A retrieval has room for at least one result, and never for more than 24
\* of at most 5000 candidates in at most 3072 tokens.
RkTypeOK ==
  /\ rkCase.stage \in {"start", "asked", "ranked", "packed", "cut"}
  /\ rkCase.stage = "asked" =>
       /\ rkCase.policy.topK \in 1..24 /\ rkCase.policy.limit \in 256..5000
       /\ rkCase.policy.budget \in 512..3072
       /\ rkCase.policy.topK <= rkCase.policy.limit

Harder(c) == CASE c = "low" -> "medium" [] c = "medium" -> "high" [] OTHER -> "critical"

\* A harder task of the same kind is given no less: neither results nor
\* candidates nor tokens, whatever its scope, files and the caller's wish.
HarderGetsMore ==
  rkCase.stage = "asked" =>
    LET t == rkCase.task
        h == BuildPolicy([t EXCEPT !.complexity = Harder(@)], rkCase.asked)
    IN /\ h.topK >= rkCase.policy.topK /\ h.limit >= rkCase.policy.limit
       /\ h.budget >= rkCase.policy.budget

AtLeastAsGood(t, a, b) ==
  /\ a.cos >= b.cos /\ a.ov >= b.ov /\ a.hits >= b.hits
  /\ Recency(a) >= Recency(b) /\ Freshness(a) >= Freshness(b)
  /\ TrustShare(a.imp) >= TrustShare(b.imp) /\ TrustShare(a.conf) >= TrustShare(b.conf)
  /\ ScopeSignal(t, a) >= ScopeSignal(t, b) /\ Trust(a) >= Trust(b)
  /\ (a.source = "own" => b.source = "own")

\* A chunk found earlier and at least as good by every signal comes first,
\* through two rankings, the weighted sum and the rounding: unless its
\* importance or confidence is exactly 1, which is read as one percent.
DominanceKept ==
  rkCase.stage = "ranked" =>
    \A i, j \in DOMAIN rkCase.ranked :
      LET a == rkCase.ranked[i] b == rkCase.ranked[j]
      IN a.at < b.at /\ AtLeastAsGood(rkCase.task, a.chunk, b.chunk)
           /\ a.chunk.imp # 100 /\ a.chunk.conf # 100 => i < j

Sources(rs) == {rs[i].chunk.source : i \in DOMAIN rs}

\* As many results as are allowed, as many sources as fit, and of each source
\* its best: no result is kept while a better one of its source is dropped.
DiverseSelection ==
  rkCase.stage = "ranked" =>
    LET all == rkCase.ranked  kept == rkCase.results  k == rkCase.policy.topK
        Kept(i) == \E j \in DOMAIN kept : kept[j] = all[i]
    IN /\ Len(kept) = AtMost(k, Len(all))
       /\ Cardinality(Sources(kept)) = AtMost(k, Cardinality(Sources(all)))
       /\ \A i, j \in DOMAIN all :
            i < j /\ all[i].chunk.source = all[j].chunk.source /\ Kept(j) => Kept(i)

\* The packed chunks fit the budget, the best that fits alone is among them,
\* and no result is lost without being counted: packed and truncated together
\* are all results, and more only if an oversized one was counted twice.
PackAccounts ==
  rkCase.stage = "packed" =>
    LET u == rkCase.usage
        oversized == {i \in DOMAIN rkCase.results : Tokens(rkCase.results[i].chunk) > u.budget}
    IN /\ u.used <= u.budget
       /\ (u.packed = <<>>) = (oversized = DOMAIN rkCase.results)
       /\ Len(u.packed) + u.truncated >= u.candidates
       /\ oversized = {} => Len(u.packed) + u.truncated = u.candidates

\* The chunks of a text hold every word, no more than 120 each, and none lies
\* within another.
ChunksCover ==
  rkCase.stage = "cut" =>
    /\ UNION rkCase.chunks = 1..rkCase.words
    /\ \A c \in rkCase.chunks : Cardinality(c) <= 120
    /\ \A c, d \in rkCase.chunks : c \subseteq d => c = d

\* From the policy to the packed context: harder tasks get no less, better
\* chunks come first, every source has its best, the budget is kept, and the
\* chunks hold all of a text.
RankingSound ==
  /\ RkTypeOK /\ HarderGetsMore /\ DominanceKept /\ DiverseSelection
  /\ PackAccounts /\ ChunksCover
=============================================================================
