---------------------------- MODULE MemoryProofs ----------------------------
(***************************************************************************)
(* Theorems about the lanes of the runtime manager, for any agents,        *)
(* callers, failures and length of time; about what the memory manager     *)
(* remembers, for any items, texts and writers; about the live metrics,    *)
(* for any sessions, models and transports; about the route history, for   *)
(* any agents and outcomes; and about the ranking of retrievals, for any   *)
(* tasks, chunks and texts.                                                *)
(***************************************************************************)
EXTENDS MCMemory, SequenceTheorems, FiniteSetTheorems, WellFoundedInduction, TLAPS

-----------------------------------------------------------------------------
(* What is left of the lanes to refresh.                                   *)

Suffix(s) ==
  /\ s \in Seq(Agents) /\ Len(s) <= Len(Lanes)
  /\ \A i \in 1 .. Len(s) : s[i] = Lanes[(Len(Lanes) - Len(s)) + i]

LEMMA LanesListed == Lanes \in Seq(Agents) /\ Lanes # <<>> /\ Len(Lanes) \in Nat /\ Len(Lanes) >= 1
<1>1. Lanes \in Seq(Agents) /\ Lanes # <<>>
  BY ManagerAssumption
<1> QED BY <1>1

LEMMA SuffixIsSuffix == ASSUME NEW s, Suffix(s) PROVE IsSuffix(s, Lanes)
<1>1. PICK n \in Nat : n = Len(s)
  BY DEF Suffix
<1>2. PICK m \in Nat : m = Len(Lanes)
  BY LanesListed
<1>3. n <= m /\ s \in Seq(Agents) /\ \A i \in 1 .. n : s[i] = Lanes[(m - n) + i]
  BY <1>1, <1>2 DEF Suffix
<1>4. PICK u : u = Reverse(s)
  OBVIOUS
<1>5. PICK v : v = Reverse(Lanes)
  OBVIOUS
<1>6. u = [i \in 1 .. n |-> s[(n - i) + 1]] /\ v = [i \in 1 .. m |-> Lanes[(m - i) + 1]]
  BY <1>1, <1>2, <1>4, <1>5 DEF Reverse
<1>7. \A i \in 1 .. n : u[i] = v[i]
  <2> TAKE i \in 1 .. n
  <2>1. (n - i) + 1 \in 1 .. n /\ i \in 1 .. m /\ (m - n) + ((n - i) + 1) = (m - i) + 1
    BY <1>3
  <2> QED BY <1>3, <1>6, <2>1
<1>8. u \in Seq(Agents) /\ v \in Seq(Agents) /\ Len(u) = n /\ Len(v) = m
  <2>1. \A i \in 1 .. n : s[(n - i) + 1] \in Agents
    <3> TAKE i \in 1 .. n
    <3>1. (n - i) + 1 \in 1 .. n
      OBVIOUS
    <3> QED BY <1>1, <1>3, <3>1, ElementOfSeq
  <2>2. \A i \in 1 .. m : Lanes[(m - i) + 1] \in Agents
    <3> TAKE i \in 1 .. m
    <3>1. (m - i) + 1 \in 1 .. m
      OBVIOUS
    <3> QED BY <1>2, <3>1, LanesListed, ElementOfSeq
  <2>3. u \in [1 .. n -> Agents] /\ v \in [1 .. m -> Agents]
    BY <1>6, <2>1, <2>2
  <2>4. u \in Seq(Agents) /\ v \in Seq(Agents)
    BY <2>3, SeqDef
  <2>5. Len(u) = n
    BY <1>6
  <2>6. Len(v) = m
    BY <1>6
  <2> QED BY <2>4, <2>5, <2>6
<1>9. SubSeq(u, 1, n) = SubSeq(v, 1, n)
  <2>1. SubSeq(u, 1, n) = [i \in 1 .. n |-> u[i]]
    BY <1>8
  <2>2. SubSeq(v, 1, n) = [i \in 1 .. n |-> v[i]]
    BY <1>3, <1>8
  <2> QED BY <1>7, <2>1, <2>2
<1> QED BY <1>3, <1>4, <1>5, <1>8, <1>9 DEF IsSuffix, IsPrefix

LEMMA SuffixLanes == Suffix(Lanes)
<1>1. Len(Lanes) \in Nat /\ Lanes \in Seq(Agents)
  BY LanesListed
<1>2. \A i \in 1 .. Len(Lanes) : (Len(Lanes) - Len(Lanes)) + i = i
  BY <1>1
<1> QED BY <1>1, <1>2 DEF Suffix

LEMMA SuffixEmpty == Suffix(<<>>)
<1>1. Len(<<>>) = 0 /\ <<>> \in Seq(Agents)
  OBVIOUS
<1> QED BY <1>1, LanesListed DEF Suffix

LEMMA TailOn == ASSUME NEW s \in Seq(Agents), Len(s) > 1 PROVE Tail(s) \in Seq(Agents) \ {<<>>}
<1>1. s # <<>> /\ Len(s) \in Nat
  OBVIOUS
<1>2. Tail(s) \in Seq(Agents) /\ Len(Tail(s)) = Len(s) - 1
  BY <1>1, HeadTailProperties
<1>3. PICK t : t = Tail(s)
  OBVIOUS
<1>4. t \in Seq(Agents) /\ Len(t) # 0
  BY <1>1, <1>2, <1>3
<1>5. t # <<>>
  BY <1>4
<1> QED BY <1>3, <1>4, <1>5

LEMMA SuffixTail == ASSUME NEW s, Suffix(s), s # <<>> PROVE Suffix(Tail(s)) /\ Len(Tail(s)) = Len(s) - 1
<1>1. s \in Seq(Agents) /\ Len(s) \in Nat /\ Len(s) >= 1 /\ Len(Lanes) \in Nat /\ Len(s) <= Len(Lanes)
  BY LanesListed DEF Suffix
<1>2. /\ Tail(s) \in Seq(Agents) /\ Len(Tail(s)) = Len(s) - 1
      /\ \A i \in 1 .. Len(Tail(s)) : Tail(s)[i] = s[i + 1]
  BY <1>1, HeadTailProperties
<1>3. ASSUME NEW i \in 1 .. Len(Tail(s)) PROVE Tail(s)[i] = Lanes[(Len(Lanes) - Len(Tail(s))) + i]
  <2>1. i + 1 \in 1 .. Len(s) /\ (Len(Lanes) - Len(s)) + (i + 1) = (Len(Lanes) - Len(Tail(s))) + i
    BY <1>1, <1>2
  <2> QED BY <1>2, <2>1 DEF Suffix
<1> QED BY <1>1, <1>2, <1>3 DEF Suffix

-----------------------------------------------------------------------------
(* Lanes.                                                                  *)

Operations == [op : Ops, todo : Seq(Agents), left : Seq(Agents), step : Steps, copy : LaneType,
               built : SUBSET Agents]

Changers == {"capacity", "suppress", "quarantine", "curb", "recover", "failure", "success", "probe", "sync"}
Lookers == {"state", "action", "diagnose"}
Changing == {"read", "normalize", "apply"}
Refreshing == {"refresh", "renormalize", "score", "publish"}
Holding(k) == k.step \in {"normalize", "apply", "renormalize", "score"}
Of(k) == IF k.step \in {"normalize", "apply"} THEN Head(k.todo) ELSE Head(k.left)

LanesTyped ==
  /\ now \in 0 .. MaxTime
  /\ lane \in [Agents -> LaneType]
  /\ weights \in [Agents -> {"unset", "zero", "positive"}]
  /\ call \in [Callers -> Operations]
  /\ calls \in 0 .. MaxCalls
  /\ failures \in [Agents -> Nat] /\ \A a \in Agents : failures[a] <= Past + calls
  /\ raced \in BOOLEAN

\* An operation under way has what its step needs.
OpSound(k) ==
  /\ Suffix(k.left)
  /\ k.step \in Changing => k.todo # <<>> /\ k.built = {}
  /\ k.step \in {"read", "normalize"} => k.op \in Changers \cup Lookers
  /\ k.step = "apply" => k.op \in Changers
  /\ k.step \in {"refresh", "renormalize", "score"} => k.left # <<>>
  /\ k.op \in Changers \cup Lookers => k.todo # <<>>
  /\ k.copy.until <= now + MaxSpan

\* Failures begun and not yet written to the record of a lane.
Owed(a) == {c \in Callers : call[c].op = "failure" /\ call[c].step \in Changing /\ Head(call[c].todo) = a}

\* The inductive strengthening of FailuresCountOnce: there are failures enough
\* for all that are still to be written, too.
OnceInv ==
  \A a \in Agents :
    /\ lane[a].err + Cardinality(Owed(a)) <= failures[a]
    /\ \A c \in Callers : Holding(call[c]) /\ Of(call[c]) = a => call[c].copy.err + Cardinality(Owed(a)) <= failures[a]

\* The inductive strengthening of SuppressedHasNoWeight: operations one after
\* another hold the records as they are, and the weights being computed leave
\* out what is suppressed.
SerialInv ==
  ~raced =>
    /\ \A c, d \in Callers : c # d => Resting(c) \/ Resting(d)
    /\ \A c \in Callers : Holding(call[c]) => call[c].copy = lane[Of(call[c])]
    /\ \A c \in Callers : call[c].step \in Refreshing => \A a \in call[c].built : ~Suppressed(lane[a])
    /\ (\A c \in Callers : call[c].step \notin Refreshing) =>
         \A a \in Agents : Suppressed(lane[a]) => weights[a] = "zero"

LanesInv ==
  /\ LanesTyped /\ OnceInv /\ SerialInv
  /\ \A c \in Callers : OpSound(call[c])
  /\ \A a \in Agents : lane[a].until <= now + MaxSpan

LEMMA OwedFinite == ASSUME NEW a PROVE IsFiniteSet(Owed(a)) /\ Cardinality(Owed(a)) \in Nat
<1>1. Owed(a) \subseteq Callers /\ IsFiniteSet(Callers)
  BY ManagerAssumption DEF Owed
<1>2. IsFiniteSet(Owed(a))
  BY <1>1, FS_Subset
<1> QED BY <1>2, FS_CardinalityType

LEMMA LanesInvSound == ASSUME LanesInv PROVE LanesSound
<1>1. TypeOK
  <2>1. ASSUME NEW c \in Callers
        PROVE  /\ call[c].op \in Ops /\ call[c].step \in Steps /\ call[c].copy \in LaneType
               /\ call[c].built \subseteq Agents /\ ToSet(call[c].todo) \subseteq Agents
    <3>1. call[c] \in Operations
      BY DEF LanesInv, LanesTyped
    <3>2. call[c].todo \in Seq(Agents)
      BY <3>1 DEF Operations
    <3>3. ToSet(call[c].todo) \subseteq Agents
      BY <3>2 DEF ToSet
    <3> QED BY <3>1, <3>3 DEF Operations
  <2>2. ASSUME NEW c \in Callers PROVE IsSuffix(call[c].left, Lanes)
    BY SuffixIsSuffix DEF LanesInv, OpSound
  <2>3. failures \in [Agents -> 0 .. Past + MaxCalls]
    <3>1. \A a \in Agents : failures[a] \in 0 .. Past + MaxCalls
      BY ManagerAssumption DEF LanesInv, LanesTyped
    <3> QED BY <3>1 DEF LanesInv, LanesTyped
  <2> QED BY <2>1, <2>2, <2>3 DEF LanesInv, LanesTyped, TypeOK
<1>2. FailuresCountOnce
  <2> SUFFICES ASSUME NEW a \in Agents
               PROVE  /\ lane[a].err <= failures[a]
                      /\ \A c \in Callers :
                           /\ call[c].step \in {"normalize", "apply"} /\ Head(call[c].todo) = a
                                => call[c].copy.err <= failures[a]
                           /\ call[c].step \in {"renormalize", "score"} /\ Head(call[c].left) = a
                                => call[c].copy.err <= failures[a]
    BY DEF FailuresCountOnce
  <2>1. PICK n \in Nat : n = Cardinality(Owed(a))
    BY OwedFinite
  <2>2. failures[a] \in Nat /\ lane[a].err \in Int /\ \A c \in Callers : call[c].copy.err \in Int
    <3>1. lane[a] \in LaneType /\ failures[a] \in Nat
      BY DEF LanesInv, LanesTyped
    <3>2. \A c \in Callers : call[c].copy \in LaneType
      BY DEF LanesInv, LanesTyped, Operations
    <3> QED BY <3>1, <3>2 DEF LaneType
  <2>3. lane[a].err + n <= failures[a]
    BY <2>1 DEF LanesInv, OnceInv
  <2>4. \A c \in Callers : Holding(call[c]) /\ Of(call[c]) = a => call[c].copy.err + n <= failures[a]
    BY <2>1 DEF LanesInv, OnceInv
  <2> QED BY <2>2, <2>3, <2>4 DEF Holding, Of
<1>3. SuppressedHasNoWeight
  BY DEF LanesInv, SerialInv, SuppressedHasNoWeight, Resting, Busy, Refreshing
<1> QED BY <1>1, <1>2, <1>3 DEF LanesSound

LEMMA OfIsAgent ==
  ASSUME NEW k \in Operations, OpSound(k), Holding(k)
  PROVE  Of(k) \in Agents
<1>1. k.step \in {"normalize", "apply"} => k.todo \in Seq(Agents) /\ k.todo # <<>>
  BY DEF Operations, OpSound, Changing
<1>2. k.step \notin {"normalize", "apply"} => k.left \in Seq(Agents) /\ k.left # <<>>
  BY DEF Operations, OpSound, Holding
<1> QED BY <1>1, <1>2 DEF Of

\* What a step of c's call leaves, whichever step it is.
Moves(c, k) ==
  /\ ~Resting(c) /\ k \in Operations /\ OpSound(k)
  /\ call' = [call EXCEPT ![c] = k] /\ UNCHANGED <<now, history>>
  /\ lane' \in [Agents -> LaneType] /\ weights' \in [Agents -> {"unset", "zero", "positive"}]
  /\ \A b \in Agents : lane'[b].until <= now + MaxSpan
  /\ k.op = "failure" /\ k.step \in Changing => c \in Owed(Head(k.todo))

\* No error is written that is not covered by the record, the copy or a failure
\* still owed.
Covered(c, k) ==
  /\ \A b \in Agents :
       \/ lane'[b].err <= lane[b].err
       \/ Holding(call[c]) /\ Of(call[c]) = b /\ lane'[b].err <= call[c].copy.err
       \/ /\ Holding(call[c]) /\ Of(call[c]) = b /\ lane'[b].err <= call[c].copy.err + 1
          /\ c \in Owed(b) /\ k.step \notin Changing
  /\ Holding(k) => \/ k.copy.err <= lane[Of(k)].err
                   \/ Holding(call[c]) /\ Of(call[c]) = Of(k) /\ k.copy.err <= call[c].copy.err

\* Alone, c knows the records, and suppressed lanes have no weight.
Serial(k) ==
  /\ Holding(k) => k.copy = lane'[Of(k)]
  /\ k.step \in Refreshing => \A a \in k.built : ~Suppressed(lane'[a])
  /\ k.step \notin Refreshing => \A a \in Agents : Suppressed(lane'[a]) => weights'[a] = "zero"

LEMMA OwedStep ==
  ASSUME LanesInv, NEW c \in Callers, NEW k, Moves(c, k), NEW b \in Agents
  PROVE  /\ Cardinality(Owed(b)') \in Nat /\ Cardinality(Owed(b)') <= Cardinality(Owed(b))
         /\ c \in Owed(b) /\ k.step \notin Changing => Cardinality(Owed(b)') <= Cardinality(Owed(b)) - 1
<1>1. call'[c] = k /\ \A d \in Callers \ {c} : call'[d] = call[d]
  BY DEF Moves, LanesInv, LanesTyped
<1>2. Owed(b)' \subseteq Owed(b)
  BY <1>1 DEF Moves, Owed
<1>3. IsFiniteSet(Owed(b)) /\ Cardinality(Owed(b)) \in Nat
  BY OwedFinite
<1>4. IsFiniteSet(Owed(b)') /\ Cardinality(Owed(b)') <= Cardinality(Owed(b))
  BY <1>2, <1>3, FS_Subset
<1>5. Cardinality(Owed(b)') \in Nat
  BY <1>4, FS_CardinalityType
<1>6. ASSUME c \in Owed(b), k.step \notin Changing PROVE Cardinality(Owed(b)') <= Cardinality(Owed(b)) - 1
  <2>1. c \notin Owed(b)'
    BY <1>1, <1>6 DEF Owed
  <2>2. Owed(b)' # Owed(b)
    BY <1>6, <2>1
  <2>3. Cardinality(Owed(b)) = Cardinality(Owed(b)') => Owed(b) = Owed(b)'
    BY <1>2, <1>3, FS_Subset
  <2> QED BY <1>3, <1>4, <1>5, <2>2, <2>3
<1> QED BY <1>4, <1>5, <1>6

LEMMA MovesKeeps ==
  ASSUME LanesInv, NEW c \in Callers, NEW k, Moves(c, k), Covered(c, k), ~raced => Serial(k)
  PROVE  LanesInv'
<1>1. call'[c] = k /\ \A d \in Callers \ {c} : call'[d] = call[d]
  BY DEF Moves, LanesInv, LanesTyped
<1>2. UNCHANGED <<now, calls, failures, raced>> /\ k \in Operations /\ OpSound(k)
  BY DEF Moves, history
<1>3. LanesTyped'
  BY <1>2 DEF Moves, LanesInv, LanesTyped
<1>4. ASSUME NEW d \in Callers PROVE OpSound(call[d])'
  <2>1. CASE d = c
    BY <1>1, <1>2, <2>1 DEF OpSound
  <2>2. CASE d # c
    BY <1>1, <1>2, <2>2 DEF LanesInv, OpSound
  <2> QED BY <2>1, <2>2
<1>5. OnceInv'
  <2>1. ASSUME NEW a \in Agents
        PROVE  /\ lane'[a].err + Cardinality(Owed(a)') <= failures[a]
               /\ \A d \in Callers : Holding(call'[d]) /\ Of(call'[d]) = a
                    => call'[d].copy.err + Cardinality(Owed(a)') <= failures[a]
    <3>1. PICK n \in Nat : n = Cardinality(Owed(a))
      BY OwedFinite
    <3>2. PICK m \in Nat : m = Cardinality(Owed(a)')
      BY OwedStep
    <3>3. m <= n /\ (c \in Owed(a) /\ k.step \notin Changing => m <= n - 1)
      BY <3>1, <3>2, OwedStep
    <3>4. lane[a].err + n <= failures[a] /\ \A d \in Callers : Holding(call[d]) /\ Of(call[d]) = a => call[d].copy.err + n <= failures[a]
      BY <3>1 DEF LanesInv, OnceInv
    <3>5. /\ lane[a].err \in Int /\ lane'[a].err \in Int /\ failures[a] \in Int /\ k.copy.err \in Int
          /\ \A d \in Callers : call[d].copy.err \in Int
      <4>1. lane[a] \in LaneType /\ lane'[a] \in LaneType /\ failures[a] \in Nat
        BY DEF Moves, LanesInv, LanesTyped
      <4>2. k.copy \in LaneType /\ \A d \in Callers : call[d].copy \in LaneType
        BY <1>2 DEF LanesInv, LanesTyped, Operations
      <4> QED BY <4>1, <4>2 DEF LaneType
    <3>6. lane'[a].err + m <= failures[a]
      BY <3>3, <3>4, <3>5 DEF Covered
    <3>7. Holding(k) /\ Of(k) = a => k.copy.err + m <= failures[a]
      BY <3>3, <3>4, <3>5 DEF Covered
    <3>8. ASSUME NEW d \in Callers, Holding(call'[d]), Of(call'[d]) = a
          PROVE  call'[d].copy.err + m <= failures[a]
      <4>1. CASE d = c
        BY <1>1, <3>7, <3>8, <4>1
      <4>2. CASE d # c
        <5>1. call'[d] = call[d]
          BY <1>1, <4>2
        <5>2. call[d].copy.err + n <= failures[a]
          BY <3>4, <3>8, <5>1
        <5> QED BY <3>3, <3>5, <5>1, <5>2
      <4> QED BY <4>1, <4>2
    <3> QED BY <3>2, <3>6, <3>8
  <2> QED BY <1>2, <2>1 DEF OnceInv, Holding, Of
<1>6. SerialInv'
  <2> SUFFICES ASSUME ~raced'
               PROVE  /\ \A d, e \in Callers : d # e => Resting(d)' \/ Resting(e)'
                      /\ \A d \in Callers : Holding(call'[d]) => call'[d].copy = lane'[Of(call'[d])]
                      /\ \A d \in Callers : call'[d].step \in Refreshing => \A a \in call'[d].built : ~Suppressed(lane[a])'
                      /\ (\A d \in Callers : call'[d].step \notin Refreshing) =>
                           \A a \in Agents : Suppressed(lane[a])' => weights'[a] = "zero"
    BY DEF SerialInv, Holding, Of
  <2>1. ~raced
    BY <1>2
  <2>2. \A d \in Callers \ {c} : call[d].step = "idle" /\ call'[d].step = "idle"
    BY <1>1, <2>1 DEF LanesInv, SerialInv, Moves, Resting, Busy
  <2>3. Serial(k)
    BY <2>1
  <2>4. \A a \in Agents : (Suppressed(lane[a])' <=> Suppressed(lane'[a]))
    BY <1>2 DEF Suppressed
  <2>5. \A d, e \in Callers : d # e => Resting(d)' \/ Resting(e)'
    BY <2>2 DEF Resting, Busy
  <2>6. \A d \in Callers : Holding(call'[d]) => call'[d].copy = lane'[Of(call'[d])]
    BY <1>1, <2>2, <2>3 DEF Serial, Holding
  <2>7. \A d \in Callers : call'[d].step \in Refreshing => \A a \in call'[d].built : ~Suppressed(lane[a])'
    <3>1. k.built \subseteq Agents
      BY <1>2 DEF Operations
    <3>2. k.step \in Refreshing => \A a \in k.built : ~Suppressed(lane[a])'
      BY <2>3, <2>4, <3>1 DEF Serial
    <3> QED BY <1>1, <2>2, <3>2 DEF Refreshing
  <2>8. (\A d \in Callers : call'[d].step \notin Refreshing) => \A a \in Agents : Suppressed(lane[a])' => weights'[a] = "zero"
    BY <1>1, <2>3, <2>4 DEF Serial
  <2> QED BY <2>5, <2>6, <2>7, <2>8
<1>7. \A a \in Agents : lane'[a].until <= now' + MaxSpan
  BY <1>2 DEF Moves
<1> QED BY <1>3, <1>4, <1>5, <1>6, <1>7 DEF LanesInv

-----------------------------------------------------------------------------
(* What the operations make of a record.                                   *)

LEMMA Typing ==
  ASSUME LanesInv
  PROVE  /\ now \in Nat /\ MaxTime \in Nat /\ now <= MaxTime /\ MaxSpan \in Nat
         /\ lane \in [Agents -> LaneType] /\ weights \in [Agents -> {"unset", "zero", "positive"}]
         /\ call \in [Callers -> Operations] /\ \A a \in Agents : lane[a].until <= now + MaxSpan
<1>1. now \in Nat /\ MaxTime \in Nat /\ now <= MaxTime /\ MaxSpan \in Nat
  BY ManagerAssumption DEF LanesInv, LanesTyped
<1> QED BY <1>1 DEF LanesInv, LanesTyped

LEMMA CallSound ==
  ASSUME LanesInv, NEW c \in Callers
  PROVE  /\ call[c] \in Operations /\ OpSound(call[c])
         /\ call[c].op \in Ops /\ call[c].step \in Steps /\ call[c].todo \in Seq(Agents)
         /\ call[c].left \in Seq(Agents) /\ call[c].copy \in LaneType /\ call[c].built \subseteq Agents
<1>1. call[c] \in Operations /\ OpSound(call[c])
  BY DEF LanesInv, LanesTyped
<1> QED BY <1>1 DEF Operations

LEMMA NoAgentTyped == NoAgent \in LaneType /\ NoAgent.until = 0 /\ NoAgent.err = 0
<1>1. MaxTime + MaxSpan \in Nat /\ 0 <= MaxTime + MaxSpan
  BY ManagerAssumption
<1>2. 0 \in 0 .. 4 /\ 0 \in 0 .. MaxTime + MaxSpan /\ "offline" \in Statuses
  BY <1>1 DEF Statuses
<1> QED BY <1>2 DEF NoAgent, LaneType

LEMMA IdleSound == ASSUME LanesInv PROVE Idle \in Operations /\ OpSound(Idle) /\ ~Holding(Idle) /\ Idle.step = "idle" /\ Idle.op = "none"
<1>1. <<>> \in Seq(Agents) /\ {} \in SUBSET Agents /\ "none" \in Ops /\ "idle" \in Steps
  BY DEF Ops, Steps
<1>2. Idle \in Operations
  BY <1>1, NoAgentTyped DEF Idle, Operations
<1>3. /\ Idle.left = <<>> /\ Idle.step = "idle" /\ Idle.op = "none" /\ Idle.copy = NoAgent
  BY DEF Idle
<1>4. 0 <= now + MaxSpan
  BY Typing
<1> QED BY <1>2, <1>3, <1>4, SuffixEmpty, NoAgentTyped DEF OpSound, Holding, Changing, Changers, Lookers

LEMMA NormalizedSound ==
  ASSUME LanesInv, NEW s \in LaneType, s.until <= now + MaxSpan
  PROVE  /\ Normalized(s) \in LaneType /\ Normalized(s).until <= now + MaxSpan /\ Normalized(s).err = s.err
         /\ (Suppressed(Normalized(s)) => Suppressed(s)) /\ (Suppressed(s) => Normalized(s) = s)
<1>1. now \in Nat /\ MaxTime \in Nat /\ MaxSpan \in Nat
  BY Typing
<1>2. /\ s.status \in Statuses /\ s.err \in 0 .. 4 /\ s.until \in 0 .. MaxTime + MaxSpan
      /\ s = [status |-> s.status, err |-> s.err, until |-> s.until]
  BY DEF LaneType
<1>3. CASE s.until # 0 /\ ~Suppressed(s)
  <2>1. PICK st \in Statuses : st = IF s.status = "maintenance" THEN "ready" ELSE s.status
    BY <1>2 DEF Statuses
  <2>2. Normalized(s) = [status |-> st, err |-> s.err, until |-> 0]
    BY <1>2, <1>3, <2>1 DEF Normalized
  <2>3. 0 \in 0 .. MaxTime + MaxSpan
    BY <1>1
  <2>4. Normalized(s) \in LaneType
    BY <1>2, <2>2, <2>3 DEF LaneType
  <2>5. Normalized(s).until = 0 /\ Normalized(s).err = s.err
    BY <2>2
  <2> QED BY <1>1, <1>3, <2>4, <2>5 DEF Suppressed
<1>4. CASE ~(s.until # 0 /\ ~Suppressed(s))
  <2>1. Normalized(s) = s
    BY <1>4 DEF Normalized
  <2> QED BY <2>1
<1> QED BY <1>3, <1>4

\* Operations that suppress a lane.
Suppressors == {"suppress", "quarantine", "curb"}

\* Only RecoverLane and another suppression change when a suppression ends, and
\* only a recorded failure raises the error rate.
LEMMA ChangedSound ==
  ASSUME LanesInv, NEW op \in Changers, NEW a \in Agents, NEW s \in LaneType, s.until <= now + MaxSpan,
         NEW t \in Changed(op, a, s)
  PROVE  /\ t \in LaneType /\ t.until <= now + MaxSpan
         /\ t.err <= s.err \/ (op = "failure" /\ t.err <= s.err + 1)
         /\ op \notin Suppressors \cup {"recover"} => t.until = s.until
         /\ op \in Suppressors => t.until > now
         /\ op = "sync" => t.until = s.until
<1>1. now \in Nat /\ MaxTime \in Nat /\ now <= MaxTime /\ MaxSpan \in Nat
  BY Typing
<1>2. /\ s.status \in Statuses /\ s.err \in 0 .. 4 /\ s.until \in 0 .. MaxTime + MaxSpan
      /\ s = [status |-> s.status, err |-> s.err, until |-> s.until]
  BY DEF LaneType
<1>3. ASSUME NEW st \in Statuses, NEW e \in 0 .. 4, NEW u \in 0 .. MaxTime + MaxSpan,
             t = [status |-> st, err |-> e, until |-> u]
      PROVE  t \in LaneType /\ t.err = e /\ t.until = u
  BY <1>3 DEF LaneType
<1>4. CASE op = "capacity"
  <2>1. t = s
    BY <1>4 DEF Changed
  <2> QED BY <1>2, <1>4, <2>1 DEF Suppressors
<1>5. CASE op \in Suppressors
  <2>1. PICK span \in 1 .. MaxSpan : t = SuppressLane(s, span)
    <3>1. Spans \subseteq 1 .. MaxSpan /\ Brief \in 1 .. MaxSpan /\ Quarantine \in 1 .. MaxSpan
      BY ManagerAssumption
    <3> QED BY <1>5, <3>1 DEF Changed, Suppressors
  <2>2. t = [status |-> "maintenance", err |-> s.err, until |-> now + span]
    BY <1>2, <2>1 DEF SuppressLane
  <2>3. now + span \in 0 .. MaxTime + MaxSpan /\ "maintenance" \in Statuses
    BY <1>1 DEF Statuses
  <2>4. t \in LaneType /\ t.err = s.err /\ t.until = now + span
    BY <1>2, <1>3, <2>2, <2>3
  <2>5. op # "failure" /\ op # "recover" /\ op # "sync"
    BY <1>5 DEF Suppressors
  <2> QED BY <1>1, <1>2, <1>5, <2>4, <2>5
<1>6. CASE op = "recover"
  <2>1. PICK st \in Statuses : st = IF s.err >= 1 THEN "degraded" ELSE IF Listed[a] = "maintenance" THEN "ready" ELSE Listed[a]
    <3>1. Listed[a] \in Statuses
      BY ManagerAssumption
    <3> QED BY <3>1 DEF Statuses
  <2>2. t = [status |-> st, err |-> s.err, until |-> 0]
    BY <1>2, <1>6, <2>1 DEF Changed, RecoverLane
  <2>3. 0 \in 0 .. MaxTime + MaxSpan
    BY <1>1
  <2>4. t \in LaneType /\ t.err = s.err /\ t.until = 0
    BY <1>2, <1>3, <2>2, <2>3
  <2> QED BY <1>1, <1>2, <1>6, <2>4 DEF Suppressors
<1>7. CASE op = "failure"
  <2>1. PICK e \in 0 .. 4 : e = Least(4, s.err + 1) /\ e <= s.err + 1
    BY <1>2 DEF Least
  <2>2. PICK st \in Statuses : st = IF e >= 3 THEN "maintenance" ELSE "degraded"
    BY DEF Statuses
  <2>3. t = [status |-> st, err |-> e, until |-> s.until]
    BY <1>2, <1>7, <2>1, <2>2 DEF Changed, RecordRuntimeFailure
  <2>4. t \in LaneType /\ t.err = e /\ t.until = s.until
    BY <1>2, <1>3, <2>3
  <2> QED BY <1>1, <1>2, <1>7, <2>1, <2>4 DEF Suppressors
<1>8. CASE op = "success"
  <2>1. PICK e \in 0 .. 4 : e = Most(0, s.err - 2) /\ e <= s.err
    BY <1>2 DEF Most
  <2>2. PICK st \in Statuses : st = IF Suppressed(s) THEN s.status ELSE IF e < 1 THEN "ready" ELSE "degraded"
    BY <1>2 DEF Statuses
  <2>3. t = [status |-> st, err |-> e, until |-> s.until]
    BY <1>2, <1>8, <2>1, <2>2 DEF Changed, RecordSuccess
  <2>4. t \in LaneType /\ t.err = e /\ t.until = s.until
    BY <1>2, <1>3, <2>3
  <2> QED BY <1>1, <1>2, <1>8, <2>1, <2>4 DEF Suppressors
<1>9. CASE op \in {"probe", "sync"}
  <2>1. PICK h \in Health : t = IF op = "probe" THEN ProbeProvider(s, h) ELSE SyncProviderHealth(s, h)
    <3>1. CASE op = "probe"
      BY <3>1 DEF Changed
    <3>2. CASE op = "sync"
      BY <3>2 DEF Changed
    <3> QED BY <1>9, <3>1, <3>2
  <2>2. PICK st \in Statuses : t = [s EXCEPT !.status = st]
    <3>1. CASE op = "probe"
      <4>1. t = ProbeProvider(s, h)
        BY <2>1, <3>1
      <4>2. t = [s EXCEPT !.status = CASE h = "unconfigured" -> "offline" [] h = "unusable" -> "degraded"
                         [] h = "ok" /\ ~Suppressed(s) -> "ready" [] OTHER -> s.status]
        BY <4>1 DEF ProbeProvider
      <4> QED BY <1>2, <4>2 DEF Statuses
    <3>2. CASE op = "sync"
      <4>1. t = SyncProviderHealth(s, h)
        BY <2>1, <3>2
      <4>2. t = [s EXCEPT !.status = CASE s.until # 0 -> "maintenance" [] s.until = 0 /\ h = "unconfigured" -> "offline"
                         [] s.until = 0 /\ h = "unusable" -> "degraded"
                         [] s.until = 0 /\ h = "ok" -> IF s.err >= 1 THEN "degraded" ELSE IF s.status = "busy" THEN s.status ELSE "ready"
                         [] OTHER -> s.status]
        BY <4>1 DEF SyncProviderHealth
      <4> QED BY <1>2, <4>2 DEF Statuses
    <3> QED BY <1>9, <3>1, <3>2
  <2>3. t = [status |-> st, err |-> s.err, until |-> s.until]
    BY <1>2, <2>2
  <2>4. t \in LaneType /\ t.err = s.err /\ t.until = s.until
    BY <1>2, <1>3, <2>3
  <2> QED BY <1>1, <1>2, <1>9, <2>4 DEF Suppressors
<1> QED BY <1>4, <1>5, <1>6, <1>7, <1>8, <1>9 DEF Changers, Suppressors

-----------------------------------------------------------------------------
(* The steps of a call.                                                    *)

\* With operations one after another, what c's call knows of the lanes.
LEMMA Alone ==
  ASSUME LanesInv, NEW c \in Callers, ~Resting(c), ~raced
  PROVE  /\ Holding(call[c]) => call[c].copy = lane[Of(call[c])]
         /\ call[c].step \in Refreshing => \A a \in call[c].built : ~Suppressed(lane[a])
         /\ call[c].step \notin Refreshing => \A a \in Agents : Suppressed(lane[a]) => weights[a] = "zero"
<1>1. \A d \in Callers \ {c} : call[d].step = "idle"
  BY DEF LanesInv, SerialInv, Resting, Busy
<1>2. call[c].step \notin Refreshing => \A d \in Callers : call[d].step \notin Refreshing
  BY <1>1 DEF Refreshing
<1> QED BY <1>2 DEF LanesInv, SerialInv

\* A call that writes no record, or the one it holds, leaves the lanes typed.
LEMMA Written ==
  ASSUME LanesInv, NEW a \in Agents, NEW s \in LaneType, s.until <= now + MaxSpan, lane' = [lane EXCEPT ![a] = s]
  PROVE  /\ lane' \in [Agents -> LaneType] /\ \A b \in Agents : lane'[b].until <= now + MaxSpan
         /\ lane'[a] = s /\ \A b \in Agents \ {a} : lane'[b] = lane[b]
<1>1. lane \in [Agents -> LaneType] /\ \A b \in Agents : lane[b].until <= now + MaxSpan
  BY Typing
<1> QED BY <1>1

Steady(c, k) == Moves(c, k) /\ Covered(c, k) /\ (~raced => Serial(k))

LEMMA ReadStep ==
  ASSUME LanesInv, NEW c \in Callers, Read(c)
  PROVE  \E k : Steady(c, k)
<1>1. PICK h : h = call[c]
  OBVIOUS
<1>2. /\ h \in Operations /\ OpSound(h) /\ h.op \in Ops /\ h.step = "read" /\ h.todo \in Seq(Agents)
      /\ h.left \in Seq(Agents) /\ h.copy \in LaneType /\ h.built \subseteq Agents
  BY <1>1, CallSound DEF Read, Busy
<1>3. PICK a \in Agents : a = Head(h.todo)
  BY <1>2 DEF OpSound, Changing
<1>4. lane[a] \in LaneType /\ lane[a].until <= now + MaxSpan /\ lane[a].err \in Int
  <2>1. lane[a] \in LaneType /\ lane[a].until <= now + MaxSpan
    BY Typing
  <2> QED BY <2>1 DEF LaneType
<1>5. PICK k : k = [h EXCEPT !.copy = lane[a], !.step = "normalize"]
  OBVIOUS
<1>6. /\ k.op = h.op /\ k.todo = h.todo /\ k.left = h.left /\ k.built = h.built
      /\ k.step = "normalize" /\ k.copy = lane[a]
  BY <1>2, <1>5 DEF Operations
<1>7. k \in Operations
  <2>1. "normalize" \in Steps
    BY DEF Steps
  <2> QED BY <1>2, <1>4, <1>5, <2>1 DEF Operations
<1>8. OpSound(k)
  BY <1>2, <1>4, <1>6 DEF OpSound, Changing
<1>9. call' = [call EXCEPT ![c] = k] /\ UNCHANGED <<now, lane, weights, history>> /\ ~Resting(c)
  <2>1. call[c] \in Operations /\ call \in [Callers -> Operations]
    BY CallSound, Typing
  <2>2. call' = [call EXCEPT ![c] = k]
    BY <1>1, <1>3, <1>5, <2>1 DEF Read
  <2> QED BY <2>2 DEF Read, Resting, Busy
<1>10. Moves(c, k)
  <2>1. k.op = "failure" /\ k.step \in Changing => c \in Owed(Head(k.todo))
    BY <1>1, <1>2, <1>6 DEF Owed, Changing
  <2> QED BY <1>7, <1>8, <1>9, <2>1, Typing DEF Moves
<1>11. Of(k) = a
  BY <1>3, <1>6 DEF Of
<1>12. Covered(c, k)
  <2>1. \A b \in Agents : lane'[b].err <= lane[b].err
    <3> TAKE b \in Agents
    <3>1. lane[b] \in LaneType
      BY Typing
    <3> QED BY <1>9, <3>1 DEF LaneType
  <2> QED BY <1>4, <1>6, <1>11, <2>1 DEF Covered
<1>13. ~raced => Serial(k)
  <2> HAVE ~raced
  <2>1. \A b \in Agents : Suppressed(lane[b]) => weights[b] = "zero"
    BY <1>1, <1>2, <1>9, Alone DEF Refreshing
  <2> QED BY <1>6, <1>9, <1>11, <2>1 DEF Serial, Refreshing
<1> QED BY <1>10, <1>12, <1>13 DEF Steady

LEMMA RefreshStep ==
  ASSUME LanesInv, NEW c \in Callers, Refresh(c)
  PROVE  \E k : Steady(c, k)
<1>1. PICK h : h = call[c]
  OBVIOUS
<1>2. /\ h \in Operations /\ OpSound(h) /\ h.op \in Ops /\ h.step = "refresh" /\ h.todo \in Seq(Agents)
      /\ h.left \in Seq(Agents) /\ h.copy \in LaneType /\ h.built \subseteq Agents
  BY <1>1, CallSound DEF Refresh, Busy
<1>3. PICK a \in Agents : a = Head(h.left)
  BY <1>2 DEF OpSound
<1>4. lane[a] \in LaneType /\ lane[a].until <= now + MaxSpan /\ lane[a].err \in Int
  <2>1. lane[a] \in LaneType /\ lane[a].until <= now + MaxSpan
    BY Typing
  <2> QED BY <2>1 DEF LaneType
<1>5. PICK k : k = [h EXCEPT !.copy = lane[a], !.step = "renormalize"]
  OBVIOUS
<1>6. /\ k.op = h.op /\ k.todo = h.todo /\ k.left = h.left /\ k.built = h.built
      /\ k.step = "renormalize" /\ k.copy = lane[a]
  BY <1>2, <1>5 DEF Operations
<1>7. k \in Operations
  <2>1. "renormalize" \in Steps
    BY DEF Steps
  <2> QED BY <1>2, <1>4, <1>5, <2>1 DEF Operations
<1>8. OpSound(k)
  BY <1>2, <1>4, <1>6 DEF OpSound, Changing
<1>9. call' = [call EXCEPT ![c] = k] /\ UNCHANGED <<now, lane, weights, history>> /\ ~Resting(c)
  <2>1. call[c] \in Operations /\ call \in [Callers -> Operations]
    BY CallSound, Typing
  <2>2. call' = [call EXCEPT ![c] = k]
    BY <1>1, <1>3, <1>5, <2>1 DEF Refresh
  <2> QED BY <2>2 DEF Refresh, Resting, Busy
<1>10. Moves(c, k)
  <2>1. k.step \notin Changing
    BY <1>6 DEF Changing
  <2> QED BY <1>7, <1>8, <1>9, <2>1, Typing DEF Moves
<1>11. Of(k) = a
  BY <1>3, <1>6 DEF Of
<1>12. Covered(c, k)
  <2>1. \A b \in Agents : lane'[b].err <= lane[b].err
    <3> TAKE b \in Agents
    <3>1. lane[b] \in LaneType
      BY Typing
    <3> QED BY <1>9, <3>1 DEF LaneType
  <2> QED BY <1>4, <1>6, <1>11, <2>1 DEF Covered
<1>13. ~raced => Serial(k)
  <2> HAVE ~raced
  <2>1. \A b \in h.built : ~Suppressed(lane[b])
    BY <1>1, <1>2, <1>9, Alone DEF Refreshing
  <2> QED BY <1>6, <1>9, <1>11, <2>1 DEF Serial, Refreshing
<1> QED BY <1>10, <1>12, <1>13 DEF Steady

LEMMA RenormalizeStep ==
  ASSUME LanesInv, NEW c \in Callers, Renormalize(c)
  PROVE  \E k : Steady(c, k)
<1>1. PICK h : h = call[c]
  OBVIOUS
<1>2. /\ h \in Operations /\ OpSound(h) /\ h.op \in Ops /\ h.step = "renormalize" /\ h.todo \in Seq(Agents)
      /\ h.left \in Seq(Agents) /\ h.copy \in LaneType /\ h.built \subseteq Agents
  BY <1>1, CallSound DEF Renormalize, Busy
<1>3. PICK a \in Agents : a = Head(h.left)
  BY <1>2 DEF OpSound
<1>4. PICK s : s = Normalized(h.copy)
  OBVIOUS
<1>5. /\ s \in LaneType /\ s.until <= now + MaxSpan /\ s.err = h.copy.err /\ s.err \in Int
      /\ (Suppressed(s) => Suppressed(h.copy))
  <2>1. h.copy.until <= now + MaxSpan
    BY <1>2 DEF OpSound
  <2>2. s \in LaneType /\ s.until <= now + MaxSpan /\ s.err = h.copy.err /\ (Suppressed(s) => Suppressed(h.copy))
    BY <1>2, <1>4, <2>1, NormalizedSound
  <2> QED BY <2>2 DEF LaneType
<1>6. PICK k : k = [h EXCEPT !.copy = s, !.step = "score"]
  OBVIOUS
<1>7. /\ k.op = h.op /\ k.todo = h.todo /\ k.left = h.left /\ k.built = h.built
      /\ k.step = "score" /\ k.copy = s
  BY <1>2, <1>6 DEF Operations
<1>8. k \in Operations
  <2>1. "score" \in Steps
    BY DEF Steps
  <2> QED BY <1>2, <1>5, <1>6, <2>1 DEF Operations
<1>9. OpSound(k)
  BY <1>2, <1>5, <1>7 DEF OpSound, Changing
<1>10. /\ call' = [call EXCEPT ![c] = k] /\ lane' = [lane EXCEPT ![a] = s]
       /\ UNCHANGED <<now, weights, history>> /\ ~Resting(c)
  <2>1. call[c] \in Operations /\ call \in [Callers -> Operations]
    BY CallSound, Typing
  <2>2. call' = [call EXCEPT ![c] = k] /\ lane' = [lane EXCEPT ![a] = s]
    BY <1>1, <1>3, <1>4, <1>6, <2>1 DEF Renormalize
  <2> QED BY <2>2 DEF Renormalize, Resting, Busy
<1>11. /\ lane' \in [Agents -> LaneType] /\ \A b \in Agents : lane'[b].until <= now + MaxSpan
       /\ lane'[a] = s /\ \A b \in Agents \ {a} : lane'[b] = lane[b]
  BY <1>5, <1>10, Written
<1>12. Moves(c, k)
  <2>1. k.step \notin Changing
    BY <1>7 DEF Changing
  <2> QED BY <1>8, <1>9, <1>10, <1>11, <2>1, Typing DEF Moves
<1>13. Of(k) = a /\ Of(h) = a /\ Holding(h)
  BY <1>2, <1>3, <1>7 DEF Of, Holding
<1>14. Covered(c, k)
  <2>1. ASSUME NEW b \in Agents PROVE lane'[b].err <= lane[b].err \/ (b = a /\ lane'[b].err <= h.copy.err)
    <3>1. lane[b] \in LaneType
      BY Typing
    <3> QED BY <1>5, <1>11, <3>1 DEF LaneType
  <2> QED BY <1>1, <1>5, <1>7, <1>13, <2>1 DEF Covered
<1>15. ~raced => Serial(k)
  <2> HAVE ~raced
  <2>1. h.copy = lane[a] /\ \A b \in h.built : ~Suppressed(lane[b])
    BY <1>1, <1>2, <1>10, <1>13, Alone DEF Refreshing
  <2>2. \A b \in Agents : Suppressed(lane'[b]) => Suppressed(lane[b])
    BY <1>5, <1>11, <2>1
  <2> QED BY <1>2, <1>7, <1>11, <1>13, <2>1, <2>2 DEF Serial, Refreshing
<1> QED BY <1>12, <1>14, <1>15 DEF Steady

LEMMA ScoreStep ==
  ASSUME LanesInv, NEW c \in Callers, Score(c)
  PROVE  \E k : Steady(c, k)
<1>1. PICK h : h = call[c]
  OBVIOUS
<1>2. /\ h \in Operations /\ OpSound(h) /\ h.op \in Ops /\ h.step = "score" /\ h.todo \in Seq(Agents)
      /\ h.left \in Seq(Agents) /\ h.copy \in LaneType /\ h.built \subseteq Agents
  BY <1>1, CallSound DEF Score, Busy
<1>3. PICK a \in Agents : a = Head(h.left)
  BY <1>2 DEF OpSound
<1>4. PICK st \in {"refresh", "publish"} : st = IF Len(h.left) > 1 THEN "refresh" ELSE "publish"
  OBVIOUS
<1>5. PICK bs \in SUBSET Agents : bs = IF Weightless(h.copy) THEN h.built ELSE h.built \cup {a}
  BY <1>2
<1>6. PICK k : k = [h EXCEPT !.copy = NoAgent, !.left = Tail(@), !.built = bs, !.step = st]
  OBVIOUS
<1>7. /\ k.op = h.op /\ k.todo = h.todo /\ k.left = Tail(h.left) /\ k.built = bs
      /\ k.step = st /\ k.copy = NoAgent
  BY <1>2, <1>6 DEF Operations
<1>8. Suffix(k.left) /\ (st = "refresh" => k.left # <<>>) /\ k.left \in Seq(Agents)
  <2>1. Suffix(h.left) /\ h.left # <<>>
    BY <1>2 DEF OpSound
  <2>2. Suffix(Tail(h.left)) /\ Len(Tail(h.left)) = Len(h.left) - 1
    BY <2>1, SuffixTail
  <2>3. st = "refresh" => Tail(h.left) # <<>>
    BY <1>2, <1>4, TailOn
  <2>4. Tail(h.left) \in Seq(Agents)
    BY <2>2 DEF Suffix
  <2> QED BY <1>7, <2>2, <2>3, <2>4
<1>9. k \in Operations
  <2>1. st \in Steps
    BY DEF Steps
  <2> QED BY <1>2, <1>6, <1>7, <1>8, <2>1, NoAgentTyped DEF Operations
<1>10. OpSound(k)
  <2>1. k.copy.until <= now + MaxSpan
    BY <1>7, NoAgentTyped, Typing
  <2> QED BY <1>2, <1>4, <1>7, <1>8, <2>1 DEF OpSound, Changing
<1>11. /\ call' = [call EXCEPT ![c] = k] /\ lane' = [lane EXCEPT ![a] = h.copy]
       /\ UNCHANGED <<now, weights, history>> /\ ~Resting(c)
  BY <1>1, <1>3, <1>4, <1>5, <1>6 DEF Score, Resting, Busy
<1>12. /\ lane' \in [Agents -> LaneType] /\ \A b \in Agents : lane'[b].until <= now + MaxSpan
       /\ lane'[a] = h.copy /\ \A b \in Agents \ {a} : lane'[b] = lane[b]
  <2>1. h.copy.until <= now + MaxSpan
    BY <1>2 DEF OpSound
  <2> QED BY <1>2, <1>11, <2>1, Written
<1>13. Moves(c, k)
  <2>1. k.step \notin Changing
    BY <1>4, <1>7 DEF Changing
  <2> QED BY <1>9, <1>10, <1>11, <1>12, <2>1, Typing DEF Moves
<1>14. ~Holding(k) /\ Of(h) = a /\ Holding(h)
  BY <1>2, <1>3, <1>4, <1>7 DEF Of, Holding
<1>15. Covered(c, k)
  <2>1. ASSUME NEW b \in Agents PROVE lane'[b].err <= lane[b].err \/ (b = a /\ lane'[b].err <= h.copy.err)
    <3>1. lane[b] \in LaneType
      BY Typing
    <3> QED BY <1>2, <1>12, <3>1 DEF LaneType
  <2> QED BY <1>1, <1>14, <2>1 DEF Covered
<1>16. ~raced => Serial(k)
  <2> HAVE ~raced
  <2>1. h.copy = lane[a] /\ \A b \in h.built : ~Suppressed(lane[b])
    BY <1>1, <1>2, <1>11, <1>14, Alone DEF Refreshing
  <2>2. \A b \in Agents : lane'[b] = lane[b]
    BY <1>12, <2>1
  <2>3. \A b \in bs : ~Suppressed(lane'[b])
    BY <1>2, <1>5, <2>1, <2>2 DEF Weightless, Allows
  <2> QED BY <1>4, <1>7, <1>14, <2>3 DEF Serial, Refreshing
<1> QED BY <1>13, <1>15, <1>16 DEF Steady

\* An operation that looks at a lane next.
LooksOn(h, k) ==
  \E op \in Lookers, todo \in Seq(Agents) \ {<<>>} :
    k = [h EXCEPT !.built = {}, !.step = "read", !.op = op, !.todo = todo]

Onward(k) ==
  k \in Operations /\ OpSound(k) /\ ~Holding(k) /\ k.step \in {"idle", "read"} /\ k.op # "failure"

LEMMA LooksOnSound ==
  ASSUME LanesInv, NEW h \in Operations, OpSound(h), NEW k, LooksOn(h, k)
  PROVE  Onward(k)
<1>1. /\ h.op \in Ops /\ h.todo \in Seq(Agents) /\ h.left \in Seq(Agents) /\ h.copy \in LaneType /\ h.built \subseteq Agents
  BY DEF Operations
<1>2. PICK op \in Lookers, todo \in Seq(Agents) \ {<<>>} :
        k = [h EXCEPT !.built = {}, !.step = "read", !.op = op, !.todo = todo]
  BY DEF LooksOn
<1>3. k.op = op /\ k.todo = todo /\ k.left = h.left /\ k.copy = h.copy /\ k.built = {} /\ k.step = "read"
  BY <1>2 DEF Operations
<1>4. op \in Ops /\ "read" \in Steps /\ op # "failure"
  BY DEF Ops, Steps, Lookers
<1>5. k \in Operations
  BY <1>1, <1>2, <1>4 DEF Operations
<1> QED BY <1>3, <1>4, <1>5 DEF OpSound, Holding, Changing, Onward

\* What an operation goes on with once its weights are published.
LEMMA ContinuedSound ==
  ASSUME LanesInv, NEW h \in Operations, OpSound(h)
  PROVE  Onward(Continued(h))
<1>1. h.todo \in Seq(Agents)
  BY DEF Operations
<1>2. CASE h.op = "failure"
  <2>1. h.todo \in Seq(Agents) \ {<<>>}
    BY <1>1, <1>2 DEF OpSound, Changers
  <2>2. Continued(h) = [h EXCEPT !.built = {}, !.step = "read", !.op = "action", !.todo = h.todo]
    BY <1>2 DEF Continued, Operations
  <2>3. LooksOn(h, Continued(h))
    BY <2>1, <2>2 DEF LooksOn, Lookers
  <2> QED BY <2>3, LooksOnSound
<1>3. CASE h.op = "adaptive"
  <2>1. Lanes \in Seq(Agents) \ {<<>>}
    BY LanesListed
  <2>2. Continued(h) = [h EXCEPT !.built = {}, !.step = "read", !.op = "diagnose", !.todo = Lanes]
    BY <1>3 DEF Continued, Operations
  <2>3. LooksOn(h, Continued(h))
    BY <2>1, <2>2 DEF LooksOn, Lookers
  <2> QED BY <2>3, LooksOnSound
<1>4. CASE h.op = "curb" /\ Len(h.todo) > 1
  <2>1. Tail(h.todo) \in Seq(Agents) \ {<<>>}
    BY <1>1, <1>4, TailOn
  <2>2. Continued(h) = [h EXCEPT !.built = {}, !.step = "read", !.op = "diagnose", !.todo = Tail(h.todo)]
    BY <1>4 DEF Continued, Operations
  <2>3. LooksOn(h, Continued(h))
    BY <2>1, <2>2 DEF LooksOn, Lookers
  <2> QED BY <2>3, LooksOnSound
<1>5. CASE h.op # "failure" /\ h.op # "adaptive" /\ ~(h.op = "curb" /\ Len(h.todo) > 1)
  <2>1. Continued(h) = Idle
    BY <1>5 DEF Continued
  <2> QED BY <2>1, IdleSound DEF Onward
<1> QED BY <1>2, <1>3, <1>4, <1>5

LEMMA PublishStep ==
  ASSUME LanesInv, NEW c \in Callers, Publish(c)
  PROVE  \E k : Steady(c, k)
<1>1. PICK h : h = call[c]
  OBVIOUS
<1>2. h \in Operations /\ OpSound(h) /\ h.step = "publish" /\ h.built \subseteq Agents /\ h.copy.until <= now + MaxSpan
  BY <1>1, CallSound DEF Publish, Busy, OpSound
<1>3. PICK k : k = Continued(h)
  OBVIOUS
<1>4. k \in Operations /\ OpSound(k) /\ ~Holding(k) /\ k.step \in {"idle", "read"} /\ k.op # "failure"
  BY <1>2, <1>3, ContinuedSound DEF Onward
<1>5. /\ call' = [call EXCEPT ![c] = k] /\ UNCHANGED <<now, lane, history>> /\ ~Resting(c)
      /\ weights' = [a \in Agents |-> IF a \in h.built THEN "positive" ELSE "zero"]
  BY <1>1, <1>3 DEF Publish, Resting, Busy
<1>6. Moves(c, k)
  BY <1>4, <1>5, Typing DEF Moves
<1>7. Covered(c, k)
  <2>1. ASSUME NEW b \in Agents PROVE lane'[b].err <= lane[b].err
    <3>1. lane[b] \in LaneType
      BY Typing
    <3> QED BY <1>5, <3>1 DEF LaneType
  <2> QED BY <1>4, <2>1 DEF Covered
<1>8. ~raced => Serial(k)
  <2> HAVE ~raced
  <2>1. \A b \in h.built : ~Suppressed(lane[b])
    BY <1>1, <1>2, <1>5, Alone DEF Refreshing
  <2>2. \A b \in Agents : Suppressed(lane'[b]) => weights'[b] = "zero"
    BY <1>5, <2>1
  <2> QED BY <1>4, <2>2 DEF Serial, Refreshing
<1> QED BY <1>6, <1>7, <1>8 DEF Steady

\* What an operation that changes nothing itself goes on with after its look.
LEMMA LookedSound ==
  ASSUME LanesInv, NEW c \in Callers, NEW s \in LaneType, call[c].step = "normalize"
  PROVE  Onward(Looked(c, s))
<1>1. PICK h : h = call[c]
  OBVIOUS
<1>2. /\ h \in Operations /\ OpSound(h) /\ h.op \in Ops /\ h.step = "normalize" /\ h.todo \in Seq(Agents)
      /\ h.left \in Seq(Agents) /\ h.copy \in LaneType /\ h.built \subseteq Agents
  BY <1>1, CallSound
<1>3. h.todo \in Seq(Agents) \ {<<>>} /\ h.built = {} /\ Suffix(h.left)
  BY <1>2 DEF OpSound, Changing
<1>4. ASSUME NEW op \in {"quarantine", "curb", "diagnose"}, NEW todo \in Seq(Agents) \ {<<>>}, NEW k,
             k = [op |-> op, todo |-> todo, left |-> h.left, step |-> "read", copy |-> NoAgent, built |-> {}]
      PROVE  Onward(k)
  <2>1. op \in Ops /\ "read" \in Steps /\ op # "failure" /\ op \in Changers \cup Lookers
    BY DEF Ops, Steps, Changers, Lookers
  <2>2. k.op = op /\ k.todo = todo /\ k.left = h.left /\ k.step = "read" /\ k.copy = NoAgent /\ k.built = {}
    BY <1>4
  <2>3. k \in Operations
    BY <1>2, <1>4, <2>1, NoAgentTyped DEF Operations
  <2>4. k.copy.until <= now + MaxSpan
    BY <2>2, NoAgentTyped, Typing
  <2>5. OpSound(k)
    BY <1>3, <1>4, <2>1, <2>2, <2>4 DEF OpSound, Changing
  <2> QED BY <2>1, <2>2, <2>3, <2>5 DEF Holding, Onward
<1>5. CASE h.op = "action" /\ s.err >= 3
  <2>1. Looked(c, s) = [op |-> "quarantine", todo |-> h.todo, left |-> h.left, step |-> "read",
                        copy |-> NoAgent, built |-> {}]
    BY <1>1, <1>2, <1>3, <1>5 DEF Looked, Operations
  <2>2. PICK op \in {"quarantine", "curb", "diagnose"} : op = "quarantine"
    OBVIOUS
  <2> QED BY <1>3, <1>4, <2>1, <2>2
<1>6. CASE h.op = "diagnose" /\ s.err >= 3 /\ s.status # "offline"
  <2>1. Looked(c, s) = [op |-> "curb", todo |-> h.todo, left |-> h.left, step |-> "read",
                        copy |-> NoAgent, built |-> {}]
    <3>1. ~(s.err < 3 \/ s.status = "offline") /\ h.op # "action"
      BY <1>6 DEF LaneType
    <3>2. Looked(c, s) = [[h EXCEPT !.copy = NoAgent] EXCEPT !.op = "curb", !.step = "read"]
      BY <1>1, <1>6, <3>1 DEF Looked
    <3> QED BY <1>2, <1>3, <3>2 DEF Operations
  <2>2. PICK op \in {"quarantine", "curb", "diagnose"} : op = "curb"
    OBVIOUS
  <2> QED BY <1>3, <1>4, <2>1, <2>2
<1>7. CASE h.op = "diagnose" /\ (s.err < 3 \/ s.status = "offline") /\ Len(h.todo) > 1
  <2>1. ~(s.err >= 3 /\ s.status # "offline") /\ h.op # "action"
    BY <1>7 DEF LaneType
  <2>2. Looked(c, s) = [op |-> "diagnose", todo |-> Tail(h.todo), left |-> h.left, step |-> "read",
                        copy |-> NoAgent, built |-> {}]
    <3>1. Looked(c, s) = [[h EXCEPT !.copy = NoAgent] EXCEPT !.todo = Tail(h.todo), !.step = "read"]
      <4>1. PICK on : on = [h EXCEPT !.copy = NoAgent]
        OBVIOUS
      <4>2. on.todo = h.todo
        BY <1>2, <4>1 DEF Operations
      <4>3. Looked(c, s) = [on EXCEPT !.todo = Tail(@), !.step = "read"]
        BY <1>1, <1>7, <2>1, <4>1 DEF Looked
      <4> QED BY <4>1, <4>2, <4>3
    <3> QED BY <1>2, <1>3, <1>7, <3>1 DEF Operations
  <2>3. Tail(h.todo) \in Seq(Agents) \ {<<>>}
    BY <1>2, <1>7, TailOn
  <2>4. PICK op \in {"quarantine", "curb", "diagnose"} : op = "diagnose"
    OBVIOUS
  <2> QED BY <1>4, <2>2, <2>3, <2>4
<1>8. CASE /\ ~(h.op = "action" /\ s.err >= 3) /\ ~(h.op = "diagnose" /\ s.err >= 3 /\ s.status # "offline")
           /\ ~(h.op = "diagnose" /\ (s.err < 3 \/ s.status = "offline") /\ Len(h.todo) > 1)
  <2>1. Looked(c, s) = Idle
    BY <1>1, <1>8 DEF Looked
  <2> QED BY <2>1, IdleSound DEF Onward
<1> QED BY <1>5, <1>6, <1>7, <1>8

LEMMA NormalizeStep ==
  ASSUME LanesInv, NEW c \in Callers, Normalize(c)
  PROVE  \E k : Steady(c, k)
<1>1. PICK h : h = call[c]
  OBVIOUS
<1>2. /\ h \in Operations /\ OpSound(h) /\ h.op \in Ops /\ h.step = "normalize" /\ h.todo \in Seq(Agents)
      /\ h.left \in Seq(Agents) /\ h.copy \in LaneType /\ h.built \subseteq Agents
  BY <1>1, CallSound DEF Normalize, Busy
<1>3. PICK a \in Agents : a = Head(h.todo)
  BY <1>2 DEF OpSound, Changing
<1>4. PICK s : s = Normalized(h.copy)
  OBVIOUS
<1>5. /\ s \in LaneType /\ s.until <= now + MaxSpan /\ s.err = h.copy.err /\ s.err \in Int
      /\ (Suppressed(s) => Suppressed(h.copy))
  <2>1. h.copy.until <= now + MaxSpan
    BY <1>2 DEF OpSound
  <2>2. s \in LaneType /\ s.until <= now + MaxSpan /\ s.err = h.copy.err /\ (Suppressed(s) => Suppressed(h.copy))
    BY <1>2, <1>4, <2>1, NormalizedSound
  <2> QED BY <2>2 DEF LaneType
<1>6. PICK k : k = IF h.op \in {"state", "action", "diagnose"} THEN Looked(c, s) ELSE [h EXCEPT !.copy = s, !.step = "apply"]
  OBVIOUS
<1>7. \/ Onward(k)
      \/ /\ h.op \in Changers /\ k.op = h.op /\ k.todo = h.todo /\ k.left = h.left /\ k.built = h.built
         /\ k.step = "apply" /\ k.copy = s /\ k \in Operations
  <2>1. CASE h.op \in {"state", "action", "diagnose"}
    BY <1>1, <1>2, <1>5, <1>6, <2>1, LookedSound
  <2>2. CASE h.op \notin {"state", "action", "diagnose"}
    <3>1. k = [h EXCEPT !.copy = s, !.step = "apply"]
      BY <1>6, <2>2
    <3>2. "apply" \in Steps /\ h.op \in Changers
      BY <1>2, <2>2 DEF Steps, OpSound, Lookers
    <3>3. k.op = h.op /\ k.todo = h.todo /\ k.left = h.left /\ k.built = h.built /\ k.step = "apply" /\ k.copy = s
      BY <1>2, <3>1 DEF Operations
    <3>4. k \in Operations
      BY <1>2, <1>5, <3>1, <3>2 DEF Operations
    <3> QED BY <3>2, <3>3, <3>4
  <2> QED BY <2>1, <2>2
<1>8. k \in Operations /\ OpSound(k)
  <2>1. CASE Onward(k)
    BY <2>1 DEF Onward
  <2>2. CASE ~Onward(k)
    BY <1>2, <1>5, <1>7, <2>2 DEF OpSound, Changing
  <2> QED BY <2>1, <2>2
<1>9. /\ call' = [call EXCEPT ![c] = k] /\ lane' = [lane EXCEPT ![a] = s]
      /\ UNCHANGED <<now, weights, history>> /\ ~Resting(c)
  BY <1>1, <1>3, <1>4, <1>6 DEF Normalize, Resting, Busy
<1>10. /\ lane' \in [Agents -> LaneType] /\ \A b \in Agents : lane'[b].until <= now + MaxSpan
       /\ lane'[a] = s /\ \A b \in Agents \ {a} : lane'[b] = lane[b]
  BY <1>5, <1>9, Written
<1>11. Moves(c, k)
  <2>1. k.op = "failure" /\ k.step \in Changing => c \in Owed(Head(k.todo))
    BY <1>1, <1>2, <1>7 DEF Onward, Owed, Changing
  <2> QED BY <1>8, <1>9, <1>10, <2>1, Typing DEF Moves
<1>12. Of(h) = a /\ Holding(h) /\ (Holding(k) => Of(k) = a /\ k.copy = s)
  BY <1>2, <1>3, <1>7 DEF Of, Holding, Onward
<1>13. Covered(c, k)
  <2>1. ASSUME NEW b \in Agents PROVE lane'[b].err <= lane[b].err \/ (b = a /\ lane'[b].err <= h.copy.err)
    <3>1. lane[b] \in LaneType
      BY Typing
    <3> QED BY <1>5, <1>10, <3>1 DEF LaneType
  <2> QED BY <1>1, <1>5, <1>12, <2>1 DEF Covered
<1>14. ~raced => Serial(k)
  <2> HAVE ~raced
  <2>1. h.copy = lane[a] /\ \A b \in Agents : Suppressed(lane[b]) => weights[b] = "zero"
    BY <1>1, <1>2, <1>9, <1>12, Alone DEF Refreshing
  <2>2. \A b \in Agents : Suppressed(lane'[b]) => Suppressed(lane[b])
    BY <1>5, <1>10, <2>1
  <2>3. k.step \notin Refreshing
    BY <1>7 DEF Refreshing, Onward
  <2> QED BY <1>9, <1>10, <1>12, <2>1, <2>2, <2>3 DEF Serial
<1> QED BY <1>11, <1>13, <1>14 DEF Steady

LEMMA ApplyStep ==
  ASSUME LanesInv, NEW c \in Callers, Apply(c)
  PROVE  \E k : Steady(c, k)
<1>1. PICK h : h = call[c]
  OBVIOUS
<1>2. /\ h \in Operations /\ OpSound(h) /\ h.op \in Ops /\ h.step = "apply" /\ h.todo \in Seq(Agents)
      /\ h.left \in Seq(Agents) /\ h.copy \in LaneType /\ h.built \subseteq Agents
  BY <1>1, CallSound DEF Apply, Busy
<1>3. h.op \in Changers /\ h.built = {} /\ h.copy.until <= now + MaxSpan /\ h.todo # <<>> /\ Suffix(h.left)
  BY <1>2 DEF OpSound, Changing
<1>4. PICK a \in Agents : a = Head(h.todo)
  BY <1>2, <1>3
<1>5. PICK s \in Changed(h.op, a, h.copy) : lane' = [lane EXCEPT ![a] = s]
  BY <1>1, <1>4 DEF Apply
<1>6. /\ s \in LaneType /\ s.until <= now + MaxSpan
      /\ s.err <= h.copy.err \/ (h.op = "failure" /\ s.err <= h.copy.err + 1)
      /\ h.op = "sync" => s.until = h.copy.until
  BY <1>2, <1>3, ChangedSound
<1>7. PICK k : k = IF h.op = "sync" /\ Len(h.todo) > 1 THEN [h EXCEPT !.copy = NoAgent, !.todo = Tail(@), !.step = "read"]
                   ELSE [h EXCEPT !.copy = NoAgent, !.left = Lanes, !.step = "refresh"]
  OBVIOUS
<1>8. /\ call' = [call EXCEPT ![c] = k] /\ UNCHANGED <<now, weights, history>> /\ ~Resting(c)
  BY <1>1, <1>7 DEF Apply, Resting, Busy
<1>9. /\ k.copy = NoAgent /\ k.built = {} /\ k.op = h.op
      /\ \/ k.step = "read" /\ h.op = "sync" /\ k.todo = Tail(h.todo) /\ k.todo \in Seq(Agents) \ {<<>>} /\ k.left = h.left
         \/ k.step = "refresh" /\ k.todo = h.todo /\ k.left = Lanes
      /\ k \in Operations
  <2>1. CASE h.op = "sync" /\ Len(h.todo) > 1
    <3>1. k = [h EXCEPT !.copy = NoAgent, !.todo = Tail(@), !.step = "read"] /\ "read" \in Steps
      BY <1>7, <2>1 DEF Steps
    <3>2. Tail(h.todo) \in Seq(Agents) \ {<<>>}
      BY <1>2, <2>1, TailOn
    <3>3. /\ k.copy = NoAgent /\ k.built = {} /\ k.op = h.op /\ k.step = "read" /\ k.todo = Tail(h.todo) /\ k.left = h.left
      BY <1>2, <1>3, <3>1 DEF Operations
    <3>4. k \in Operations
      BY <1>2, <3>1, <3>2, NoAgentTyped DEF Operations
    <3> QED BY <2>1, <3>2, <3>3, <3>4
  <2>2. CASE ~(h.op = "sync" /\ Len(h.todo) > 1)
    <3>1. k = [h EXCEPT !.copy = NoAgent, !.left = Lanes, !.step = "refresh"] /\ "refresh" \in Steps
      BY <1>7, <2>2 DEF Steps
    <3>2. /\ k.copy = NoAgent /\ k.built = {} /\ k.op = h.op /\ k.step = "refresh" /\ k.todo = h.todo /\ k.left = Lanes
      BY <1>2, <1>3, <3>1 DEF Operations
    <3>3. k \in Operations
      BY <1>2, <3>1, LanesListed, NoAgentTyped DEF Operations
    <3> QED BY <3>2, <3>3
  <2> QED BY <2>1, <2>2
<1>10. OpSound(k)
  <2>1. k.copy.until <= now + MaxSpan
    BY <1>9, NoAgentTyped, Typing
  <2> QED BY <1>3, <1>9, <2>1, SuffixLanes, LanesListed DEF OpSound, Changing
<1>11. /\ lane' \in [Agents -> LaneType] /\ \A b \in Agents : lane'[b].until <= now + MaxSpan
       /\ lane'[a] = s /\ \A b \in Agents \ {a} : lane'[b] = lane[b]
  BY <1>5, <1>6, Written
<1>12. Moves(c, k)
  <2>1. ~(k.op = "failure" /\ k.step \in Changing)
    BY <1>9 DEF Changing
  <2> QED BY <1>8, <1>9, <1>10, <1>11, <2>1, Typing DEF Moves
<1>13. Of(h) = a /\ Holding(h) /\ ~Holding(k)
  BY <1>2, <1>4, <1>9 DEF Of, Holding
<1>14. Covered(c, k)
  <2>1. ASSUME NEW b \in Agents
        PROVE  \/ lane'[b].err <= lane[b].err
               \/ b = a /\ lane'[b].err <= h.copy.err
               \/ b = a /\ lane'[b].err <= h.copy.err + 1 /\ h.op = "failure"
    <3>1. lane[b] \in LaneType
      BY Typing
    <3> QED BY <1>6, <1>11, <3>1 DEF LaneType
  <2>2. h.op = "failure" => c \in Owed(a) /\ k.step \notin Changing
    BY <1>1, <1>2, <1>4, <1>9 DEF Owed, Changing
  <2> QED BY <1>1, <1>13, <2>1, <2>2 DEF Covered
<1>15. ~raced => Serial(k)
  <2> HAVE ~raced
  <2>1. h.copy = lane[a] /\ \A b \in Agents : Suppressed(lane[b]) => weights[b] = "zero"
    BY <1>1, <1>2, <1>8, <1>13, Alone DEF Refreshing
  <2>2. CASE k.step = "read"
    <3>1. \A b \in Agents : Suppressed(lane'[b]) => Suppressed(lane[b])
      BY <1>6, <1>9, <1>11, <2>1, <2>2 DEF Suppressed
    <3> QED BY <1>8, <1>13, <2>1, <2>2, <3>1 DEF Serial, Refreshing
  <2>3. CASE k.step = "refresh"
    BY <1>9, <1>13, <2>3 DEF Serial, Refreshing
  <2> QED BY <1>9, <2>2, <2>3
<1> QED BY <1>12, <1>14, <1>15 DEF Steady

LEMMA CallingStep ==
  ASSUME LanesInv, NEW c \in Callers, Calling(c)
  PROVE  LanesInv'
<1>1. PICK k : Steady(c, k)
  BY ReadStep, NormalizeStep, ApplyStep, RefreshStep, RenormalizeStep, ScoreStep, PublishStep DEF Calling
<1> QED BY <1>1, MovesKeeps DEF Steady

-----------------------------------------------------------------------------
(* Operations begun, and the passing of time.                              *)

\* A new operation holds no record; a failure it reports is counted already.
LEMMA BeginStep ==
  ASSUME LanesInv, NEW c \in Callers, NEW op \in Ops, NEW todo \in Seq(Agents), Begin(c, op, todo),
         op \in {"refresh", "adaptive"} \/ (op \in Changers \cup Lookers /\ todo # <<>>),
         \/ op # "failure" /\ UNCHANGED failures
         \/ op = "failure" /\ failures' = [failures EXCEPT ![Head(todo)] = @ + 1]
  PROVE  LanesInv'
<1>1. PICK st \in {"refresh", "read"} : st = IF op \in {"refresh", "adaptive"} THEN "refresh" ELSE "read"
  OBVIOUS
<1>2. PICK ls : ls = IF op \in {"refresh", "adaptive"} THEN Lanes ELSE <<>>
  OBVIOUS
<1>3. Suffix(ls) /\ ls \in Seq(Agents) /\ (st = "refresh" => ls # <<>>)
  BY <1>1, <1>2, SuffixLanes, SuffixEmpty, LanesListed DEF Suffix
<1>4. PICK k : k = [Idle EXCEPT !.op = op, !.todo = todo, !.left = ls, !.step = st]
  OBVIOUS
<1>5. k.op = op /\ k.todo = todo /\ k.left = ls /\ k.step = st /\ k.copy = NoAgent /\ k.built = {}
  <2>1. Idle \in Operations /\ Idle.copy = NoAgent /\ Idle.built = {}
    BY IdleSound DEF Idle
  <2> QED BY <1>4, <2>1 DEF Operations
<1>6. call' = [call EXCEPT ![c] = k] /\ UNCHANGED <<now, lane, weights>> /\ Resting(c)
  BY <1>1, <1>2, <1>4 DEF Begin
<1>7. k \in Operations
  <2>1. st \in Steps
    BY DEF Steps
  <2> QED BY <1>3, <1>4, <2>1, IdleSound DEF Operations
<1>8. OpSound(k)
  <2>1. k.copy.until <= now + MaxSpan
    BY <1>5, NoAgentTyped, Typing
  <2>2. op \in {"refresh", "adaptive"} => st = "refresh" /\ op \notin Changers \cup Lookers
    BY <1>1 DEF Changers, Lookers
  <2> QED BY <1>1, <1>3, <1>5, <2>1, <2>2 DEF OpSound, Changing
<1>9. ~Holding(k)
  BY <1>1, <1>5 DEF Holding
<1>10. call'[c] = k /\ \A d \in Callers \ {c} : call'[d] = call[d]
  BY <1>6 DEF LanesInv, LanesTyped
<1>11. \A b \in Agents : failures'[b] \in Nat /\ failures'[b] >= failures[b] /\ failures'[b] <= failures[b] + 1
  <2> TAKE b \in Agents
  <2>1. failures \in [Agents -> Nat] /\ failures[b] \in Nat
    BY DEF LanesInv, LanesTyped
  <2>2. failures'[b] = failures[b] \/ failures'[b] = failures[b] + 1
    BY <2>1
  <2> QED BY <2>1, <2>2
<1>12. calls' = calls + 1 /\ calls' \in 0 .. MaxCalls /\ calls \in Nat
  BY ManagerAssumption DEF Begin, LanesInv, LanesTyped
<1>13. LanesTyped'
  <2>1. call' \in [Callers -> Operations]
    BY <1>6, <1>7 DEF LanesInv, LanesTyped
  <2>2. failures' \in [Agents -> Nat] /\ \A b \in Agents : failures'[b] <= Past + calls'
    <3>1. failures' \in [Agents -> Nat]
      BY <1>11 DEF LanesInv, LanesTyped
    <3>2. \A b \in Agents : failures[b] \in Nat /\ failures[b] <= Past + calls
      BY DEF LanesInv, LanesTyped
    <3> QED BY <1>11, <1>12, <3>1, <3>2, ManagerAssumption, SMTT(40)
  <2>3. raced' \in BOOLEAN
    BY DEF Begin
  <2> QED BY <1>6, <1>12, <2>1, <2>2, <2>3 DEF LanesInv, LanesTyped
<1>14. ASSUME NEW d \in Callers PROVE OpSound(call[d])'
  <2>1. CASE d = c
    BY <1>6, <1>8, <1>10, <2>1 DEF OpSound
  <2>2. CASE d # c
    BY <1>6, <1>10, <2>2 DEF LanesInv, OpSound
  <2> QED BY <2>1, <2>2
<1>15. OnceInv'
  <2>1. ASSUME NEW a \in Agents
        PROVE  /\ lane[a].err + Cardinality(Owed(a)') <= failures'[a]
               /\ \A d \in Callers : Holding(call'[d]) /\ Of(call'[d]) = a
                    => call'[d].copy.err + Cardinality(Owed(a)') <= failures'[a]
    <3>1. PICK n \in Nat : n = Cardinality(Owed(a))
      BY OwedFinite
    <3>2. PICK m \in Nat : m = Cardinality(Owed(a)') /\ (m <= n \/ (m <= n + 1 /\ failures'[a] = failures[a] + 1))
      <4>1. CASE op = "failure" /\ Head(todo) = a
        <5>1. Owed(a)' \subseteq Owed(a) \cup {c}
          BY <1>10 DEF Owed
        <5>2. IsFiniteSet(Owed(a))
          BY OwedFinite
        <5>3. PICK T : T = Owed(a) \cup {c}
          OBVIOUS
        <5>4. IsFiniteSet(T) /\ (Cardinality(T) = n \/ Cardinality(T) = n + 1)
          BY <3>1, <5>2, <5>3, FS_AddElement
        <5>5. IsFiniteSet(Owed(a)') /\ Cardinality(Owed(a)') <= Cardinality(T)
          BY <5>1, <5>3, <5>4, FS_Subset
        <5>6. Cardinality(Owed(a)') \in Nat
          BY <5>5, FS_CardinalityType
        <5>7. failures'[a] = failures[a] + 1
          BY <4>1 DEF LanesInv, LanesTyped
        <5> QED BY <5>4, <5>5, <5>6, <5>7
      <4>2. CASE ~(op = "failure" /\ Head(todo) = a)
        <5>1. Owed(a)' \subseteq Owed(a)
          BY <1>5, <1>10, <4>2 DEF Owed
        <5>2. IsFiniteSet(Owed(a))
          BY OwedFinite
        <5>3. IsFiniteSet(Owed(a)') /\ Cardinality(Owed(a)') <= Cardinality(Owed(a))
          BY <5>1, <5>2, FS_Subset
        <5>4. Cardinality(Owed(a)') \in Nat
          BY <5>3, FS_CardinalityType
        <5> QED BY <3>1, <5>3, <5>4
      <4> QED BY <4>1, <4>2
    <3>3. lane[a].err + n <= failures[a] /\ \A d \in Callers : Holding(call[d]) /\ Of(call[d]) = a => call[d].copy.err + n <= failures[a]
      BY <3>1 DEF LanesInv, OnceInv
    <3>4. lane[a].err \in Int /\ failures[a] \in Int /\ failures'[a] \in Int /\ \A d \in Callers : call[d].copy.err \in Int
      <4>1. lane[a] \in LaneType /\ failures[a] \in Nat
        BY DEF LanesInv, LanesTyped
      <4>2. \A d \in Callers : call[d].copy \in LaneType
        BY DEF LanesInv, LanesTyped, Operations
      <4>3. failures'[a] \in Nat
        BY <1>11
      <4>4. \A d \in Callers : call[d].copy.err \in Int
        BY <4>2 DEF LaneType
      <4> QED BY <4>1, <4>3, <4>4 DEF LaneType
    <3>5. lane[a].err + m <= failures'[a]
      BY <1>11, <3>2, <3>3, <3>4, SMTT(40)
    <3>6. ASSUME NEW d \in Callers, Holding(call'[d]), Of(call'[d]) = a
          PROVE  call'[d].copy.err + m <= failures'[a]
      <4>1. call'[d] = call[d]
        BY <1>9, <1>10, <3>6
      <4>2. call[d].copy.err + n <= failures[a]
        BY <3>3, <3>6, <4>1
      <4> QED BY <1>11, <3>2, <3>4, <4>1, <4>2, SMTT(40)
    <3> QED BY <3>2, <3>5, <3>6
  <2> QED BY <1>6, <2>1 DEF OnceInv, Holding, Of
<1>16. SerialInv'
  <2> SUFFICES ASSUME ~raced'
               PROVE  /\ \A d, e \in Callers : d # e => Resting(d)' \/ Resting(e)'
                      /\ \A d \in Callers : Holding(call'[d]) => call'[d].copy = lane'[Of(call'[d])]
                      /\ \A d \in Callers : call'[d].step \in Refreshing => \A a \in call'[d].built : ~Suppressed(lane[a])'
                      /\ (\A d \in Callers : call'[d].step \notin Refreshing) =>
                           \A a \in Agents : Suppressed(lane[a])' => weights'[a] = "zero"
    BY DEF SerialInv, Holding, Of
  <2>1. ~raced /\ \A d \in Callers \ {c} : Resting(d)
    BY DEF Begin
  <2>2. \A d \in Callers \ {c} : call[d].step = "idle" /\ call'[d].step = "idle"
    BY <1>10, <2>1 DEF Resting, Busy
  <2>3. \A a \in Agents : Suppressed(lane[a]) => weights[a] = "zero"
    <3>1. \A d \in Callers : call[d].step = "idle"
      BY <1>6, <2>2 DEF Resting, Busy
    <3> QED BY <2>1, <3>1 DEF LanesInv, SerialInv, Refreshing
  <2>4. \A d, e \in Callers : d # e => Resting(d)' \/ Resting(e)'
    BY <2>2 DEF Resting, Busy
  <2>5. \A d \in Callers : ~Holding(call'[d])
    BY <1>9, <1>10, <2>2 DEF Holding
  <2>6. \A d \in Callers : call'[d].step \in Refreshing => call'[d].built = {}
    BY <1>5, <1>10, <2>2 DEF Refreshing
  <2>7. \A a \in Agents : Suppressed(lane[a])' => weights'[a] = "zero"
    BY <1>6, <2>3 DEF Suppressed
  <2> QED BY <2>4, <2>5, <2>6, <2>7
<1>17. \A a \in Agents : lane'[a].until <= now' + MaxSpan
  BY <1>6 DEF LanesInv
<1> QED BY <1>13, <1>14, <1>15, <1>16, <1>17 DEF LanesInv

LEMMA ElapseStep == ASSUME LanesInv, Elapse PROVE LanesInv'
<1>1. now' = now + 1 /\ now' \in 0 .. MaxTime /\ now \in Nat /\ MaxSpan \in Nat
  BY ManagerAssumption DEF Elapse, LanesInv, LanesTyped
<1>2. UNCHANGED <<lane, weights, call, calls, failures, raced>>
  BY DEF Elapse, history
<1>3. LanesTyped'
  BY <1>1, <1>2 DEF LanesInv, LanesTyped
<1>4. OnceInv'
  BY <1>2 DEF LanesInv, OnceInv, Owed, Holding, Of
<1>5. ASSUME NEW a \in Agents PROVE lane[a].until \in Int /\ lane'[a].until <= now' + MaxSpan /\ (Suppressed(lane[a])' => Suppressed(lane[a]))
  <2>1. lane[a] \in LaneType /\ lane[a].until <= now + MaxSpan
    BY Typing
  <2>2. lane[a].until \in Int
    BY <2>1 DEF LaneType
  <2> QED BY <1>1, <1>2, <2>1, <2>2 DEF Suppressed
<1>6. ASSUME NEW c \in Callers PROVE OpSound(call[c])'
  <2>1. OpSound(call[c]) /\ call[c].copy \in LaneType
    BY CallSound
  <2>2. call[c].copy.until \in Int /\ call[c].copy.until <= now + MaxSpan
    BY <2>1 DEF OpSound, LaneType
  <2>3. call[c].copy.until <= now' + MaxSpan
    BY <1>1, <2>2
  <2> QED BY <1>2, <2>1, <2>3 DEF OpSound
<1>7. SerialInv'
  <2>1. \A c \in Callers : call[c].built \subseteq Agents
    BY CallSound
  <2> QED BY <1>2, <1>5, <2>1 DEF LanesInv, SerialInv, Resting, Busy, Holding, Of
<1> QED BY <1>3, <1>4, <1>5, <1>6, <1>7 DEF LanesInv

LEMMA LanesInit == Init => LanesInv
<1> SUFFICES ASSUME Init PROVE LanesInv
  OBVIOUS
<1>1. /\ now = 0 /\ call = [c \in Callers |-> Idle] /\ calls = 0 /\ failures = [a \in Agents |-> Past] /\ raced = FALSE
      /\ MaxTime \in Nat /\ MaxSpan \in Nat /\ MaxCalls \in Nat /\ Past \in 0 .. 2 /\ Listed \in [Agents -> Statuses]
  BY ManagerAssumption DEF Init
<1>2. ASSUME NEW a \in Agents
      PROVE  lane[a] \in LaneType /\ lane[a].err = Past /\ lane[a].until = 0 /\ failures[a] = Past
  <2>1. PICK st \in Statuses : st = IF Past = 0 THEN Listed[a] ELSE "degraded"
    BY <1>1 DEF Statuses
  <2>2. lane[a] = [status |-> st, err |-> Past, until |-> 0]
    BY <2>1 DEF Init
  <2>3. Past \in 0 .. 4 /\ 0 \in 0 .. MaxTime + MaxSpan
    BY <1>1
  <2>4. lane[a] \in LaneType
    BY <2>2, <2>3 DEF LaneType
  <2> QED BY <1>1, <2>2, <2>4
<1>3. lane \in [Agents -> LaneType]
  <2>1. lane = [a \in Agents |-> [status |-> IF Past = 0 THEN Listed[a] ELSE "degraded", err |-> Past, until |-> 0]]
    BY DEF Init
  <2> QED BY <1>2, <2>1
<1>4. Idle \in Operations /\ Idle.left = <<>> /\ Idle.step = "idle" /\ Idle.op = "none" /\ Idle.copy = NoAgent
  <2>1. <<>> \in Seq(Agents) /\ {} \in SUBSET Agents /\ "none" \in Ops /\ "idle" \in Steps
    BY DEF Ops, Steps
  <2> QED BY <2>1, NoAgentTyped DEF Idle, Operations
<1>5. \A c \in Callers : call[c] = Idle
  BY <1>1
<1>6. LanesTyped
  <2>1. weights \in [Agents -> {"unset", "zero", "positive"}]
    BY DEF Init
  <2>2. failures \in [Agents -> Nat] /\ \A a \in Agents : failures[a] <= Past + calls
    BY <1>1
  <2>3. now \in 0 .. MaxTime /\ calls \in 0 .. MaxCalls
    BY <1>1
  <2>4. call \in [Callers -> Operations]
    BY <1>1, <1>4
  <2> QED BY <1>1, <1>3, <2>1, <2>2, <2>3, <2>4 DEF LanesTyped
<1>7. \A c \in Callers : OpSound(call[c])
  BY <1>1, <1>4, <1>5, NoAgentTyped, SuffixEmpty DEF OpSound, Changing, Changers, Lookers
<1>8. OnceInv
  <2> SUFFICES ASSUME NEW a \in Agents
               PROVE  /\ lane[a].err + Cardinality(Owed(a)) <= failures[a]
                      /\ \A c \in Callers : ~Holding(call[c])
    BY DEF OnceInv
  <2>1. Owed(a) = {}
    BY <1>4, <1>5 DEF Owed
  <2>2. Cardinality(Owed(a)) = 0
    BY <2>1, FS_EmptySet
  <2> QED BY <1>1, <1>2, <1>4, <1>5, <2>2 DEF Holding
<1>9. SerialInv
  <2>1. \A a \in Agents : ~Suppressed(lane[a])
    BY <1>1, <1>2 DEF Suppressed
  <2> QED BY <1>4, <1>5, <2>1 DEF SerialInv, Resting, Busy, Holding, Refreshing
<1>10. \A a \in Agents : lane[a].until <= now + MaxSpan
  BY <1>1, <1>2
<1> QED BY <1>6, <1>7, <1>8, <1>9, <1>10 DEF LanesInv

LEMMA LanesNext == LanesInv /\ [Next]_vars => LanesInv'
<1> SUFFICES ASSUME LanesInv, [Next]_vars PROVE LanesInv'
  OBVIOUS
<1>1. ASSUME NEW c \in Callers, NEW a \in Agents, Execution(c, a) \/ Dispatch(c, a) \/ Request(c, a) PROVE LanesInv'
  <2>1. PICK one \in Seq(Agents) : one = <<a>> /\ one # <<>> /\ Head(one) = a
    <3>1. <<a>> \in Seq(Agents) /\ Len(<<a>>) = 1 /\ Head(<<a>>) = a
      OBVIOUS
    <3>2. <<a>> # <<>>
      OBVIOUS
    <3> QED BY <3>1, <3>2
  <2>2. \/ \E op \in {"capacity", "success", "state", "suppress", "recover", "probe"} : Begin(c, op, one) /\ UNCHANGED failures
        \/ Begin(c, "failure", one) /\ failures' = [failures EXCEPT ![a] = @ + 1]
        \/ \E op \in {"adaptive", "refresh"} : Begin(c, op, <<>>) /\ UNCHANGED failures
        \/ Begin(c, "sync", Lanes) /\ UNCHANGED failures
    BY <1>1, <2>1 DEF Execution, Dispatch, Request
  <2>3. ASSUME NEW op \in {"capacity", "success", "state", "suppress", "recover", "probe"}, Begin(c, op, one), UNCHANGED failures
        PROVE  LanesInv'
    <3>1. op \in Ops /\ op \in Changers \cup Lookers /\ op # "failure"
      BY DEF Ops, Changers, Lookers
    <3> QED BY <2>1, <2>3, <3>1, BeginStep
  <2>4. ASSUME Begin(c, "failure", one), failures' = [failures EXCEPT ![a] = @ + 1]
        PROVE  LanesInv'
    <3>1. PICK op \in Ops : op = "failure" /\ op \in Changers \cup Lookers
      BY DEF Ops, Changers, Lookers
    <3>2. Begin(c, op, one) /\ failures' = [failures EXCEPT ![Head(one)] = @ + 1]
      BY <2>1, <2>4, <3>1
    <3> QED BY <2>1, <3>1, <3>2, BeginStep
  <2>5. ASSUME NEW op \in {"adaptive", "refresh"}, Begin(c, op, <<>>), UNCHANGED failures
        PROVE  LanesInv'
    <3>1. PICK none \in Seq(Agents) : none = <<>>
      <4>1. <<>> \in Seq(Agents)
        OBVIOUS
      <4> QED BY <4>1
    <3>2. Begin(c, op, none) /\ op \in Ops /\ op # "failure"
      BY <2>5, <3>1 DEF Ops
    <3> QED BY <2>5, <3>2, BeginStep
  <2>6. ASSUME Begin(c, "sync", Lanes), UNCHANGED failures PROVE LanesInv'
    <3>1. PICK op \in Ops : op = "sync" /\ op \in Changers \cup Lookers /\ op # "failure"
      BY DEF Ops, Changers, Lookers
    <3>2. Begin(c, op, Lanes)
      BY <2>6, <3>1
    <3> QED BY <2>6, <3>1, <3>2, LanesListed, BeginStep
  <2> QED BY <2>2, <2>3, <2>4, <2>5, <2>6
<1>2. ASSUME NEW c \in Callers, Calling(c) PROVE LanesInv'
  BY <1>2, CallingStep
<1>3. CASE Elapse
  BY <1>3, ElapseStep
<1>4. CASE UNCHANGED vars
  <2>1. UNCHANGED <<now, lane, weights, call, calls, failures, raced>>
    BY <1>4 DEF vars, history
  <2> QED BY <2>1 DEF LanesInv, LanesTyped, OnceInv, SerialInv, OpSound, Owed, Holding, Of, Resting, Busy, Suppressed
<1> QED BY <1>1, <1>2, <1>3, <1>4 DEF Next

\* What the manager keeps of a lane is true of it: its error rate is covered by
\* executions that failed however calls overwrite each other, and with calls one
\* after another a suppressed lane has no weight.
THEOREM LanesSoundCorrect == Spec => []LanesSound
<1>1. LanesInv => LanesSound
  BY LanesInvSound
<1> QED BY <1>1, LanesInit, LanesNext, PTL DEF Spec

\* A step that leaves a lane's suppression shorter, with operations one after
\* another, is the change of a RecoverLane or of another suppression.
Stands ==
  \A a \in Agents :
    Suppressed(lane[a]) /\ lane'[a].until < lane[a].until =>
      \/ raced
      \/ \E c \in Callers :
           /\ call[c].step = "apply"
           /\ \/ call[c].op = "recover"
              \/ call[c].op \in {"suppress", "quarantine", "curb"} /\ Suppressed(lane[a])'

LEMMA StandsStep ==
  ASSUME LanesInv, NEW c \in Callers, Calling(c)
  PROVE  Stands
<1> SUFFICES ASSUME NEW a \in Agents, Suppressed(lane[a]), lane'[a].until < lane[a].until, ~raced
             PROVE  /\ call[c].step = "apply"
                    /\ \/ call[c].op = "recover"
                       \/ call[c].op \in {"suppress", "quarantine", "curb"} /\ Suppressed(lane[a])'
  BY DEF Stands
<1>1. PICK h : h = call[c]
  OBVIOUS
<1>2. h \in Operations /\ OpSound(h) /\ h.copy \in LaneType /\ h.copy.until <= now + MaxSpan
  BY <1>1, CallSound DEF OpSound
<1>3. lane[a] \in LaneType /\ lane[a].until \in Int /\ lane \in [Agents -> LaneType]
  <2>1. lane[a] \in LaneType /\ lane \in [Agents -> LaneType]
    BY Typing
  <2> QED BY <2>1 DEF LaneType
<1>4. Holding(h) => h.copy = lane[Of(h)] /\ Of(h) \in Agents
  BY <1>1, <1>2, Alone, OfIsAgent DEF Resting, Busy, Holding
<1>5. lane'[a] # lane[a]
  BY <1>3
<1>6. CASE Normalize(c)
  <2>1. h.step = "normalize" /\ lane' = [lane EXCEPT ![Head(h.todo)] = Normalized(h.copy)]
    BY <1>1, <1>6 DEF Normalize, Busy
  <2>2. Of(h) = Head(h.todo) /\ h.copy = lane[Of(h)]
    BY <1>4, <2>1 DEF Of, Holding
  <2>3. a = Of(h) /\ lane'[a] = Normalized(lane[a])
    BY <1>3, <1>5, <2>1, <2>2
  <2>4. Normalized(lane[a]) = lane[a]
    BY <1>3, Typing, NormalizedSound
  <2> QED BY <1>5, <2>3, <2>4
<1>7. CASE Renormalize(c)
  <2>1. h.step = "renormalize" /\ lane' = [lane EXCEPT ![Head(h.left)] = Normalized(h.copy)]
    BY <1>1, <1>7 DEF Renormalize, Busy
  <2>2. Of(h) = Head(h.left) /\ h.copy = lane[Of(h)]
    BY <1>4, <2>1 DEF Of, Holding
  <2>3. a = Of(h) /\ lane'[a] = Normalized(lane[a])
    BY <1>3, <1>5, <2>1, <2>2
  <2>4. Normalized(lane[a]) = lane[a]
    BY <1>3, Typing, NormalizedSound
  <2> QED BY <1>5, <2>3, <2>4
<1>8. CASE Score(c)
  <2>1. h.step = "score" /\ lane' = [lane EXCEPT ![Head(h.left)] = h.copy]
    BY <1>1, <1>8 DEF Score, Busy
  <2>2. Of(h) = Head(h.left) /\ h.copy = lane[Of(h)]
    BY <1>4, <2>1 DEF Of, Holding
  <2> QED BY <1>3, <1>5, <2>1, <2>2
<1>9. CASE Apply(c)
  <2>1. h.step = "apply" /\ \E s \in Changed(h.op, Head(h.todo), h.copy) : lane' = [lane EXCEPT ![Head(h.todo)] = s]
    BY <1>1, <1>9 DEF Apply, Busy
  <2>2. Of(h) = Head(h.todo) /\ h.copy = lane[Of(h)] /\ Of(h) \in Agents /\ h.op \in Changers
    BY <1>2, <1>4, <2>1 DEF Of, Holding, OpSound
  <2>3. PICK s \in Changed(h.op, Of(h), h.copy) : lane' = [lane EXCEPT ![Of(h)] = s]
    BY <2>1, <2>2
  <2>4. a = Of(h) /\ lane'[a] = s
    BY <1>3, <1>5, <2>3
  <2>5. /\ s \in LaneType
        /\ h.op \notin Suppressors \cup {"recover"} => s.until = h.copy.until
        /\ h.op \in Suppressors => s.until > now
    BY <1>2, <2>2, ChangedSound
  <2>6. s.until \in Int
    BY <2>5 DEF LaneType
  <2>7. h.op \in Suppressors \cup {"recover"}
    BY <1>3, <2>2, <2>4, <2>5, <2>6
  <2>8. h.op \in Suppressors => Suppressed(lane[a])'
    <3>1. now' = now
      BY <1>9 DEF Apply
    <3> QED BY <2>4, <2>5, <3>1 DEF Suppressed
  <2> QED BY <1>1, <2>1, <2>7, <2>8 DEF Suppressors
<1>10. CASE UNCHANGED lane
  BY <1>5, <1>10
<1> QED BY <1>6, <1>7, <1>8, <1>9, <1>10 DEF Calling, Read, Refresh, Publish

\* With operations one after another, only its time, RecoverLane or another
\* suppression ends a suppression, whatever their lengths are: no probe, sync,
\* report or success opens the lane early.
THEOREM SuppressionStandsCorrect == Spec => SuppressionStands
<1>1. LanesInv /\ [Next]_vars => [Stands]_vars
  <2> SUFFICES ASSUME LanesInv, Next PROVE Stands
    OBVIOUS
  <2>1. ASSUME UNCHANGED lane PROVE Stands
    <3>1. \A a \in Agents : lane[a].until \in Int
      <4>1. \A a \in Agents : lane[a] \in LaneType
        BY Typing
      <4> QED BY <4>1 DEF LaneType
    <3> QED BY <2>1, <3>1 DEF Stands
  <2>2. ASSUME NEW c \in Callers, NEW a \in Agents, Execution(c, a) \/ Dispatch(c, a) \/ Request(c, a) PROVE Stands
    BY <2>1, <2>2 DEF Execution, Dispatch, Request, Begin
  <2>3. ASSUME NEW c \in Callers, Calling(c) PROVE Stands
    BY <2>3, StandsStep
  <2>4. CASE Elapse
    BY <2>1, <2>4 DEF Elapse
  <2> QED BY <2>2, <2>3, <2>4 DEF Next
<1>2. SuppressionStands <=> [][Stands]_vars
  BY PTL DEF SuppressionStands, Stands
<1> QED BY <1>1, <1>2, LanesInit, LanesNext, PTL DEF Spec

-----------------------------------------------------------------------------
(* What is remembered.                                                     *)

Pairs == [item : MeItems, text : MeTexts]
WriteType == [pc : {"record", "chunks"}, item : MeItems, text : MeTexts, alone : BOOLEAN]
ChunkType == [item : MeItems \cup {Prompt}, text : MeTexts \cup {1}, size : Sizes]
RecordOf(i) == [text : MeTexts, size : IF i.kind = "memory" THEN Sizes ELSE {"none"}]
HitType == [item : MeItems \cup {Prompt}, text : MeTexts \cup {1}]
ReaderType == [pc : {"idle", "chunks", "global", "memories", "documents", "done"},
               deep : BOOLEAN, size : Sizes, limit : Nat, hits : SUBSET HitType,
               known : SUBSET Pairs, cut : BOOLEAN, gaps : BOOLEAN]
AtMostOne(S, T) == S = {} \/ \E x \in T : S = {x}

MeTyped ==
  /\ meRecord \in [MeItems -> SUBSET UNION {RecordOf(i) : i \in MeItems}]
  /\ \A i \in MeItems : AtMostOne(meRecord[i], RecordOf(i))
  /\ meChunks \subseteq ChunkType
  /\ meWriter \in [MeWriters -> SUBSET WriteType]
  /\ \A w \in MeWriters : AtMostOne(meWriter[w], WriteType)
  /\ meReader \in ReaderType
  /\ meWrites \in Nat /\ meAcked \subseteq Pairs /\ meFailed \subseteq Pairs

\* A write that is alone has its item for itself, no item being written counts
\* as acknowledged, and a write alone at its chunks finds the record it wrote.
AloneInv == \A v, w \in MeWriters : \A x \in meWriter[v], y \in meWriter[w] : v # w /\ x.alone => x.item # y.item
UnackedInv == \A w \in MeWriters : \A x \in meWriter[w], p \in meAcked : p.item # x.item
HasRecord(i, t) == \E r \in meRecord[i] : r.text = t
RecordInv ==
  \A w \in MeWriters : \A x \in meWriter[w] :
    x.pc = "chunks" /\ x.alone /\ x.item.kind # "exchange" => HasRecord(x.item, x.text)

AckedInv == \A p \in meAcked : Stored(p) /\ (p.item.kind # "exchange" => HasRecord(p.item, p.text))

AtChunks(p) == \E w \in MeWriters : \E x \in meWriter[w] : x.pc = "chunks" /\ Pair(x) = p
HalfInv ==
  \A i \in MeItems : \A r \in meRecord[i] :
    LET p == [item |-> i, text |-> r.text] IN Stored(p) \/ p \in meFailed \/ AtChunks(p)

\* The strengthening of OwnMemoryFound: from the first listing on, because what
\* is known to the retrieval is not written while it goes on.
OwnBranch(i) == i.owner = MeSession /\ i.branch = MeBranch
ReadInv ==
  /\ meReader.known \subseteq meAcked
  /\ meReader.pc \in {"global", "memories", "documents", "done"} /\ ~meReader.cut =>
       \A p \in meReader.known :
         OwnBranch(p.item) /\ (\E c \in meChunks : Pair(c) = p /\ c.size = meReader.size) => Found(p)
  /\ DocumentsFound

MeInv == MeTyped /\ AloneInv /\ UnackedInv /\ RecordInv /\ AckedInv /\ HalfInv /\ ReadInv

LEMMA TheOnly == ASSUME NEW S, NEW x, S = {x} PROVE (CHOOSE y \in S : TRUE) = x
  OBVIOUS

LEMMA PairFields ==
  ASSUME NEW x, NEW p \in Pairs
  PROVE  /\ (Pair(x) = p <=> x.item = p.item /\ x.text = p.text)
<1>1. p = [item |-> p.item, text |-> p.text]
  BY DEF Pairs
<1> QED BY <1>1 DEF Pair

LEMMA WriteIs ==
  ASSUME MeTyped, NEW w \in MeWriters, meWriter[w] # {}
  PROVE  /\ Write(w) \in WriteType /\ meWriter[w] = {Write(w)}
         /\ Write(w).item \in MeItems /\ Write(w).text \in MeTexts /\ Write(w).alone \in BOOLEAN
         /\ Write(w).pc \in {"record", "chunks"} /\ Pair(Write(w)) \in Pairs
<1>1. PICK x \in WriteType : meWriter[w] = {x}
  BY DEF MeTyped, AtMostOne
<1>2. Write(w) = x
  BY <1>1, TheOnly DEF Write
<1>3. x.item \in MeItems /\ x.text \in MeTexts /\ x.alone \in BOOLEAN /\ x.pc \in {"record", "chunks"}
  BY DEF WriteType
<1> QED BY <1>1, <1>2, <1>3 DEF Pair, Pairs

LEMMA MeInvSound == ASSUME MeInv PROVE RecordsFound
<1>1. MeTypeOK
  <2>1. ASSUME NEW i \in MeItems PROVE Cardinality(meRecord[i]) <= 1
    <3>1. meRecord[i] = {} \/ \E r : meRecord[i] = {r}
      BY DEF MeInv, MeTyped, AtMostOne
    <3>2. CASE meRecord[i] = {}
      <4>1. Cardinality(meRecord[i]) = 0
        BY <3>2, FS_EmptySet
      <4> QED BY <4>1
    <3>3. ASSUME NEW r, meRecord[i] = {r} PROVE Cardinality(meRecord[i]) <= 1
      <4>1. Cardinality(meRecord[i]) = 1
        BY <3>3, FS_Singleton
      <4> QED BY <4>1
    <3> QED BY <3>1, <3>2, <3>3
  <2>2. \A c \in meChunks : c.item \in MeItems \cup {Prompt} /\ c.text \in MeTexts \cup {1} /\ c.size \in Sizes
    BY DEF MeInv, MeTyped, ChunkType
  <2>3. \A w \in MeWriters : meWriter[w] # {} => Write(w).pc \in {"record", "chunks"}
    BY WriteIs DEF MeInv
  <2>4. meReader.pc \in {"idle", "chunks", "global", "memories", "documents", "done"}
    BY DEF MeInv, MeTyped, ReaderType
  <2> QED BY <2>1, <2>2, <2>3, <2>4 DEF MeTypeOK
<1>2. AckedWhole
  BY DEF MeInv, AckedInv, AckedWhole, HasRecord
<1>3. HalfOnlyByFailure
  <2> SUFFICES ASSUME NEW i \in MeItems, NEW r \in meRecord[i], NEW p, p = [item |-> i, text |-> r.text],
                      ~Stored(p), p \notin meFailed
               PROVE  \E w \in MeWriters : Writing(w, "chunks") /\ Pair(Write(w)) = p
    BY DEF HalfOnlyByFailure
  <2>1. AtChunks(p)
    BY DEF MeInv, HalfInv
  <2>2. PICK w \in MeWriters : \E x \in meWriter[w] : x.pc = "chunks" /\ Pair(x) = p
    BY <2>1 DEF AtChunks
  <2>3. meWriter[w] = {Write(w)}
    BY <2>2, WriteIs DEF MeInv
  <2> QED BY <2>2, <2>3 DEF Writing
<1>4. OwnMemoryFound /\ DocumentsFound
  BY DEF MeInv, ReadInv, OwnMemoryFound, OwnBranch
<1> QED BY <1>1, <1>2, <1>3, <1>4 DEF RecordsFound

LEMMA MeInitInv == MeInit => MeInv
<1> SUFFICES ASSUME MeInit PROVE MeInv
  OBVIOUS
<1>1. Unread \in ReaderType /\ Unread.known = {} /\ Unread.pc = "idle"
  BY DEF Unread, ReaderType, Sizes
<1>2. MeTyped
  BY <1>1 DEF MeInit, MeTyped, AtMostOne
<1>3. AloneInv /\ UnackedInv /\ RecordInv /\ AckedInv /\ HalfInv
  BY DEF MeInit, AloneInv, UnackedInv, RecordInv, AckedInv, HalfInv
<1>4. ReadInv
  BY <1>1 DEF MeInit, ReadInv, DocumentsFound
<1> QED BY <1>2, <1>3, <1>4 DEF MeInv

\* What is said of the writers when a write begins: the others keep their
\* writes, those of the same item no longer alone.
LEMMA WriteBeginStep ==
  ASSUME MeInv, NEW w \in MeWriters, WriteBegin(w)
  PROVE  MeInv'
<1>1. PICK i \in MeItems, t \in MeTexts :
        LET others == {v \in MeWriters : meWriter[v] # {} /\ Write(v).item = i} IN
        /\ meWriter' = [v \in MeWriters |->
             IF v = w THEN {[pc |-> IF i.kind = "exchange" THEN "chunks" ELSE "record",
                              item |-> i, text |-> t, alone |-> others = {}]}
             ELSE IF v \in others THEN {[Write(v) EXCEPT !.alone = FALSE]}
             ELSE meWriter[v]]
        /\ meAcked' = meAcked \ OfItem(i, meAcked)
        /\ meReader' = [meReader EXCEPT !.known = @ \ OfItem(i, @)]
  BY DEF WriteBegin
<1>2. MeTyped /\ meWriter[w] = {} /\ UNCHANGED <<meRecord, meChunks, meFailed>> /\ meWrites' \in Nat
  BY DEF WriteBegin, MeInv, MeTyped
<1>3. PICK others : others = {v \in MeWriters : meWriter[v] # {} /\ Write(v).item = i}
  OBVIOUS
<1>4. PICK x \in WriteType : /\ x = [pc |-> IF i.kind = "exchange" THEN "chunks" ELSE "record",
                                    item |-> i, text |-> t, alone |-> others = {}]
                             /\ x.item = i /\ (x.alone => others = {}) /\ (i.kind # "exchange" => x.pc = "record")
  <2>1. (others = {}) \in BOOLEAN
    OBVIOUS
  <2>2. PICK al \in BOOLEAN : al = (others = {})
    BY <2>1
  <2>3. PICK q \in {"record", "chunks"} : q = IF i.kind = "exchange" THEN "chunks" ELSE "record"
    OBVIOUS
  <2>4. PICK x : x = [pc |-> q, item |-> i, text |-> t, alone |-> al]
    OBVIOUS
  <2>5. x \in WriteType /\ x.item = i /\ x.alone = al /\ x.pc = q
    BY <2>4 DEF WriteType
  <2> QED BY <2>2, <2>3, <2>4, <2>5
<1>5. /\ meWriter'[w] = {x}
      /\ \A v \in others \ {w} : meWriter'[v] = {[Write(v) EXCEPT !.alone = FALSE]}
      /\ \A v \in MeWriters \ (others \cup {w}) : meWriter'[v] = meWriter[v]
      /\ meWriter' = [v \in MeWriters |-> meWriter'[v]]
  BY <1>1, <1>3, <1>4
<1>6. ASSUME NEW v \in MeWriters \ {w}, NEW y \in meWriter'[v]
      PROVE  \E z \in meWriter[v] : /\ y \in WriteType /\ y.pc = z.pc /\ y.item = z.item /\ y.text = z.text
                                    /\ (y.alone => z.alone /\ y.item # i) /\ meWriter'[v] = {y}
  <2>1. CASE v \in others
    <3>1. Write(v) \in WriteType /\ meWriter[v] = {Write(v)}
      BY <1>2, <1>3, <2>1, WriteIs
    <3>2. y = [Write(v) EXCEPT !.alone = FALSE] /\ meWriter'[v] = {y}
      <4>1. meWriter'[v] = {[Write(v) EXCEPT !.alone = FALSE]}
        BY <1>5, <2>1
      <4> QED BY <1>6, <4>1
    <3>3. y \in WriteType /\ y.pc = Write(v).pc /\ y.item = Write(v).item /\ y.text = Write(v).text /\ ~y.alone
      BY <3>1, <3>2 DEF WriteType
    <3> QED BY <3>1, <3>2, <3>3
  <2>2. CASE v \notin others
    <3>1. meWriter'[v] = meWriter[v]
      BY <1>5, <2>2
    <3>2. Write(v) \in WriteType /\ meWriter[v] = {Write(v)}
      BY <1>2, <1>6, <3>1, WriteIs
    <3>3. y = Write(v) /\ y.item # i
      BY <1>3, <1>6, <2>2, <3>1, <3>2
    <3> QED BY <3>1, <3>2, <3>3
  <2> QED BY <2>1, <2>2
<1>7. ASSUME NEW v \in MeWriters, NEW z \in meWriter[v]
      PROVE  \E y \in meWriter'[v] : y.pc = z.pc /\ y.item = z.item /\ y.text = z.text
  <2>1. v # w
    BY <1>2, <1>7
  <2>2. Write(v) \in WriteType /\ meWriter[v] = {Write(v)}
    BY <1>2, <1>7, WriteIs
  <2>3. CASE v \in others
    <3>1. PICK y : y = [Write(v) EXCEPT !.alone = FALSE] /\ meWriter'[v] = {y}
      BY <1>5, <2>1, <2>3
    <3>2. y.pc = Write(v).pc /\ y.item = Write(v).item /\ y.text = Write(v).text
      BY <2>2, <3>1 DEF WriteType
    <3> QED BY <1>7, <2>2, <3>1, <3>2
  <2>4. CASE v \notin others
    BY <1>5, <1>7, <2>1, <2>4
  <2> QED BY <2>3, <2>4
<1>8. /\ meAcked' \subseteq meAcked /\ meAcked' \subseteq Pairs /\ \A p \in meAcked' : p.item # i
  BY <1>1, <1>2 DEF OfItem, MeTyped
<1>9. /\ meReader' \in ReaderType /\ meReader'.pc = meReader.pc /\ meReader'.deep = meReader.deep
      /\ meReader'.size = meReader.size /\ meReader'.hits = meReader.hits /\ meReader'.gaps = meReader.gaps
      /\ meReader'.cut = meReader.cut
      /\ meReader'.known = meReader.known \ OfItem(i, meReader.known) /\ meReader'.known \subseteq meReader.known
  <2>1. meReader \in ReaderType /\ meReader' = [meReader EXCEPT !.known = @ \ OfItem(i, @)]
    BY <1>1, <1>2 DEF MeTyped
  <2>2. meReader.known \ OfItem(i, meReader.known) \in SUBSET Pairs
    BY <2>1 DEF ReaderType
  <2> QED BY <2>1, <2>2 DEF ReaderType
<1>10. MeTyped'
  <2>1. \A v \in MeWriters : AtMostOne(meWriter'[v], WriteType)
    <3> TAKE v \in MeWriters
    <3>1. CASE v = w
      BY <1>5, <3>1 DEF AtMostOne
    <3>2. CASE v # w
      BY <1>6, <3>2 DEF AtMostOne
    <3> QED BY <3>1, <3>2
  <2>2. meWriter' \in [MeWriters -> SUBSET WriteType]
    BY <1>5, <2>1 DEF AtMostOne
  <2> QED BY <1>2, <1>8, <1>9, <2>1, <2>2 DEF MeTyped
<1>11. AloneInv'
  <2> SUFFICES ASSUME NEW u \in MeWriters, NEW v \in MeWriters, NEW y \in meWriter'[u], NEW z \in meWriter'[v], u # v, y.alone
               PROVE  y.item # z.item
    BY DEF AloneInv
  <2>1. CASE u = w
    <3>1. others = {}
      BY <1>4, <1>5, <2>1
    <3>2. PICK b \in meWriter[v] : z.item = b.item
      BY <1>6, <2>1
    <3>3. meWriter[v] = {Write(v)}
      BY <1>2, <3>2, WriteIs
    <3> QED BY <1>3, <1>4, <1>5, <2>1, <3>1, <3>2, <3>3
  <2>2. CASE u # w /\ v = w
    BY <1>4, <1>5, <1>6, <2>2
  <2>3. CASE u # w /\ v # w
    BY <1>6, <2>3 DEF MeInv, AloneInv
  <2> QED BY <2>1, <2>2, <2>3
<1>12. UnackedInv'
  <2> SUFFICES ASSUME NEW v \in MeWriters, NEW y \in meWriter'[v], NEW p \in meAcked' PROVE p.item # y.item
    BY DEF UnackedInv
  <2>1. CASE v = w
    BY <1>4, <1>5, <1>8, <2>1
  <2>2. CASE v # w
    BY <1>6, <1>8, <2>2 DEF MeInv, UnackedInv
  <2> QED BY <2>1, <2>2
<1>13. RecordInv'
  <2> SUFFICES ASSUME NEW v \in MeWriters, NEW y \in meWriter'[v], y.pc = "chunks", y.alone, y.item.kind # "exchange"
               PROVE  HasRecord(y.item, y.text)
    BY <1>2 DEF RecordInv, HasRecord
  <2>1. v # w
    BY <1>4, <1>5
  <2> QED BY <1>6, <2>1 DEF MeInv, RecordInv
<1>14. AckedInv'
  BY <1>2, <1>8 DEF MeInv, AckedInv, Stored, HasRecord
<1>15. HalfInv'
  <2> SUFFICES ASSUME NEW j \in MeItems, NEW r \in meRecord[j], NEW p, p = [item |-> j, text |-> r.text],
                      ~Stored(p), p \notin meFailed
               PROVE  \E v \in MeWriters : \E y \in meWriter'[v] : y.pc = "chunks" /\ Pair(y) = p
    BY <1>2 DEF HalfInv, Stored, AtChunks
  <2>1. PICK v \in MeWriters : \E z \in meWriter[v] : z.pc = "chunks" /\ Pair(z) = p
    BY DEF MeInv, HalfInv, AtChunks
  <2> QED BY <1>7, <2>1, SMTT(40) DEF Pair
<1>16. ReadInv'
  <2>1. meReader'.known \subseteq meAcked'
    BY <1>1, <1>9 DEF MeInv, ReadInv, OfItem
  <2>2. \A p : Found(p)' <=> Found(p)
    BY <1>9 DEF Found
  <2> QED BY <1>2, <1>9, <2>1, <2>2 DEF MeInv, ReadInv, DocumentsFound
<1> QED BY <1>10, <1>11, <1>12, <1>13, <1>14, <1>15, <1>16 DEF MeInv

LEMMA UpsertRecordStep ==
  ASSUME MeInv, NEW w \in MeWriters, UpsertRecord(w)
  PROVE  MeInv'
<1>1. PICK x : x = Write(w)
  OBVIOUS
<1>2. /\ MeTyped /\ x \in WriteType /\ meWriter[w] = {x} /\ x.pc = "record" /\ x.item \in MeItems /\ x.text \in MeTexts
      /\ UNCHANGED <<meChunks, meReader, meWrites, meAcked, meFailed>>
  BY <1>1, WriteIs DEF UpsertRecord, Writing, MeInv
<1>3. PICK r \in RecordOf(x.item) : r.text = x.text /\ meRecord' = [meRecord EXCEPT ![x.item] = {r}]
  <2>1. PICK size \in IF x.item.kind = "memory" THEN Sizes ELSE {"none"} :
          meRecord' = [meRecord EXCEPT ![x.item] = {[text |-> x.text, size |-> size]}]
    BY <1>1 DEF UpsertRecord
  <2>2. [text |-> x.text, size |-> size] \in RecordOf(x.item)
    BY <1>2 DEF RecordOf
  <2> QED BY <2>1, <2>2
<1>4. PICK y \in WriteType : /\ y.pc = "chunks" /\ y.item = x.item /\ y.text = x.text /\ y.alone = x.alone
                             /\ meWriter' = [meWriter EXCEPT ![w] = {y}]
  <2>1. PICK y : y = [x EXCEPT !.pc = "chunks"]
    OBVIOUS
  <2>2. y \in WriteType /\ y.pc = "chunks" /\ y.item = x.item /\ y.text = x.text /\ y.alone = x.alone
    BY <1>2, <2>1 DEF WriteType
  <2>3. meWriter' = [meWriter EXCEPT ![w] = {y}]
    BY <1>1, <2>1 DEF UpsertRecord
  <2> QED BY <2>2, <2>3
<1>5. meWriter'[w] = {y} /\ \A v \in MeWriters \ {w} : meWriter'[v] = meWriter[v]
  BY <1>2, <1>4 DEF MeTyped
<1>6. meRecord'[x.item] = {r} /\ \A i \in MeItems \ {x.item} : meRecord'[i] = meRecord[i]
  BY <1>2, <1>3 DEF MeTyped
<1>7. MeTyped'
  <2>1. meRecord' \in [MeItems -> SUBSET UNION {RecordOf(i) : i \in MeItems}]
    BY <1>2, <1>3 DEF MeTyped
  <2>2. \A i \in MeItems : AtMostOne(meRecord'[i], RecordOf(i))
    BY <1>2, <1>6 DEF MeTyped, AtMostOne
  <2>3. meWriter' \in [MeWriters -> SUBSET WriteType] /\ \A v \in MeWriters : AtMostOne(meWriter'[v], WriteType)
    BY <1>2, <1>4, <1>5 DEF MeTyped, AtMostOne
  <2> QED BY <1>2, <2>1, <2>2, <2>3 DEF MeTyped
<1>8. AloneInv' /\ UnackedInv'
  BY <1>2, <1>4, <1>5 DEF MeInv, AloneInv, UnackedInv
<1>9. RecordInv'
  <2> SUFFICES ASSUME NEW v \in MeWriters, NEW z \in meWriter'[v], z.pc = "chunks", z.alone, z.item.kind # "exchange"
               PROVE  \E q \in meRecord'[z.item] : q.text = z.text
    BY DEF RecordInv, HasRecord
  <2>1. CASE v = w
    BY <1>3, <1>4, <1>5, <1>6, <2>1
  <2>2. CASE v # w
    <3>1. z \in meWriter[v] /\ x \in meWriter[w] /\ z.item # x.item /\ z.item \in MeItems
      BY <1>2, <1>5, <2>2 DEF MeInv, AloneInv, MeTyped, WriteType
    <3> QED BY <1>6, <3>1 DEF MeInv, RecordInv, HasRecord
  <2> QED BY <2>1, <2>2
<1>10. AckedInv'
  <2> SUFFICES ASSUME NEW p \in meAcked
               PROVE  Stored(p) /\ (p.item.kind # "exchange" => \E q \in meRecord'[p.item] : q.text = p.text)
    BY <1>2 DEF AckedInv, HasRecord, Stored
  <2>1. p.item # x.item /\ p.item \in MeItems
    BY <1>2 DEF MeInv, UnackedInv, MeTyped, Pairs
  <2> QED BY <1>6, <2>1 DEF MeInv, AckedInv, HasRecord
<1>11. HalfInv'
  <2> SUFFICES ASSUME NEW j \in MeItems, NEW q \in meRecord'[j], NEW p, p = [item |-> j, text |-> q.text],
                      ~Stored(p), p \notin meFailed
               PROVE  \E v \in MeWriters : \E z \in meWriter'[v] : z.pc = "chunks" /\ Pair(z) = p
    BY <1>2 DEF HalfInv, Stored, AtChunks
  <2>1. CASE j = x.item
    BY <1>3, <1>4, <1>5, <1>6, <2>1 DEF Pair
  <2>2. CASE j # x.item
    <3>1. PICK v \in MeWriters : \E z \in meWriter[v] : z.pc = "chunks" /\ Pair(z) = p
      BY <1>6, <2>2 DEF MeInv, HalfInv, AtChunks
    <3>2. v # w
      BY <1>2, <3>1
    <3> QED BY <1>5, <3>1, <3>2
  <2> QED BY <2>1, <2>2
<1>12. ReadInv'
  BY <1>2 DEF MeInv, ReadInv, DocumentsFound, Found
<1> QED BY <1>7, <1>8, <1>9, <1>10, <1>11, <1>12 DEF MeInv

\* A chunk replaces the one of the same item and text and no other.
Adds(new, i, t, size) == new = OfOthers(i, t) \cup {[item |-> i, text |-> t, size |-> size]}
Added(new, i, t) ==
  /\ new \subseteq ChunkType
  /\ \A p : Stored(p) => \E c \in new : Pair(c) = p
  /\ \E c \in new : Pair(c) = [item |-> i, text |-> t]
  /\ \A c \in new : c \in meChunks \/ Pair(c) = [item |-> i, text |-> t]

LEMMA ChunkAdded ==
  ASSUME MeTyped, NEW i \in MeItems \cup {Prompt}, NEW t \in MeTexts \cup {1}, NEW size \in Sizes,
         NEW new, Adds(new, i, t, size)
  PROVE  Added(new, i, t)
<1>1. PICK k : k = [item |-> i, text |-> t, size |-> size]
  OBVIOUS
<1>2. k \in ChunkType /\ k.item = i /\ k.text = t
  BY <1>1 DEF ChunkType
<1>3. Pair(k) = [item |-> i, text |-> t]
  BY <1>2 DEF Pair
<1>4. k \in new /\ OfOthers(i, t) \subseteq new /\ new \subseteq meChunks \cup {k}
  BY <1>1 DEF OfOthers, Adds
<1>5. new \subseteq ChunkType
  BY <1>2, <1>4 DEF MeTyped
<1>6. ASSUME NEW p, Stored(p) PROVE \E c \in new : Pair(c) = p
  <2>1. PICK c \in meChunks : Pair(c) = p
    BY <1>6 DEF Stored
  <2>2. CASE p = [item |-> i, text |-> t]
    BY <1>3, <1>4, <2>2
  <2>3. CASE p # [item |-> i, text |-> t]
    <3>1. c \in OfOthers(i, t)
      BY <2>1, <2>3 DEF OfOthers
    <3> QED BY <1>4, <2>1, <3>1
  <2> QED BY <2>2, <2>3
<1> QED BY <1>3, <1>4, <1>5, <1>6 DEF Added

LEMMA IngestTextStep ==
  ASSUME MeInv, NEW w \in MeWriters, IngestText(w)
  PROVE  MeInv'
<1>1. PICK x : x = Write(w)
  OBVIOUS
<1>2. /\ MeTyped /\ x \in WriteType /\ meWriter[w] = {x} /\ x.pc = "chunks" /\ x.item \in MeItems /\ x.text \in MeTexts
      /\ x.alone \in BOOLEAN /\ UNCHANGED <<meRecord, meReader, meWrites, meFailed>>
  BY <1>1, WriteIs DEF IngestText, Writing, MeInv
<1>3. PICK q \in Pairs : q = Pair(x) /\ q = [item |-> x.item, text |-> x.text] /\ q.item = x.item /\ q.text = x.text
  <2>1. PICK q : q = [item |-> x.item, text |-> x.text]
    OBVIOUS
  <2>2. q \in Pairs /\ q.item = x.item /\ q.text = x.text
    BY <1>2, <2>1 DEF Pairs
  <2> QED BY <2>1, <2>2 DEF Pair
<1>4. /\ meChunks' \subseteq ChunkType /\ (\A p : Stored(p) => Stored(p)') /\ Stored(q)'
      /\ \A c \in meChunks' : c \in meChunks \/ Pair(c) = q
  <2>1. PICK size \in Sizes : meChunks' = OfOthers(x.item, x.text) \cup {[item |-> x.item, text |-> x.text, size |-> size]}
    BY <1>1 DEF IngestText
  <2>2. PICK new : new = meChunks'
    OBVIOUS
  <2>3. PICK i \in MeItems \cup {Prompt}, t \in MeTexts \cup {1} : i = x.item /\ t = x.text
    BY <1>2
  <2>4. /\ new \subseteq ChunkType
        /\ \A p : Stored(p) => \E c \in new : Pair(c) = p
        /\ \E c \in new : Pair(c) = [item |-> i, text |-> t]
        /\ \A c \in new : c \in meChunks \/ Pair(c) = [item |-> i, text |-> t]
    <3>1. Adds(new, i, t, size)
      BY <2>1, <2>2, <2>3 DEF Adds
    <3>2. Added(new, i, t)
      BY <1>2, <3>1, ChunkAdded
    <3> QED BY <3>2 DEF Added
  <2>5. \A p : (Stored(p)' <=> \E c \in new : Pair(c) = p)
    BY <2>2 DEF Stored
  <2> QED BY <1>3, <2>2, <2>3, <2>4, <2>5
<1>5. meWriter'[w] = {} /\ \A v \in MeWriters \ {w} : meWriter'[v] = meWriter[v]
  BY <1>2 DEF MeTyped, IngestText
<1>6. meAcked' \subseteq meAcked \cup {q} /\ (q \in meAcked' => q \in meAcked \/ x.alone) /\ meAcked \subseteq meAcked'
  BY <1>1, <1>2, <1>3 DEF IngestText
<1>7. MeTyped'
  <2>1. meWriter' \in [MeWriters -> SUBSET WriteType] /\ \A v \in MeWriters : AtMostOne(meWriter'[v], WriteType)
    BY <1>2, <1>5 DEF IngestText, MeTyped, AtMostOne
  <2>2. meAcked' \subseteq Pairs
    BY <1>2, <1>6 DEF MeTyped
  <2> QED BY <1>2, <1>4, <2>1, <2>2 DEF MeTyped
<1>8. AloneInv'
  BY <1>5 DEF MeInv, AloneInv
<1>9. UnackedInv'
  <2> SUFFICES ASSUME NEW v \in MeWriters, NEW y \in meWriter'[v], NEW p \in meAcked' PROVE p.item # y.item
    BY DEF UnackedInv
  <2>1. v # w /\ y \in meWriter[v] /\ x \in meWriter[w]
    BY <1>2, <1>5
  <2>2. CASE p \in meAcked
    BY <2>1, <2>2 DEF MeInv, UnackedInv
  <2>3. CASE p \notin meAcked
    <3>1. p = q /\ x.alone
      BY <1>6, <2>3
    <3>2. x.item # y.item
      BY <2>1, <3>1 DEF MeInv, AloneInv
    <3> QED BY <1>3, <3>1, <3>2
  <2> QED BY <2>2, <2>3
<1>10. RecordInv'
  <2> SUFFICES ASSUME NEW v \in MeWriters, NEW z \in meWriter'[v], z.pc = "chunks", z.alone, z.item.kind # "exchange"
               PROVE  HasRecord(z.item, z.text)
    BY <1>2 DEF RecordInv, HasRecord
  <2> QED BY <1>5 DEF MeInv, RecordInv
<1>11. AckedInv'
  <2> SUFFICES ASSUME NEW p \in meAcked'
               PROVE  Stored(p)' /\ (p.item.kind # "exchange" => HasRecord(p.item, p.text))
    BY <1>2 DEF AckedInv, HasRecord
  <2>1. CASE p \in meAcked
    BY <1>4, <2>1 DEF MeInv, AckedInv
  <2>2. CASE p \notin meAcked
    <3>1. p = q /\ x.alone
      BY <1>6, <2>2
    <3>2. x.item.kind # "exchange" => HasRecord(x.item, x.text)
      BY <1>2, <3>1 DEF MeInv, RecordInv
    <3> QED BY <1>3, <1>4, <3>1, <3>2
  <2> QED BY <2>1, <2>2
<1>12. HalfInv'
  <2> SUFFICES ASSUME NEW j \in MeItems, NEW r \in meRecord[j], NEW p, p = [item |-> j, text |-> r.text],
                      ~Stored(p)', p \notin meFailed
               PROVE  \E v \in MeWriters : \E z \in meWriter'[v] : z.pc = "chunks" /\ Pair(z) = p
    BY <1>2 DEF HalfInv, AtChunks
  <2>1. ~Stored(p) /\ p # q
    BY <1>4
  <2>2. PICK v \in MeWriters : \E z \in meWriter[v] : z.pc = "chunks" /\ Pair(z) = p
    BY <2>1 DEF MeInv, HalfInv, AtChunks
  <2>3. v # w
    BY <1>2, <1>3, <2>1, <2>2
  <2> QED BY <1>5, <2>2, <2>3
<1>13. ReadInv'
  <2>1. meReader' = meReader /\ \A p : (Found(p)' <=> Found(p))
    BY <1>2 DEF Found
  <2>2. ASSUME NEW p \in meReader.known, NEW c \in meChunks', Pair(c) = p PROVE c \in meChunks
    <3>1. p \in meAcked /\ x \in meWriter[w]
      BY <1>2 DEF MeInv, ReadInv
    <3>2. p.item # x.item
      BY <3>1 DEF MeInv, UnackedInv
    <3> QED BY <1>3, <1>4, <2>2, <3>2
  <2>3. meReader.known \subseteq meAcked'
    BY <1>6 DEF MeInv, ReadInv
  <2>4. DocumentsFound'
    BY <2>1 DEF MeInv, ReadInv, DocumentsFound
  <2>5. ASSUME meReader.pc \in {"global", "memories", "documents", "done"}, ~meReader.cut, NEW p \in meReader.known,
               OwnBranch(p.item), NEW c \in meChunks', Pair(c) = p, c.size = meReader.size
        PROVE  Found(p)
    BY <2>2, <2>5 DEF MeInv, ReadInv
  <2> QED BY <2>1, <2>3, <2>4, <2>5 DEF ReadInv
<1> QED BY <1>7, <1>8, <1>9, <1>10, <1>11, <1>12, <1>13 DEF MeInv

LEMMA WriteFailsStep ==
  ASSUME MeInv, NEW w \in MeWriters, WriteFails(w)
  PROVE  MeInv'
<1>1. PICK x : x = Write(w)
  OBVIOUS
<1>2. /\ MeTyped /\ x \in WriteType /\ meWriter[w] = {x} /\ Pair(x) \in Pairs
      /\ UNCHANGED <<meRecord, meChunks, meReader, meWrites, meAcked>> /\ meFailed' = meFailed \cup {Pair(x)}
  BY <1>1, WriteIs DEF WriteFails, MeInv
<1>3. meWriter'[w] = {} /\ \A v \in MeWriters \ {w} : meWriter'[v] = meWriter[v]
  BY <1>2 DEF MeTyped, WriteFails
<1>4. MeTyped'
  <2>1. meWriter' \in [MeWriters -> SUBSET WriteType] /\ \A v \in MeWriters : AtMostOne(meWriter'[v], WriteType)
    BY <1>2, <1>3 DEF WriteFails, MeTyped, AtMostOne
  <2> QED BY <1>2, <2>1 DEF MeTyped
<1>5. AloneInv' /\ UnackedInv'
  BY <1>2, <1>3 DEF MeInv, AloneInv, UnackedInv
<1>6. RecordInv' /\ AckedInv'
  BY <1>2, <1>3 DEF MeInv, RecordInv, AckedInv, HasRecord, Stored
<1>7. HalfInv'
  <2> SUFFICES ASSUME NEW j \in MeItems, NEW r \in meRecord[j], NEW p, p = [item |-> j, text |-> r.text],
                      ~Stored(p), p \notin meFailed'
               PROVE  \E v \in MeWriters : \E z \in meWriter'[v] : z.pc = "chunks" /\ Pair(z) = p
    BY <1>2 DEF HalfInv, Stored, AtChunks
  <2>1. p \notin meFailed /\ p # Pair(x)
    BY <1>2
  <2>2. PICK v \in MeWriters : \E z \in meWriter[v] : z.pc = "chunks" /\ Pair(z) = p
    BY <2>1 DEF MeInv, HalfInv, AtChunks
  <2>3. v # w
    BY <1>2, <2>1, <2>2
  <2> QED BY <1>3, <2>2, <2>3
<1>8. ReadInv'
  BY <1>2 DEF MeInv, ReadInv, DocumentsFound, Found
<1> QED BY <1>4, <1>5, <1>6, <1>7, <1>8 DEF MeInv

\* A step of the retrieval that stores nothing leaves the writers as they are.
LEMMA ReaderKeeps ==
  ASSUME MeInv, UNCHANGED <<meRecord, meChunks, meWriter, meWrites, meAcked, meFailed>>,
         meReader' \in ReaderType, ReadInv'
  PROVE  MeInv'
<1>1. MeTyped'
  BY DEF MeInv, MeTyped
<1>2. AloneInv' /\ UnackedInv' /\ RecordInv' /\ AckedInv' /\ HalfInv'
  BY DEF MeInv, AloneInv, UnackedInv, RecordInv, AckedInv, HalfInv, HasRecord, Stored, AtChunks
<1> QED BY <1>1, <1>2 DEF MeInv

LEMMA RetrieveStep == ASSUME MeInv, Retrieve PROVE MeInv'
<1>1. PICK deep \in BOOLEAN, size \in Sizes, limit \in MeLimits :
        meReader' = [Unread EXCEPT !.pc = "chunks", !.deep = deep, !.size = size, !.limit = limit, !.known = meAcked]
  BY DEF Retrieve
<1>2. Unread \in ReaderType
  BY DEF Unread, ReaderType, Sizes
<1>3. meAcked \in SUBSET Pairs /\ limit \in Nat
  BY MemoryAssumption DEF MeInv, MeTyped
<1>4. meReader' \in ReaderType /\ meReader'.pc = "chunks" /\ meReader'.known = meAcked
  BY <1>1, <1>2, <1>3 DEF ReaderType
<1>5. UNCHANGED <<meRecord, meChunks, meWriter, meWrites, meAcked, meFailed>>
  BY DEF Retrieve
<1>6. ReadInv'
  BY <1>4, <1>5 DEF ReadInv, DocumentsFound
<1> QED BY <1>4, <1>5, <1>6, ReaderKeeps

LEMMA HitsFound ==
  ASSUME NEW S, NEW x \in S, Comparable(x.size), NEW p, Pair(x) = p
  PROVE  p \in Hits(S)
  BY DEF Hits

LEMMA HitsTyped ==
  ASSUME NEW S, \A x \in S : x.item \in MeItems \cup {Prompt} /\ x.text \in MeTexts \cup {1}
  PROVE  \A T \in Recent(S) : Hits(T) \subseteq HitType
<1> SUFFICES ASSUME NEW T \in Recent(S), NEW x \in T PROVE Pair(x) \in HitType
  BY DEF Hits
<1>1. x \in S
  BY DEF Recent
<1> QED BY <1>1 DEF Pair, HitType

LEMMA ListChunksStep == ASSUME MeInv, ListChunks PROVE MeInv'
<1>1. UNCHANGED <<meRecord, meChunks, meWriter, meWrites, meAcked, meFailed>> /\ meReader \in ReaderType /\ meReader.pc = "chunks"
  BY DEF ListChunks, MeInv, MeTyped
<1>2. CASE meReader' = Unread
  <2>1. Unread \in ReaderType /\ Unread.known = {} /\ Unread.pc = "idle"
    BY DEF Unread, ReaderType, Sizes
  <2>2. ReadInv'
    BY <1>2, <2>1 DEF ReadInv, DocumentsFound
  <2> QED BY <1>1, <1>2, <2>1, <2>2, ReaderKeeps
<1>3. CASE meReader' # Unread
  <2>1. PICK own : own = {c \in meChunks : c.item.owner = MeSession /\ c.item.branch = MeBranch}
    OBVIOUS
  <2>2. PICK T \in Recent(own), pc \in {"global", "memories"}, cut \in BOOLEAN :
          /\ meReader' = [meReader EXCEPT !.pc = pc, !.hits = Hits(T), !.cut = cut]
          /\ ~cut => Fits(own)
    BY <1>3, <2>1 DEF ListChunks, Fits
  <2>3. PICK more : more = Hits(T)
    OBVIOUS
  <2>4. more \subseteq HitType
    <3>1. \A x \in own : x.item \in MeItems \cup {Prompt} /\ x.text \in MeTexts \cup {1}
      BY <2>1 DEF MeInv, MeTyped, ChunkType
    <3> QED BY <2>2, <2>3, <3>1, HitsTyped
  <2>5. /\ meReader' \in ReaderType /\ meReader'.pc = pc /\ meReader'.hits = more /\ meReader'.size = meReader.size
        /\ meReader'.known = meReader.known /\ meReader'.cut = cut
    BY <1>1, <2>2, <2>3, <2>4 DEF ReaderType
  <2>6. ASSUME ~cut, NEW p \in meReader.known, OwnBranch(p.item), NEW c \in meChunks, Pair(c) = p, c.size = meReader.size
        PROVE  p \in more
    <3>1. p \in Pairs
      BY <1>1 DEF ReaderType
    <3>2. c \in own
      BY <2>1, <2>6, <3>1, PairFields DEF OwnBranch
    <3>3. Comparable(c.size)
      BY <2>6 DEF Comparable
    <3>4. T = own
      BY <2>2, <2>6 DEF Recent
    <3> QED BY <2>3, <2>6, <3>2, <3>3, <3>4, HitsFound
  <2>7. ReadInv'
    <3>1. \A p : (Found(p)' <=> p \in more)
      BY <2>5 DEF Found
    <3>2. meReader'.known \subseteq meAcked'
      BY <1>1, <2>5 DEF MeInv, ReadInv
    <3>3. DocumentsFound'
      BY <2>5 DEF DocumentsFound
    <3> QED BY <1>1, <2>5, <2>6, <3>1, <3>2, <3>3 DEF ReadInv
  <2> QED BY <1>1, <2>5, <2>7, ReaderKeeps
<1> QED BY <1>2, <1>3

\* Later listings only add to what was found.
LEMMA MoreFound ==
  ASSUME MeInv, UNCHANGED <<meRecord, meChunks, meWriter, meWrites, meAcked, meFailed>>,
         meReader.pc \in {"global", "memories", "documents"}, meReader' \in ReaderType,
         meReader.hits \subseteq meReader'.hits, meReader'.size = meReader.size, meReader'.cut = meReader.cut,
         meReader'.known = meReader.known, meReader'.pc \in {"memories", "documents", "done"}, DocumentsFound'
  PROVE  MeInv'
<1>1. \A p : Found(p) => Found(p)'
  BY DEF Found
<1>2. ReadInv'
  BY <1>1 DEF MeInv, ReadInv
<1> QED BY <1>2, ReaderKeeps

LEMMA InScopeTyped ==
  ASSUME MeInv, NEW kind
  PROVE  \A x \in InScope(kind) : x.item \in MeItems \cup {Prompt} /\ x.text \in MeTexts \cup {1}
<1> SUFFICES ASSUME NEW x \in InScope(kind) PROVE x.item \in MeItems \cup {Prompt} /\ x.text \in MeTexts \cup {1}
  OBVIOUS
<1>1. PICK i \in MeItems : \E r \in meRecord[i] : x = [item |-> i, text |-> r.text, size |-> r.size]
  BY DEF InScope
<1>2. PICK r \in meRecord[i] : x = [item |-> i, text |-> r.text, size |-> r.size]
  BY <1>1
<1>3. r \in RecordOf(i)
  BY DEF MeInv, MeTyped, AtMostOne
<1> QED BY <1>2, <1>3 DEF RecordOf

LEMMA ListGlobalStep == ASSUME MeInv, ListGlobal PROVE MeInv'
<1>1. UNCHANGED <<meRecord, meChunks, meWriter, meWrites, meAcked, meFailed>> /\ meReader \in ReaderType /\ meReader.pc = "global"
  BY DEF ListGlobal, MeInv, MeTyped
<1>2. \A x \in meChunks : x.item \in MeItems \cup {Prompt} /\ x.text \in MeTexts \cup {1}
  BY DEF MeInv, MeTyped, ChunkType
<1>3. PICK more \in SUBSET HitType : meReader' = [meReader EXCEPT !.pc = "memories", !.hits = @ \cup more]
  <2>1. ASSUME NEW T \in Recent(meChunks), meReader' = [meReader EXCEPT !.pc = "memories", !.hits = @ \cup Hits(T)]
        PROVE  \E more \in SUBSET HitType : meReader' = [meReader EXCEPT !.pc = "memories", !.hits = @ \cup more]
    BY <1>2, <2>1, HitsTyped
  <2>2. CASE meReader' = [meReader EXCEPT !.pc = "memories"]
    <3>1. meReader' = [meReader EXCEPT !.pc = "memories", !.hits = @ \cup {}]
      BY <1>1, <2>2 DEF ReaderType
    <3> QED BY <3>1
  <2> QED BY <2>1, <2>2 DEF ListGlobal
<1>4. /\ meReader' \in ReaderType /\ meReader.hits \subseteq meReader'.hits /\ meReader'.size = meReader.size
      /\ meReader'.known = meReader.known /\ meReader'.pc = "memories" /\ meReader'.cut = meReader.cut
  BY <1>1, <1>3 DEF ReaderType
<1>5. DocumentsFound'
  BY <1>4 DEF DocumentsFound
<1> QED BY <1>1, <1>4, <1>5, MoreFound

LEMMA ListMemoriesStep == ASSUME MeInv, ListMemories PROVE MeInv'
<1>1. UNCHANGED <<meRecord, meChunks, meWriter, meWrites, meAcked, meFailed>> /\ meReader \in ReaderType /\ meReader.pc = "memories"
  BY DEF ListMemories, MeInv, MeTyped
<1>2. \A x \in InScope("memory") : x.item \in MeItems \cup {Prompt} /\ x.text \in MeTexts \cup {1}
  BY InScopeTyped
<1>3. PICK more \in SUBSET HitType : meReader' = [meReader EXCEPT !.pc = "documents", !.hits = @ \cup more]
  <2>1. ASSUME NEW T \in Recent(InScope("memory")), meReader' = [meReader EXCEPT !.pc = "documents", !.hits = @ \cup Hits(T)]
        PROVE  \E more \in SUBSET HitType : meReader' = [meReader EXCEPT !.pc = "documents", !.hits = @ \cup more]
    BY <1>2, <2>1, HitsTyped
  <2>2. CASE meReader' = [meReader EXCEPT !.pc = "documents"]
    <3>1. meReader' = [meReader EXCEPT !.pc = "documents", !.hits = @ \cup {}]
      BY <1>1, <2>2 DEF ReaderType
    <3> QED BY <3>1
  <2> QED BY <2>1, <2>2 DEF ListMemories
<1>4. /\ meReader' \in ReaderType /\ meReader.hits \subseteq meReader'.hits /\ meReader'.size = meReader.size
      /\ meReader'.known = meReader.known /\ meReader'.pc = "documents" /\ meReader'.cut = meReader.cut
  BY <1>1, <1>3 DEF ReaderType
<1>5. DocumentsFound'
  BY <1>4 DEF DocumentsFound
<1> QED BY <1>1, <1>4, <1>5, MoreFound

LEMMA ListDocumentsStep == ASSUME MeInv, ListDocuments PROVE MeInv'
<1>1. UNCHANGED <<meRecord, meChunks, meWriter, meWrites, meAcked, meFailed>> /\ meReader \in ReaderType /\ meReader.pc = "documents"
  BY DEF ListDocuments, MeInv, MeTyped
<1>2. PICK all : all = InScope("document")
  OBVIOUS
<1>5. CASE meReader' = [meReader EXCEPT !.pc = "done", !.gaps = TRUE]
  <2>1. /\ meReader' \in ReaderType /\ meReader.hits \subseteq meReader'.hits /\ meReader'.size = meReader.size
        /\ meReader'.known = meReader.known /\ meReader'.pc = "done" /\ meReader'.gaps /\ meReader'.cut = meReader.cut
    BY <1>1, <1>5 DEF ReaderType
  <2>2. DocumentsFound'
    BY <2>1 DEF DocumentsFound
  <2> QED BY <1>1, <2>1, <2>2, MoreFound
<1>6. CASE meReader' # [meReader EXCEPT !.pc = "done", !.gaps = TRUE]
  <2>0. PICK T \in Recent(all), gaps \in BOOLEAN :
          /\ meReader' = [meReader EXCEPT !.pc = "done", !.hits = @ \cup Hits(T), !.gaps = gaps]
          /\ ~gaps => Fits(all)
    BY <1>2, <1>6 DEF ListDocuments, Fits
  <2>3. PICK more : more = Hits(T)
    OBVIOUS
  <2>4. more \subseteq HitType
    <3>1. \A x \in all : x.item \in MeItems \cup {Prompt} /\ x.text \in MeTexts \cup {1}
      BY <1>2, InScopeTyped
    <3> QED BY <2>0, <2>3, <3>1, HitsTyped
  <2>1. /\ meReader' \in ReaderType /\ meReader.hits \subseteq meReader'.hits /\ meReader'.size = meReader.size
        /\ meReader'.known = meReader.known /\ meReader'.pc = "done" /\ meReader'.deep = meReader.deep
        /\ more \subseteq meReader'.hits /\ meReader'.cut = meReader.cut /\ meReader'.gaps = gaps
    BY <1>1, <2>0, <2>3, <2>4 DEF ReaderType
  <2>2. ASSUME ~gaps, NEW p \in meReader.known, ~meReader.deep, p.item.kind = "document" PROVE p \in more
    <3>1. p \in Pairs /\ p \in meAcked /\ p.item \in MeItems
      BY <1>1 DEF ReaderType, Pairs, MeInv, ReadInv
    <3>2. PICK r \in meRecord[p.item] : r.text = p.text
      BY <2>2, <3>1 DEF MeInv, AckedInv, HasRecord
    <3>3. r \in RecordOf(p.item)
      BY <3>1 DEF MeInv, MeTyped, AtMostOne
    <3>4. r.size = "none"
      BY <2>2, <3>3 DEF RecordOf
    <3>5. PICK x : x = [item |-> p.item, text |-> r.text, size |-> r.size]
      OBVIOUS
    <3>6. x \in all
      BY <1>2, <2>2, <3>1, <3>5 DEF InScope
    <3>7. Comparable(x.size)
      BY <3>4, <3>5 DEF Comparable
    <3>8. Pair(x) = p
      BY <3>1, <3>2, <3>5, PairFields
    <3>9. T = all
      BY <2>0, <2>2 DEF Recent
    <3> QED BY <2>3, <3>6, <3>7, <3>8, <3>9, HitsFound
  <2>5. DocumentsFound'
    BY <2>1, <2>2 DEF DocumentsFound, Found
  <2> QED BY <1>1, <2>1, <2>5, MoreFound
<1> QED BY <1>5, <1>6

LEMMA RecordPromptStep == ASSUME MeInv, RecordPrompt PROVE MeInv'
<1>1. UNCHANGED <<meRecord, meWriter, meWrites, meAcked, meFailed>> /\ meReader \in ReaderType /\ MeTyped
  BY DEF RecordPrompt, MeInv, MeTyped
<1>2. /\ meReader' \in ReaderType /\ meReader'.pc = "idle" /\ meReader'.known = {}
  BY DEF RecordPrompt, Unread, ReaderType, Sizes
<1>3. meChunks' \subseteq ChunkType /\ \A p : Stored(p) => Stored(p)'
  <2>1. CASE UNCHANGED meChunks
    BY <1>1, <2>1 DEF MeTyped, Stored
  <2>2. ASSUME NEW size \in Sizes, meChunks' = OfOthers(Prompt, 1) \cup {[item |-> Prompt, text |-> 1, size |-> size]}
        PROVE  meChunks' \subseteq ChunkType /\ \A p : Stored(p) => Stored(p)'
    <3>1. PICK i \in MeItems \cup {Prompt}, t \in MeTexts \cup {1} : i = Prompt /\ t = 1
      OBVIOUS
    <3>2. PICK new : new = meChunks'
      OBVIOUS
    <3>3. Adds(new, i, t, size)
      BY <2>2, <3>1, <3>2 DEF Adds
    <3>4. Added(new, i, t)
      BY <1>1, <3>3, ChunkAdded
    <3> QED BY <3>2, <3>4 DEF Added, Stored
  <2> QED BY <2>1, <2>2 DEF RecordPrompt
<1>4. MeTyped'
  BY <1>1, <1>2, <1>3 DEF MeTyped
<1>5. AloneInv' /\ UnackedInv' /\ RecordInv'
  BY <1>1 DEF MeInv, AloneInv, UnackedInv, RecordInv, HasRecord
<1>6. AckedInv' /\ HalfInv'
  BY <1>1, <1>3 DEF MeInv, AckedInv, HalfInv, HasRecord, AtChunks
<1>7. ReadInv'
  BY <1>1, <1>2 DEF MeInv, ReadInv, DocumentsFound
<1> QED BY <1>4, <1>5, <1>6, <1>7 DEF MeInv

LEMMA MeNextInv == MeInv /\ [MeNext]_meVars => MeInv'
<1> SUFFICES ASSUME MeInv, [MeNext]_meVars PROVE MeInv'
  OBVIOUS
<1>1. ASSUME NEW w \in MeWriters, WriteBegin(w) \/ UpsertRecord(w) \/ IngestText(w) \/ WriteFails(w) PROVE MeInv'
  BY <1>1, WriteBeginStep, UpsertRecordStep, IngestTextStep, WriteFailsStep
<1>2. CASE RecordPrompt \/ Retrieve \/ ListChunks \/ ListGlobal \/ ListMemories \/ ListDocuments
  BY <1>2, RecordPromptStep, RetrieveStep, ListChunksStep, ListGlobalStep, ListMemoriesStep, ListDocumentsStep
<1>3. CASE UNCHANGED meVars
  <2>1. UNCHANGED <<meRecord, meChunks, meWriter, meReader, meWrites, meAcked, meFailed>>
    BY <1>3 DEF meVars
  <2>2. ReadInv' /\ meReader' \in ReaderType
    BY <2>1 DEF MeInv, MeTyped, ReadInv, DocumentsFound, Found
  <2> QED BY <2>1, <2>2, ReaderKeeps
<1> QED BY <1>1, <1>2, <1>3 DEF MeNext

\* What was acknowledged is there whole, a record without its chunks is of a
\* write under way or known to have failed, and a retrieval finds what its
\* session had stored on its branch and every document, as far as the limit of
\* candidates goes, whatever writes and listings fail and however they
\* interleave.
THEOREM RecordsFoundCorrect == MeSpec => []RecordsFound
<1>1. MeInv => RecordsFound
  BY MeInvSound
<1> QED BY <1>1, MeInitInv, MeNextInv, PTL DEF MeSpec


-----------------------------------------------------------------------------
(* The live metrics.                                                       *)

SessType  == [model : LmModels \cup {"none"}, active : BOOLEAN, completed : BOOLEAN,
              firsts : SUBSET LmKinds, counted : BOOLEAN]
CountType == [active : Nat, started : Nat, completed : Nat, failed : Nat,
              carried : [LmTransports -> Nat], firsts : [LmKinds -> Nat]]
LiveType  == [runs : Nat, picks : Nat, on : BOOLEAN, model : LmModels \cup {"none"}]

LmTypes ==
  /\ lmSession \in [LmIds -> SUBSET SessType]
  /\ \A s \in LmIds : lmSession[s] = {} \/ \E x \in SessType : lmSession[s] = {x}
  /\ lmModel \in [LmModels -> CountType] /\ lmLive \in [LmCoding -> LiveType]
  /\ lmUnseen \subseteq LmCoding /\ lmAgain \in BOOLEAN

\* A session in its only run is active at a model from the first that is heard
\* of it, and nothing is heard of it before its run.
LmSessionInv(s) ==
  /\ \A x \in lmSession[s] : /\ ~(x.active /\ x.completed)
                             /\ s \in LmTasks => x.active /\ x.model # "none"
                             /\ s \in LmCoding /\ ~lmAgain /\ lmLive[s].on => x.active /\ x.model # "none"
  /\ s \in LmCoding /\ ~lmAgain /\ lmLive[s].on => s \notin lmUnseen
  /\ s \in LmCoding /\ lmLive[s].runs = 0 => ~lmLive[s].on /\ lmSession[s] = {} /\ s \notin lmUnseen

EndedAt(m) == {s \in LmIds : \E x \in lmSession[s] : x.model = m /\ x.completed}
SeenAt(m)  == {s \in LmIds : s \notin lmUnseen /\ \E x \in lmSession[s] : x.model = m}

\* Until a session runs again, what ended at a model is counted there and what
\* was heard of before its end has started there.
LmModelInv(m) ==
  /\ lmModel[m].failed <= lmModel[m].completed
  /\ ~lmAgain => /\ lmModel[m].active = Cardinality(ActiveAt(m))
                 /\ lmModel[m].completed = Cardinality(EndedAt(m))
                 /\ lmModel[m].started >= Cardinality(SeenAt(m))

MetricsInv ==
  /\ LmTypes /\ CountedOnce
  /\ \A s \in LmIds : LmSessionInv(s)
  /\ \A m \in LmModels : LmModelInv(m)

-----------------------------------------------------------------------------
(* Induction, and the sums over finite sets.                               *)

\* A set of numbers that holds 0 and the successor of each is all of them.
LEMMA NumbersInduction ==
  ASSUME NEW T \in SUBSET Nat, 0 \in T, \A n \in T : n + 1 \in T
  PROVE  \A n \in Nat : n \in T
<1> DEFINE R == {q \in Nat \X Nat : q[1] < q[2]}
           C == Nat \ T
<1>1. IsWellFoundedOn(R, Nat)
  BY NatLessThanWellFounded DEF OpToRel
<1> SUFFICES ASSUME C # {} PROVE FALSE
  OBVIOUS
<1>2. \E x \in C : \A y \in C : ~(<<y, x>> \in R)
  <2> HIDE DEF R
  <2>1. C \subseteq Nat
    OBVIOUS
  <2> HIDE DEF C
  <2> QED BY <1>1, <2>1, WFMin
<1>3. PICK x \in C : \A y \in C : ~(<<y, x>> \in R)
  BY <1>2
<1>4. x \in Nat /\ x # 0 /\ x - 1 \in Nat /\ x - 1 < x /\ (x - 1) + 1 = x
  OBVIOUS
<1>5. PICK z \in Nat : z = x - 1
  BY <1>4
<1>6. <<z, x>> \in R
  BY <1>4, <1>5
<1>7. z \notin C
  BY <1>3, <1>6
<1>8. z + 1 \in T
  BY <1>5, <1>7
<1> QED BY <1>4, <1>5, <1>8

Pick(s) == CHOOSE x \in s : TRUE

\* Subsets of a finite set are reached by adding elements to the empty one.
LEMMA SubsetInduction ==
  ASSUME NEW S, IsFiniteSet(S), NEW T \in SUBSET (SUBSET S), {} \in T,
         \A s \in SUBSET S : s # {} /\ s \ {Pick(s)} \in T => s \in T
  PROVE  \A s \in SUBSET S : s \in T
<1> DEFINE N == {n \in Nat : \A s \in SUBSET S : Cardinality(s) <= n => s \in T}
<1>1. \A s \in SUBSET S : IsFiniteSet(s) /\ Cardinality(s) \in Nat
  <2> TAKE s \in SUBSET S
  <2>1. IsFiniteSet(s)
    BY FS_Subset
  <2> QED BY <2>1, FS_CardinalityType
<1>2. \A s \in SUBSET S : s # {} => /\ s \ {Pick(s)} \in SUBSET S /\ Cardinality(s) # 0
                                    /\ Cardinality(s \ {Pick(s)}) = Cardinality(s) - 1
  <2> SUFFICES ASSUME NEW s \in SUBSET S, s # {}
               PROVE  /\ s \ {Pick(s)} \in SUBSET S /\ Cardinality(s) # 0
                      /\ Cardinality(s \ {Pick(s)}) = Cardinality(s) - 1
    OBVIOUS
  <2>1. Pick(s) \in s
    BY DEF Pick
  <2>2. IsFiniteSet(s)
    BY <1>1
  <2>3. Cardinality(s \ {Pick(s)}) = Cardinality(s) - 1
    BY <2>1, <2>2, FS_RemoveElement
  <2>4. Cardinality(s) # 0
    BY <2>2, FS_EmptySet
  <2> QED BY <2>3, <2>4
<1>3. N \in SUBSET Nat
  OBVIOUS
<1>4. 0 \in N
  <2> SUFFICES ASSUME NEW s \in SUBSET S, Cardinality(s) <= 0 PROVE s \in T
    OBVIOUS
  <2>1. IsFiniteSet(s) /\ Cardinality(s) = 0
    BY <1>1
  <2>2. s = {}
    BY <2>1, FS_EmptySet
  <2> QED BY <2>2
<1>5. ASSUME NEW n \in N PROVE n + 1 \in N
  <2> SUFFICES ASSUME NEW s \in SUBSET S, Cardinality(s) <= n + 1 PROVE s \in T
    BY <1>5
  <2>1. CASE s = {}
    BY <2>1
  <2>2. CASE s # {}
    <3>1. s \ {Pick(s)} \in SUBSET S /\ Cardinality(s \ {Pick(s)}) <= n
      BY <1>1, <1>2, <1>5, <2>2
    <3>2. s \ {Pick(s)} \in T
      BY <1>5, <3>1
    <3> QED BY <2>2, <3>2
  <2> QED BY <2>1, <2>2
<1>6. \A n \in Nat : n \in N
  <2> HIDE DEF N
  <2> QED BY <1>3, <1>4, <1>5, NumbersInduction
<1> SUFFICES ASSUME NEW s \in SUBSET S PROVE s \in T
  OBVIOUS
<1>7. Cardinality(s) \in N /\ Cardinality(s) \in Nat
  BY <1>1, <1>6
<1> QED BY <1>7

\* What one step of the sum takes.
SumStep(f, s, g) == IF s = {} THEN 0 ELSE f[Pick(s)] + g[s \ {Pick(s)}]

Small(S, n) == {s \in SUBSET S : Cardinality(s) <= n}

\* The recursive function behind a sum exists.
LEMMA SumExists ==
  ASSUME NEW f, NEW S, IsFiniteSet(S)
  PROVE  \E g : g = [s \in SUBSET S |-> SumStep(f, s, g)]
<1> DEFINE T == {n \in Nat : \E g : g = [s \in Small(S, n) |-> SumStep(f, s, g)]}
<1>1. \A s \in SUBSET S : IsFiniteSet(s) /\ Cardinality(s) \in Nat
  <2> TAKE s \in SUBSET S
  <2>1. IsFiniteSet(s)
    BY FS_Subset
  <2> QED BY <2>1, FS_CardinalityType
<1>2. ASSUME NEW n \in Nat, NEW s \in Small(S, n + 1), s # {}
      PROVE  s \ {Pick(s)} \in Small(S, n)
  <2>1. Pick(s) \in s /\ IsFiniteSet(s) /\ Cardinality(s) \in Nat /\ Cardinality(s) <= n + 1
    BY <1>1, <1>2 DEF Pick, Small
  <2>2. Cardinality(s \ {Pick(s)}) = Cardinality(s) - 1
    BY <2>1, FS_RemoveElement
  <2>3. s \ {Pick(s)} \in SUBSET S
    BY DEF Small
  <2> QED BY <2>1, <2>2, <2>3 DEF Small
<1>3. 0 \in T
  <2> DEFINE g == [s \in Small(S, 0) |-> 0]
  <2>1. \A s \in Small(S, 0) : s = {}
    <3> TAKE s \in Small(S, 0)
    <3>1. IsFiniteSet(s) /\ Cardinality(s) = 0
      BY <1>1 DEF Small
    <3> QED BY <3>1, FS_EmptySet
  <2>2. g = [s \in Small(S, 0) |-> SumStep(f, s, g)]
    BY <2>1 DEF SumStep
  <2> HIDE DEF g
  <2> QED BY <2>2
<1>4. ASSUME NEW n \in T PROVE n + 1 \in T
  <2>0. n \in Nat
    OBVIOUS
  <2>1. PICK g : g = [s \in Small(S, n) |-> SumStep(f, s, g)]
    OBVIOUS
  <2> DEFINE h == [s \in Small(S, n + 1) |-> SumStep(f, s, g)]
  <2>2. ASSUME NEW s \in Small(S, n) PROVE s \in Small(S, n + 1) /\ h[s] = g[s]
    <3>1. s \in Small(S, n + 1)
      BY <1>1, <2>0 DEF Small
    <3>2. h[s] = SumStep(f, s, g)
      BY <3>1
    <3>3. g[s] = SumStep(f, s, g)
      BY <2>1
    <3> QED BY <3>1, <3>2, <3>3
  <2>3. ASSUME NEW s \in Small(S, n + 1) PROVE SumStep(f, s, g) = SumStep(f, s, h)
    <3>1. CASE s = {}
      BY <3>1 DEF SumStep
    <3>2. CASE s # {}
      <4>1. s \ {Pick(s)} \in Small(S, n)
        BY <1>2, <2>0, <2>3, <3>2
      <4>2. h[s \ {Pick(s)}] = g[s \ {Pick(s)}]
        BY <2>2, <4>1
      <4> HIDE DEF h
      <4> QED BY <3>2, <4>2 DEF SumStep
    <3> QED BY <3>1, <3>2
  <2>4. h = [s \in Small(S, n + 1) |-> SumStep(f, s, h)]
    <3>1. h = [s \in Small(S, n + 1) |-> SumStep(f, s, g)]
      OBVIOUS
    <3> HIDE DEF h
    <3> QED BY <2>3, <3>1
  <2> HIDE DEF h
  <2> QED BY <2>0, <2>4
<1>5. Cardinality(S) \in T
  <2>1. T \in SUBSET Nat
    OBVIOUS
  <2> HIDE DEF T
  <2>2. \A n \in Nat : n \in T
    BY <1>3, <1>4, <2>1, NumbersInduction
  <2> QED BY <1>1, <2>2
<1>6. PICK g : g = [s \in Small(S, Cardinality(S)) |-> SumStep(f, s, g)]
  BY <1>5
<1>7. Small(S, Cardinality(S)) = SUBSET S
  <2> SUFFICES ASSUME NEW s \in SUBSET S PROVE Cardinality(s) <= Cardinality(S)
    BY DEF Small
  <2> QED BY FS_Subset
<1>8. g = [s \in SUBSET S |-> SumStep(f, s, g)]
  BY <1>6, <1>7
<1> QED BY <1>8

SumFun(f, S) == CHOOSE g : g = [s \in SUBSET S |-> SumStep(f, s, g)]

LEMMA SumFacts ==
  ASSUME NEW f, NEW S, IsFiniteSet(S)
  PROVE  /\ SumOf(f, S) = SumFun(f, S)[S]
         /\ SumFun(f, S)[{}] = 0
         /\ \A s \in SUBSET S : s # {} =>
              /\ SumFun(f, S)[s] = f[Pick(s)] + SumFun(f, S)[s \ {Pick(s)}]
              /\ Pick(s) \in s /\ s \ {Pick(s)} \in SUBSET S
<1>1. SumOf(f, S) = SumFun(f, S)[S]
  BY Zenon DEF SumOf, MapThenSumSet, MapThenFoldSet, SumFun, SumStep, Pick
<1>2. SumFun(f, S) = [s \in SUBSET S |-> SumStep(f, s, SumFun(f, S))]
  BY SumExists DEF SumFun
<1>3. \A s \in SUBSET S : SumFun(f, S)[s] = SumStep(f, s, SumFun(f, S))
  BY <1>2
<1>4. SumFun(f, S)[{}] = 0
  BY <1>3 DEF SumStep
<1>5. ASSUME NEW s \in SUBSET S, s # {}
      PROVE  /\ SumFun(f, S)[s] = f[Pick(s)] + SumFun(f, S)[s \ {Pick(s)}]
             /\ Pick(s) \in s /\ s \ {Pick(s)} \in SUBSET S
  <2>1. Pick(s) \in s /\ s \ {Pick(s)} \in SUBSET S
    BY <1>5 DEF Pick
  <2> QED BY <1>3, <1>5, <2>1 DEF SumStep
<1> QED BY <1>1, <1>4, <1>5

LEMMA SumUnfold ==
  ASSUME NEW f, NEW S, IsFiniteSet(S), NEW s \in SUBSET S, s # {}
  PROVE  /\ SumFun(f, S)[s] = f[Pick(s)] + SumFun(f, S)[s \ {Pick(s)}]
         /\ Pick(s) \in s
<1>1. \A r \in SUBSET S : r # {} =>
        /\ SumFun(f, S)[r] = f[Pick(r)] + SumFun(f, S)[r \ {Pick(r)}]
        /\ Pick(r) \in r /\ r \ {Pick(r)} \in SUBSET S
  BY SumFacts
<1> QED BY <1>1

Numbers(f, S) == \A x \in S : f[x] \in Nat
Zeros(f, S)   == \A x \in S : f[x] = 0

\* A sum of numbers is a number.
LEMMA SumType ==
  ASSUME NEW S, IsFiniteSet(S), NEW f, Numbers(f, S)
  PROVE  SumOf(f, S) \in Nat /\ \A s \in SUBSET S : SumFun(f, S)[s] \in Nat
<1> DEFINE T == {s \in SUBSET S : SumFun(f, S)[s] \in Nat}
<1>1. T \in SUBSET (SUBSET S) /\ {} \in T
  BY SumFacts
<1>2. ASSUME NEW s \in SUBSET S, s # {}, s \ {Pick(s)} \in T PROVE s \in T
  <2>1. /\ SumFun(f, S)[s] = f[Pick(s)] + SumFun(f, S)[s \ {Pick(s)}]
        /\ Pick(s) \in s
    <3>1. s # {}
      BY <1>2
    <3> HIDE DEF T
    <3> QED BY <3>1, SumUnfold
  <2>2. f[Pick(s)] \in Nat /\ SumFun(f, S)[s \ {Pick(s)}] \in Nat
    BY <1>2, <2>1 DEF Numbers
  <2> QED BY <2>1, <2>2
<1>3. \A s \in SUBSET S : s \in T
  <2> HIDE DEF T
  <2> QED BY <1>1, <1>2, SubsetInduction
<1>4. \A s \in SUBSET S : SumFun(f, S)[s] \in Nat
  BY <1>3
<1> QED BY <1>4, SumFacts

\* Where all values are 0, so is the sum.
LEMMA SumZero ==
  ASSUME NEW S, IsFiniteSet(S), NEW f, Zeros(f, S)
  PROVE  SumOf(f, S) = 0
<1> DEFINE T == {s \in SUBSET S : SumFun(f, S)[s] = 0}
<1>1. T \in SUBSET (SUBSET S) /\ {} \in T
  BY SumFacts
<1>2. ASSUME NEW s \in SUBSET S, s # {}, s \ {Pick(s)} \in T PROVE s \in T
  <2>1. /\ SumFun(f, S)[s] = f[Pick(s)] + SumFun(f, S)[s \ {Pick(s)}]
        /\ Pick(s) \in s
    <3>1. s # {}
      BY <1>2
    <3> HIDE DEF T
    <3> QED BY <3>1, SumUnfold
  <2>2. f[Pick(s)] = 0 /\ SumFun(f, S)[s \ {Pick(s)}] = 0
    BY <1>2, <2>1 DEF Zeros
  <2> QED BY <2>1, <2>2
<1>3. \A s \in SUBSET S : s \in T
  <2> HIDE DEF T
  <2> QED BY <1>1, <1>2, SubsetInduction
<1> QED BY <1>3, SumFacts

\* Two functions that differ at one element, by d.
Differ(f, g, S, a, d) ==
  /\ \A x \in S : f[x] \in Nat /\ g[x] \in Nat
  /\ a \in S /\ g[a] = f[a] + d /\ \A x \in S \ {a} : g[x] = f[x]

\* A sum grows by what one of its values grows.
LEMMA SumGrows ==
  ASSUME NEW S, IsFiniteSet(S), NEW f, NEW g, NEW a, NEW d \in Nat, Differ(f, g, S, a, d)
  PROVE  SumOf(g, S) = SumOf(f, S) + d
<1> DEFINE E(s) == IF a \in s THEN d ELSE 0
           T == {s \in SUBSET S : SumFun(g, S)[s] = SumFun(f, S)[s] + E(s)}
<1>0. /\ \A x \in S : f[x] \in Nat /\ g[x] \in Nat
      /\ a \in S /\ g[a] = f[a] + d /\ \A x \in S \ {a} : g[x] = f[x]
  BY DEF Differ
<1>1. \A s \in SUBSET S : SumFun(f, S)[s] \in Nat
  BY <1>0, SumType DEF Numbers
<1>2. \A s \in SUBSET S : SumFun(g, S)[s] \in Nat
  BY <1>0, SumType DEF Numbers
<1>3. T \in SUBSET (SUBSET S)
  OBVIOUS
<1>4. {} \in T
  <2>1. SumFun(g, S)[{}] = 0
    BY SumFacts
  <2>2. SumFun(f, S)[{}] = 0
    BY SumFacts
  <2> QED BY <2>1, <2>2
<1>5. ASSUME NEW s \in SUBSET S, s # {}, s \ {Pick(s)} \in T PROVE s \in T
  <2>1. /\ SumFun(f, S)[s] = f[Pick(s)] + SumFun(f, S)[s \ {Pick(s)}]
        /\ Pick(s) \in s
    <3>1. s # {}
      BY <1>5
    <3> HIDE DEF T
    <3> QED BY <3>1, SumUnfold
  <2>2. SumFun(g, S)[s] = g[Pick(s)] + SumFun(g, S)[s \ {Pick(s)}]
    <3>1. s # {}
      BY <1>5
    <3> HIDE DEF T
    <3> QED BY <3>1, SumUnfold
  <2>3. PICK r \in SUBSET S : r = s \ {Pick(s)}
    OBVIOUS
  <2>4. PICK x \in S : x = Pick(s)
    BY <2>1
  <2>5. SumFun(g, S)[r] = SumFun(f, S)[r] + E(r)
    BY <1>5, <2>3
  <2>6. PICK u \in Nat : u = SumFun(f, S)[r]
    BY <1>1
  <2>7. SumFun(f, S)[s] = f[x] + u /\ SumFun(g, S)[s] = g[x] + (u + E(r)) /\ f[x] \in Nat /\ g[x] \in Nat
    BY <1>0, <2>1, <2>2, <2>3, <2>4, <2>5, <2>6
  <2>8. CASE x = a
    <3>1. E(r) = 0 /\ E(s) = d /\ g[x] = f[x] + d
      BY <1>0, <2>1, <2>3, <2>4, <2>8
    <3>2. g[x] + (u + 0) = (f[x] + u) + d
      BY <2>7, <3>1
    <3> QED BY <2>7, <3>1, <3>2
  <2>9. CASE x # a
    <3>1. E(r) = E(s) /\ g[x] = f[x] /\ E(s) \in Nat
      BY <1>0, <2>3, <2>4, <2>9
    <3>2. g[x] + (u + E(s)) = (f[x] + u) + E(s)
      <4> HIDE DEF E
      <4> QED BY <2>7, <3>1
    <3> QED BY <2>7, <3>1, <3>2
  <2> QED BY <2>8, <2>9
<1>6. \A s \in SUBSET S : s \in T
  <2> HIDE DEF T
  <2> QED BY <1>3, <1>4, <1>5, SubsetInduction
<1>7. SumFun(g, S)[S] = SumFun(f, S)[S] + d
  BY <1>0, <1>6
<1>8. SumOf(f, S) = SumFun(f, S)[S]
  BY SumFacts
<1>9. SumOf(g, S) = SumFun(g, S)[S]
  BY SumFacts
<1> QED BY <1>7, <1>8, <1>9

LEMMA LmFinite == IsFiniteSet(LmIds) /\ IsFiniteSet(LmModels) /\ IsFiniteSet(LmTransports)
<1>1. IsFiniteSet(LmIds)
  BY MetricsAssumption, FS_Union DEF LmIds
<1> QED BY <1>1, MetricsAssumption

One(b) == IF b THEN 1 ELSE 0

\* Two sets that agree but for one element.
LEMMA CardChange ==
  ASSUME NEW I, IsFiniteSet(I), NEW A \in SUBSET I, NEW B \in SUBSET I, NEW s \in I,
         \A r \in I \ {s} : (r \in A <=> r \in B)
  PROVE  /\ Cardinality(A) \in Nat /\ Cardinality(B) \in Nat
         /\ Cardinality(B) + One(s \in A) = Cardinality(A) + One(s \in B)
<1>1. IsFiniteSet(A) /\ IsFiniteSet(B)
  BY FS_Subset
<1>2. Cardinality(A) \in Nat /\ Cardinality(B) \in Nat
  BY <1>1, FS_CardinalityType
<1>3. A \ {s} = B \ {s}
  OBVIOUS
<1>4. Cardinality(A \ {s}) = IF s \in A THEN Cardinality(A) - 1 ELSE Cardinality(A)
  BY <1>1, FS_RemoveElement
<1>5. Cardinality(B \ {s}) = IF s \in B THEN Cardinality(B) - 1 ELSE Cardinality(B)
  BY <1>1, FS_RemoveElement
<1>6. PICK a \in Nat : a = One(s \in A) /\ (s \in A => a = 1) /\ (s \notin A => a = 0)
  BY DEF One
<1>7. PICK b \in Nat : b = One(s \in B) /\ (s \in B => b = 1) /\ (s \notin B => b = 0)
  BY DEF One
<1>8. Cardinality(A) - a = Cardinality(B) - b
  BY <1>2, <1>3, <1>4, <1>5, <1>6, <1>7
<1>9. Cardinality(B) + a = Cardinality(A) + b
  BY <1>2, <1>8
<1> QED BY <1>2, <1>6, <1>7, <1>9

\* A sum that is the size of a set stays so when both grow by one or neither.
Tallied(f, g, M, A, B, s) ==
  \/ f = g /\ (s \in A <=> s \in B)
  \/ s \notin A /\ s \in B /\ \E a \in M : Differ(f, g, M, a, 1)

LEMMA Tally ==
  ASSUME NEW I, IsFiniteSet(I), NEW A \in SUBSET I, NEW B \in SUBSET I, NEW s \in I,
         \A r \in I \ {s} : (r \in A <=> r \in B),
         NEW M, IsFiniteSet(M), NEW f, NEW g, Tallied(f, g, M, A, B, s),
         SumOf(f, M) = Cardinality(A)
  PROVE  SumOf(g, M) = Cardinality(B)
<1>1. /\ Cardinality(A) \in Nat /\ Cardinality(B) \in Nat
      /\ Cardinality(B) + One(s \in A) = Cardinality(A) + One(s \in B)
  BY CardChange
<1>2. CASE f = g /\ (s \in A <=> s \in B)
  <2>1. Cardinality(B) = Cardinality(A)
    BY <1>1, <1>2 DEF One
  <2> QED BY <1>2, <2>1
<1>3. CASE s \notin A /\ s \in B /\ \E a \in M : Differ(f, g, M, a, 1)
  <2>1. Cardinality(B) = Cardinality(A) + 1
    BY <1>1, <1>3 DEF One
  <2>2. PICK a \in M : Differ(f, g, M, a, 1)
    BY <1>3
  <2>3. PICK d \in Nat : d = 1
    OBVIOUS
  <2>4. Differ(f, g, M, a, d)
    BY <2>2, <2>3
  <2>5. SumOf(g, M) = SumOf(f, M) + d
    BY <2>4, SumGrows
  <2> QED BY <2>1, <2>3, <2>5
<1> QED BY <1>2, <1>3 DEF Tallied

\* The collector replaces what it knows of one session.
Replaced(s, y) == lmSession' = [lmSession EXCEPT ![s] = {y}]

LEMMA ReplacedFacts ==
  ASSUME MetricsInv, NEW s \in LmIds, NEW y \in SessType, Replaced(s, y)
  PROVE  /\ lmSession'[s] = {y} /\ \A r \in LmIds \ {s} : lmSession'[r] = lmSession[r]
         /\ lmSession' \in [LmIds -> SUBSET SessType]
         /\ \A r \in LmIds : lmSession'[r] = {} \/ \E x \in SessType : lmSession'[r] = {x}
<1>1. lmSession \in [LmIds -> SUBSET SessType]
      /\ \A r \in LmIds : lmSession[r] = {} \/ \E x \in SessType : lmSession[r] = {x}
  BY DEF MetricsInv, LmTypes
<1>2. lmSession'[s] = {y} /\ \A r \in LmIds \ {s} : lmSession'[r] = lmSession[r]
  BY <1>1 DEF Replaced
<1>3. lmSession' \in [LmIds -> SUBSET SessType]
  BY <1>1 DEF Replaced
<1> QED BY <1>1, <1>2, <1>3

\* What a step of the collector keeps, given the counts it leaves.
LEMMA CollectStep ==
  ASSUME MetricsInv, NEW s \in LmIds, NEW y \in SessType, Replaced(s, y),
         lmModel' \in [LmModels -> CountType], lmLive' \in [LmCoding -> LiveType],
         lmAgain' = lmAgain, lmUnseen' \subseteq LmCoding,
         \A r \in LmIds \ {s} : (r \in lmUnseen' <=> r \in lmUnseen),
         \A r \in LmCoding \ {s} : lmLive'[r] = lmLive[r],
         ~(y.active /\ y.completed),
         s \in LmTasks => y.active /\ y.model # "none",
         s \in LmCoding => lmLive'[s].runs # 0,
         s \in LmCoding /\ ~lmAgain /\ lmLive'[s].on => y.active /\ y.model # "none" /\ s \notin lmUnseen',
         CountedOnce', \A m \in LmModels : LmModelInv(m)'
  PROVE  MetricsInv'
<1>1. /\ lmSession'[s] = {y} /\ \A r \in LmIds \ {s} : lmSession'[r] = lmSession[r]
      /\ lmSession' \in [LmIds -> SUBSET SessType]
      /\ \A r \in LmIds : lmSession'[r] = {} \/ \E x \in SessType : lmSession'[r] = {x}
  BY ReplacedFacts
<1>2. LmTypes'
  BY <1>1 DEF MetricsInv, LmTypes
<1>3. ASSUME NEW r \in LmIds PROVE LmSessionInv(r)'
  <2>1. CASE r = s
    BY <1>1, <2>1 DEF LmSessionInv
  <2>2. CASE r # s
    <3>1. LmSessionInv(r) /\ lmSession'[r] = lmSession[r] /\ (r \in lmUnseen' <=> r \in lmUnseen)
          /\ (r \in LmCoding => lmLive'[r] = lmLive[r])
      BY <1>1, <2>2 DEF MetricsInv
    <3> QED BY <3>1 DEF LmSessionInv
  <2> QED BY <2>1, <2>2
<1> QED BY <1>2, <1>3 DEF MetricsInv

\* What a step leaves of a model's counts, given its effect on one session.
Balance(m, s, y) ==
  /\ lmModel'[m].active + One(s \in ActiveAt(m)) = lmModel[m].active + One(y.model = m /\ y.active)
  /\ lmModel'[m].completed + One(s \in EndedAt(m)) = lmModel[m].completed + One(y.model = m /\ y.completed)
  /\ lmModel'[m].started + One(s \in SeenAt(m)) >= lmModel[m].started + One(y.model = m /\ s \notin lmUnseen')

LEMMA ModelStep ==
  ASSUME MetricsInv, NEW s \in LmIds, NEW y \in SessType, Replaced(s, y),
         \A r \in LmIds \ {s} : (r \in lmUnseen' <=> r \in lmUnseen),
         lmAgain' = lmAgain, NEW m \in LmModels, lmModel'[m] \in CountType,
         lmModel'[m].failed <= lmModel'[m].completed,
         ~lmAgain => Balance(m, s, y)
  PROVE  LmModelInv(m)'
<1>1. /\ lmSession'[s] = {y} /\ \A r \in LmIds \ {s} : lmSession'[r] = lmSession[r]
  BY ReplacedFacts
<1>2. LmModelInv(m) /\ lmModel[m] \in CountType
  BY DEF MetricsInv, LmTypes
<1> SUFFICES ASSUME ~lmAgain
             PROVE  /\ lmModel'[m].active = Cardinality(ActiveAt(m)')
                    /\ lmModel'[m].completed = Cardinality(EndedAt(m)')
                    /\ lmModel'[m].started >= Cardinality(SeenAt(m)')
  BY DEF LmModelInv
<1>3. /\ lmModel[m].active \in Nat /\ lmModel[m].completed \in Nat /\ lmModel[m].started \in Nat
      /\ lmModel'[m].active \in Nat /\ lmModel'[m].completed \in Nat /\ lmModel'[m].started \in Nat
  BY <1>2 DEF CountType
<1>4. Balance(m, s, y)
  OBVIOUS
<1>5. \A b : One(b) \in {0, 1}
  BY DEF One
<1>6. lmModel'[m].active = Cardinality(ActiveAt(m)')
  <2>1. PICK A \in SUBSET LmIds : A = ActiveAt(m)
    BY DEF ActiveAt
  <2>2. PICK B \in SUBSET LmIds : B = ActiveAt(m)'
    BY DEF ActiveAt
  <2>3. \A r \in LmIds \ {s} : (r \in A <=> r \in B)
    BY <1>1, <2>1, <2>2 DEF ActiveAt
  <2>4. s \in B <=> y.model = m /\ y.active
    BY <1>1, <2>2 DEF ActiveAt
  <2>5. /\ Cardinality(A) \in Nat /\ Cardinality(B) \in Nat
        /\ Cardinality(B) + One(s \in A) = Cardinality(A) + One(s \in B)
    BY <2>3, LmFinite, CardChange
  <2>6. One(s \in B) = One(y.model = m /\ y.active)
    BY <2>4 DEF One
  <2>7. lmModel[m].active = Cardinality(A)
        /\ lmModel'[m].active + One(s \in A) = lmModel[m].active + One(s \in B)
    BY <1>2, <1>4, <2>1, <2>6 DEF LmModelInv, Balance
  <2>8. PICK i \in Nat : i = One(s \in A)
    BY <1>5
  <2>9. Cardinality(B) + i = lmModel'[m].active + i
    BY <2>5, <2>7, <2>8
  <2>10. Cardinality(B) = lmModel'[m].active
    BY <1>3, <2>5, <2>9
  <2> QED BY <2>2, <2>10
<1>7. lmModel'[m].completed = Cardinality(EndedAt(m)')
  <2>1. PICK A \in SUBSET LmIds : A = EndedAt(m)
    BY DEF EndedAt
  <2>2. PICK B \in SUBSET LmIds : B = EndedAt(m)'
    BY DEF EndedAt
  <2>3. \A r \in LmIds \ {s} : (r \in A <=> r \in B)
    BY <1>1, <2>1, <2>2 DEF EndedAt
  <2>4. s \in B <=> y.model = m /\ y.completed
    BY <1>1, <2>2 DEF EndedAt
  <2>5. /\ Cardinality(A) \in Nat /\ Cardinality(B) \in Nat
        /\ Cardinality(B) + One(s \in A) = Cardinality(A) + One(s \in B)
    BY <2>3, LmFinite, CardChange
  <2>6. One(s \in B) = One(y.model = m /\ y.completed)
    BY <2>4 DEF One
  <2>7. lmModel[m].completed = Cardinality(A)
        /\ lmModel'[m].completed + One(s \in A) = lmModel[m].completed + One(s \in B)
    BY <1>2, <1>4, <2>1, <2>6 DEF LmModelInv, Balance
  <2>8. PICK i \in Nat : i = One(s \in A)
    BY <1>5
  <2>9. Cardinality(B) + i = lmModel'[m].completed + i
    BY <2>5, <2>7, <2>8
  <2>10. Cardinality(B) = lmModel'[m].completed
    BY <1>3, <2>5, <2>9
  <2> QED BY <2>2, <2>10
<1>8. lmModel'[m].started >= Cardinality(SeenAt(m)')
  <2>1. PICK A \in SUBSET LmIds : A = SeenAt(m)
    BY DEF SeenAt
  <2>2. PICK B \in SUBSET LmIds : B = SeenAt(m)'
    BY DEF SeenAt
  <2>3. \A r \in LmIds \ {s} : (r \in A <=> r \in B)
    BY <1>1, <2>1, <2>2 DEF SeenAt
  <2>4. s \in B <=> y.model = m /\ s \notin lmUnseen'
    BY <1>1, <2>2 DEF SeenAt
  <2>5. /\ Cardinality(A) \in Nat /\ Cardinality(B) \in Nat
        /\ Cardinality(B) + One(s \in A) = Cardinality(A) + One(s \in B)
    BY <2>3, LmFinite, CardChange
  <2>6. One(s \in B) = One(y.model = m /\ s \notin lmUnseen')
    BY <2>4 DEF One
  <2>7. lmModel[m].started >= Cardinality(A)
        /\ lmModel'[m].started + One(s \in A) >= lmModel[m].started + One(s \in B)
    BY <1>2, <1>4, <2>1, <2>6 DEF LmModelInv, Balance
  <2>8. PICK i \in Nat : i = One(s \in A)
    BY <1>5
  <2>9. PICK j \in Nat : j = One(s \in B)
    BY <1>5
  <2> QED BY <1>3, <2>2, <2>5, <2>7, <2>8, <2>9
<1> QED BY <1>6, <1>7, <1>8

Completions(model) == [m \in LmModels |-> model[m].completed]
Transports(model)  == [m \in LmModels |-> SumOf(model[m].carried, LmTransports)]
Firsts(model, k)   == [m \in LmModels |-> model[m].firsts[k]]

\* The sums over all models, given the effect on one session.
LEMMA CountStep ==
  ASSUME MetricsInv, NEW s \in LmIds, NEW y \in SessType, Replaced(s, y),
         Tallied(Completions(lmModel), Completions(lmModel'), LmModels, Ended, Ended', s),
         Tallied(Transports(lmModel), Transports(lmModel'), LmModels, Carried, Carried', s),
         \A k \in LmKinds : Tallied(Firsts(lmModel, k), Firsts(lmModel', k), LmModels, Timed(k), Timed(k)', s)
  PROVE  CountedOnce'
<1>1. /\ lmSession'[s] = {y} /\ \A r \in LmIds \ {s} : lmSession'[r] = lmSession[r]
  BY ReplacedFacts
<1>2. SumOf(Completions(lmModel'), LmModels) = Cardinality(Ended')
  <2>1. Ended \in SUBSET LmIds /\ Ended' \in SUBSET LmIds
        /\ \A r \in LmIds \ {s} : (r \in Ended <=> r \in Ended')
    BY <1>1 DEF Ended
  <2>2. SumOf(Completions(lmModel), LmModels) = Cardinality(Ended)
    BY DEF MetricsInv, CountedOnce, Completions
  <2> QED BY <2>1, <2>2, LmFinite, Tally
<1>3. SumOf(Transports(lmModel'), LmModels) = Cardinality(Carried')
  <2>1. Carried \in SUBSET LmIds /\ Carried' \in SUBSET LmIds
        /\ \A r \in LmIds \ {s} : (r \in Carried <=> r \in Carried')
    BY <1>1 DEF Carried
  <2>2. SumOf(Transports(lmModel), LmModels) = Cardinality(Carried)
    BY DEF MetricsInv, CountedOnce, Transports
  <2> QED BY <2>1, <2>2, LmFinite, Tally
<1>4. ASSUME NEW k \in LmKinds PROVE SumOf(Firsts(lmModel', k), LmModels) = Cardinality(Timed(k)')
  <2>1. Timed(k) \in SUBSET LmIds /\ Timed(k)' \in SUBSET LmIds
        /\ \A r \in LmIds \ {s} : (r \in Timed(k) <=> r \in Timed(k)')
    BY <1>1 DEF Timed
  <2>2. SumOf(Firsts(lmModel, k), LmModels) = Cardinality(Timed(k))
    BY DEF MetricsInv, CountedOnce, Firsts
  <2>3. Tallied(Firsts(lmModel, k), Firsts(lmModel', k), LmModels, Timed(k), Timed(k)', s)
    OBVIOUS
  <2> QED BY <2>1, <2>2, <2>3, LmFinite, Tally
<1> QED BY <1>2, <1>3, <1>4 DEF CountedOnce, Completions, Transports, Firsts

-----------------------------------------------------------------------------
(* The collector's operations.                                             *)

LEMMA BegunFacts ==
  ASSUME NEW c \in CountType
  PROVE  /\ Begun(c) \in CountType /\ Begun(c).active = c.active + 1 /\ Begun(c).started = c.started + 1
         /\ Begun(c).completed = c.completed /\ Begun(c).failed = c.failed
         /\ Begun(c).carried = c.carried /\ Begun(c).firsts = c.firsts
<1>1. PICK a \in Nat : a = c.active + 1
  BY DEF CountType
<1>2. PICK b \in Nat : b = c.started + 1
  BY DEF CountType
<1>3. Begun(c) = [c EXCEPT !.active = a, !.started = b]
  BY <1>1, <1>2 DEF Begun, CountType
<1>4. /\ Begun(c) \in CountType /\ Begun(c).active = a /\ Begun(c).started = b
      /\ Begun(c).completed = c.completed /\ Begun(c).failed = c.failed
      /\ Begun(c).carried = c.carried /\ Begun(c).firsts = c.firsts
  BY <1>3 DEF CountType
<1> QED BY <1>1, <1>2, <1>4

LEMMA LeaveFacts ==
  ASSUME NEW c \in CountType, NEW x
  PROVE  /\ Leave(x, c) \in CountType /\ Leave(x, c).active = Less(c.active)
         /\ Leave(x, c).started \in {c.started, Less(c.started)}
         /\ Leave(x, c).completed = c.completed /\ Leave(x, c).failed = c.failed
         /\ Leave(x, c).carried = c.carried /\ Leave(x, c).firsts = c.firsts
<1>1. PICK a \in Nat : a = Less(c.active)
  BY DEF Less, CountType
<1>2. PICK b \in Nat : b = IF x.firsts = {} THEN Less(c.started) ELSE c.started
  BY DEF Less, CountType
<1>3. Leave(x, c) = [c EXCEPT !.active = a, !.started = b]
  BY <1>1, <1>2 DEF Leave, CountType
<1>4. /\ Leave(x, c) \in CountType /\ Leave(x, c).active = a /\ Leave(x, c).started = b
      /\ Leave(x, c).completed = c.completed /\ Leave(x, c).failed = c.failed
      /\ Leave(x, c).carried = c.carried /\ Leave(x, c).firsts = c.firsts
  BY <1>3 DEF CountType
<1> QED BY <1>1, <1>2, <1>4

LEMMA NewSessionFacts ==
  /\ NewSession \in SessType /\ NewSession.model = "none" /\ NewSession.active = TRUE
  /\ NewSession.completed = FALSE /\ NewSession.firsts = {} /\ NewSession.counted = FALSE
BY DEF NewSession, SessType

\* Where the collector knows a session, and where not.
LEMMA KnownFacts ==
  ASSUME MetricsInv, NEW s \in LmIds
  PROVE  \/ lmSession[s] = {}
         \/ \E x \in SessType : lmSession[s] = {x} /\ Tracked(s) = x
<1>1. lmSession[s] = {} \/ \E x \in SessType : lmSession[s] = {x}
  BY DEF MetricsInv, LmTypes
<1>2. ASSUME NEW x \in SessType, lmSession[s] = {x} PROVE Tracked(s) = x
  BY <1>2 DEF Tracked
<1> QED BY <1>1, <1>2

Belongs(s, x) ==
  /\ (s \in Ended <=> x.completed) /\ (s \in Carried <=> x.counted)
  /\ \A k \in LmKinds : (s \in Timed(k) <=> k \in x.firsts)
  /\ \A m \in LmModels : /\ (s \in ActiveAt(m) <=> x.model = m /\ x.active)
                         /\ (s \in EndedAt(m) <=> x.model = m /\ x.completed)
                         /\ (s \in SeenAt(m) <=> s \notin lmUnseen /\ x.model = m)

Nowhere(s) ==
  /\ s \notin Ended /\ s \notin Carried /\ \A k \in LmKinds : s \notin Timed(k)
  /\ \A m \in LmModels : s \notin ActiveAt(m) /\ s \notin EndedAt(m) /\ s \notin SeenAt(m)

LEMMA KnownBelongs ==
  ASSUME NEW s \in LmIds, NEW x, lmSession[s] = {x}
  PROVE  Belongs(s, x)
BY DEF Belongs, Ended, Carried, Timed, ActiveAt, EndedAt, SeenAt

LEMMA UnknownNowhere ==
  ASSUME NEW s \in LmIds, lmSession[s] = {}
  PROVE  Nowhere(s)
BY DEF Nowhere, Ended, Carried, Timed, ActiveAt, EndedAt, SeenAt

LEMMA ReplacedBelongs ==
  ASSUME MetricsInv, NEW s \in LmIds, NEW y \in SessType, Replaced(s, y)
  PROVE  /\ (s \in Ended' <=> y.completed) /\ (s \in Carried' <=> y.counted)
         /\ \A k \in LmKinds : (s \in Timed(k)' <=> k \in y.firsts)
<1>1. lmSession'[s] = {y}
  BY ReplacedFacts
<1> QED BY <1>1 DEF Ended, Carried, Timed

\* As long as no session has run again, a session counted at a model is seen in
\* the model's counts.
LEMMA CountsPositive ==
  ASSUME MetricsInv, ~lmAgain, NEW s \in LmIds, NEW m \in LmModels
  PROVE  /\ s \in ActiveAt(m) => lmModel[m].active >= 1
         /\ s \in SeenAt(m) => lmModel[m].started >= 1
<1>1. LmModelInv(m) /\ lmModel[m] \in CountType
  BY DEF MetricsInv, LmTypes
<1>2. lmModel[m].active = Cardinality(ActiveAt(m)) /\ lmModel[m].started >= Cardinality(SeenAt(m))
      /\ lmModel[m].active \in Nat /\ lmModel[m].started \in Nat
  BY <1>1 DEF LmModelInv, CountType
<1>3. ASSUME NEW A \in SUBSET LmIds, s \in A PROVE Cardinality(A) \in Nat /\ Cardinality(A) >= 1
  <2>1. IsFiniteSet(A)
    BY LmFinite, FS_Subset
  <2>2. Cardinality(A) \in Nat
    BY <2>1, FS_CardinalityType
  <2>3. Cardinality(A) # 0
    BY <1>3, <2>1, FS_EmptySet
  <2> QED BY <2>2, <2>3
<1>4. ActiveAt(m) \in SUBSET LmIds /\ SeenAt(m) \in SUBSET LmIds
  BY DEF ActiveAt, SeenAt
<1>5. s \in ActiveAt(m) => lmModel[m].active >= 1
  BY <1>2, <1>3, <1>4
<1>6. s \in SeenAt(m) => lmModel[m].started >= 1
  <2> SUFFICES ASSUME s \in SeenAt(m) PROVE lmModel[m].started >= 1
    OBVIOUS
  <2>1. Cardinality(SeenAt(m)) \in Nat /\ Cardinality(SeenAt(m)) >= 1
    BY <1>3, <1>4
  <2> QED BY <1>2, <2>1
<1> QED BY <1>5, <1>6

Unmoved(c, k) ==
  k.completed = c.completed /\ k.failed = c.failed /\ k.carried = c.carried /\ k.firsts = c.firsts

\* A step that ends no session and counts no delta.
LEMMA QuietCounts ==
  ASSUME MetricsInv, NEW s \in LmIds, NEW y \in SessType, Replaced(s, y),
         \A m \in LmModels : Unmoved(lmModel[m], lmModel'[m]),
         \/ lmSession[s] = {} /\ ~y.completed /\ ~y.counted /\ y.firsts = {}
         \/ \E x \in SessType : /\ lmSession[s] = {x} /\ (y.completed <=> x.completed)
                                /\ (y.counted <=> x.counted) /\ y.firsts = x.firsts
  PROVE  CountedOnce'
<1>1. /\ Completions(lmModel) = Completions(lmModel') /\ Transports(lmModel) = Transports(lmModel')
      /\ \A k \in LmKinds : Firsts(lmModel, k) = Firsts(lmModel', k)
  BY DEF Unmoved, Completions, Transports, Firsts
<1>2. /\ (s \in Ended' <=> y.completed) /\ (s \in Carried' <=> y.counted)
      /\ \A k \in LmKinds : (s \in Timed(k)' <=> k \in y.firsts)
  BY ReplacedBelongs
<1>3. /\ (s \in Ended <=> s \in Ended') /\ (s \in Carried <=> s \in Carried')
      /\ \A k \in LmKinds : (s \in Timed(k) <=> s \in Timed(k)')
  <2>1. CASE lmSession[s] = {} /\ ~y.completed /\ ~y.counted /\ y.firsts = {}
    <3>1. Nowhere(s)
      BY <2>1, UnknownNowhere
    <3> QED BY <1>2, <2>1, <3>1 DEF Nowhere
  <2>2. ASSUME NEW x \in SessType, lmSession[s] = {x}, y.completed <=> x.completed,
               y.counted <=> x.counted, y.firsts = x.firsts
        PROVE  /\ (s \in Ended <=> s \in Ended') /\ (s \in Carried <=> s \in Carried')
               /\ \A k \in LmKinds : (s \in Timed(k) <=> s \in Timed(k)')
    <3>1. Belongs(s, x)
      BY <2>2, KnownBelongs
    <3> QED BY <1>2, <2>2, <3>1 DEF Belongs
  <2> QED BY <2>1, <2>2
<1>4. /\ Tallied(Completions(lmModel), Completions(lmModel'), LmModels, Ended, Ended', s)
      /\ Tallied(Transports(lmModel), Transports(lmModel'), LmModels, Carried, Carried', s)
      /\ \A k \in LmKinds : Tallied(Firsts(lmModel, k), Firsts(lmModel', k), LmModels, Timed(k), Timed(k)', s)
  BY <1>1, <1>3 DEF Tallied
<1> QED BY <1>4, CountStep

\* A model whose counts of sessions stay, and for which the session counts as
\* before.
LEMMA BalanceSame ==
  ASSUME NEW m, NEW s, NEW y,
         lmModel'[m].active = lmModel[m].active, lmModel'[m].completed = lmModel[m].completed,
         lmModel'[m].started = lmModel[m].started, lmModel[m] \in CountType,
         s \in ActiveAt(m) <=> y.model = m /\ y.active, s \in EndedAt(m) <=> y.model = m /\ y.completed,
         s \in SeenAt(m) <=> y.model = m /\ s \notin lmUnseen'
  PROVE  Balance(m, s, y)
<1>1. /\ One(s \in ActiveAt(m)) = One(y.model = m /\ y.active)
      /\ One(s \in EndedAt(m)) = One(y.model = m /\ y.completed)
  BY DEF One
<1>2. PICK i \in Nat : i = One(s \in SeenAt(m)) /\ i = One(y.model = m /\ s \notin lmUnseen')
  BY DEF One
<1>3. lmModel[m].started \in Nat
  BY DEF CountType
<1>4. lmModel'[m].started + i >= lmModel[m].started + i
  BY <1>3
<1> QED BY <1>1, <1>2, <1>4 DEF Balance

\* A model the session comes to.
LEMMA BalanceJoined ==
  ASSUME NEW m, NEW s, NEW y,
         lmModel[m] \in CountType, lmModel'[m].active = lmModel[m].active + 1,
         lmModel'[m].completed = lmModel[m].completed, lmModel'[m].started = lmModel[m].started + 1,
         s \notin ActiveAt(m), s \notin EndedAt(m), s \notin SeenAt(m),
         y.model = m, y.active, ~y.completed
  PROVE  Balance(m, s, y)
<1>1. /\ One(s \in ActiveAt(m)) = 0 /\ One(y.model = m /\ y.active) = 1
      /\ One(s \in EndedAt(m)) = 0 /\ One(y.model = m /\ y.completed) = 0
      /\ One(s \in SeenAt(m)) = 0 /\ One(y.model = m /\ s \notin lmUnseen') \in {0, 1}
  BY DEF One
<1>2. lmModel[m].active \in Nat /\ lmModel[m].completed \in Nat /\ lmModel[m].started \in Nat
  BY DEF CountType
<1> QED BY <1>1, <1>2 DEF Balance

\* A model the session leaves for another.
LEMMA BalanceLeft ==
  ASSUME NEW m, NEW s, NEW y,
         lmModel[m] \in CountType, lmModel[m].active >= 1, lmModel[m].started >= 1,
         lmModel'[m].active = Less(lmModel[m].active), lmModel'[m].completed = lmModel[m].completed,
         lmModel'[m].started \in {lmModel[m].started, Less(lmModel[m].started)},
         s \in ActiveAt(m), s \notin EndedAt(m), s \in SeenAt(m), y.model # m
  PROVE  Balance(m, s, y)
<1>1. /\ One(s \in ActiveAt(m)) = 1 /\ One(y.model = m /\ y.active) = 0
      /\ One(s \in EndedAt(m)) = 0 /\ One(y.model = m /\ y.completed) = 0
      /\ One(s \in SeenAt(m)) = 1 /\ One(y.model = m /\ s \notin lmUnseen') = 0
  BY DEF One
<1>2. lmModel[m].active \in Nat /\ lmModel[m].completed \in Nat /\ lmModel[m].started \in Nat
  BY DEF CountType
<1>3. Less(lmModel[m].active) = lmModel[m].active - 1 /\ Less(lmModel[m].started) = lmModel[m].started - 1
  BY <1>2 DEF Less
<1> QED BY <1>1, <1>2, <1>3 DEF Balance

\* A session in a run.
LEMMA LiveFacts ==
  ASSUME MetricsInv, NEW s \in LmCoding, lmLive[s].on
  PROVE  /\ s \in LmIds /\ s \notin LmTasks /\ lmLive[s] \in LiveType /\ lmLive[s].runs # 0
         /\ lmLive[s].model \in LmModels \cup {"none"} /\ lmLive[s].runs \in Nat
         /\ \A x \in lmSession[s] : ~(x.active /\ x.completed)
         /\ ~lmAgain => s \notin lmUnseen /\ \A x \in lmSession[s] : x.active /\ x.model # "none"
<1>1. s \in LmIds /\ s \notin LmTasks
  BY MetricsAssumption DEF LmIds
<1>2. LmSessionInv(s) /\ lmLive[s] \in LiveType
  BY <1>1 DEF MetricsInv, LmTypes
<1> QED BY <1>1, <1>2 DEF LmSessionInv, LiveType

LEMMA RevivedFacts ==
  ASSUME NEW x \in SessType
  PROVE  /\ Revived(x) \in SessType /\ Revived(x).model = x.model /\ Revived(x).completed = x.completed
         /\ Revived(x).firsts = x.firsts /\ Revived(x).counted = x.counted
         /\ (Revived(x).active <=> x.active \/ ~x.completed)
<1>1. PICK a \in BOOLEAN : a = (x.active \/ ~x.completed)
  BY DEF SessType
<1>2. Revived(x) = [x EXCEPT !.active = a]
  BY <1>1 DEF Revived, SessType
<1>3. /\ Revived(x) \in SessType /\ Revived(x).model = x.model /\ Revived(x).completed = x.completed
      /\ Revived(x).firsts = x.firsts /\ Revived(x).counted = x.counted /\ Revived(x).active = a
  BY <1>2 DEF SessType
<1> QED BY <1>1, <1>3

\* A session before and after it is observed.
Noted(s, x) ==
  \/ lmSession[s] = {} /\ x.model = "none" /\ x.active /\ ~x.completed /\ ~x.counted /\ x.firsts = {}
  \/ \E z \in SessType : /\ lmSession[s] = {z} /\ x.model = z.model /\ (x.completed <=> z.completed)
                         /\ x.firsts = z.firsts /\ (x.counted <=> z.counted)
                         /\ (x.active <=> z.active \/ ~z.completed)

\* The model's counts after a session x that the collector knows, or not, is
\* seen at m.
Shifted(s, x, m) ==
  /\ lmModel' \in [LmModels -> CountType]
  /\ \A n \in LmModels \ {m, x.model} : lmModel'[n] = lmModel[n]
  /\ x.model = m \/ (x.model = "none" /\ lmSession[s] # {} /\ x.active) => lmModel' = lmModel
  /\ x.model = "none" /\ (lmSession[s] = {} \/ ~x.active) => lmModel'[m] = Begun(lmModel[m])
  /\ x.model \notin {"none", m} => /\ lmModel'[m] = Begun(lmModel[m])
                                   /\ lmModel'[x.model] = Leave(x, lmModel[x.model])

LEMMA ShiftedFacts ==
  ASSUME MetricsInv, NEW s \in LmCoding, NEW x \in SessType, NEW m \in LmModels,
         NEW left, left = IF x.model \notin {"none", m}
                          THEN [lmModel EXCEPT ![x.model] = Leave(x, lmModel[x.model])] ELSE lmModel,
         lmModel' = IF x.model = m \/ (lmSession[s] # {} /\ ~(x.model \notin {"none", m}) /\ x.active) THEN left
                    ELSE [left EXCEPT ![m] = Begun(left[m])]
  PROVE  Shifted(s, x, m)
<1>1. lmModel \in [LmModels -> CountType] /\ x.model \in LmModels \cup {"none"} /\ m # "none"
  BY MetricsAssumption DEF MetricsInv, LmTypes, SessType
<1>2. CASE x.model = m \/ (x.model = "none" /\ lmSession[s] # {} /\ x.active)
  <2>1. lmModel' = lmModel
    BY <1>2
  <2> QED BY <1>1, <1>2, <2>1 DEF Shifted
<1>3. CASE x.model = "none" /\ (lmSession[s] = {} \/ ~x.active)
  <2>1. lmModel' = [lmModel EXCEPT ![m] = Begun(lmModel[m])]
    BY <1>1, <1>3
  <2>2. Begun(lmModel[m]) \in CountType
    BY <1>1, BegunFacts
  <2>3. lmModel' \in [LmModels -> CountType] /\ lmModel'[m] = Begun(lmModel[m])
        /\ \A n \in LmModels \ {m} : lmModel'[n] = lmModel[n]
    BY <1>1, <2>1, <2>2
  <2> QED BY <1>1, <1>3, <2>3 DEF Shifted
<1>4. CASE x.model \notin {"none", m}
  <2>1. PICK l \in LmModels : l = x.model /\ l # m
    BY <1>1, <1>4
  <2>2. PICK c \in CountType : c = Leave(x, lmModel[l])
    BY <1>1, LeaveFacts
  <2>3. left = [lmModel EXCEPT ![l] = c] /\ lmModel' = [left EXCEPT ![m] = Begun(left[m])]
    BY <1>4, <2>1, <2>2
  <2>4. left \in [LmModels -> CountType] /\ left[m] = lmModel[m] /\ left[l] = c
        /\ \A n \in LmModels \ {l} : left[n] = lmModel[n]
    BY <1>1, <2>1, <2>3
  <2>5. PICK d \in CountType : d = Begun(lmModel[m])
    BY <1>1, BegunFacts
  <2>6. lmModel' = [left EXCEPT ![m] = d]
    BY <2>3, <2>4, <2>5
  <2>7. lmModel' \in [LmModels -> CountType] /\ lmModel'[m] = d /\ lmModel'[l] = c
        /\ \A n \in LmModels \ {l, m} : lmModel'[n] = lmModel[n]
    BY <2>1, <2>4, <2>6
  <2> QED BY <1>4, <2>1, <2>2, <2>5, <2>7 DEF Shifted
<1> QED BY <1>2, <1>3, <1>4

\* No session ends and no delta is counted.
LEMMA ShiftedUnmoved ==
  ASSUME MetricsInv, NEW s \in LmCoding, NEW x \in SessType, NEW m \in LmModels, Shifted(s, x, m),
         NEW n \in LmModels
  PROVE  Unmoved(lmModel[n], lmModel'[n])
<1>1. lmModel[n] \in CountType /\ lmModel[m] \in CountType /\ x.model \in LmModels \cup {"none"}
  BY DEF MetricsInv, LmTypes, SessType
<1>2. ASSUME lmModel'[n] = lmModel[n] PROVE Unmoved(lmModel[n], lmModel'[n])
  BY <1>2 DEF Unmoved
<1>3. ASSUME lmModel'[n] = Begun(lmModel[n]) PROVE Unmoved(lmModel[n], lmModel'[n])
  BY <1>1, <1>3, BegunFacts DEF Unmoved
<1>4. ASSUME lmModel'[n] = Leave(x, lmModel[n]) PROVE Unmoved(lmModel[n], lmModel'[n])
  BY <1>1, <1>4, LeaveFacts DEF Unmoved
<1> QED BY <1>1, <1>2, <1>3, <1>4, MetricsAssumption DEF Shifted

\* The counts of each model follow the session.
LEMMA ShiftedBalance ==
  ASSUME MetricsInv, ~lmAgain, NEW s \in LmCoding, lmLive[s].on, NEW x \in SessType, Noted(s, x),
         NEW m \in LmModels, Shifted(s, x, m), lmUnseen' = lmUnseen,
         NEW y, y.model = m, y.active <=> x.active, y.completed <=> x.completed, NEW n \in LmModels
  PROVE  Balance(n, s, y)
<1>1. /\ lmModel \in [LmModels -> CountType] /\ lmModel[n] \in CountType
      /\ x.model \in LmModels \cup {"none"} /\ m # "none"
  BY MetricsAssumption DEF MetricsInv, LmTypes, SessType
<1>2. /\ s \in LmIds /\ \A z \in lmSession[s] : ~(z.active /\ z.completed)
      /\ s \notin lmUnseen /\ \A z \in lmSession[s] : z.active /\ z.model # "none"
  BY LiveFacts
<1>3. CASE lmSession[s] = {} /\ x.model = "none" /\ x.active /\ ~x.completed
  <2>1. s \notin ActiveAt(n) /\ s \notin EndedAt(n) /\ s \notin SeenAt(n)
    BY <1>2, <1>3, UnknownNowhere DEF Nowhere
  <2>2. CASE n = m
    <3>1. lmModel'[n] = Begun(lmModel[n])
      BY <1>3, <2>2 DEF Shifted
    <3>2. /\ lmModel'[n].active = lmModel[n].active + 1 /\ lmModel'[n].started = lmModel[n].started + 1
          /\ lmModel'[n].completed = lmModel[n].completed
      BY <1>1, <3>1, BegunFacts
    <3>3. y.model = n /\ y.active /\ ~y.completed
      BY <1>3, <2>2
    <3> QED BY <1>1, <2>1, <3>2, <3>3, BalanceJoined
  <2>3. CASE n # m
    <3>1. lmModel'[n] = lmModel[n]
      BY <1>1, <1>3, <2>3, MetricsAssumption DEF Shifted
    <3>2. y.model # n
      BY <2>3
    <3> QED BY <1>1, <2>1, <3>1, <3>2, BalanceSame
  <2> QED BY <2>2, <2>3
<1>4. ASSUME NEW z \in SessType, lmSession[s] = {z}, x.model = z.model, x.completed <=> z.completed,
             x.active <=> z.active \/ ~z.completed
      PROVE  Balance(n, s, y)
  <2>1. z.active /\ ~z.completed /\ z.model # "none" /\ x.active /\ ~x.completed /\ z.model \in LmModels
    BY <1>1, <1>2, <1>4
  <2>2. Belongs(s, z)
    BY <1>2, <1>4, KnownBelongs
  <2>3. /\ (s \in ActiveAt(n) <=> z.model = n) /\ s \notin EndedAt(n) /\ (s \in SeenAt(n) <=> z.model = n)
    BY <1>2, <2>1, <2>2 DEF Belongs
  <2>4. CASE z.model = m
    <3>1. lmModel'[n] = lmModel[n]
      BY <1>4, <2>4 DEF Shifted
    <3>2. /\ (s \in ActiveAt(n) <=> y.model = n /\ y.active) /\ (s \in EndedAt(n) <=> y.model = n /\ y.completed)
          /\ (s \in SeenAt(n) <=> y.model = n /\ s \notin lmUnseen')
      BY <1>2, <2>1, <2>3, <2>4
    <3> QED BY <1>1, <3>1, <3>2, BalanceSame
  <2>5. CASE z.model # m /\ n = m
    <3>1. lmModel'[n] = Begun(lmModel[n])
      BY <1>4, <2>1, <2>5 DEF Shifted
    <3>2. /\ lmModel'[n].active = lmModel[n].active + 1 /\ lmModel'[n].started = lmModel[n].started + 1
          /\ lmModel'[n].completed = lmModel[n].completed
      BY <1>1, <3>1, BegunFacts
    <3>3. y.model = n /\ y.active /\ ~y.completed /\ s \notin ActiveAt(n) /\ s \notin SeenAt(n)
      BY <2>1, <2>3, <2>5
    <3> QED BY <1>1, <2>3, <3>2, <3>3, BalanceJoined
  <2>6. CASE z.model # m /\ n = z.model
    <3>1. lmModel'[n] = Leave(x, lmModel[n])
      BY <1>4, <2>1, <2>6 DEF Shifted
    <3>2. /\ lmModel'[n].active = Less(lmModel[n].active) /\ lmModel'[n].completed = lmModel[n].completed
          /\ lmModel'[n].started \in {lmModel[n].started, Less(lmModel[n].started)}
      BY <1>1, <3>1, LeaveFacts
    <3>3. s \in ActiveAt(n) /\ s \in SeenAt(n) /\ y.model # n
      BY <2>3, <2>6
    <3>4. lmModel[n].active >= 1 /\ lmModel[n].started >= 1
      BY <1>2, <3>3, CountsPositive
    <3> QED BY <1>1, <2>3, <3>2, <3>3, <3>4, BalanceLeft
  <2>7. CASE z.model # m /\ n # m /\ n # z.model
    <3>1. lmModel'[n] = lmModel[n]
      BY <1>4, <2>7 DEF Shifted
    <3>2. y.model # n /\ s \notin ActiveAt(n) /\ s \notin SeenAt(n)
      BY <2>3, <2>7
    <3> QED BY <1>1, <2>3, <3>1, <3>2, BalanceSame
  <2> QED BY <2>4, <2>5, <2>6, <2>7
<1> QED BY <1>3, <1>4 DEF Noted

LEMMA ObserveSessionStep ==
  ASSUME MetricsInv, NEW s \in LmCoding, ObserveSession(s)
  PROVE  MetricsInv'
<1>1. lmLive[s].on /\ lmLive[s].model # "none" /\ lmUnseen' = lmUnseen /\ lmAgain' = lmAgain /\ lmLive' = lmLive
  BY DEF ObserveSession
<1>2. /\ s \in LmIds /\ s \notin LmTasks /\ lmLive[s].runs # 0
      /\ lmLive[s].model \in LmModels \cup {"none"}
      /\ \A z \in lmSession[s] : ~(z.active /\ z.completed)
      /\ ~lmAgain => s \notin lmUnseen /\ \A z \in lmSession[s] : z.active /\ z.model # "none"
  BY <1>1, LiveFacts
<1>3. PICK m \in LmModels : m = lmLive[s].model /\ m # "none"
  BY <1>1, <1>2
<1>4. PICK x \in SessType : /\ Noted(s, x) /\ ~(x.active /\ x.completed)
                            /\ x = IF lmSession[s] # {} THEN Revived(Tracked(s)) ELSE NewSession
  <2>1. CASE lmSession[s] = {}
    BY <2>1, NewSessionFacts DEF Noted
  <2>2. ASSUME NEW z \in SessType, lmSession[s] = {z}, Tracked(s) = z
        PROVE  /\ Revived(z) \in SessType /\ Noted(s, Revived(z)) /\ ~(Revived(z).active /\ Revived(z).completed)
               /\ lmSession[s] # {}
    <3>1. /\ Revived(z) \in SessType /\ Revived(z).model = z.model /\ Revived(z).completed = z.completed
          /\ Revived(z).firsts = z.firsts /\ Revived(z).counted = z.counted
          /\ (Revived(z).active <=> z.active \/ ~z.completed)
      BY RevivedFacts
    <3>2. ~(z.active /\ z.completed)
      BY <1>2, <2>2
    <3> QED BY <2>2, <3>1, <3>2 DEF Noted
  <2>3. lmSession[s] = {} \/ \E z \in SessType : lmSession[s] = {z} /\ Tracked(s) = z
    BY <1>2, KnownFacts
  <2> QED BY <2>1, <2>2, <2>3
<1>5. PICK y \in SessType : /\ y = [x EXCEPT !.model = m] /\ y.model = m /\ y.active = x.active
                            /\ y.completed = x.completed /\ y.firsts = x.firsts /\ y.counted = x.counted
  <2>1. [x EXCEPT !.model = m] \in SessType
    BY DEF SessType
  <2> QED BY <2>1 DEF SessType
<1>6. Replaced(s, y)
  BY <1>3, <1>4, <1>5 DEF ObserveSession, Replaced
<1>7. Shifted(s, x, m)
  <2>1. PICK left : left = IF x.model \notin {"none", m}
                           THEN [lmModel EXCEPT ![x.model] = Leave(x, lmModel[x.model])] ELSE lmModel
    OBVIOUS
  <2>2. lmModel' = IF x.model = m \/ (lmSession[s] # {} /\ ~(x.model \notin {"none", m}) /\ x.active) THEN left
                   ELSE [left EXCEPT ![m] = Begun(left[m])]
    BY <1>3, <1>4, <2>1 DEF ObserveSession
  <2> QED BY <2>1, <2>2, ShiftedFacts
<1>8. \A n \in LmModels : Unmoved(lmModel[n], lmModel'[n])
  BY <1>7, ShiftedUnmoved
<1>9. CountedOnce'
  <2>1. \/ lmSession[s] = {} /\ ~y.completed /\ ~y.counted /\ y.firsts = {}
        \/ \E z \in SessType : /\ lmSession[s] = {z} /\ (y.completed <=> z.completed)
                               /\ (y.counted <=> z.counted) /\ y.firsts = z.firsts
    BY <1>4, <1>5 DEF Noted
  <2> QED BY <1>2, <1>6, <1>8, <2>1, QuietCounts
<1>10. ASSUME NEW n \in LmModels PROVE LmModelInv(n)'
  <2>1. lmModel'[n] \in CountType
    BY <1>7 DEF Shifted
  <2>2. lmModel'[n].failed <= lmModel'[n].completed
    <3>1. lmModel[n].failed <= lmModel[n].completed
      BY DEF MetricsInv, LmModelInv
    <3> QED BY <1>8, <3>1 DEF Unmoved
  <2>3. ASSUME ~lmAgain PROVE Balance(n, s, y)
    BY <1>1, <1>4, <1>5, <1>7, <2>3, ShiftedBalance
  <2>4. \A r \in LmIds \ {s} : (r \in lmUnseen' <=> r \in lmUnseen)
    BY <1>1
  <2> QED BY <1>1, <1>2, <1>6, <2>1, <2>2, <2>3, <2>4, ModelStep
<1>11. lmModel' \in [LmModels -> CountType]
  BY <1>7 DEF Shifted
<1>12. ASSUME ~lmAgain PROVE y.active /\ y.model # "none" /\ s \notin lmUnseen'
  BY <1>1, <1>2, <1>3, <1>4, <1>5, <1>12 DEF Noted
<1>13. /\ lmLive' \in [LmCoding -> LiveType] /\ lmUnseen' \subseteq LmCoding
       /\ \A r \in LmIds \ {s} : (r \in lmUnseen' <=> r \in lmUnseen)
       /\ \A r \in LmCoding \ {s} : lmLive'[r] = lmLive[r]
  BY <1>1 DEF MetricsInv, LmTypes
<1>14. ~(y.active /\ y.completed) /\ (s \in LmTasks => y.active /\ y.model # "none")
       /\ (s \in LmCoding => lmLive'[s].runs # 0)
       /\ (s \in LmCoding /\ ~lmAgain /\ lmLive'[s].on => y.active /\ y.model # "none" /\ s \notin lmUnseen')
  BY <1>1, <1>2, <1>4, <1>5, <1>12
<1> QED BY <1>1, <1>2, <1>6, <1>9, <1>10, <1>11, <1>13, <1>14, CollectStep

\* A delta in the counts of the model it counts for.
Heard(x, c, k, t) ==
  LET carried == IF x.counted THEN c ELSE [c EXCEPT !.carried = [c.carried EXCEPT ![t] = @ + 1]]
  IN IF k \in LmKinds \ x.firsts THEN [carried EXCEPT !.firsts = [carried.firsts EXCEPT ![k] = @ + 1]]
     ELSE carried

LEMMA Bumped ==
  ASSUME NEW S, NEW f \in [S -> Nat], NEW a \in S
  PROVE  [f EXCEPT ![a] = @ + 1] \in [S -> Nat]
<1>1. PICK v \in Nat : v = f[a] + 1
  OBVIOUS
<1>2. [f EXCEPT ![a] = v] \in [S -> Nat]
  OBVIOUS
<1> QED BY <1>1, <1>2

LEMMA HeardFacts ==
  ASSUME NEW x, NEW c \in CountType, NEW k, NEW t \in LmTransports, NEW e, e = Heard(x, c, k, t)
  PROVE  /\ e \in CountType /\ e.active = c.active /\ e.started = c.started
         /\ e.completed = c.completed /\ e.failed = c.failed
         /\ x.counted => e.carried = c.carried
         /\ ~x.counted => Differ(c.carried, e.carried, LmTransports, t, 1)
         /\ \A j \in LmKinds : e.firsts[j] = IF j = k /\ k \notin x.firsts THEN c.firsts[j] + 1 ELSE c.firsts[j]
<1>1. c.carried \in [LmTransports -> Nat] /\ c.firsts \in [LmKinds -> Nat]
  BY DEF CountType
<1>2. PICK g \in [LmTransports -> Nat] : g = [c.carried EXCEPT ![t] = @ + 1]
  BY <1>1, Bumped
<1>3. Differ(c.carried, g, LmTransports, t, 1)
  BY <1>1, <1>2 DEF Differ
<1>4. PICK d : d = IF x.counted THEN c ELSE [c EXCEPT !.carried = g]
  OBVIOUS
<1>5. /\ d \in CountType /\ d.active = c.active /\ d.started = c.started /\ d.completed = c.completed
      /\ d.failed = c.failed /\ d.firsts = c.firsts /\ (x.counted => d.carried = c.carried)
      /\ (~x.counted => d.carried = g)
  <2>1. CASE x.counted
    BY <1>4, <2>1
  <2>2. CASE ~x.counted
    <3>1. d = [c EXCEPT !.carried = g]
      BY <1>4, <2>2
    <3> QED BY <2>2, <3>1 DEF CountType
  <2> QED BY <2>1, <2>2
<1>6. e = IF k \in LmKinds \ x.firsts THEN [d EXCEPT !.firsts = [d.firsts EXCEPT ![k] = @ + 1]] ELSE d
  BY <1>2, <1>4 DEF Heard
<1>7. CASE k \in LmKinds \ x.firsts
  <2>1. PICK f \in [LmKinds -> Nat] : f = [c.firsts EXCEPT ![k] = @ + 1]
    <3>1. k \in LmKinds
      BY <1>7
    <3> QED BY <1>1, <3>1, Bumped
  <2>2. e = [d EXCEPT !.firsts = f]
    BY <1>5, <1>6, <1>7, <2>1
  <2>3. /\ e \in CountType /\ e.active = d.active /\ e.started = d.started /\ e.completed = d.completed
        /\ e.failed = d.failed /\ e.firsts = f /\ e.carried = d.carried
    BY <1>5, <2>2 DEF CountType
  <2>4. \A j \in LmKinds : f[j] = IF j = k THEN c.firsts[j] + 1 ELSE c.firsts[j]
    BY <1>1, <2>1
  <2> QED BY <1>3, <1>5, <1>7, <2>3, <2>4
<1>8. CASE k \notin LmKinds \ x.firsts
  <2>1. e = d
    BY <1>6, <1>8
  <2> QED BY <1>3, <1>5, <1>8, <2>1
<1> QED BY <1>7, <1>8

\* The counts after a delta from a session x, counted at a.
Delivered(x, a, k, t) ==
  /\ lmModel' \in [LmModels -> CountType]
  /\ \A n \in LmModels \ {a} : lmModel'[n] = lmModel[n]
  /\ x.model = "none" => lmModel'[a] = Heard(x, Begun(lmModel[a]), k, t)
  /\ x.model # "none" => lmModel'[a] = Heard(x, lmModel[a], k, t)

\* A model's counts, with a session more if it joins.
DeltaAt(c, e, x, k, t, j) ==
  /\ e.active = c.active + j /\ e.started = c.started + j /\ e.completed = c.completed /\ e.failed = c.failed
  /\ x.counted => e.carried = c.carried
  /\ ~x.counted => Differ(c.carried, e.carried, LmTransports, t, 1)
  /\ \A i \in LmKinds : e.firsts[i] = IF i = k /\ k \notin x.firsts THEN c.firsts[i] + 1 ELSE c.firsts[i]

LEMMA DeliveredFacts ==
  ASSUME MetricsInv, NEW x, NEW a \in LmModels, NEW k, NEW t \in LmTransports, Delivered(x, a, k, t)
  PROVE  /\ x.model = "none" => DeltaAt(lmModel[a], lmModel'[a], x, k, t, 1)
         /\ x.model # "none" => DeltaAt(lmModel[a], lmModel'[a], x, k, t, 0)
<1>1. PICK c \in CountType : c = lmModel[a]
  BY DEF MetricsInv, LmTypes
<1>2. PICK b \in CountType : /\ b = Begun(c) /\ b.active = c.active + 1 /\ b.started = c.started + 1
                             /\ b.completed = c.completed /\ b.failed = c.failed
                             /\ b.carried = c.carried /\ b.firsts = c.firsts
  BY BegunFacts
<1>3. PICK e \in CountType : e = lmModel'[a]
  BY DEF Delivered
<1>4. ASSUME x.model = "none" PROVE DeltaAt(c, e, x, k, t, 1)
  <2>1. e = Heard(x, b, k, t)
    BY <1>1, <1>2, <1>3, <1>4 DEF Delivered
  <2>2. /\ e.active = b.active /\ e.started = b.started /\ e.completed = b.completed /\ e.failed = b.failed
        /\ (x.counted => e.carried = b.carried)
        /\ (~x.counted => Differ(b.carried, e.carried, LmTransports, t, 1))
        /\ \A j \in LmKinds : e.firsts[j] = IF j = k /\ k \notin x.firsts THEN b.firsts[j] + 1 ELSE b.firsts[j]
    BY <2>1, HeardFacts
  <2> QED BY <1>2, <2>2 DEF DeltaAt
<1>5. ASSUME x.model # "none" PROVE DeltaAt(c, e, x, k, t, 0)
  <2>1. e = Heard(x, c, k, t)
    BY <1>1, <1>3, <1>5 DEF Delivered
  <2>2. /\ e.active = c.active /\ e.started = c.started /\ e.completed = c.completed /\ e.failed = c.failed
        /\ (x.counted => e.carried = c.carried)
        /\ (~x.counted => Differ(c.carried, e.carried, LmTransports, t, 1))
        /\ \A j \in LmKinds : e.firsts[j] = IF j = k /\ k \notin x.firsts THEN c.firsts[j] + 1 ELSE c.firsts[j]
    BY <2>1, HeardFacts
  <2>3. e.active = c.active + 0 /\ e.started = c.started + 0
    BY <2>2 DEF CountType
  <2> QED BY <2>2, <2>3 DEF DeltaAt
<1> QED BY <1>1, <1>3, <1>4, <1>5

LEMMA CarriedNumber ==
  ASSUME NEW c \in CountType
  PROVE  SumOf(c.carried, LmTransports) \in Nat
<1>1. Numbers(c.carried, LmTransports)
  BY DEF CountType, Numbers
<1> QED BY <1>1, SumType, LmFinite

\* The session of a delta, known or new.
Talking(s, x) ==
  \/ lmSession[s] = {} /\ x.model = "none" /\ x.active /\ ~x.completed /\ ~x.counted /\ x.firsts = {}
  \/ lmSession[s] = {x}

LEMMA TalkingSets ==
  ASSUME NEW s \in LmIds, NEW x, Talking(s, x)
  PROVE  /\ (s \in Ended <=> x.completed) /\ (s \in Carried <=> x.counted)
         /\ \A k \in LmKinds : (s \in Timed(k) <=> k \in x.firsts)
<1>1. CASE lmSession[s] = {x}
  BY <1>1, KnownBelongs DEF Belongs
<1>2. CASE lmSession[s] = {} /\ ~x.completed /\ ~x.counted /\ x.firsts = {}
  BY <1>2, UnknownNowhere DEF Nowhere
<1> QED BY <1>1, <1>2 DEF Talking

LEMMA DeltaCounts ==
  ASSUME MetricsInv, NEW s \in LmIds, NEW x \in SessType, Talking(s, x), NEW y \in SessType, Replaced(s, y),
         NEW a \in LmModels, NEW k, NEW t \in LmTransports, Delivered(x, a, k, t),
         y.completed = x.completed, y.counted,
         y.firsts = IF k \in LmKinds \ x.firsts THEN x.firsts \cup {k} ELSE x.firsts
  PROVE  CountedOnce'
<1>1. lmModel \in [LmModels -> CountType] /\ lmModel' \in [LmModels -> CountType]
      /\ \A n \in LmModels \ {a} : lmModel'[n] = lmModel[n]
  BY DEF MetricsInv, LmTypes, Delivered
<1>2. PICK c \in CountType : c = lmModel[a]
  BY <1>1
<1>3. PICK e \in CountType : e = lmModel'[a]
  BY <1>1
<1>4. /\ e.completed = c.completed
      /\ (x.counted => e.carried = c.carried)
      /\ (~x.counted => Differ(c.carried, e.carried, LmTransports, t, 1))
      /\ \A i \in LmKinds : e.firsts[i] = IF i = k /\ k \notin x.firsts THEN c.firsts[i] + 1 ELSE c.firsts[i]
  BY <1>2, <1>3, DeliveredFacts DEF DeltaAt
<1>5. /\ (s \in Ended <=> x.completed) /\ (s \in Carried <=> x.counted)
      /\ \A i \in LmKinds : (s \in Timed(i) <=> i \in x.firsts)
  BY TalkingSets
<1>6. /\ (s \in Ended' <=> y.completed) /\ (s \in Carried' <=> y.counted)
      /\ \A i \in LmKinds : (s \in Timed(i)' <=> i \in y.firsts)
  BY ReplacedBelongs
<1>7. Tallied(Completions(lmModel), Completions(lmModel'), LmModels, Ended, Ended', s)
  <2>1. \A n \in LmModels : lmModel'[n].completed = lmModel[n].completed
    BY <1>1, <1>2, <1>3, <1>4
  <2>2. Completions(lmModel) = Completions(lmModel')
    BY <2>1 DEF Completions
  <2> QED BY <1>5, <1>6, <2>2 DEF Tallied
<1>8. Tallied(Transports(lmModel), Transports(lmModel'), LmModels, Carried, Carried', s)
  <2>1. CASE x.counted
    <3>1. \A n \in LmModels : lmModel'[n].carried = lmModel[n].carried
      BY <1>1, <1>2, <1>3, <1>4, <2>1
    <3>2. Transports(lmModel) = Transports(lmModel')
      BY <3>1 DEF Transports
    <3> QED BY <1>5, <1>6, <2>1, <3>2 DEF Tallied
  <2>2. CASE ~x.counted
    <3>1. PICK d \in Nat : d = 1
      OBVIOUS
    <3>2. Differ(c.carried, e.carried, LmTransports, t, d)
      BY <1>4, <2>2, <3>1
    <3>3. SumOf(e.carried, LmTransports) = SumOf(c.carried, LmTransports) + d
      BY <3>2, LmFinite, SumGrows
    <3>4. \A n \in LmModels : /\ SumOf(lmModel[n].carried, LmTransports) \in Nat
                              /\ SumOf(lmModel'[n].carried, LmTransports) \in Nat
      BY <1>1, CarriedNumber
    <3>5. Differ(Transports(lmModel), Transports(lmModel'), LmModels, a, 1)
      BY <1>1, <1>2, <1>3, <3>1, <3>3, <3>4 DEF Differ, Transports
    <3> QED BY <1>5, <1>6, <2>2, <3>5 DEF Tallied
  <2> QED BY <2>1, <2>2
<1>9. ASSUME NEW i \in LmKinds
      PROVE  Tallied(Firsts(lmModel, i), Firsts(lmModel', i), LmModels, Timed(i), Timed(i)', s)
  <2>1. CASE i = k /\ k \notin x.firsts
    <3>1. e.firsts[i] = c.firsts[i] + 1
      BY <1>4, <2>1
    <3>2. \A n \in LmModels : lmModel[n].firsts[i] \in Nat /\ lmModel'[n].firsts[i] \in Nat
      BY <1>1 DEF CountType
    <3>3. Differ(Firsts(lmModel, i), Firsts(lmModel', i), LmModels, a, 1)
      BY <1>1, <1>2, <1>3, <3>1, <3>2 DEF Differ, Firsts
    <3>4. s \notin Timed(i) /\ s \in Timed(i)'
      BY <1>5, <1>6, <2>1
    <3> QED BY <3>3, <3>4 DEF Tallied
  <2>2. CASE ~(i = k /\ k \notin x.firsts)
    <3>1. \A n \in LmModels : lmModel'[n].firsts[i] = lmModel[n].firsts[i]
      BY <1>1, <1>2, <1>3, <1>4, <2>2
    <3>2. Firsts(lmModel, i) = Firsts(lmModel', i)
      BY <3>1 DEF Firsts
    <3>3. s \in Timed(i) <=> s \in Timed(i)'
      BY <1>5, <1>6, <2>2
    <3> QED BY <3>2, <3>3 DEF Tallied
  <2> QED BY <2>1, <2>2
<1> QED BY <1>7, <1>8, <1>9, CountStep

LEMMA DeltaBalance ==
  ASSUME MetricsInv, NEW s \in LmIds, NEW x \in SessType, Talking(s, x),
         lmSession[s] # {} => x.active /\ ~x.completed /\ x.model # "none", NEW a \in LmModels,
         x.model # "none" => a = x.model, NEW k, NEW t \in LmTransports, Delivered(x, a, k, t),
         lmUnseen' = lmUnseen, NEW y, y.model = a, y.active = x.active, y.completed = x.completed,
         NEW n \in LmModels
  PROVE  Balance(n, s, y)
<1>1. lmModel[n] \in CountType
  BY DEF MetricsInv, LmTypes
<1>2. ASSUME n # a PROVE lmModel'[n] = lmModel[n]
  BY <1>2 DEF Delivered
<1>3. CASE lmSession[s] = {} /\ x.model = "none" /\ x.active /\ ~x.completed
  <2>1. s \notin ActiveAt(n) /\ s \notin EndedAt(n) /\ s \notin SeenAt(n)
    BY <1>3, UnknownNowhere DEF Nowhere
  <2>2. CASE n = a
    <3>1. DeltaAt(lmModel[n], lmModel'[n], x, k, t, 1)
      BY <1>3, <2>2, DeliveredFacts
    <3>2. /\ lmModel'[n].active = lmModel[n].active + 1 /\ lmModel'[n].started = lmModel[n].started + 1
          /\ lmModel'[n].completed = lmModel[n].completed
      BY <3>1 DEF DeltaAt
    <3>3. y.model = n /\ y.active /\ ~y.completed
      BY <1>3, <2>2
    <3> QED BY <1>1, <2>1, <3>2, <3>3, BalanceJoined
  <2>3. CASE n # a
    <3>1. y.model # n
      BY <2>3
    <3> QED BY <1>1, <1>2, <2>1, <2>3, <3>1, BalanceSame
  <2> QED BY <2>2, <2>3
<1>4. CASE lmSession[s] = {x}
  <2>1. x.active /\ ~x.completed /\ x.model # "none" /\ a = x.model
    BY <1>4
  <2>2. Belongs(s, x)
    BY <1>4, KnownBelongs
  <2>3. /\ (s \in ActiveAt(n) <=> y.model = n /\ y.active) /\ (s \in EndedAt(n) <=> y.model = n /\ y.completed)
        /\ (s \in SeenAt(n) <=> y.model = n /\ s \notin lmUnseen')
    BY <2>1, <2>2 DEF Belongs
  <2>4. /\ lmModel'[n].active = lmModel[n].active /\ lmModel'[n].started = lmModel[n].started
        /\ lmModel'[n].completed = lmModel[n].completed
    <3>1. CASE n = a
      <4>1. DeltaAt(lmModel[n], lmModel'[n], x, k, t, 0)
        BY <2>1, <3>1, DeliveredFacts
      <4>2. lmModel'[n].active = lmModel[n].active + 0 /\ lmModel'[n].started = lmModel[n].started + 0
            /\ lmModel'[n].completed = lmModel[n].completed
        BY <4>1 DEF DeltaAt
      <4> QED BY <1>1, <4>2 DEF CountType
    <3>2. CASE n # a
      BY <1>2, <3>2
    <3> QED BY <3>1, <3>2
  <2> QED BY <1>1, <2>3, <2>4, BalanceSame
<1> QED BY <1>3, <1>4 DEF Talking

LEMMA ObserveDeltaStep ==
  ASSUME MetricsInv, NEW s \in LmIds, NEW m \in LmModels, NEW k, NEW t \in LmTransports, ObserveDelta(s, m, k, t)
  PROVE  MetricsInv'
<1>1. /\ (s \in LmCoding => lmLive[s].on) /\ lmUnseen' = lmUnseen /\ lmAgain' = lmAgain /\ lmLive' = lmLive
  BY DEF ObserveDelta
<1>2. PICK x \in SessType : Talking(s, x) /\ x = IF lmSession[s] = {} THEN NewSession ELSE Tracked(s)
  <2>1. CASE lmSession[s] = {}
    BY <2>1, NewSessionFacts DEF Talking
  <2>2. ASSUME NEW z \in SessType, lmSession[s] = {z}, Tracked(s) = z
        PROVE  Talking(s, z) /\ lmSession[s] # {}
    BY <2>2 DEF Talking
  <2>3. lmSession[s] = {} \/ \E z \in SessType : lmSession[s] = {z} /\ Tracked(s) = z
    BY KnownFacts
  <2> QED BY <2>1, <2>2, <2>3
<1>3. /\ ~(x.active /\ x.completed)
      /\ s \in LmTasks => x.active /\ (lmSession[s] # {} => x.model # "none")
      /\ s \in LmCoding => s \notin LmTasks /\ lmLive[s].runs # 0
      /\ s \in LmCoding /\ ~lmAgain => x.active /\ s \notin lmUnseen /\ (lmSession[s] # {} => x.model # "none")
  <2>1. LmSessionInv(s)
    BY DEF MetricsInv
  <2>2. lmSession[s] # {} => x \in lmSession[s]
    BY <1>2 DEF Talking
  <2>3. lmSession[s] = {} => x.active /\ ~x.completed
    BY <1>2 DEF Talking
  <2>4. s \in LmCoding => s \notin LmTasks
    BY MetricsAssumption
  <2> QED BY <1>1, <2>1, <2>2, <2>3, <2>4 DEF LmSessionInv
<1>4. x.model \in LmModels \cup {"none"} /\ lmModel \in [LmModels -> CountType] /\ "none" \notin LmModels
  BY MetricsAssumption DEF MetricsInv, LmTypes, SessType
<1>5. PICK a \in LmModels : a = (IF x.model = "none" THEN m ELSE x.model) /\ a # "none"
  BY <1>4
<1>6. PICK f \in SUBSET LmKinds : f = IF k \in LmKinds \ x.firsts THEN x.firsts \cup {k} ELSE x.firsts
  BY DEF SessType
<1>7. PICK u \in BOOLEAN : u = TRUE
  OBVIOUS
<1>8. PICK y \in SessType : /\ y = [x EXCEPT !.model = a, !.counted = u, !.firsts = f] /\ y.model = a
                            /\ y.active = x.active /\ y.completed = x.completed /\ y.firsts = f /\ y.counted = u
  <2>1. [x EXCEPT !.model = a, !.counted = u, !.firsts = f] \in SessType
    BY DEF SessType
  <2> QED BY <2>1 DEF SessType
<1>9. Replaced(s, y)
  BY <1>2, <1>5, <1>6, <1>7, <1>8 DEF ObserveDelta, Replaced
<1>10. Delivered(x, a, k, t)
  <2>1. PICK c \in CountType : c = IF x.model = "none" THEN Begun(lmModel[a]) ELSE lmModel[a]
    BY <1>4, BegunFacts
  <2>2. PICK e \in CountType : e = Heard(x, c, k, t)
    BY HeardFacts
  <2>3. lmModel' = [lmModel EXCEPT ![a] = e]
    <3> DEFINE At(z) == IF z.model = "none" THEN m ELSE z.model
               Base(z) == IF z.model = "none" THEN Begun(lmModel[At(z)]) ELSE lmModel[At(z)]
               Want(z) == [lmModel EXCEPT ![At(z)] = Heard(z, Base(z), k, t)]
    <3>1. lmModel' = Want(IF lmSession[s] = {} THEN NewSession ELSE Tracked(s))
      BY Zenon DEF ObserveDelta, Heard
    <3>2. lmModel' = Want(x)
      <4> HIDE DEF Want
      <4> QED BY <1>2, <3>1
    <3>3. At(x) = a /\ Base(x) = c
      BY <1>5, <2>1
    <3> QED BY <2>2, <3>2, <3>3
  <2>4. lmModel' \in [LmModels -> CountType] /\ lmModel'[a] = e /\ \A n \in LmModels \ {a} : lmModel'[n] = lmModel[n]
    BY <1>4, <2>3
  <2> QED BY <2>1, <2>2, <2>4 DEF Delivered
<1>11. CountedOnce'
  <2>1. y.counted /\ y.completed = x.completed
        /\ y.firsts = IF k \in LmKinds \ x.firsts THEN x.firsts \cup {k} ELSE x.firsts
    BY <1>6, <1>7, <1>8
  <2> QED BY <1>2, <1>9, <1>10, <2>1, DeltaCounts
<1>12. ASSUME NEW n \in LmModels PROVE LmModelInv(n)'
  <2>1. lmModel'[n] \in CountType
    BY <1>10 DEF Delivered
  <2>2. lmModel'[n].failed <= lmModel'[n].completed
    <3>1. lmModel[n].failed <= lmModel[n].completed
      BY DEF MetricsInv, LmModelInv
    <3>2. lmModel'[n].failed = lmModel[n].failed /\ lmModel'[n].completed = lmModel[n].completed
      <4>1. CASE n = a
        BY <1>10, <4>1, DeliveredFacts DEF DeltaAt
      <4>2. CASE n # a
        BY <1>10, <4>2 DEF Delivered
      <4> QED BY <4>1, <4>2
    <3> QED BY <3>1, <3>2
  <2>3. ASSUME ~lmAgain PROVE Balance(n, s, y)
    <3>1. lmSession[s] # {} => x.active /\ ~x.completed /\ x.model # "none"
      BY <1>3, <2>3 DEF LmIds
    <3>2. x.model # "none" => a = x.model
      BY <1>5
    <3> QED BY ZenonT(60), <1>1, <1>2, <1>8, <1>10, <3>1, <3>2, DeltaBalance
  <2>4. \A r \in LmIds \ {s} : (r \in lmUnseen' <=> r \in lmUnseen)
    BY <1>1
  <2> QED BY <1>1, <1>9, <2>1, <2>2, <2>3, <2>4, ModelStep
<1>13. lmModel' \in [LmModels -> CountType]
  BY <1>10 DEF Delivered
<1>14. /\ lmLive' \in [LmCoding -> LiveType] /\ lmUnseen' \subseteq LmCoding
       /\ \A r \in LmIds \ {s} : (r \in lmUnseen' <=> r \in lmUnseen)
       /\ \A r \in LmCoding \ {s} : lmLive'[r] = lmLive[r]
  BY <1>1 DEF MetricsInv, LmTypes
<1>15. ~(y.active /\ y.completed) /\ (s \in LmTasks => y.active /\ y.model # "none")
       /\ (s \in LmCoding => lmLive'[s].runs # 0)
       /\ (s \in LmCoding /\ ~lmAgain /\ lmLive'[s].on => y.active /\ y.model # "none" /\ s \notin lmUnseen')
  BY <1>1, <1>3, <1>5, <1>8
<1> QED BY SMTT(40), <1>1, <1>9, <1>11, <1>12, <1>13, <1>14, <1>15, CollectStep

\* A session before it is completed, with the model it is completed at.
Ending(s, x) ==
  \/ lmSession[s] = {} /\ ~x.active /\ ~x.completed /\ ~x.counted /\ x.firsts = {}
  \/ \E z \in SessType : /\ lmSession[s] = {z} /\ x.active = z.active /\ x.completed = z.completed
                         /\ x.counted = z.counted /\ x.firsts = z.firsts
                         /\ (z.model # "none" => x.model = z.model)

EndingOf(s) ==
  LET x0 == IF lmSession[s] = {} THEN [NewSession EXCEPT !.active = FALSE] ELSE Tracked(s)
  IN IF x0.model = "none" THEN [x0 EXCEPT !.model = lmLive[s].model] ELSE x0

LEMMA EndingFacts ==
  ASSUME MetricsInv, NEW s \in LmCoding, lmLive[s].on
  PROVE  EndingOf(s) \in SessType /\ Ending(s, EndingOf(s))
<1>1. s \in LmIds /\ lmLive[s].model \in LmModels \cup {"none"}
  BY LiveFacts
<1>2. PICK z0 : z0 = IF lmSession[s] = {} THEN [NewSession EXCEPT !.active = FALSE] ELSE Tracked(s)
  OBVIOUS
<1>3. z0 \in SessType /\ \/ lmSession[s] = {} /\ ~z0.active /\ ~z0.completed /\ ~z0.counted /\ z0.firsts = {}
                         \/ lmSession[s] = {z0}
  <2>1. CASE lmSession[s] = {}
    <3>1. PICK b \in BOOLEAN : b = FALSE
      OBVIOUS
    <3>2. PICK w \in SessType : w = NewSession /\ ~w.completed /\ ~w.counted /\ w.firsts = {}
      BY NewSessionFacts
    <3>3. z0 = [w EXCEPT !.active = b]
      BY <1>2, <2>1, <3>1, <3>2
    <3>4. z0 \in SessType /\ z0.active = b /\ z0.completed = w.completed /\ z0.counted = w.counted
          /\ z0.firsts = w.firsts
      BY <3>3 DEF SessType
    <3> QED BY <2>1, <3>1, <3>2, <3>4
  <2>2. CASE lmSession[s] # {}
    BY <1>1, <1>2, <2>2, KnownFacts
  <2> QED BY <2>1, <2>2
<1>4. EndingOf(s) = IF z0.model = "none" THEN [z0 EXCEPT !.model = lmLive[s].model] ELSE z0
  BY <1>2 DEF EndingOf
<1>5. CASE z0.model = "none"
  <2>1. PICK l \in LmModels \cup {"none"} : l = lmLive[s].model
    BY <1>1
  <2>2. PICK x : x = EndingOf(s) /\ x = [z0 EXCEPT !.model = l]
    BY <1>4, <1>5, <2>1
  <2>3. x \in SessType /\ x.active = z0.active /\ x.completed = z0.completed /\ x.counted = z0.counted
        /\ x.firsts = z0.firsts
    BY <1>3, <2>2 DEF SessType
  <2> QED BY <1>3, <1>5, <2>2, <2>3 DEF Ending
<1>6. CASE z0.model # "none"
  <2>1. EndingOf(s) = z0
    BY <1>4, <1>6
  <2> QED BY <1>3, <2>1 DEF Ending
<1> QED BY <1>5, <1>6

LEMMA EndingSets ==
  ASSUME NEW s \in LmIds, NEW x, Ending(s, x)
  PROVE  /\ (s \in Ended <=> x.completed) /\ (s \in Carried <=> x.counted)
         /\ \A k \in LmKinds : (s \in Timed(k) <=> k \in x.firsts)
<1>1. ASSUME NEW z \in SessType, lmSession[s] = {z}, x.completed = z.completed, x.counted = z.counted,
             x.firsts = z.firsts
      PROVE  /\ (s \in Ended <=> x.completed) /\ (s \in Carried <=> x.counted)
             /\ \A k \in LmKinds : (s \in Timed(k) <=> k \in x.firsts)
  BY <1>1, KnownBelongs DEF Belongs
<1>2. CASE lmSession[s] = {} /\ ~x.completed /\ ~x.counted /\ x.firsts = {}
  BY <1>2, UnknownNowhere DEF Nowhere
<1> QED BY <1>1, <1>2 DEF Ending

\* The counts of the model a session ends at.
DownOf(x, c) == IF x.active THEN [c EXCEPT !.active = Less(@)] ELSE c

LEMMA OnceFacts ==
  ASSUME NEW x, NEW c \in CountType, NEW failed, NEW e, e = Once(x, DownOf(x, c), failed),
         c.failed <= c.completed
  PROVE  /\ e \in CountType /\ e.active = (IF x.active THEN Less(c.active) ELSE c.active)
         /\ e.started = c.started /\ e.completed = (IF x.completed THEN c.completed ELSE c.completed + 1)
         /\ e.failed <= e.completed /\ e.carried = c.carried /\ e.firsts = c.firsts
<1>1. PICK a \in Nat : a = IF x.active THEN Less(c.active) ELSE c.active
  BY DEF Less, CountType
<1>2. PICK d : d = DownOf(x, c)
  OBVIOUS
<1>3. /\ d \in CountType /\ d.active = a /\ d.started = c.started /\ d.completed = c.completed
      /\ d.failed = c.failed /\ d.carried = c.carried /\ d.firsts = c.firsts
  <2>1. CASE x.active
    <3>1. d = [c EXCEPT !.active = a]
      BY <1>1, <1>2, <2>1 DEF DownOf
    <3> QED BY <3>1 DEF CountType
  <2>2. CASE ~x.active
    BY <1>1, <1>2, <2>2 DEF DownOf
  <2> QED BY <2>1, <2>2
<1>4. c.failed \in Nat /\ c.completed \in Nat
  BY DEF CountType
<1>5. CASE x.completed
  <2>1. e = d
    BY <1>2, <1>5 DEF Once
  <2> QED BY <1>1, <1>3, <1>5, <2>1
<1>6. CASE ~x.completed
  <2>1. PICK f \in Nat : f = (IF failed THEN c.failed + 1 ELSE c.failed) /\ f <= c.completed + 1
    BY <1>4
  <2>2. PICK o \in Nat : o = c.completed + 1
    BY <1>4
  <2>3. e = [d EXCEPT !.completed = o, !.failed = f]
    BY <1>2, <1>3, <1>6, <2>1, <2>2 DEF Once
  <2>4. /\ e \in CountType /\ e.active = d.active /\ e.started = d.started /\ e.completed = o
        /\ e.failed = f /\ e.carried = d.carried /\ e.firsts = d.firsts
    BY <1>3, <2>3 DEF CountType
  <2> QED BY <1>1, <1>3, <1>6, <2>1, <2>2, <2>4
<1> QED BY <1>5, <1>6

Settled(x, a, e) ==
  /\ lmModel' \in [LmModels -> CountType] /\ \A n \in LmModels \ {a} : lmModel'[n] = lmModel[n]
  /\ lmModel'[a] = e /\ e.active = (IF x.active THEN Less(lmModel[a].active) ELSE lmModel[a].active)
  /\ e.started = lmModel[a].started
  /\ e.completed = (IF x.completed THEN lmModel[a].completed ELSE lmModel[a].completed + 1)
  /\ e.failed <= e.completed /\ e.carried = lmModel[a].carried /\ e.firsts = lmModel[a].firsts

LEMMA SettledCounts ==
  ASSUME MetricsInv, NEW s \in LmIds, NEW x \in SessType, Ending(s, x), NEW y \in SessType, Replaced(s, y),
         NEW a \in LmModels, NEW e, Settled(x, a, e), y.completed, y.counted = x.counted, y.firsts = x.firsts
  PROVE  CountedOnce'
<1>1. lmModel \in [LmModels -> CountType] /\ lmModel' \in [LmModels -> CountType]
      /\ \A n \in LmModels \ {a} : lmModel'[n] = lmModel[n]
  BY DEF MetricsInv, LmTypes, Settled
<1>2. /\ (s \in Ended <=> x.completed) /\ (s \in Carried <=> x.counted)
      /\ \A i \in LmKinds : (s \in Timed(i) <=> i \in x.firsts)
  BY EndingSets
<1>3. /\ (s \in Ended' <=> y.completed) /\ (s \in Carried' <=> y.counted)
      /\ \A i \in LmKinds : (s \in Timed(i)' <=> i \in y.firsts)
  BY ReplacedBelongs
<1>4. \A n \in LmModels : lmModel'[n].carried = lmModel[n].carried /\ lmModel'[n].firsts = lmModel[n].firsts
  BY <1>1 DEF Settled
<1>5. Transports(lmModel) = Transports(lmModel') /\ \A k \in LmKinds : Firsts(lmModel, k) = Firsts(lmModel', k)
  BY <1>4 DEF Transports, Firsts
<1>6. /\ Tallied(Transports(lmModel), Transports(lmModel'), LmModels, Carried, Carried', s)
      /\ \A k \in LmKinds : Tallied(Firsts(lmModel, k), Firsts(lmModel', k), LmModels, Timed(k), Timed(k)', s)
  BY <1>2, <1>3, <1>5 DEF Tallied
<1>7. Tallied(Completions(lmModel), Completions(lmModel'), LmModels, Ended, Ended', s)
  <2>1. CASE x.completed
    <3>1. \A n \in LmModels : lmModel'[n].completed = lmModel[n].completed
      BY <1>1, <2>1 DEF Settled
    <3>2. Completions(lmModel) = Completions(lmModel')
      BY <3>1 DEF Completions
    <3> QED BY <1>2, <1>3, <2>1, <3>2 DEF Tallied
  <2>2. CASE ~x.completed
    <3>1. lmModel'[a].completed = lmModel[a].completed + 1
      BY <2>2 DEF Settled
    <3>2. \A n \in LmModels : lmModel[n].completed \in Nat /\ lmModel'[n].completed \in Nat
      BY <1>1 DEF CountType
    <3>3. Differ(Completions(lmModel), Completions(lmModel'), LmModels, a, 1)
      BY <1>1, <3>1, <3>2 DEF Differ, Completions
    <3> QED BY <1>2, <1>3, <2>2, <3>3 DEF Tallied
  <2> QED BY <2>1, <2>2
<1> QED BY <1>6, <1>7, CountStep

\* The model a session ends at.
LEMMA BalanceEnded ==
  ASSUME NEW m, NEW s, NEW y, lmModel[m] \in CountType, lmModel'[m] \in CountType,
         s \in ActiveAt(m) => lmModel'[m].active + 1 = lmModel[m].active,
         s \notin ActiveAt(m) => lmModel'[m].active = lmModel[m].active,
         lmModel'[m].completed = lmModel[m].completed + 1, lmModel'[m].started = lmModel[m].started,
         s \notin EndedAt(m), s \in SeenAt(m) <=> s \notin lmUnseen', y.model = m, ~y.active, y.completed
  PROVE  Balance(m, s, y)
<1>1. /\ One(y.model = m /\ y.active) = 0 /\ One(s \in EndedAt(m)) = 0 /\ One(y.model = m /\ y.completed) = 1
  BY DEF One
<1>2. PICK i \in Nat : i = One(s \in SeenAt(m)) /\ i = One(y.model = m /\ s \notin lmUnseen')
  BY DEF One
<1>3. PICK j \in Nat : /\ j = One(s \in ActiveAt(m)) /\ (s \in ActiveAt(m) => j = 1)
                       /\ (s \notin ActiveAt(m) => j = 0)
  BY DEF One
<1>4. /\ lmModel[m].active \in Nat /\ lmModel[m].completed \in Nat /\ lmModel[m].started \in Nat
      /\ lmModel'[m].active \in Nat /\ lmModel'[m].completed \in Nat /\ lmModel'[m].started \in Nat
  BY DEF CountType
<1>5. lmModel'[m].active + j = lmModel[m].active + 0
  BY <1>3, <1>4
<1>6. lmModel'[m].completed + 0 = lmModel[m].completed + 1 /\ lmModel'[m].started + i >= lmModel[m].started + i
  BY <1>4
<1> QED BY <1>1, <1>2, <1>3, <1>5, <1>6 DEF Balance

LEMMA SettledBalance ==
  ASSUME MetricsInv, ~lmAgain, NEW s \in LmCoding, lmLive[s].on, NEW x \in SessType, Ending(s, x),
         lmUnseen' = (IF lmSession[s] = {} THEN lmUnseen \cup {s} ELSE lmUnseen),
         NEW a \in LmModels, x.model = a, NEW e, Settled(x, a, e), NEW y, y.model = a, ~y.active, y.completed,
         NEW n \in LmModels
  PROVE  Balance(n, s, y)
<1>1. lmModel[n] \in CountType /\ lmModel'[n] \in CountType
  BY DEF MetricsInv, LmTypes, Settled
<1>2. /\ s \in LmIds /\ \A z \in lmSession[s] : ~(z.active /\ z.completed)
      /\ s \notin lmUnseen /\ \A z \in lmSession[s] : z.active /\ z.model # "none"
  BY LiveFacts
<1>3. ASSUME n # a PROVE lmModel'[n] = lmModel[n] /\ y.model # n
  BY <1>3 DEF Settled
<1>4. CASE lmSession[s] = {} /\ ~x.active /\ ~x.completed
  <2>1. s \notin ActiveAt(n) /\ s \notin EndedAt(n) /\ s \notin SeenAt(n) /\ s \in lmUnseen'
    BY <1>2, <1>4, UnknownNowhere DEF Nowhere
  <2>2. CASE n = a
    <3>1. /\ lmModel'[n].active = lmModel[n].active /\ lmModel'[n].completed = lmModel[n].completed + 1
          /\ lmModel'[n].started = lmModel[n].started
      BY <1>4, <2>2 DEF Settled
    <3>2. y.model = n
      BY <2>2
    <3> QED BY <1>1, <2>1, <3>1, <3>2, BalanceEnded
  <2>3. CASE n # a
    <3>1. lmModel'[n] = lmModel[n] /\ y.model # n
      BY <1>3, <2>3
    <3> QED BY <1>1, <2>1, <3>1, BalanceSame
  <2> QED BY <2>2, <2>3
<1>5. ASSUME NEW z \in SessType, lmSession[s] = {z}, x.active = z.active, x.completed = z.completed,
             z.model # "none" => x.model = z.model
      PROVE  Balance(n, s, y)
  <2>1. z.active /\ ~z.completed /\ z.model = a /\ x.active /\ ~x.completed /\ s \notin lmUnseen'
    BY <1>2, <1>5
  <2>2. Belongs(s, z)
    BY <1>2, <1>5, KnownBelongs
  <2>3. /\ (s \in ActiveAt(n) <=> n = a) /\ s \notin EndedAt(n) /\ (s \in SeenAt(n) <=> n = a)
    BY <1>2, <2>1, <2>2 DEF Belongs
  <2>4. CASE n = a
    <3>1. /\ lmModel'[n].active = Less(lmModel[n].active) /\ lmModel'[n].completed = lmModel[n].completed + 1
          /\ lmModel'[n].started = lmModel[n].started
      BY <2>1, <2>4 DEF Settled
    <3>2. lmModel[n].active >= 1
      BY <1>2, <2>3, <2>4, CountsPositive
    <3>3. lmModel'[n].active + 1 = lmModel[n].active
      BY <1>1, <3>1, <3>2 DEF Less, CountType
    <3>4. s \in ActiveAt(n) /\ s \in SeenAt(n) /\ y.model = n
      BY <2>3, <2>4
    <3> QED BY <1>1, <2>1, <2>3, <3>1, <3>3, <3>4, BalanceEnded
  <2>5. CASE n # a
    <3>1. lmModel'[n] = lmModel[n] /\ y.model # n
      BY <1>3, <2>5
    <3>2. s \notin ActiveAt(n) /\ s \notin SeenAt(n)
      BY <2>3, <2>5
    <3> QED BY <1>1, <2>3, <3>1, <3>2, BalanceSame
  <2> QED BY <2>4, <2>5
<1> QED BY <1>4, <1>5 DEF Ending

LEMMA CompleteSessionStep ==
  ASSUME MetricsInv, NEW s \in LmCoding, NEW failed \in BOOLEAN, CompleteSession(s, failed)
  PROVE  MetricsInv'
<1>1. /\ lmLive[s].on /\ lmAgain' = lmAgain
      /\ lmLive' = [lmLive EXCEPT ![s] = [lmLive[s] EXCEPT !.on = FALSE]]
      /\ lmUnseen' = (IF lmSession[s] = {} THEN lmUnseen \cup {s} ELSE lmUnseen)
  BY DEF CompleteSession
<1>2. /\ s \in LmIds /\ s \notin LmTasks /\ lmLive[s].runs # 0 /\ lmLive[s] \in LiveType
      /\ \A z \in lmSession[s] : ~(z.active /\ z.completed)
      /\ ~lmAgain => s \notin lmUnseen /\ \A z \in lmSession[s] : z.active /\ z.model # "none"
  BY <1>1, LiveFacts
<1>3. PICK x \in SessType : x = EndingOf(s) /\ Ending(s, x) /\ ~(x.active /\ x.completed)
  <2>1. EndingOf(s) \in SessType /\ Ending(s, EndingOf(s))
    BY <1>1, EndingFacts
  <2>2. ~(EndingOf(s).active /\ EndingOf(s).completed)
    BY <1>2, <2>1 DEF Ending
  <2> QED BY <2>1, <2>2
<1>4. IF x.model = "none"
      THEN lmSession' = [lmSession EXCEPT ![s] = {x}] /\ lmModel' = lmModel
      ELSE /\ lmSession' = [lmSession EXCEPT ![s] = {[x EXCEPT !.active = FALSE, !.completed = TRUE]}]
           /\ lmModel' = [lmModel EXCEPT ![x.model] = Once(x, DownOf(x, lmModel[x.model]), failed)]
  <2> DEFINE Want(z) == IF z.model = "none"
                        THEN lmSession' = [lmSession EXCEPT ![s] = {z}] /\ lmModel' = lmModel
                        ELSE /\ lmSession' = [lmSession EXCEPT ![s] = {[z EXCEPT !.active = FALSE, !.completed = TRUE]}]
                             /\ lmModel' = [lmModel EXCEPT ![z.model] = Once(z, DownOf(z, lmModel[z.model]), failed)]
  <2>1. Want(EndingOf(s))
    BY Zenon DEF CompleteSession, EndingOf, DownOf
  <2>2. Want(x)
    <3> HIDE DEF Want
    <3> QED BY <1>3, <2>1
  <2> QED BY <2>2
<1>5. /\ lmLive' \in [LmCoding -> LiveType] /\ lmUnseen' \subseteq LmCoding
      /\ \A r \in LmIds \ {s} : (r \in lmUnseen' <=> r \in lmUnseen)
      /\ \A r \in LmCoding \ {s} : lmLive'[r] = lmLive[r]
      /\ lmLive'[s].runs # 0 /\ ~lmLive'[s].on
  <2>1. lmLive \in [LmCoding -> LiveType] /\ lmUnseen \subseteq LmCoding
    BY DEF MetricsInv, LmTypes
  <2>2. PICK b \in BOOLEAN : b = FALSE
    OBVIOUS
  <2>3. PICK l : l = [lmLive[s] EXCEPT !.on = b]
    OBVIOUS
  <2>4. l \in LiveType /\ l.runs = lmLive[s].runs /\ l.on = b
    BY <1>2, <2>3 DEF LiveType
  <2>5. lmLive' = [lmLive EXCEPT ![s] = l]
    BY <1>1, <2>2, <2>3
  <2>6. lmLive' \in [LmCoding -> LiveType] /\ lmLive'[s] = l /\ \A r \in LmCoding \ {s} : lmLive'[r] = lmLive[r]
    BY <2>1, <2>4, <2>5
  <2>7. lmUnseen' \subseteq LmCoding /\ \A r \in LmIds \ {s} : (r \in lmUnseen' <=> r \in lmUnseen)
    BY <1>1, <2>1
  <2> QED BY <1>2, <2>2, <2>4, <2>6, <2>7
<1>6. CASE x.model = "none"
  <2>1. Replaced(s, x) /\ lmModel' = lmModel
    BY <1>4, <1>6 DEF Replaced
  <2>2. CountedOnce'
    <3>1. \A n \in LmModels : Unmoved(lmModel[n], lmModel'[n])
      BY <2>1 DEF Unmoved
    <3>2. \/ lmSession[s] = {} /\ ~x.completed /\ ~x.counted /\ x.firsts = {}
          \/ \E z \in SessType : /\ lmSession[s] = {z} /\ (x.completed <=> z.completed)
                                 /\ (x.counted <=> z.counted) /\ x.firsts = z.firsts
      BY <1>3 DEF Ending
    <3> QED BY <1>2, <2>1, <3>1, <3>2, QuietCounts
  <2>3. ASSUME NEW n \in LmModels PROVE LmModelInv(n)'
    <3>1. lmModel[n] \in CountType /\ lmModel'[n] = lmModel[n] /\ lmModel[n].failed <= lmModel[n].completed
      BY <2>1 DEF MetricsInv, LmTypes, LmModelInv
    <3>2. ASSUME ~lmAgain PROVE Balance(n, s, x)
      <4>1. lmSession[s] = {}
        BY <1>2, <1>3, <1>6, <3>2 DEF Ending
      <4>2. s \notin ActiveAt(n) /\ s \notin EndedAt(n) /\ s \notin SeenAt(n)
        BY <1>2, <4>1, UnknownNowhere DEF Nowhere
      <4>3. x.model # n
        BY <1>6, MetricsAssumption
      <4> QED BY <3>1, <4>2, <4>3, BalanceSame
    <3> QED BY <1>1, <1>2, <1>5, <2>1, <3>1, <3>2, ModelStep
  <2>4. lmModel' \in [LmModels -> CountType]
    BY <2>1 DEF MetricsInv, LmTypes
  <2> QED BY <1>1, <1>2, <1>3, <1>5, <2>1, <2>2, <2>3, <2>4, CollectStep
<1>7. CASE x.model # "none"
  <2>1. PICK a \in LmModels : a = x.model
    BY <1>7 DEF SessType
  <2>2. PICK y \in SessType : /\ y = [x EXCEPT !.active = FALSE, !.completed = TRUE]
                              /\ ~y.active /\ y.completed /\ y.model = a
                              /\ y.counted = x.counted /\ y.firsts = x.firsts
    <3>1. PICK b \in BOOLEAN : b = FALSE
      OBVIOUS
    <3>2. PICK d \in BOOLEAN : d = TRUE
      OBVIOUS
    <3>3. PICK y : y = [x EXCEPT !.active = b, !.completed = d]
      OBVIOUS
    <3>4. y \in SessType /\ y.active = b /\ y.completed = d /\ y.model = x.model /\ y.counted = x.counted
          /\ y.firsts = x.firsts
      BY <3>3 DEF SessType
    <3> QED BY <2>1, <3>1, <3>2, <3>3, <3>4
  <2>3. Replaced(s, y)
    BY <1>4, <1>7, <2>2 DEF Replaced
  <2>4. PICK e : e = Once(x, DownOf(x, lmModel[a]), failed)
    OBVIOUS
  <2>5. Settled(x, a, e)
    <3>1. lmModel \in [LmModels -> CountType] /\ lmModel[a].failed <= lmModel[a].completed
      BY DEF MetricsInv, LmTypes, LmModelInv
    <3>2. /\ e \in CountType /\ e.active = (IF x.active THEN Less(lmModel[a].active) ELSE lmModel[a].active)
          /\ e.started = lmModel[a].started
          /\ e.completed = (IF x.completed THEN lmModel[a].completed ELSE lmModel[a].completed + 1)
          /\ e.failed <= e.completed /\ e.carried = lmModel[a].carried /\ e.firsts = lmModel[a].firsts
      BY <2>4, <3>1, OnceFacts
    <3>3. lmModel' = [lmModel EXCEPT ![a] = e]
      BY <1>4, <1>7, <2>1, <2>4
    <3>4. lmModel' \in [LmModels -> CountType] /\ lmModel'[a] = e
          /\ \A n \in LmModels \ {a} : lmModel'[n] = lmModel[n]
      BY <3>1, <3>2, <3>3
    <3> QED BY <3>2, <3>4 DEF Settled
  <2>6. CountedOnce'
    BY <1>2, <1>3, <2>2, <2>3, <2>5, SettledCounts
  <2>7. ASSUME NEW n \in LmModels PROVE LmModelInv(n)'
    <3>1. lmModel'[n] \in CountType
      BY <2>5 DEF Settled
    <3>2. lmModel'[n].failed <= lmModel'[n].completed
      BY <2>5 DEF Settled, MetricsInv, LmModelInv
    <3>3. ASSUME ~lmAgain PROVE Balance(n, s, y)
      BY <1>1, <1>3, <2>1, <2>2, <2>5, <3>3, SettledBalance
    <3> QED BY <1>1, <1>2, <1>5, <2>3, <3>1, <3>2, <3>3, ModelStep
  <2>8. lmModel' \in [LmModels -> CountType]
    BY <2>5 DEF Settled
  <2> QED BY <1>1, <1>2, <1>5, <2>2, <2>3, <2>6, <2>7, <2>8, CollectStep
<1> QED BY SMTT(40), <1>6, <1>7

\* Steps of the coding runtime that the collector does not see.
LEMMA RuntimeStep ==
  ASSUME MetricsInv, NEW s \in LmCoding, NEW l \in LiveType, lmLive' = [lmLive EXCEPT ![s] = l],
         lmSession' = lmSession, lmModel' = lmModel, lmUnseen' = lmUnseen,
         lmAgain' \in BOOLEAN, lmAgain => lmAgain', l.runs # 0,
         ~lmAgain' => lmLive[s].on \/ lmLive[s].runs = 0
  PROVE  MetricsInv'
<1>1. /\ lmLive \in [LmCoding -> LiveType] /\ lmSession \in [LmIds -> SUBSET SessType]
      /\ \A r \in LmIds : lmSession[r] = {} \/ \E x \in SessType : lmSession[r] = {x}
      /\ lmModel \in [LmModels -> CountType] /\ lmUnseen \subseteq LmCoding /\ lmAgain \in BOOLEAN
  BY DEF MetricsInv, LmTypes
<1>2. lmLive' \in [LmCoding -> LiveType] /\ lmLive'[s] = l /\ \A r \in LmCoding \ {s} : lmLive'[r] = lmLive[r]
  BY <1>1
<1>3. LmTypes'
  BY <1>1, <1>2 DEF LmTypes
<1>4. ASSUME NEW r \in LmIds PROVE LmSessionInv(r)'
  <2>1. LmSessionInv(r)
    BY DEF MetricsInv
  <2>2. CASE r = s
    BY <1>2, <2>1, <2>2 DEF LmSessionInv
  <2>3. CASE r # s
    BY <1>2, <2>1, <2>3 DEF LmSessionInv
  <2> QED BY <2>2, <2>3
<1>5. ASSUME NEW m \in LmModels PROVE LmModelInv(m)'
  <2>1. LmModelInv(m)
    BY DEF MetricsInv
  <2>2. ActiveAt(m)' = ActiveAt(m) /\ EndedAt(m)' = EndedAt(m) /\ SeenAt(m)' = SeenAt(m)
    BY DEF ActiveAt, EndedAt, SeenAt
  <2> QED BY <2>1, <2>2 DEF LmModelInv
<1>6. CountedOnce'
  <2>1. CountedOnce
    BY DEF MetricsInv
  <2>2. Ended' = Ended /\ Carried' = Carried /\ \A k : Timed(k)' = Timed(k)
    BY DEF Ended, Carried, Timed
  <2> QED BY <2>1, <2>2 DEF CountedOnce
<1> QED BY <1>3, <1>4, <1>5, <1>6 DEF MetricsInv

LEMMA BeginRunStep ==
  ASSUME MetricsInv, NEW s \in LmCoding, BeginRun(s)
  PROVE  MetricsInv'
<1>1. lmLive[s] \in LiveType /\ lmLive[s].runs \in Nat /\ lmAgain \in BOOLEAN
  BY DEF MetricsInv, LmTypes, LiveType
<1>2. PICK n \in Nat : n = lmLive[s].runs + 1 /\ n # 0
  BY <1>1
<1>3. PICK b \in BOOLEAN : b = TRUE
  OBVIOUS
<1>4. PICK m \in LmModels \cup {"none"} : m = "none"
  OBVIOUS
<1>5. PICK l : l = [lmLive[s] EXCEPT !.runs = n, !.on = b, !.model = m]
  OBVIOUS
<1>6. l \in LiveType /\ l.runs = n
  BY <1>1, <1>5 DEF LiveType
<1>7. /\ lmLive' = [lmLive EXCEPT ![s] = l] /\ lmAgain' = (lmAgain \/ lmLive[s].runs > 0)
      /\ lmSession' = lmSession /\ lmModel' = lmModel /\ lmUnseen' = lmUnseen
  BY <1>2, <1>3, <1>4, <1>5 DEF BeginRun
<1>8. lmAgain' \in BOOLEAN /\ (lmAgain => lmAgain') /\ (~lmAgain' => lmLive[s].runs = 0)
  <2>1. CASE lmLive[s].runs = 0
    <3>0. ~(lmLive[s].runs > 0)
      BY <2>1
    <3>1. lmAgain' <=> lmAgain
      BY <1>7, <3>0, Zenon
    <3>2. lmAgain' \in BOOLEAN
      BY <1>7, Zenon
    <3> QED BY <2>1, <3>1, <3>2
  <2>2. CASE lmLive[s].runs > 0
    <3>1. lmAgain'
      BY <1>7, <2>2
    <3>2. lmAgain' \in BOOLEAN
      BY <1>7, Zenon
    <3> QED BY <3>1, <3>2
  <2> QED BY <1>1, <2>1, <2>2
<1> QED BY <1>2, <1>6, <1>7, <1>8, RuntimeStep

LEMMA SetSelectedStep ==
  ASSUME MetricsInv, NEW s \in LmCoding, NEW m \in LmModels, SetSelected(s, m)
  PROVE  MetricsInv'
<1>1. lmLive[s].on /\ lmLive[s] \in LiveType /\ lmLive[s].runs # 0 /\ lmAgain \in BOOLEAN
  BY LiveFacts DEF SetSelected, MetricsInv, LmTypes
<1>2. PICK p \in Nat : p = lmLive[s].picks + 1
  BY <1>1 DEF LiveType
<1>3. PICK l : l = [lmLive[s] EXCEPT !.model = m, !.picks = p]
  OBVIOUS
<1>4. l \in LiveType /\ l.runs = lmLive[s].runs
  BY <1>1, <1>3 DEF LiveType
<1>5. /\ lmLive' = [lmLive EXCEPT ![s] = l] /\ lmAgain' = lmAgain
      /\ lmSession' = lmSession /\ lmModel' = lmModel /\ lmUnseen' = lmUnseen
  BY <1>2, <1>3 DEF SetSelected
<1> QED BY <1>1, <1>4, <1>5, RuntimeStep

LEMMA MetricsInit == LmInit => MetricsInv
<1> SUFFICES ASSUME LmInit PROVE MetricsInv
  OBVIOUS
<1>1. PICK z \in Nat : z = 0
  OBVIOUS
<1>2. PICK c : c = [active |-> z, started |-> z, completed |-> z, failed |-> z,
                    carried |-> [t \in LmTransports |-> z], firsts |-> [k \in LmKinds |-> z]]
  OBVIOUS
<1>3. /\ c \in CountType /\ c.active = 0 /\ c.started = 0 /\ c.completed = 0 /\ c.failed = 0
      /\ c.carried = [t \in LmTransports |-> 0] /\ c.firsts = [k \in LmKinds |-> 0]
  BY <1>1, <1>2 DEF CountType
<1>4. lmModel = [m \in LmModels |-> c]
  BY <1>1, <1>2 DEF LmInit
<1>5. lmSession = [s \in LmIds |-> {}] /\ lmUnseen = {} /\ lmAgain = FALSE
      /\ lmLive = [s \in LmCoding |-> [runs |-> 0, picks |-> 0, on |-> FALSE, model |-> "none"]]
  BY DEF LmInit
<1>6. \A s \in LmCoding : lmLive[s] \in LiveType /\ ~lmLive[s].on
  BY <1>5 DEF LiveType
<1>7. LmTypes
  <2>1. lmLive \in [LmCoding -> LiveType]
    BY <1>5, <1>6
  <2>2. lmSession \in [LmIds -> SUBSET SessType] /\ \A s \in LmIds : lmSession[s] = {}
    BY <1>5
  <2>3. lmModel \in [LmModels -> CountType]
    BY <1>3, <1>4
  <2> QED BY <1>5, <2>1, <2>2, <2>3 DEF LmTypes
<1>8. \A s \in LmIds : LmSessionInv(s)
  BY <1>5, <1>6 DEF LmSessionInv
<1>9. /\ Ended = {} /\ Carried = {} /\ \A k : Timed(k) = {}
      /\ \A m : ActiveAt(m) = {} /\ EndedAt(m) = {} /\ SeenAt(m) = {}
  BY <1>5 DEF Ended, Carried, Timed, ActiveAt, EndedAt, SeenAt
<1>10. Cardinality({}) = 0
  BY FS_EmptySet
<1>11. \A m \in LmModels : LmModelInv(m)
  <2> TAKE m \in LmModels
  <2>1. lmModel[m] = c
    BY <1>4
  <2> QED BY <1>3, <1>9, <1>10, <2>1 DEF LmModelInv
<1>12. CountedOnce
  <2>1. Zeros(Completions(lmModel), LmModels) /\ \A k \in LmKinds : Zeros(Firsts(lmModel, k), LmModels)
    BY <1>3, <1>4 DEF Zeros, Completions, Firsts
  <2>2. SumOf(Completions(lmModel), LmModels) = 0
    BY <2>1, LmFinite, SumZero
  <2>3. ASSUME NEW k \in LmKinds PROVE SumOf(Firsts(lmModel, k), LmModels) = 0
    BY <2>1, LmFinite, SumZero
  <2>4. Zeros(c.carried, LmTransports)
    BY <1>3 DEF Zeros
  <2>5. SumOf(c.carried, LmTransports) = 0
    BY <2>4, LmFinite, SumZero
  <2>6. Zeros(Transports(lmModel), LmModels)
    BY <1>4, <2>5 DEF Zeros, Transports
  <2>7. SumOf(Transports(lmModel), LmModels) = 0
    BY <2>6, LmFinite, SumZero
  <2> QED BY <1>9, <1>10, <2>2, <2>3, <2>7 DEF CountedOnce, Completions, Firsts, Transports
<1> QED BY <1>7, <1>8, <1>11, <1>12 DEF MetricsInv

LEMMA MetricsNext == MetricsInv /\ [LmNext]_lmVars => MetricsInv'
<1> SUFFICES ASSUME MetricsInv, [LmNext]_lmVars PROVE MetricsInv'
  OBVIOUS
<1>1. ASSUME NEW s \in LmCoding, BeginRun(s) PROVE MetricsInv'
  BY <1>1, BeginRunStep
<1>2. ASSUME NEW s \in LmCoding, ObserveSession(s) PROVE MetricsInv'
  BY <1>2, ObserveSessionStep
<1>3. ASSUME NEW s \in LmCoding, NEW m \in LmModels, SetSelected(s, m) PROVE MetricsInv'
  BY <1>3, SetSelectedStep
<1>4. ASSUME NEW s \in LmCoding, NEW failed \in BOOLEAN, CompleteSession(s, failed) PROVE MetricsInv'
  BY <1>4, CompleteSessionStep
<1>5. ASSUME NEW s \in LmIds, NEW m \in LmModels, NEW k \in LmKinds \cup {"other"}, NEW t \in LmTransports,
             ObserveDelta(s, m, k, t)
      PROVE  MetricsInv'
  BY <1>5, ObserveDeltaStep
<1>6. CASE UNCHANGED lmVars
  <2>1. UNCHANGED <<Ended, Carried>> /\ \A k : Timed(k)' = Timed(k)
        /\ \A m : ActiveAt(m)' = ActiveAt(m) /\ EndedAt(m)' = EndedAt(m) /\ SeenAt(m)' = SeenAt(m)
    BY <1>6 DEF lmVars, Ended, Carried, Timed, ActiveAt, EndedAt, SeenAt
  <2>2. LmTypes' /\ \A s \in LmIds : LmSessionInv(s)'
    BY <1>6 DEF lmVars, MetricsInv, LmTypes, LmSessionInv
  <2>3. CountedOnce' /\ \A m \in LmModels : LmModelInv(m)'
    BY <1>6, <2>1 DEF lmVars, MetricsInv, CountedOnce, LmModelInv
  <2> QED BY <2>2, <2>3 DEF MetricsInv
<1> QED BY <1>1, <1>2, <1>3, <1>4, <1>5, <1>6 DEF LmNext

LEMMA MetricsImplied == MetricsInv => MetricsSound
<1> SUFFICES ASSUME MetricsInv PROVE MetricsSound
  OBVIOUS
<1>1. LmTypeOK
  <2>1. ASSUME NEW s \in LmIds
        PROVE  /\ Cardinality(lmSession[s]) <= 1
               /\ \A x \in lmSession[s] : x.model \in LmModels \cup {"none"} /\ ~(x.active /\ x.completed)
    <3>1. lmSession[s] \in SUBSET SessType /\ LmSessionInv(s)
          /\ (lmSession[s] = {} \/ \E x \in SessType : lmSession[s] = {x})
      BY DEF MetricsInv, LmTypes
    <3>2. Cardinality(lmSession[s]) <= 1
      <4>1. CASE lmSession[s] = {}
        <5>1. Cardinality({}) = 0
          BY FS_EmptySet
        <5> QED BY <4>1, <5>1
      <4>2. ASSUME NEW x \in SessType, lmSession[s] = {x} PROVE Cardinality(lmSession[s]) <= 1
        <5>1. Cardinality({x}) = 1
          BY FS_Singleton
        <5> QED BY <4>2, <5>1
      <4> QED BY <3>1, <4>1, <4>2
    <3> QED BY <3>1, <3>2 DEF SessType, LmSessionInv
  <2>2. ASSUME NEW m \in LmModels PROVE lmModel[m].failed \in 0..lmModel[m].completed
    <3>1. lmModel[m].failed \in Nat /\ lmModel[m].completed \in Nat /\ lmModel[m].failed <= lmModel[m].completed
      BY DEF MetricsInv, LmTypes, CountType, LmModelInv
    <3> QED BY <3>1
  <2> QED BY <2>1, <2>2 DEF LmTypeOK
<1>2. CountedOnce /\ ActiveAccurate
  BY DEF MetricsInv, LmModelInv, ActiveAccurate
<1>3. FailuresHaveStarts
  <2> SUFFICES ASSUME ~lmAgain, NEW m \in LmModels
               PROVE  /\ lmModel[m].completed <= lmModel[m].started + Cardinality(lmUnseen \cap OfModel(m))
                      /\ lmModel[m].failed > 0 /\ lmUnseen = {} => FailureRate(lmModel[m])[1] > 0
    BY DEF FailuresHaveStarts
  <2>1. /\ lmModel[m].failed \in Nat /\ lmModel[m].completed \in Nat /\ lmModel[m].started \in Nat
        /\ lmModel[m].failed <= lmModel[m].completed
        /\ lmModel[m].completed = Cardinality(EndedAt(m)) /\ lmModel[m].started >= Cardinality(SeenAt(m))
    BY DEF MetricsInv, LmTypes, CountType, LmModelInv
  <2>2. PICK U \in SUBSET LmIds : U = lmUnseen \cap OfModel(m)
    BY DEF OfModel
  <2>3. PICK A \in SUBSET LmIds : A = SeenAt(m)
    BY DEF SeenAt
  <2>4. PICK E \in SUBSET LmIds : E = EndedAt(m)
    BY DEF EndedAt
  <2>5. E \in SUBSET (A \cup U)
    BY <2>2, <2>3, <2>4 DEF EndedAt, SeenAt, OfModel
  <2>6. IsFiniteSet(A)
    BY LmFinite, FS_Subset
  <2>7. IsFiniteSet(U)
    BY LmFinite, FS_Subset
  <2>8. IsFiniteSet(A \cap U)
    BY <2>6, FS_Subset
  <2>9. IsFiniteSet(A \cup U) /\ Cardinality(A \cup U) = Cardinality(A) + Cardinality(U) - Cardinality(A \cap U)
    BY <2>6, <2>7, FS_Union
  <2>10. Cardinality(A) \in Nat
    BY <2>6, FS_CardinalityType
  <2>11. Cardinality(U) \in Nat
    BY <2>7, FS_CardinalityType
  <2>12. Cardinality(A \cap U) \in Nat
    BY <2>8, FS_CardinalityType
  <2>13. Cardinality(E) <= Cardinality(A \cup U)
    BY <2>5, <2>9, FS_Subset
  <2>14. lmModel[m].completed <= lmModel[m].started + Cardinality(U)
    BY <2>1, <2>3, <2>4, <2>9, <2>10, <2>11, <2>12, <2>13
  <2>15. ASSUME lmModel[m].failed > 0, lmUnseen = {} PROVE FailureRate(lmModel[m])[1] > 0
    <3>1. U = {}
      BY <2>2, <2>15
    <3>2. Cardinality({}) = 0
      BY FS_EmptySet
    <3>3. lmModel[m].started > 0
      BY <2>1, <2>14, <2>15, <3>1, <3>2
    <3> QED BY <2>1, <2>15, <3>3 DEF FailureRate
  <2> QED BY <2>2, <2>14, <2>15
<1> QED BY <1>1, <1>2, <1>3 DEF MetricsSound

\* Whatever the sessions, models, kinds of deltas and transports: what the
\* collector shows is what it has seen.  Each end of a session, each transport
\* and each first delta is counted once (ObserveDelta, CompleteSession of
\* realtime_metrics.go); until a session runs again, the sessions active at a
\* model are counted through every change of models, and no model fails what it
\* has not started.
THEOREM MetricsSoundCorrect == LmSpec => []MetricsSound
<1>1. LmInit => MetricsInv
  BY MetricsInit
<1>2. MetricsInv /\ [LmNext]_lmVars => MetricsInv'
  BY MetricsNext
<1>3. MetricsInv => MetricsSound
  BY MetricsImplied
<1> QED BY <1>1, <1>2, <1>3, PTL DEF LmSpec


-----------------------------------------------------------------------------
(* The route history: averages that are rounded.                           *)

\* What a quotient of numbers is.
LEMMA Quotient ==
  ASSUME NEW y \in Nat, NEW w \in Nat \ {0}
  PROVE  /\ y \div w \in Nat
         /\ (y \div w) * w <= y /\ y < ((y \div w) + 1) * w
OBVIOUS

LEMMA QuotientAtMost ==
  ASSUME NEW y \in Nat, NEW w \in Nat \ {0}, NEW q \in Nat, y < (q + 1) * w
  PROVE  y \div w <= q
<1>1. PICK p \in Nat : p = y \div w /\ p * w <= y /\ y < (p + 1) * w
  BY Quotient
<1>2. p * w < (q + 1) * w
  BY <1>1
<1>3. CASE p >= q + 1
  <2>1. PICK d \in Nat : p = (q + 1) + d
    <3>1. p - (q + 1) \in Nat /\ p = (q + 1) + (p - (q + 1))
      BY <1>3
    <3> QED BY <3>1
  <2>2. ((q + 1) + d) * w = (q + 1) * w + d * w /\ d * w \in Nat /\ (q + 1) * w \in Nat
    OBVIOUS
  <2> QED BY <1>2, <2>1, <2>2
<1> QED BY <1>1, <1>3

LEMMA QuotientAtLeast ==
  ASSUME NEW y \in Nat, NEW w \in Nat \ {0}, NEW q \in Nat, q * w <= y
  PROVE  y \div w >= q
<1>1. PICK p \in Nat : p = y \div w /\ p * w <= y /\ y < (p + 1) * w
  BY Quotient
<1>2. q * w < (p + 1) * w
  BY <1>1
<1>3. CASE q >= p + 1
  <2>1. PICK d \in Nat : q = (p + 1) + d
    <3>1. q - (p + 1) \in Nat /\ q = (p + 1) + (q - (p + 1))
      BY <1>3
    <3> QED BY <3>1
  <2>2. ((p + 1) + d) * w = (p + 1) * w + d * w /\ d * w \in Nat /\ (p + 1) * w \in Nat
    OBVIOUS
  <2> QED BY <1>2, <2>1, <2>2
<1> QED BY <1>1, <1>3

Rounded(y, w) == (y + w \div 2) \div w

LEMMA Half ==
  ASSUME NEW w \in Nat, NEW k \in Nat
  PROVE  /\ w \div 2 \in Nat /\ (w # 0 => w \div 2 < w)
         /\ w \div 2 <= (w + k) \div 2 /\ (w + k) \div 2 <= w \div 2 + k
OBVIOUS

\* An average lies within what is averaged.
LEMMA RoundedWithin ==
  ASSUME NEW y \in Nat, NEW w \in Nat \ {0}, NEW c \in Nat, y <= c * w
  PROVE  Rounded(y, w) \in Nat /\ Rounded(y, w) <= c
<1>1. PICK h \in Nat : h = w \div 2 /\ h < w
  <2>1. PICK k \in Nat : k = 0
    OBVIOUS
  <2>2. w \div 2 \in Nat /\ (w # 0 => w \div 2 < w)
    BY Half, <2>1
  <2> QED BY <2>2
<1>2. PICK z \in Nat : z = y + h
  BY <1>1
<1>3. z < (c + 1) * w
  <2>1. (c + 1) * w = c * w + w /\ c * w \in Nat
    OBVIOUS
  <2> QED BY <1>1, <1>2, <2>1
<1>4. z \div w <= c
  BY <1>3, QuotientAtMost
<1>5. z \div w \in Nat
  BY Quotient
<1> QED BY <1>1, <1>2, <1>4, <1>5 DEF Rounded

\* Another of the greatest value does not lower an average.
LEMMA RoundedRises ==
  ASSUME NEW y \in Nat, NEW w \in Nat \ {0}, NEW c \in Nat, y <= c * w, NEW k \in Nat
  PROVE  Rounded(y, w) <= Rounded(y + c * k, w + k)
<1>1. PICK h \in Nat : h = w \div 2
  BY Half
<1>2. PICK g \in Nat : g = (w + k) \div 2 /\ h <= g
  <2>1. w + k \in Nat /\ w \div 2 <= (w + k) \div 2
    BY Half
  <2>2. (w + k) \div 2 \in Nat
    OBVIOUS
  <2> QED BY <1>1, <2>1, <2>2
<1>3. PICK q \in Nat : q = Rounded(y, w) /\ q <= c /\ q * w <= y + h
  <2>1. PICK z \in Nat : z = y + h
    BY <1>1
  <2>2. z \div w \in Nat /\ (z \div w) * w <= z
    BY Quotient
  <2>3. Rounded(y, w) = z \div w
    BY <1>1, <2>1 DEF Rounded
  <2>4. Rounded(y, w) <= c
    BY RoundedWithin
  <2> QED BY <2>1, <2>2, <2>3, <2>4
<1>4. q * k <= c * k /\ q * k \in Nat /\ c * k \in Nat
  <2>1. PICK d \in Nat : c = q + d
    <3>1. c - q \in Nat /\ c = q + (c - q)
      BY <1>3
    <3> QED BY <3>1
  <2>2. (q + d) * k = q * k + d * k /\ d * k \in Nat /\ q * k \in Nat
    OBVIOUS
  <2> QED BY <2>1, <2>2
<1>5. PICK v \in Nat \ {0} : v = w + k
  OBVIOUS
<1>6. PICK z \in Nat : z = (y + c * k) + g
  BY <1>2, <1>4
<1>7. q * v <= z
  <2>1. q * (w + k) = q * w + q * k /\ q * w \in Nat
    OBVIOUS
  <2> QED BY <1>2, <1>3, <1>4, <1>5, <1>6, <2>1
<1>8. z \div v >= q
  BY <1>7, QuotientAtLeast
<1>9. z \div v \in Nat
  BY Quotient
<1> QED BY <1>2, <1>3, <1>5, <1>6, <1>8, <1>9 DEF Rounded

\* Another of value 0 does not raise it.
LEMMA RoundedFalls ==
  ASSUME NEW y \in Nat, NEW w \in Nat \ {0}, NEW k \in Nat
  PROVE  Rounded(y, w + k) <= Rounded(y, w)
<1>1. PICK h \in Nat : h = w \div 2
  BY Half
<1>2. PICK g \in Nat : g = (w + k) \div 2 /\ g <= h + k
  <2>1. (w + k) \div 2 <= w \div 2 + k
    BY Half
  <2>2. (w + k) \div 2 \in Nat
    OBVIOUS
  <2> QED BY <1>1, <2>1, <2>2
<1>3. PICK q \in Nat : q = Rounded(y, w) /\ y + h < (q + 1) * w
  <2>1. PICK z \in Nat : z = y + h
    BY <1>1
  <2>2. z \div w \in Nat /\ z < ((z \div w) + 1) * w
    BY Quotient
  <2>3. Rounded(y, w) = z \div w
    BY <1>1, <2>1 DEF Rounded
  <2> QED BY <2>1, <2>2, <2>3
<1>4. PICK v \in Nat \ {0} : v = w + k
  OBVIOUS
<1>5. PICK z \in Nat : z = y + g
  BY <1>2
<1>6. z < (q + 1) * v
  <2>1. (q + 1) * (w + k) = (q + 1) * w + (q * k + k) /\ q * k \in Nat /\ (q + 1) * w \in Nat
    OBVIOUS
  <2> QED BY <1>2, <1>3, <1>4, <1>5, <2>1
<1>7. z \div v <= q
  BY <1>6, QuotientAtMost
<1> QED BY <1>2, <1>3, <1>4, <1>5, <1>7 DEF Rounded

\* Every part of a sum is its first element and the rest.
Unfolds(f, S) ==
  \A s \in SUBSET S : s # {} =>
    Pick(s) \in s /\ SumFun(f, S)[s] = f[Pick(s)] + SumFun(f, S)[s \ {Pick(s)}]

LEMMA SumUnfolds == ASSUME NEW f, NEW S, IsFiniteSet(S) PROVE Unfolds(f, S)
BY SMTT(40), SumUnfold DEF Unfolds

\* A sum may be taken apart at any element.
LEMMA SumAnyFirst ==
  ASSUME NEW S, IsFiniteSet(S), NEW f, Numbers(f, S)
  PROVE  \A s \in SUBSET S : \A a \in s : SumFun(f, S)[s] = f[a] + SumFun(f, S)[s \ {a}]
<1> DEFINE F(s) == SumFun(f, S)[s]
           N == {n \in Nat : \A s \in SUBSET S : Cardinality(s) <= n => \A a \in s : F(s) = f[a] + F(s \ {a})}
<1>1. \A s \in SUBSET S : IsFiniteSet(s) /\ Cardinality(s) \in Nat
  <2> TAKE s \in SUBSET S
  <2>1. IsFiniteSet(s)
    BY FS_Subset
  <2> QED BY <2>1, FS_CardinalityType
<1>2. \A s \in SUBSET S : \A a \in s : Cardinality(s \ {a}) = Cardinality(s) - 1
  <2> TAKE s \in SUBSET S
  <2> TAKE a \in s
  <2>1. IsFiniteSet(s)
    BY <1>1
  <2> QED BY <2>1, FS_RemoveElement
<1>3. \A s \in SUBSET S : F(s) \in Nat
  BY SumType
<1>4. N \in SUBSET Nat
  OBVIOUS
<1>9. \A s \in SUBSET S : s # {} => Pick(s) \in s /\ F(s) = f[Pick(s)] + F(s \ {Pick(s)})
  <2>1. Unfolds(f, S)
    BY SumUnfolds
  <2> QED BY <2>1 DEF Unfolds
<1>5. 0 \in N
  <2>1. \A s \in SUBSET S : Cardinality(s) <= 0 => s = {}
    <3> TAKE s \in SUBSET S
    <3>1. IsFiniteSet(s) /\ Cardinality(s) \in Nat
      BY <1>1
    <3>2. Cardinality(s) = 0 => s = {}
      BY <3>1, FS_EmptySet
    <3> QED BY <3>1, <3>2
  <2> QED BY <2>1
<1>6. ASSUME NEW n \in N PROVE n + 1 \in N
  <2> HIDE DEF F
  <2> SUFFICES ASSUME NEW s \in SUBSET S, Cardinality(s) <= n + 1, NEW a \in s
               PROVE  F(s) = f[a] + F(s \ {a})
    BY <1>6
  <2>1. PICK y : y = Pick(s) /\ y \in s /\ F(s) = f[y] + F(s \ {y})
    <3> HIDE DEF N
    <3> QED BY <1>9
  <2>2. CASE y = a
    BY <2>1, <2>2
  <2>3. CASE y # a
    <3>1. PICK r \in SUBSET S : r = s \ {y} /\ a \in r /\ Cardinality(r) <= n
      <4>1. s \ {y} \in SUBSET S /\ a \in s \ {y}
        BY <2>1, <2>3
      <4>2. Cardinality(s \ {y}) = Cardinality(s) - 1 /\ Cardinality(s) \in Nat
        BY <1>1, <1>2, <2>1
      <4>3. Cardinality(s \ {y}) <= n
        BY <4>2
      <4> QED BY <4>1, <4>3
    <3>2. PICK t \in SUBSET S : t = s \ {a} /\ y \in t /\ Cardinality(t) <= n
      <4>1. s \ {a} \in SUBSET S /\ y \in s \ {a}
        BY <2>1, <2>3
      <4>2. Cardinality(s \ {a}) = Cardinality(s) - 1 /\ Cardinality(s) \in Nat
        BY <1>1, <1>2, <2>1
      <4>3. Cardinality(s \ {a}) <= n
        BY <4>2
      <4> QED BY <4>1, <4>3
    <3>3. \A z \in SUBSET S : Cardinality(z) <= n => \A b \in z : F(z) = f[b] + F(z \ {b})
      BY <1>6
    <3> HIDE DEF N
    <3>4. F(r) = f[a] + F(r \ {a}) /\ F(t) = f[y] + F(t \ {y})
      BY <3>1, <3>2, <3>3
    <3>5. r \ {a} = t \ {y}
      BY <3>1, <3>2
    <3>6. PICK u \in Nat : u = F(r \ {a})
      BY <1>3, <3>1
    <3>7. F(r) = f[a] + u /\ F(t) = f[y] + u /\ f[a] \in Nat /\ f[y] \in Nat
      BY <2>1, <3>4, <3>5, <3>6 DEF Numbers
    <3> QED BY <2>1, <3>1, <3>2, <3>7
  <2> QED BY <2>2, <2>3
<1>7. \A n \in Nat : n \in N
  <2> HIDE DEF N
  <2> QED BY <1>4, <1>5, <1>6, NumbersInduction
<1> SUFFICES ASSUME NEW s \in SUBSET S, NEW a \in s PROVE F(s) = f[a] + F(s \ {a})
  OBVIOUS
<1>8. Cardinality(s) \in N /\ Cardinality(s) \in Nat
  BY <1>1, <1>7
<1> QED BY <1>8

\* What is summed over a part does not depend on the whole.
LEMMA SumOfPart ==
  ASSUME NEW U, IsFiniteSet(U), NEW f, Numbers(f, U), NEW S \in SUBSET U
  PROVE  SumFun(f, U)[S] = SumOf(f, S)
<1> DEFINE T == {s \in SUBSET S : SumFun(f, S)[s] = SumFun(f, U)[s]}
<1>0. IsFiniteSet(S)
  BY FS_Subset
<1>1. T \in SUBSET (SUBSET S)
  OBVIOUS
<1>2. {} \in T
  <2>1. SumFun(f, S)[{}] = 0
    BY <1>0, SumFacts
  <2>2. SumFun(f, U)[{}] = 0
    BY SumFacts
  <2> QED BY <2>1, <2>2
<1>3. ASSUME NEW s \in SUBSET S, s # {}, s \ {Pick(s)} \in T PROVE s \in T
  <2>1. SumFun(f, S)[s] = f[Pick(s)] + SumFun(f, S)[s \ {Pick(s)}]
    <3>1. s # {}
      BY <1>3
    <3> HIDE DEF T
    <3> QED BY <1>0, <3>1, SumUnfold
  <2>2. SumFun(f, U)[s] = f[Pick(s)] + SumFun(f, U)[s \ {Pick(s)}]
    <3>1. s # {} /\ s \in SUBSET U
      BY <1>3
    <3> HIDE DEF T
    <3> QED BY <3>1, SumUnfold
  <2> QED BY <1>3, <2>1, <2>2
<1>4. \A s \in SUBSET S : s \in T
  <2> HIDE DEF T
  <2> QED BY <1>0, <1>1, <1>2, <1>3, SubsetInduction
<1>5. SumOf(f, S) = SumFun(f, S)[S]
  BY <1>0, SumFacts
<1> QED BY <1>4, <1>5

\* A sum over one element more.
LEMMA SumAdds ==
  ASSUME NEW S, IsFiniteSet(S), NEW a, a \notin S, NEW f, Numbers(f, S \cup {a})
  PROVE  /\ SumOf(f, S \cup {a}) = SumOf(f, S) + f[a]
         /\ SumOf(f, S) \in Nat /\ f[a] \in Nat
<1>1. PICK U : U = S \cup {a} /\ IsFiniteSet(U)
  BY FS_AddElement
<1>2. Numbers(f, U) /\ Numbers(f, S) /\ f[a] \in Nat
  BY <1>1 DEF Numbers
<1>3. SumFun(f, U)[U] = f[a] + SumFun(f, U)[U \ {a}]
  BY <1>1, <1>2, SumAnyFirst
<1>4. U \ {a} = S /\ S \in SUBSET U
  BY <1>1
<1>5. SumFun(f, U)[S] = SumOf(f, S)
  BY <1>1, <1>2, <1>4, SumOfPart
<1>6. SumOf(f, U) = SumFun(f, U)[U]
  BY <1>1, SumFacts
<1>7. SumOf(f, S) \in Nat
  BY <1>2, SumType
<1>8. SumOf(f, U) = SumOf(f, S) + f[a]
  <2>1. SumOf(f, U) = f[a] + SumOf(f, S)
    BY Zenon, <1>3, <1>4, <1>5, <1>6
  <2> QED BY <1>2, <1>7, <2>1
<1> QED BY <1>1, <1>2, <1>7, <1>8

\* What is summed is all that counts.
LEMMA SumSame ==
  ASSUME NEW S, IsFiniteSet(S), NEW f, Numbers(f, S), NEW g, \A i \in S : g[i] = f[i]
  PROVE  SumOf(g, S) = SumOf(f, S)
<1>1. CASE S = {}
  <2>1. SumOf(g, S) = 0
    BY <1>1, SumZero DEF Zeros
  <2>2. SumOf(f, S) = 0
    BY <1>1, SumZero DEF Zeros
  <2> QED BY <2>1, <2>2
<1>2. CASE S # {}
  <2>1. PICK a : a \in S
    BY <1>2
  <2>2. PICK d \in Nat : d = 0
    OBVIOUS
  <2>3. Differ(f, g, S, a, d)
    BY <2>1, <2>2 DEF Differ, Numbers
  <2>4. SumOf(g, S) = SumOf(f, S) + d
    BY <2>3, SumGrows
  <2>5. SumOf(f, S) \in Nat
    BY SumType
  <2> QED BY <2>2, <2>4, <2>5
<1> QED BY <1>1, <1>2

\* A bound on each is a bound on the sum.
Under(f, c, w, S) == \A i \in S : f[i] <= c * w[i]

LEMMA SumBound ==
  ASSUME NEW S, IsFiniteSet(S), NEW f, Numbers(f, S), NEW w, Numbers(w, S), NEW c \in Nat,
         Under(f, c, w, S)
  PROVE  SumOf(f, S) <= c * SumOf(w, S)
<1> DEFINE T == {s \in SUBSET S : SumFun(f, S)[s] <= c * SumFun(w, S)[s]}
<1>1. \A s \in SUBSET S : SumFun(f, S)[s] \in Nat
  BY SumType
<1>2. \A s \in SUBSET S : SumFun(w, S)[s] \in Nat
  BY SumType
<1>3. T \in SUBSET (SUBSET S)
  OBVIOUS
<1>10. Unfolds(f, S)
  BY SumUnfolds
<1>11. Unfolds(w, S)
  BY SumUnfolds
<1>4. {} \in T
  <2>1. SumFun(f, S)[{}] = 0
    BY SumFacts
  <2>2. SumFun(w, S)[{}] = 0
    BY SumFacts
  <2> QED BY <2>1, <2>2
<1>5. ASSUME NEW s \in SUBSET S, s # {}, s \ {Pick(s)} \in T PROVE s \in T
  <2>1. /\ SumFun(f, S)[s] = f[Pick(s)] + SumFun(f, S)[s \ {Pick(s)}]
        /\ Pick(s) \in s
    <3>1. s # {}
      BY <1>5
    <3> HIDE DEF T
    <3> QED BY <3>1, <1>10 DEF Unfolds
  <2>2. SumFun(w, S)[s] = w[Pick(s)] + SumFun(w, S)[s \ {Pick(s)}]
    <3>1. s # {}
      BY <1>5
    <3> HIDE DEF T
    <3> QED BY <3>1, <1>11 DEF Unfolds
  <2>3. PICK r \in SUBSET S : r = s \ {Pick(s)}
    OBVIOUS
  <2>4. PICK y \in S : y = Pick(s)
    BY <2>1
  <2>5. PICK u \in Nat : u = SumFun(f, S)[r]
    BY <1>1
  <2>6. PICK v \in Nat : v = SumFun(w, S)[r]
    BY <1>2
  <2>7. PICK p \in Nat : p = f[y]
    BY DEF Numbers
  <2>8. PICK q \in Nat : q = w[y]
    BY DEF Numbers
  <2>9. u <= c * v
    BY <1>5, <2>3, <2>5, <2>6
  <2>10. SumFun(f, S)[s] = p + u /\ SumFun(w, S)[s] = q + v /\ p <= c * q
    BY <2>1, <2>2, <2>3, <2>4, <2>5, <2>6, <2>7, <2>8 DEF Under
  <2>11. p + u <= c * (q + v)
    <3>1. c * (q + v) = c * q + c * v /\ c * q \in Nat /\ c * v \in Nat
      OBVIOUS
    <3> QED BY <2>9, <2>10, <3>1
  <2> QED BY <2>10, <2>11
<1>6. \A s \in SUBSET S : s \in T
  <2> HIDE DEF T
  <2> QED BY <1>3, <1>4, <1>5, SubsetInduction
<1>7. SumFun(f, S)[S] <= c * SumFun(w, S)[S]
  BY <1>6
<1>8. SumOf(f, S) = SumFun(f, S)[S]
  BY SumFacts
<1>9. SumOf(w, S) = SumFun(w, S)[S]
  BY SumFacts
<1> QED BY <1>7, <1>8, <1>9

\* Values up to c, with weights.
Rated(w, v, S, c) == \A i \in S : w[i] \in Nat /\ w[i] # 0 /\ v[i] \in Nat /\ v[i] <= c

\* What is summed for an average.
Products(w, v, S) == [i \in S |-> w[i] * v[i]]

LEMMA Product ==
  ASSUME NEW a \in Nat, NEW b \in Nat, NEW c \in Nat, b <= c
  PROVE  a * b \in Nat /\ a * b <= c * a
<1>1. PICK d \in Nat : c = b + d
  <2>1. c - b \in Nat /\ c = b + (c - b)
    OBVIOUS
  <2> QED BY <2>1
<1>2. (b + d) * a = a * b + d * a /\ d * a \in Nat /\ a * b \in Nat
  OBVIOUS
<1> QED BY <1>1, <1>2

LEMMA ProductsUnder ==
  ASSUME NEW S, NEW w, NEW v, NEW c \in Nat, Rated(w, v, S, c)
  PROVE  /\ Numbers(w, S) /\ Numbers(Products(w, v, S), S)
         /\ Under(Products(w, v, S), c, w, S)
<1>1. ASSUME NEW i \in S
      PROVE  /\ w[i] \in Nat /\ Products(w, v, S)[i] \in Nat
             /\ Products(w, v, S)[i] <= c * w[i]
  <2>1. PICK a \in Nat : a = w[i]
    BY DEF Rated
  <2>2. PICK b \in Nat : b = v[i] /\ b <= c
    BY DEF Rated
  <2>3. a * b \in Nat /\ a * b <= c * a
    BY <2>2, Product
  <2>4. Products(w, v, S)[i] = a * b
    BY <2>1, <2>2 DEF Products
  <2> QED BY <2>1, <2>3, <2>4
<1> QED BY <1>1 DEF Numbers, Under

LEMMA TotalPositive ==
  ASSUME NEW S, IsFiniteSet(S), S # {}, NEW w, NEW v, NEW c \in Nat, Rated(w, v, S, c)
  PROVE  SumOf(w, S) \in Nat \ {0}
<1>1. PICK a : a \in S
  OBVIOUS
<1>2. PICK R : R = S \ {a} /\ IsFiniteSet(R) /\ a \notin R /\ R \cup {a} = S
  <2>1. IsFiniteSet(S \ {a})
    BY FS_RemoveElement
  <2> QED BY <1>1, <2>1
<1>3. Numbers(w, R \cup {a}) /\ w[a] # 0
  BY <1>1, <1>2 DEF Rated, Numbers
<1>4. /\ SumOf(w, R \cup {a}) = SumOf(w, R) + w[a]
      /\ SumOf(w, R) \in Nat /\ w[a] \in Nat
  BY <1>2, <1>3, SumAdds
<1>5. SumOf(w, S) = SumOf(w, R) + w[a]
  BY Zenon, <1>2, <1>4
<1> QED BY <1>3, <1>4, <1>5

LEMMA AverageIs ==
  ASSUME NEW S, IsFiniteSet(S), S # {}, NEW w, NEW v, NEW c \in Nat, Rated(w, v, S, c)
  PROVE  \E y \in Nat, t \in Nat \ {0} :
           /\ y = SumOf(Products(w, v, S), S) /\ t = SumOf(w, S) /\ y <= c * t
           /\ Average(w, v, S) = Rounded(y, t)
<1>1. /\ Numbers(w, S) /\ Numbers(Products(w, v, S), S)
      /\ Under(Products(w, v, S), c, w, S)
  BY ProductsUnder
<1>2. PICK y \in Nat : y = SumOf(Products(w, v, S), S)
  <2>1. SumOf(Products(w, v, S), S) \in Nat
    BY <1>1, SumType
  <2> QED BY <2>1
<1>3. PICK t \in Nat \ {0} : t = SumOf(w, S)
  BY TotalPositive
<1>4. y <= c * t
  <2>1. SumOf(Products(w, v, S), S) <= c * SumOf(w, S)
    BY <1>1, SumBound
  <2> QED BY <1>2, <1>3, <2>1
<1>5. Average(w, v, S) = Rounded(y, t)
  <2>1. Average(w, v, S) = (SumOf(Products(w, v, S), S) + SumOf(w, S) \div 2) \div SumOf(w, S)
    BY Zenon DEF Average, Products
  <2> QED BY <1>2, <1>3, <2>1 DEF Rounded
<1> QED BY <1>2, <1>3, <1>4, <1>5

LEMMA AverageWithin ==
  ASSUME NEW S, IsFiniteSet(S), NEW w, NEW v, NEW c \in Nat, Rated(w, v, S, c)
  PROVE  Average(w, v, S) \in Nat /\ Average(w, v, S) <= c
<1>1. CASE S = {}
  <2>1. Average(w, v, S) = 0
    BY <1>1 DEF Average
  <2> QED BY <2>1
<1>2. CASE S # {}
  <2>1. PICK y \in Nat, t \in Nat \ {0} : y <= c * t /\ Average(w, v, S) = Rounded(y, t)
    <3>1. \E y \in Nat, t \in Nat \ {0} :
            /\ y = SumOf(Products(w, v, S), S) /\ t = SumOf(w, S) /\ y <= c * t
            /\ Average(w, v, S) = Rounded(y, t)
      BY <1>2, AverageIs
    <3> QED BY <3>1
  <2>2. Rounded(y, t) \in Nat /\ Rounded(y, t) <= c
    BY <2>1, RoundedWithin
  <2> QED BY <2>1, <2>2
<1> QED BY <1>1, <1>2

\* An average takes what it is of, and nothing else.
LEMMA AverageSame ==
  ASSUME NEW S, IsFiniteSet(S), NEW w, NEW v, NEW c \in Nat, Rated(w, v, S, c),
         NEW x, NEW y, \A i \in S : x[i] = w[i] /\ y[i] = v[i]
  PROVE  Average(x, y, S) = Average(w, v, S)
<1>1. Numbers(w, S)
  BY ProductsUnder
<1>2. SumOf(x, S) = SumOf(w, S)
  BY <1>1, SumSame
<1>3. [i \in S |-> x[i] * y[i]] = [i \in S |-> w[i] * v[i]]
  OBVIOUS
<1> QED BY Zenon, <1>2, <1>3 DEF Average

\* One more: the sums of what an average is made of.
Grown(w, v, S, n, c) ==
  \E y \in Nat, t \in Nat \ {0}, k \in Nat, b \in Nat :
    /\ k = w[n] /\ b = v[n] /\ y <= c * t
    /\ Average(w, v, S) = Rounded(y, t)
    /\ Average(w, v, S \cup {n}) = Rounded(y + b * k, t + k)

LEMMA AverageMore ==
  ASSUME NEW S, IsFiniteSet(S), S # {}, NEW n, n \notin S, NEW w, NEW v, NEW c \in Nat,
         Rated(w, v, S \cup {n}, c)
  PROVE  Grown(w, v, S, n, c)
<1> DEFINE U == S \cup {n}
<1>0. Rated(w, v, S, c)
  BY DEF Rated
<1>1. PICK y \in Nat, t \in Nat \ {0} :
        /\ y = SumOf(Products(w, v, S), S) /\ t = SumOf(w, S) /\ y <= c * t
        /\ Average(w, v, S) = Rounded(y, t)
  BY <1>0, AverageIs
<1>2. IsFiniteSet(U) /\ U # {} /\ Rated(w, v, U, c)
  BY FS_AddElement
<1>3. PICK z \in Nat, s \in Nat \ {0} :
        /\ z = SumOf(Products(w, v, U), U) /\ s = SumOf(w, U)
        /\ Average(w, v, U) = Rounded(z, s)
  <2>1. \E z \in Nat, s \in Nat \ {0} :
          /\ z = SumOf(Products(w, v, U), U) /\ s = SumOf(w, U) /\ z <= c * s
          /\ Average(w, v, U) = Rounded(z, s)
    <3> HIDE DEF U
    <3> QED BY <1>2, AverageIs
  <2> QED BY <2>1
<1>4. PICK k \in Nat : k = w[n]
  BY DEF Rated
<1>5. PICK b \in Nat : b = v[n]
  BY DEF Rated
<1>6. /\ Numbers(w, U) /\ Numbers(Products(w, v, U), U)
  <2> HIDE DEF U
  <2> QED BY <1>2, ProductsUnder
<1>7. s = t + k
  <2>1. SumOf(w, S \cup {n}) = SumOf(w, S) + w[n]
    BY <1>6, SumAdds
  <2> QED BY <1>1, <1>3, <1>4, <2>1
<1>8. z = y + b * k
  <2>1. PICK p : p = Products(w, v, U)
    OBVIOUS
  <2>2. Numbers(p, S \cup {n})
    BY <1>6, <2>1
  <2>3. SumOf(p, S \cup {n}) = SumOf(p, S) + p[n] /\ SumOf(p, S) \in Nat
    BY <2>2, SumAdds
  <2>4. SumOf(p, S) = SumOf(Products(w, v, S), S)
    <3>1. Numbers(Products(w, v, S), S)
      BY <1>0, ProductsUnder
    <3>2. \A i \in S : p[i] = Products(w, v, S)[i]
      BY <2>1 DEF Products
    <3> QED BY <3>1, <3>2, SumSame
  <2>5. p[n] = b * k
    <3>1. p[n] = w[n] * v[n]
      BY <2>1 DEF Products
    <3>2. k * b = b * k
      OBVIOUS
    <3> QED BY <1>4, <1>5, <3>1, <3>2
  <2> QED BY <1>1, <1>3, <2>1, <2>3, <2>4, <2>5
<1>9. Average(w, v, S \cup {n}) = Rounded(y + b * k, t + k)
  BY Zenon, <1>3, <1>7, <1>8
<1> QED BY <1>1, <1>4, <1>5, <1>9 DEF Grown

LEMMA AverageRises ==
  ASSUME NEW S, IsFiniteSet(S), S # {}, NEW n, n \notin S, NEW w, NEW v, NEW c \in Nat,
         Rated(w, v, S \cup {n}, c), v[n] = c
  PROVE  Average(w, v, S) <= Average(w, v, S \cup {n})
<1>1. PICK y \in Nat, t \in Nat \ {0}, k \in Nat, b \in Nat :
        /\ k = w[n] /\ b = v[n] /\ y <= c * t
        /\ Average(w, v, S) = Rounded(y, t)
        /\ Average(w, v, S \cup {n}) = Rounded(y + b * k, t + k)
  <2>1. Grown(w, v, S, n, c)
    BY AverageMore
  <2> QED BY Zenon, <2>1 DEF Grown
<1>2. Rounded(y, t) <= Rounded(y + c * k, t + k)
  BY <1>1, RoundedRises
<1> QED BY <1>1, <1>2

LEMMA AverageFalls ==
  ASSUME NEW S, IsFiniteSet(S), S # {}, NEW n, n \notin S, NEW w, NEW v, NEW c \in Nat,
         Rated(w, v, S \cup {n}, c), v[n] = 0
  PROVE  Average(w, v, S \cup {n}) <= Average(w, v, S)
<1>1. PICK y \in Nat, t \in Nat \ {0}, k \in Nat, b \in Nat :
        /\ k = w[n] /\ b = v[n] /\ y <= c * t
        /\ Average(w, v, S) = Rounded(y, t)
        /\ Average(w, v, S \cup {n}) = Rounded(y + b * k, t + k)
  <2>1. Grown(w, v, S, n, c)
    BY AverageMore
  <2> QED BY Zenon, <2>1 DEF Grown
<1>2. y + b * k = y
  BY <1>1
<1>3. Rounded(y, t + k) <= Rounded(y, t)
  BY RoundedFalls
<1> QED BY <1>1, <1>2, <1>3

-----------------------------------------------------------------------------
(* What is concluded from the outcomes that are seen.                      *)

Total(p, q, r, s) == (35 * p + 20 * q + 15 * r + 15 * s + 10 * 100 + 5 * 60 + 50) \div 100

LEMMA TotalFacts ==
  ASSUME NEW p \in Nat, NEW q \in Nat, NEW r \in Nat, NEW s \in Nat
  PROVE  /\ p <= 100 /\ q <= 100 /\ r <= 100 /\ s <= 100 => Total(p, q, r, s) \in 0..100
         /\ p <= 0 /\ q <= 0 /\ r <= 0 /\ s <= 0 => Total(p, q, r, s) <= 13
BY DEF Total

LEMMA TotalRises ==
  ASSUME NEW p \in Nat, NEW q \in Nat, NEW r \in Nat, NEW s \in Nat,
         NEW p2 \in Nat, NEW q2 \in Nat, NEW r2 \in Nat, NEW s2 \in Nat,
         p <= p2, q <= q2, r <= r2, s <= s2
  PROVE  Total(p, q, r, s) <= Total(p2, q2, r2, s2)
<1>1. PICK y \in Nat : y = 35 * p + 20 * q + 15 * r + 15 * s + 10 * 100 + 5 * 60 + 50
  OBVIOUS
<1>2. PICK z \in Nat : z = 35 * p2 + 20 * q2 + 15 * r2 + 15 * s2 + 10 * 100 + 5 * 60 + 50
  OBVIOUS
<1>3. y <= z
  BY <1>1, <1>2
<1>4. y \div 100 <= z \div 100
  BY <1>3
<1> QED BY <1>1, <1>2, <1>4 DEF Total

Succeeded == RhGrades \ {"failed"}
Tested    == {"untested", "passed"}
Reviewed  == {"unreviewed", "passed"}

Mean(log, v, S) == Average(Weight(log), v, S)

LEMMA BreakdownIs ==
  ASSUME NEW log, NEW S
  PROVE  Breakdown(log, S) = Total(Mean(log, Graded(log, Succeeded), S), Mean(log, Confidence(log), S),
                                   Mean(log, Graded(log, Tested), S), Mean(log, Graded(log, Reviewed), S))
BY Zenon DEF Breakdown, Total, Mean, Succeeded, Tested, Reviewed

LEMMA OutcomeFields ==
  ASSUME NEW o \in Outcomes
  PROVE  o.agent \in RhAgents /\ o.sim \in 0..100 /\ o.grade \in RhGrades /\ o.conf \in 0..100
BY DEF Outcomes

LEMMA LogFacts ==
  ASSUME NEW log \in Seq(Outcomes)
  PROVE  /\ DOMAIN log = 1..Len(log) /\ Len(log) \in Nat /\ IsFiniteSet(DOMAIN log)
         /\ \A i \in DOMAIN log : i \in Nat /\ log[i] \in Outcomes
<1>1. DOMAIN log = 1..Len(log) /\ Len(log) \in Nat /\ \A i \in DOMAIN log : i \in Nat /\ log[i] \in Outcomes
  OBVIOUS
<1>2. IsFiniteSet(1..Len(log))
  BY <1>1, FS_Interval
<1> QED BY <1>1, <1>2

\* Everything averaged is in percent and has a weight.
LEMMA GradesRated ==
  ASSUME NEW log \in Seq(Outcomes), NEW S \in SUBSET DOMAIN log, NEW G
  PROVE  Rated(Weight(log), Graded(log, G), S, 100)
<1> SUFFICES ASSUME NEW i \in S
             PROVE  /\ Weight(log)[i] \in Nat /\ Weight(log)[i] # 0
                    /\ Graded(log, G)[i] \in Nat /\ Graded(log, G)[i] <= 100
  BY DEF Rated
<1>1. log[i] \in Outcomes /\ i \in DOMAIN log
  BY LogFacts
<1>2. PICK s \in 0..100 : s = log[i].sim
  BY <1>1, OutcomeFields
<1>3. Weight(log)[i] = 55 * 100 + 45 * s
  BY <1>1, <1>2 DEF Weight
<1>4. Graded(log, G)[i] = 100 \/ Graded(log, G)[i] = 0
  BY <1>1 DEF Graded
<1> QED BY <1>3, <1>4

LEMMA ConfidenceRated ==
  ASSUME NEW log \in Seq(Outcomes), NEW S \in SUBSET DOMAIN log,
         NEW c \in Nat, \A i \in S : log[i].conf <= c
  PROVE  Rated(Weight(log), Confidence(log), S, c)
<1> SUFFICES ASSUME NEW i \in S
             PROVE  /\ Weight(log)[i] \in Nat /\ Weight(log)[i] # 0
                    /\ Confidence(log)[i] \in Nat /\ Confidence(log)[i] <= c
  BY DEF Rated
<1>1. log[i] \in Outcomes /\ i \in DOMAIN log
  BY LogFacts
<1>2. PICK s \in 0..100 : s = log[i].sim
  BY <1>1, OutcomeFields
<1>3. Weight(log)[i] = 55 * 100 + 45 * s
  BY <1>1, <1>2 DEF Weight
<1>4. PICK d \in 0..100 : d = log[i].conf
  BY <1>1, OutcomeFields
<1>5. Confidence(log)[i] = d
  BY <1>1, <1>4 DEF Confidence
<1>6. d <= c
  BY <1>4
<1> QED BY <1>3, <1>5, <1>6

\* Where all of G failed to be reached, the average is 0.
LEMMA NoneGraded ==
  ASSUME NEW log \in Seq(Outcomes), NEW S \in SUBSET DOMAIN log, NEW G,
         \A i \in S : log[i].grade \notin G
  PROVE  Rated(Weight(log), Graded(log, G), S, 0)
<1>1. Rated(Weight(log), Graded(log, G), S, 100)
  BY GradesRated
<1>2. \A i \in S : Graded(log, G)[i] = 0
  BY DEF Graded
<1> QED BY <1>1, <1>2 DEF Rated

LEMMA Hundred ==
  ASSUME NEW log \in Seq(Outcomes), NEW S \in SUBSET DOMAIN log
  PROVE  /\ \A G : Mean(log, Graded(log, G), S) \in Nat /\ Mean(log, Graded(log, G), S) <= 100
         /\ Mean(log, Confidence(log), S) \in Nat /\ Mean(log, Confidence(log), S) <= 100
<1>0. IsFiniteSet(S)
  BY LogFacts, FS_Subset
<1>1. PICK c \in Nat : c = 100
  OBVIOUS
<1>2. ASSUME NEW G PROVE Mean(log, Graded(log, G), S) \in Nat /\ Mean(log, Graded(log, G), S) <= 100
  <2>1. Rated(Weight(log), Graded(log, G), S, c)
    BY <1>1, GradesRated
  <2>2. Average(Weight(log), Graded(log, G), S) \in Nat /\ Average(Weight(log), Graded(log, G), S) <= c
    BY <1>0, <2>1, AverageWithin
  <2> QED BY <1>1, <2>2 DEF Mean
<1>3. Mean(log, Confidence(log), S) \in Nat /\ Mean(log, Confidence(log), S) <= 100
  <2>0. \A i \in S : log[i].conf <= c
    <3> TAKE i \in S
    <3>1. log[i] \in Outcomes
      BY LogFacts
    <3>2. PICK d \in 0..100 : d = log[i].conf
      BY <3>1, OutcomeFields
    <3>3. d <= c
      BY <1>1
    <3> QED BY <3>2, <3>3
  <2>1. Rated(Weight(log), Confidence(log), S, c)
    BY <2>0, ConfidenceRated
  <2>2. Average(Weight(log), Confidence(log), S) \in Nat /\ Average(Weight(log), Confidence(log), S) <= c
    BY <1>0, <2>1, AverageWithin
  <2> QED BY <1>1, <2>2 DEF Mean
<1> QED BY <1>2, <1>3

LEMMA BreakdownShare ==
  ASSUME NEW log \in Seq(Outcomes), NEW S \in SUBSET DOMAIN log
  PROVE  /\ Breakdown(log, S) \in 0..100
         /\ (\A i \in S : Worst(log[i])) => Breakdown(log, S) <= 13
<1>1. PICK p \in Nat : p = Mean(log, Graded(log, Succeeded), S) /\ p <= 100
  BY Hundred
<1>2. PICK q \in Nat : q = Mean(log, Confidence(log), S) /\ q <= 100
  BY Hundred
<1>3. PICK r \in Nat : r = Mean(log, Graded(log, Tested), S) /\ r <= 100
  BY Hundred
<1>4. PICK s \in Nat : s = Mean(log, Graded(log, Reviewed), S) /\ s <= 100
  BY Hundred
<1>5. Breakdown(log, S) = Total(p, q, r, s)
  BY Zenon, <1>1, <1>2, <1>3, <1>4, BreakdownIs
<1>6. Total(p, q, r, s) \in 0..100
  BY <1>1, <1>2, <1>3, <1>4, TotalFacts
<1>7. ASSUME \A i \in S : Worst(log[i]) PROVE Total(p, q, r, s) <= 13
  <2>0. IsFiniteSet(S)
    BY LogFacts, FS_Subset
  <2>1. PICK c \in Nat : c = 0
    OBVIOUS
  <2>2. ASSUME NEW G, "failed" \notin G PROVE Mean(log, Graded(log, G), S) <= 0
    <3>1. \A i \in S : log[i].grade \notin G
      BY <1>7, <2>2 DEF Worst
    <3>2. Rated(Weight(log), Graded(log, G), S, c)
      BY <2>1, <3>1, NoneGraded
    <3>3. Average(Weight(log), Graded(log, G), S) <= c
      BY <2>0, <3>2, AverageWithin
    <3> QED BY <2>1, <3>3 DEF Mean
  <2>3. Mean(log, Confidence(log), S) <= 0
    <3>1. \A i \in S : log[i].conf <= c
      BY <1>7, <2>1 DEF Worst
    <3>2. Rated(Weight(log), Confidence(log), S, c)
      BY <3>1, ConfidenceRated
    <3>3. Average(Weight(log), Confidence(log), S) <= c
      BY <2>0, <3>2, AverageWithin
    <3> QED BY <2>1, <3>3 DEF Mean
  <2>4. "failed" \notin Succeeded /\ "failed" \notin Tested /\ "failed" \notin Reviewed
    BY DEF Succeeded, Tested, Reviewed
  <2>5. p <= 0 /\ q <= 0 /\ r <= 0 /\ s <= 0
    BY <1>1, <1>2, <1>3, <1>4, <2>2, <2>3, <2>4
  <2> QED BY <2>5, TotalFacts
<1> QED BY <1>5, <1>6, <1>7

-----------------------------------------------------------------------------
(* Which outcomes are seen.                                                *)

\* The outcomes looked at before i.
Preferred(log, i) == {j \in Alike(log) : Ahead(log, j, i)}

\* The order of the search is strict and total.
LEMMA AheadOrder ==
  ASSUME NEW log \in Seq(Outcomes), NEW i \in DOMAIN log, NEW j \in DOMAIN log, NEW k \in DOMAIN log
  PROVE  /\ ~Ahead(log, i, i)
         /\ Ahead(log, i, j) /\ Ahead(log, j, k) => Ahead(log, i, k)
         /\ i = j \/ Ahead(log, i, j) \/ Ahead(log, j, i)
<1>1. i \in Nat /\ j \in Nat /\ k \in Nat
  BY LogFacts
<1>2. log[i] \in Outcomes /\ log[j] \in Outcomes /\ log[k] \in Outcomes
  BY LogFacts
<1>3. PICK a \in 0..100 : a = log[i].sim
  BY <1>2, OutcomeFields
<1>4. PICK b \in 0..100 : b = log[j].sim
  BY <1>2, OutcomeFields
<1>5. PICK c \in 0..100 : c = log[k].sim
  BY <1>2, OutcomeFields
<1> QED BY <1>1, <1>3, <1>4, <1>5 DEF Ahead

LEMMA AlikeFacts ==
  ASSUME NEW log \in Seq(Outcomes)
  PROVE  /\ Alike(log) \in SUBSET DOMAIN log /\ IsFiniteSet(Alike(log))
         /\ Search(log) \in SUBSET Alike(log) /\ IsFiniteSet(Search(log))
<1>1. Alike(log) \in SUBSET DOMAIN log
  BY DEF Alike, Latest
<1>2. IsFiniteSet(Alike(log))
  BY <1>1, LogFacts, FS_Subset
<1>3. Search(log) \in SUBSET Alike(log)
  BY DEF Search
<1>4. IsFiniteSet(Search(log))
  BY <1>2, <1>3, FS_Subset
<1> QED BY <1>1, <1>2, <1>3, <1>4

LEMMA PreferredFacts ==
  ASSUME NEW log \in Seq(Outcomes), NEW i
  PROVE  /\ Preferred(log, i) \in SUBSET Alike(log)
         /\ IsFiniteSet(Preferred(log, i)) /\ Cardinality(Preferred(log, i)) \in Nat
<1>1. Preferred(log, i) \in SUBSET Alike(log)
  BY DEF Preferred
<1>2. IsFiniteSet(Preferred(log, i))
  BY <1>1, AlikeFacts, FS_Subset
<1> QED BY <1>1, <1>2, FS_CardinalityType

LEMMA SearchIs ==
  ASSUME NEW log, NEW i
  PROVE  i \in Search(log) <=> i \in Alike(log) /\ Cardinality(Preferred(log, i)) < RhTopK
BY DEF Search, Preferred

\* Whoever is ahead has fewer ahead of it.
LEMMA AheadFewer ==
  ASSUME NEW log \in Seq(Outcomes), NEW i \in Alike(log), NEW j \in Alike(log), Ahead(log, i, j)
  PROVE  Cardinality(Preferred(log, i)) + 1 <= Cardinality(Preferred(log, j))
<1>0. i \in DOMAIN log /\ j \in DOMAIN log
  BY AlikeFacts
<1>1. PICK P : P = Preferred(log, i) /\ IsFiniteSet(P) /\ i \notin P /\ P \subseteq Alike(log)
  <2>1. IsFiniteSet(Preferred(log, i)) /\ Preferred(log, i) \subseteq Alike(log)
    BY PreferredFacts
  <2>2. ~Ahead(log, i, i)
    BY <1>0, AheadOrder
  <2>3. i \notin Preferred(log, i)
    BY <2>2 DEF Preferred
  <2> QED BY <2>1, <2>3
<1>2. PICK Q : Q = Preferred(log, j) /\ IsFiniteSet(Q)
  BY PreferredFacts
<1>3. ASSUME NEW k \in P PROVE k \in Q
  <2>1. k \in Alike(log) /\ Ahead(log, k, i) /\ k \in DOMAIN log
    BY <1>1, AlikeFacts DEF Preferred
  <2>2. Ahead(log, k, j)
    BY <1>0, <2>1, AheadOrder
  <2> QED BY <1>2, <2>1, <2>2 DEF Preferred
<1>4. i \in Q
  BY <1>2 DEF Preferred
<1>5. P \cup {i} \in SUBSET Q
  BY <1>3, <1>4
<1>6. Cardinality(P \cup {i}) <= Cardinality(Q)
  BY <1>2, <1>5, FS_Subset
<1>7. Cardinality(P \cup {i}) = Cardinality(P) + 1
  BY <1>1, FS_AddElement
<1> QED BY <1>1, <1>2, <1>6, <1>7

\* The last that is seen, if as many are seen as can be.
LEMMA LastSeen ==
  ASSUME NEW log \in Seq(Outcomes), NEW i \in Search(log), Cardinality(Preferred(log, i)) = RhTopK - 1
  PROVE  Cardinality(Search(log)) = RhTopK
<1>0. i \in Alike(log) /\ Search(log) \subseteq Alike(log) /\ Alike(log) \subseteq DOMAIN log
  BY AlikeFacts
<1>1. PICK P : P = Preferred(log, i) /\ IsFiniteSet(P) /\ i \notin P /\ P \subseteq Alike(log)
  <2>1. IsFiniteSet(Preferred(log, i)) /\ Preferred(log, i) \subseteq Alike(log)
    BY PreferredFacts
  <2>2. ~Ahead(log, i, i)
    BY <1>0, AheadOrder
  <2>3. i \notin Preferred(log, i)
    BY <2>2 DEF Preferred
  <2> QED BY <2>1, <2>3
<1>2. PICK K \in Nat : K = RhTopK
  BY HistoryAssumption
<1>3. ASSUME NEW j \in P PROVE j \in Search(log)
  <2>1. j \in Alike(log) /\ Ahead(log, j, i)
    BY <1>1 DEF Preferred
  <2>2. PICK u \in Nat : u = Cardinality(Preferred(log, j))
    BY PreferredFacts
  <2>3. u + 1 <= Cardinality(Preferred(log, i))
    BY <1>0, <2>1, <2>2, AheadFewer
  <2>4. u < K
    BY <1>2, <2>3
  <2> QED BY <1>2, <2>1, <2>2, <2>4, SearchIs
<1>4. ASSUME NEW j \in Search(log), j # i PROVE j \in P
  <2>1. j \in Alike(log) /\ Cardinality(Preferred(log, j)) < K
    BY <1>2, SearchIs
  <2>2. CASE Ahead(log, i, j)
    <3>1. Cardinality(Preferred(log, i)) + 1 <= Cardinality(Preferred(log, j))
      BY <1>0, <2>1, <2>2, AheadFewer
    <3>2. PICK u \in Nat : u = Cardinality(Preferred(log, j))
      BY PreferredFacts
    <3> QED BY <1>2, <2>1, <3>1, <3>2
  <2>3. i \in DOMAIN log /\ j \in DOMAIN log
    BY <1>0, <2>1
  <2>4. Ahead(log, i, j) \/ Ahead(log, j, i)
    BY <1>4, <2>3, AheadOrder
  <2> QED BY <1>1, <2>1, <2>2, <2>4 DEF Preferred
<1>5. Search(log) = P \cup {i}
  BY <1>3, <1>4
<1>6. Cardinality(P \cup {i}) = Cardinality(P) + 1
  BY <1>1, FS_AddElement
<1> QED BY <1>1, <1>2, <1>5, <1>6

\* Another outcome is recorded.
Recorded(log, o, L, n) ==
  log \in Seq(Outcomes) /\ o \in Outcomes /\ L = Append(log, o) /\ n = Len(log) + 1

LEMMA RecordedFacts ==
  ASSUME NEW log, NEW o, NEW L, NEW n, Recorded(log, o, L, n)
  PROVE  /\ log \in Seq(Outcomes) /\ L \in Seq(Outcomes) /\ o \in Outcomes
         /\ DOMAIN L = DOMAIN log \cup {n} /\ n \notin DOMAIN log
         /\ \A i \in DOMAIN log : L[i] = log[i]
         /\ L[n] = o /\ Len(L) = n
BY DEF Recorded

\* What was listed and no longer is.
Dropped(log, L) == Latest(log) \ Latest(L)

LEMMA LatestMore ==
  ASSUME NEW log, NEW o, NEW L, NEW n, Recorded(log, o, L, n)
  PROVE  /\ Latest(log) \subseteq DOMAIN log /\ Latest(L) \subseteq DOMAIN L
         /\ Latest(L) \subseteq Latest(log) \cup {n}
         /\ \A i, j \in Dropped(log, L) : i = j
<1>1. log \in Seq(Outcomes) /\ L \in Seq(Outcomes) /\ Len(L) = n
  BY RecordedFacts
<1>2. DOMAIN log = 1..Len(log) /\ DOMAIN L = 1..Len(L) /\ Len(log) \in Nat /\ n = Len(log) + 1
  BY <1>1 DEF Recorded
<1>3. PICK C \in Nat : C = RhCandidates
  BY HistoryAssumption
<1> QED BY <1>1, <1>2, <1>3 DEF Latest, Dropped

LEMMA AlikeMore ==
  ASSUME NEW log, NEW o, NEW L, NEW n, Recorded(log, o, L, n)
  PROVE  /\ Alike(log) \ Dropped(log, L) \subseteq Alike(L) /\ Alike(L) \subseteq Alike(log) \cup {n}
         /\ \A i, j \in DOMAIN log : (Ahead(L, i, j) <=> Ahead(log, i, j))
<1>1. /\ DOMAIN L = DOMAIN log \cup {n} /\ n \notin DOMAIN log
      /\ \A i \in DOMAIN log : L[i] = log[i]
  BY RecordedFacts
<1>2. Alike(log) \ Dropped(log, L) \subseteq Alike(L) /\ Alike(L) \subseteq Alike(log) \cup {n}
  <2>1. Latest(log) \subseteq DOMAIN log /\ Latest(L) \subseteq Latest(log) \cup {n}
    BY LatestMore
  <2>2. ASSUME NEW i \in Alike(log), i \notin Dropped(log, L) PROVE i \in Alike(L)
    <3>1. i \in Latest(log) /\ log[i].sim >= 18 /\ i \in Latest(L) /\ L[i] = log[i]
      BY <1>1, <2>1, <2>2 DEF Alike, Dropped
    <3> QED BY <3>1 DEF Alike
  <2>3. ASSUME NEW i \in Alike(L), i # n PROVE i \in Alike(log)
    <3>1. i \in Latest(L) /\ L[i].sim >= 18 /\ i \in Latest(log) /\ L[i] = log[i]
      BY <1>1, <2>1, <2>3 DEF Alike
    <3> QED BY <3>1 DEF Alike
  <2> QED BY <2>2, <2>3
<1>3. ASSUME NEW i \in DOMAIN log, NEW j \in DOMAIN log PROVE (Ahead(L, i, j) <=> Ahead(log, i, j))
  <2>1. L[i] = log[i] /\ L[j] = log[j]
    BY <1>1
  <2> QED BY Zenon, <2>1 DEF Ahead
<1> QED BY <1>2, <1>3

\* The outcome recorded goes ahead of some, the one no longer listed is not
\* ahead of any.
LEMMA PreferredMore ==
  ASSUME NEW log, NEW o, NEW L, NEW n, Recorded(log, o, L, n), NEW i \in DOMAIN log
  PROVE  /\ Preferred(log, i) \ Dropped(log, L) \subseteq Preferred(L, i)
         /\ Cardinality(Preferred(L, i)) <= Cardinality(Preferred(log, i)) + 1
         /\ Cardinality(Preferred(log, i)) <= Cardinality(Preferred(L, i)) + 1
         /\ Preferred(log, i) \cap Dropped(log, L) = {} =>
              Cardinality(Preferred(log, i)) <= Cardinality(Preferred(L, i))
<1>0. log \in Seq(Outcomes) /\ L \in Seq(Outcomes)
  BY RecordedFacts
<1>1. Alike(log) \subseteq DOMAIN log
  BY <1>0, AlikeFacts
<1>2. /\ Alike(log) \ Dropped(log, L) \subseteq Alike(L) /\ Alike(L) \subseteq Alike(log) \cup {n}
      /\ \A k, j \in DOMAIN log : (Ahead(L, k, j) <=> Ahead(log, k, j))
  BY AlikeMore
<1>3. PICK P : P = Preferred(log, i) /\ IsFiniteSet(P) /\ Cardinality(P) \in Nat
  BY <1>0, PreferredFacts
<1>4. PICK Q : Q = Preferred(L, i) /\ IsFiniteSet(Q) /\ Cardinality(Q) \in Nat
  BY <1>0, PreferredFacts
<1>5. P \ Dropped(log, L) \in SUBSET Q
  BY <1>1, <1>2, <1>3, <1>4 DEF Preferred
<1>6. Q \in SUBSET (P \cup {n})
  BY <1>1, <1>2, <1>3, <1>4 DEF Preferred
<1>7. ASSUME P \cap Dropped(log, L) = {} PROVE Cardinality(P) <= Cardinality(Q)
  <2>1. P \in SUBSET Q
    BY <1>5, <1>7
  <2> QED BY <1>4, <2>1, FS_Subset
<1>8. IsFiniteSet(P \cup {n}) /\ Cardinality(P \cup {n}) = IF n \in P THEN Cardinality(P) ELSE Cardinality(P) + 1
  BY <1>3, FS_AddElement
<1>9. Cardinality(Q) <= Cardinality(P \cup {n})
  BY <1>6, <1>8, FS_Subset
<1>10. Cardinality(P) <= Cardinality(Q) + 1
  <2>1. CASE P \cap Dropped(log, L) = {}
    BY <1>3, <1>4, <1>7, <2>1
  <2>2. CASE P \cap Dropped(log, L) # {}
    <3>1. PICK d : d \in P /\ d \in Dropped(log, L)
      BY <2>2
    <3>2. P \in SUBSET (Q \cup {d})
      BY <1>5, <3>1, LatestMore
    <3>3. IsFiniteSet(Q \cup {d}) /\ Cardinality(Q \cup {d}) = IF d \in Q THEN Cardinality(Q) ELSE Cardinality(Q) + 1
      BY <1>4, FS_AddElement
    <3>4. Cardinality(P) <= Cardinality(Q \cup {d})
      BY <3>2, <3>3, FS_Subset
    <3> QED BY <1>3, <1>4, <3>3, <3>4
  <2> QED BY <2>1, <2>2
<1> QED BY <1>3, <1>4, <1>5, <1>7, <1>8, <1>9, <1>10

\* As long as what is looked at stays listed, the outcome recorded may push the
\* last of it out of sight, and no other.
LEMMA SearchMore ==
  ASSUME NEW log, NEW o, NEW L, NEW n, Recorded(log, o, L, n), Search(log) \subseteq Latest(L)
  PROVE  /\ Search(L) \subseteq Search(log) \cup {n}
         /\ \A i \in Search(log) \ Search(L) : Cardinality(Preferred(log, i)) = RhTopK - 1
<1>0. log \in Seq(Outcomes) /\ L \in Seq(Outcomes)
  BY RecordedFacts
<1>1. Alike(log) \subseteq DOMAIN log
  BY <1>0, AlikeFacts
<1>2. Alike(log) \ Dropped(log, L) \subseteq Alike(L) /\ Alike(L) \subseteq Alike(log) \cup {n}
  BY AlikeMore
<1>3. PICK K \in Nat : K = RhTopK
  BY HistoryAssumption
<1>4. \A i : Cardinality(Preferred(log, i)) \in Nat
  BY <1>0, PreferredFacts
<1>5. \A i : Cardinality(Preferred(L, i)) \in Nat
  BY <1>0, PreferredFacts
<1>6. ASSUME NEW i \in Search(L), i # n PROVE i \in Search(log)
  <2>1. i \in Alike(L) /\ Cardinality(Preferred(L, i)) < K
    BY <1>3, SearchIs
  <2>2. i \in Alike(log) /\ i \in DOMAIN log
    BY <1>1, <1>2, <1>6, <2>1
  <2>3. CASE Preferred(log, i) \cap Dropped(log, L) = {}
    <3>1. Cardinality(Preferred(log, i)) <= Cardinality(Preferred(L, i))
      BY <2>2, <2>3, PreferredMore
    <3>2. Cardinality(Preferred(log, i)) < K
      BY <1>4, <1>5, <2>1, <3>1
    <3> QED BY <1>3, <2>2, <3>2, SearchIs
  <2>4. CASE Preferred(log, i) \cap Dropped(log, L) # {}
    <3>1. PICK d : d \in Preferred(log, i) /\ d \in Dropped(log, L)
      BY <2>4
    <3>2. d \in Alike(log) /\ Ahead(log, d, i) /\ d \notin Search(log) /\ d \in DOMAIN log
      BY <1>1, <3>1 DEF Preferred, Dropped
    <3>3. ~(Cardinality(Preferred(log, d)) < K)
      BY <1>3, <3>2, SearchIs
    <3>4. ~Ahead(log, d, d)
      BY <1>0, <3>2, AheadOrder
    <3>5. ASSUME NEW k \in Preferred(log, d) PROVE k \in Preferred(L, i)
      <4>1. k \in Alike(log) /\ Ahead(log, k, d) /\ k # d /\ k \in DOMAIN log
        BY <1>1, <3>4 DEF Preferred
      <4>2. Ahead(log, k, i)
        BY <1>0, <2>2, <3>2, <4>1, AheadOrder
      <4>3. k \in Preferred(log, i) /\ k \notin Dropped(log, L)
        <5>1. k \notin Dropped(log, L)
          BY <3>1, <4>1, LatestMore
        <5> QED BY <4>1, <4>2, <5>1 DEF Preferred
      <4> QED BY <2>2, <4>3, PreferredMore
    <3>6. Preferred(log, d) \in SUBSET Preferred(L, i) /\ IsFiniteSet(Preferred(L, i))
      BY <1>0, <3>5, PreferredFacts
    <3>7. Cardinality(Preferred(log, d)) <= Cardinality(Preferred(L, i))
      BY <3>6, FS_Subset
    <3> QED BY <1>3, <1>4, <1>5, <2>1, <3>3, <3>7
  <2> QED BY <2>3, <2>4
<1>7. ASSUME NEW i \in Search(log), i \notin Search(L) PROVE Cardinality(Preferred(log, i)) = RhTopK - 1
  <2>1. i \in Alike(log) /\ Cardinality(Preferred(log, i)) < K
    BY <1>3, SearchIs
  <2>2. i \in Alike(L) /\ i \in DOMAIN log
    BY <1>1, <1>2, <2>1 DEF Dropped
  <2>3. Cardinality(Preferred(L, i)) <= Cardinality(Preferred(log, i)) + 1
    BY <2>2, PreferredMore
  <2>4. ~(Cardinality(Preferred(L, i)) < K)
    BY <1>3, <1>7, <2>2, SearchIs
  <2> QED BY <1>3, <1>4, <1>5, <2>1, <2>3, <2>4
<1> QED BY <1>6, <1>7

\* When one that was looked at is no longer listed, no other goes out of sight,
\* and only the next one comes into sight.
LEMMA SearchDrops ==
  ASSUME NEW log, NEW o, NEW L, NEW n, Recorded(log, o, L, n), ~(Search(log) \subseteq Latest(L))
  PROVE  /\ Search(log) \ Search(L) \subseteq DOMAIN log \ Latest(L)
         /\ \A i \in Search(L) \ (Search(log) \cup {n}) :
              i \in Alike(log) /\ Cardinality(Preferred(log, i)) = RhTopK
<1>0. log \in Seq(Outcomes) /\ L \in Seq(Outcomes)
  BY RecordedFacts
<1>1. Alike(log) \subseteq DOMAIN log /\ Search(log) \subseteq Alike(log)
  BY <1>0, AlikeFacts
<1>2. Alike(log) \ Dropped(log, L) \subseteq Alike(L) /\ Alike(L) \subseteq Alike(log) \cup {n}
  BY AlikeMore
<1>3. PICK K \in Nat : K = RhTopK
  BY HistoryAssumption
<1>4. \A i : Cardinality(Preferred(log, i)) \in Nat
  BY <1>0, PreferredFacts
<1>5. \A i : Cardinality(Preferred(L, i)) \in Nat
  BY <1>0, PreferredFacts
<1>6. PICK d : d \in Search(log) /\ d \notin Latest(L)
  OBVIOUS
<1>7. ASSUME NEW i \in Search(log), i \notin Search(L), i \in Latest(L) PROVE FALSE
  <2>1. i \in Alike(log) /\ i \in DOMAIN log /\ i \in Alike(L) /\ i # d
    BY <1>1, <1>2, <1>6, <1>7 DEF Dropped
  <2>2. Cardinality(Preferred(log, i)) < K
    BY <1>3, <1>7, SearchIs
  <2>3. ~(Cardinality(Preferred(L, i)) < K)
    BY <1>3, <1>7, <2>1, SearchIs
  <2>4. Cardinality(Preferred(L, i)) <= Cardinality(Preferred(log, i)) + 1
    BY <2>1, PreferredMore
  <2>5. d \in Alike(log) /\ d \in DOMAIN log /\ Cardinality(Preferred(log, d)) < K
    BY <1>1, <1>3, <1>6, SearchIs
  <2>6. CASE Ahead(log, i, d)
    <3>1. Cardinality(Preferred(log, i)) + 1 <= Cardinality(Preferred(log, d))
      BY <1>0, <2>1, <2>5, <2>6, AheadFewer
    <3> QED BY <1>3, <1>4, <1>5, <2>3, <2>4, <2>5, <3>1
  <2>7. CASE Ahead(log, d, i)
    <3>1. d \in Dropped(log, L) /\ d \notin Preferred(L, i)
      <4>1. d \in Latest(log)
        BY <2>5 DEF Alike
      <4>2. d \notin Alike(L)
        BY <1>6 DEF Alike
      <4> QED BY <1>6, <4>1, <4>2 DEF Dropped, Preferred
    <3>2. PICK P : P = Preferred(log, i) /\ IsFiniteSet(P) /\ Cardinality(P) \in Nat
      BY <1>0, PreferredFacts
    <3>3. PICK Q : Q = Preferred(L, i) /\ IsFiniteSet(Q) /\ Cardinality(Q) \in Nat
      BY <1>0, PreferredFacts
    <3>4. d \in P
      BY <2>5, <2>7, <3>2 DEF Preferred
    <3>5. Q \in SUBSET ((P \ {d}) \cup {n})
      <4>1. \A k, j \in DOMAIN log : (Ahead(L, k, j) <=> Ahead(log, k, j))
        BY AlikeMore
      <4> QED BY <1>1, <1>2, <2>1, <3>1, <3>2, <3>3, <4>1 DEF Preferred
    <3>6. IsFiniteSet(P \ {d}) /\ Cardinality(P \ {d}) = Cardinality(P) - 1
      BY <3>2, <3>4, FS_RemoveElement
    <3>7. PICK R : R = P \ {d}
      OBVIOUS
    <3>8. IsFiniteSet(R \cup {n}) /\ Cardinality(R \cup {n}) = IF n \in R THEN Cardinality(R) ELSE Cardinality(R) + 1
      BY <3>6, <3>7, FS_AddElement
    <3>9. Cardinality(Q) <= Cardinality(R \cup {n})
      BY <3>5, <3>7, <3>8, FS_Subset
    <3> QED BY <1>3, <2>2, <2>3, <3>2, <3>3, <3>6, <3>7, <3>8, <3>9
  <2>8. i = d \/ Ahead(log, i, d) \/ Ahead(log, d, i)
    BY <1>0, <2>1, <2>5, AheadOrder
  <2> QED BY <2>1, <2>6, <2>7, <2>8
<1>8. ASSUME NEW i \in Search(L), i \notin Search(log), i # n
      PROVE  i \in Alike(log) /\ Cardinality(Preferred(log, i)) = RhTopK
  <2>1. i \in Alike(L) /\ Cardinality(Preferred(L, i)) < K
    BY <1>3, SearchIs
  <2>2. i \in Alike(log) /\ i \in DOMAIN log
    BY <1>1, <1>2, <1>8, <2>1
  <2>3. ~(Cardinality(Preferred(log, i)) < K)
    BY <1>3, <1>8, <2>2, SearchIs
  <2>4. Cardinality(Preferred(log, i)) <= Cardinality(Preferred(L, i)) + 1
    BY <2>2, PreferredMore
  <2> QED BY <1>3, <1>4, <1>5, <2>1, <2>2, <2>3, <2>4
<1>9. Search(log) \ Search(L) \subseteq DOMAIN log \ Latest(L)
  BY <1>1, <1>7
<1> QED BY <1>8, <1>9

LEMMA SeenFacts ==
  ASSUME NEW log \in Seq(Outcomes), NEW a
  PROVE  /\ Seen(log, a) \in SUBSET Search(log) /\ Seen(log, a) \in SUBSET DOMAIN log
         /\ IsFiniteSet(Seen(log, a)) /\ Cardinality(Seen(log, a)) \in Nat
<1>1. Seen(log, a) \in SUBSET Search(log)
  BY DEF Seen
<1>2. Search(log) \in SUBSET Alike(log) /\ Alike(log) \in SUBSET DOMAIN log /\ IsFiniteSet(Search(log))
  BY AlikeFacts
<1>3. IsFiniteSet(Seen(log, a))
  BY <1>1, <1>2, FS_Subset
<1> QED BY <1>1, <1>2, <1>3, FS_CardinalityType

LEMMA ScoreShare ==
  ASSUME NEW log \in Seq(Outcomes), NEW a
  PROVE  /\ HistoryScore(log, a) \in 0..100
         /\ (\A i \in Seen(log, a) : Worst(log[i])) => HistoryScore(log, a) <= 13
<1>1. PICK S \in SUBSET DOMAIN log : S = Seen(log, a)
  BY SeenFacts
<1>2. /\ Breakdown(log, S) \in 0..100
      /\ (\A i \in S : Worst(log[i])) => Breakdown(log, S) <= 13
  BY BreakdownShare
<1>3. HistoryScore(log, a) = Breakdown(log, S) \/ HistoryScore(log, a) = 0
  BY <1>1 DEF HistoryScore
<1> QED BY <1>1, <1>2, <1>3

LEMMA FirstSaysNothing ==
  ASSUME NEW log \in Seq(Outcomes), NEW a, Cardinality({i \in DOMAIN log : log[i].agent = a}) <= 1
  PROVE  HistoryScore(log, a) = 0
<1>1. PICK D : D = {i \in DOMAIN log : log[i].agent = a}
  OBVIOUS
<1>2. IsFiniteSet(D) /\ Cardinality(D) \in Nat /\ Cardinality(D) <= 1
  <2>1. D \in SUBSET DOMAIN log /\ IsFiniteSet(DOMAIN log)
    BY <1>1, LogFacts
  <2>2. IsFiniteSet(D)
    BY <2>1, FS_Subset
  <2> QED BY <1>1, <2>2, FS_CardinalityType
<1>3. Seen(log, a) \in SUBSET D /\ Cardinality(Seen(log, a)) \in Nat
  <2>1. Seen(log, a) \in SUBSET DOMAIN log /\ Cardinality(Seen(log, a)) \in Nat
    BY SeenFacts
  <2> QED BY <1>1, <2>1 DEF Seen
<1>4. Cardinality(Seen(log, a)) <= Cardinality(D)
  BY <1>2, <1>3, FS_Subset
<1>5. Cardinality(Seen(log, a)) < 2
  BY <1>2, <1>3, <1>4
<1> QED BY <1>5 DEF HistoryScore

\* Outcomes with equally many ahead of them are one.
LEMMA SameRank ==
  ASSUME NEW log \in Seq(Outcomes), NEW i \in Alike(log), NEW j \in Alike(log),
         Cardinality(Preferred(log, i)) = Cardinality(Preferred(log, j))
  PROVE  i = j
<1>1. i \in DOMAIN log /\ j \in DOMAIN log
  BY AlikeFacts
<1>2. PICK u \in Nat : u = Cardinality(Preferred(log, i)) /\ u = Cardinality(Preferred(log, j))
  BY PreferredFacts
<1>3. CASE Ahead(log, i, j)
  <2>1. u + 1 <= u
    BY <1>2, <1>3, AheadFewer
  <2> QED BY <1>2, <2>1
<1>4. CASE Ahead(log, j, i)
  <2>1. u + 1 <= u
    BY <1>2, <1>4, AheadFewer
  <2> QED BY <1>2, <2>1
<1>5. i = j \/ Ahead(log, i, j) \/ Ahead(log, j, i)
  BY <1>1, AheadOrder
<1> QED BY <1>3, <1>4, <1>5

LEMMA AtMostOneOf ==
  ASSUME NEW D, \A i, j \in D : i = j
  PROVE  Cardinality(D) <= 1
<1>1. CASE D = {}
  BY <1>1, FS_EmptySet
<1>2. CASE D # {}
  <2>1. PICK i : i \in D
    BY <1>2
  <2>2. D = {i}
    BY <2>1
  <2>3. Cardinality({i}) = 1
    BY FS_Singleton
  <2> QED BY <2>2, <2>3
<1> QED BY <1>1, <1>2

\* What another agent's outcome does to what is seen of this one.
CrowdsOut(log, L, a) ==
  IF Search(log) \subseteq Latest(L)
  THEN /\ Seen(L, a) \subseteq Seen(log, a) /\ Cardinality(Seen(log, a) \ Seen(L, a)) <= 1
       /\ Seen(L, a) # Seen(log, a) => Cardinality(Search(log)) = RhTopK
  ELSE /\ Seen(log, a) \ Seen(L, a) \subseteq DOMAIN log \ Latest(L)
       /\ Cardinality(Seen(L, a) \ Seen(log, a)) <= 1

LEMMA OthersCrowdOut ==
  ASSUME NEW log, NEW o, NEW L, NEW n, Recorded(log, o, L, n), NEW a, o.agent # a
  PROVE  CrowdsOut(log, L, a)
<1>0. /\ log \in Seq(Outcomes) /\ L \in Seq(Outcomes) /\ o \in Outcomes
      /\ DOMAIN L = DOMAIN log \cup {n} /\ n \notin DOMAIN log
      /\ \A i \in DOMAIN log : L[i] = log[i]
      /\ L[n] = o /\ Len(L) = n
  BY DEF Recorded
<1>1. Search(log) \subseteq Alike(log) /\ Alike(log) \subseteq DOMAIN log
  BY <1>0, AlikeFacts
<1>2. Search(L) \subseteq Alike(L) /\ Alike(L) \subseteq Alike(log) \cup {n}
  BY <1>0, AlikeFacts, AlikeMore
<1>3. PICK D : D = Seen(log, a) \ Seen(L, a)
  OBVIOUS
<1>4. PICK N : N = Seen(L, a) \ Seen(log, a)
  OBVIOUS
<1>5. D \subseteq Search(log) \ Search(L)
  BY <1>0, <1>1, <1>3 DEF Seen
<1>6. N \subseteq Search(L) \ (Search(log) \cup {n})
  BY <1>0, <1>1, <1>2, <1>4 DEF Seen
<1>7. CASE Search(log) \subseteq Latest(L)
  <2>1. /\ Search(L) \subseteq Search(log) \cup {n}
        /\ \A i \in Search(log) \ Search(L) : Cardinality(Preferred(log, i)) = RhTopK - 1
    BY <1>7, SearchMore
  <2>2. Seen(L, a) \subseteq Seen(log, a)
    BY <1>4, <1>6, <2>1
  <2>3. \A i, j \in D : i = j
    <3> TAKE i, j \in D
    <3>1. /\ Cardinality(Preferred(log, i)) = Cardinality(Preferred(log, j))
          /\ i \in Alike(log) /\ j \in Alike(log)
      BY <1>1, <1>5, <2>1
    <3> QED BY <1>0, <3>1, SameRank
  <2>4. Cardinality(D) <= 1
    BY <2>3, AtMostOneOf
  <2>5. ASSUME Seen(L, a) # Seen(log, a) PROVE Cardinality(Search(log)) = RhTopK
    <3>1. PICK i : i \in D
      BY <1>3, <2>2, <2>5
    <3>2. i \in Search(log) /\ Cardinality(Preferred(log, i)) = RhTopK - 1
      BY <1>5, <2>1, <3>1
    <3> QED BY <1>0, <3>2, LastSeen
  <2> QED BY <1>3, <1>7, <2>2, <2>4, <2>5 DEF CrowdsOut
<1>8. CASE ~(Search(log) \subseteq Latest(L))
  <2>1. /\ Search(log) \ Search(L) \subseteq DOMAIN log \ Latest(L)
        /\ \A i \in Search(L) \ (Search(log) \cup {n}) :
             i \in Alike(log) /\ Cardinality(Preferred(log, i)) = RhTopK
    BY <1>8, SearchDrops
  <2>2. \A i, j \in N : i = j
    <3> TAKE i, j \in N
    <3>1. /\ Cardinality(Preferred(log, i)) = Cardinality(Preferred(log, j))
          /\ i \in Alike(log) /\ j \in Alike(log)
      BY <1>6, <2>1
    <3> QED BY <1>0, <3>1, SameRank
  <2>3. Cardinality(N) <= 1
    BY <2>2, AtMostOneOf
  <2> QED BY <1>3, <1>4, <1>5, <1>8, <2>1, <2>3 DEF CrowdsOut
<1> QED BY <1>7, <1>8

\* What was averaged before is averaged alike after.
LEMMA MeanStays ==
  ASSUME NEW log, NEW o, NEW L, NEW n, Recorded(log, o, L, n), NEW S \in SUBSET DOMAIN log
  PROVE  /\ \A G : Mean(L, Graded(L, G), S) = Mean(log, Graded(log, G), S)
         /\ Mean(L, Confidence(L), S) = Mean(log, Confidence(log), S)
<1>0. /\ log \in Seq(Outcomes) /\ DOMAIN L = DOMAIN log \cup {n}
      /\ \A i \in DOMAIN log : L[i] = log[i]
  BY RecordedFacts
<1>1. IsFiniteSet(S)
  BY <1>0, LogFacts, FS_Subset
<1>2. PICK c \in Nat : c = 100
  OBVIOUS
<1>3. \A i \in S : Weight(L)[i] = Weight(log)[i]
  BY <1>0 DEF Weight
<1>4. ASSUME NEW G PROVE Mean(L, Graded(L, G), S) = Mean(log, Graded(log, G), S)
  <2>1. \A i \in S : Graded(L, G)[i] = Graded(log, G)[i]
    BY <1>0 DEF Graded
  <2>2. Rated(Weight(log), Graded(log, G), S, c)
    BY <1>0, <1>2, GradesRated
  <2>3. Average(Weight(L), Graded(L, G), S) = Average(Weight(log), Graded(log, G), S)
    BY <1>1, <1>3, <2>1, <2>2, AverageSame
  <2> QED BY Zenon, <2>3 DEF Mean
<1>5. Mean(L, Confidence(L), S) = Mean(log, Confidence(log), S)
  <2>1. \A i \in S : Confidence(L)[i] = Confidence(log)[i]
    BY <1>0 DEF Confidence
  <2>2. \A i \in S : log[i].conf <= c
    <3> TAKE i \in S
    <3>1. log[i] \in Outcomes
      BY <1>0, LogFacts
    <3>2. PICK d \in 0..100 : d = log[i].conf
      BY <3>1, OutcomeFields
    <3>3. d <= c
      BY <1>2
    <3> QED BY <3>2, <3>3
  <2>3. Rated(Weight(log), Confidence(log), S, c)
    BY <1>0, <2>2, ConfidenceRated
  <2>4. Average(Weight(L), Confidence(L), S) = Average(Weight(log), Confidence(log), S)
    BY <1>1, <1>3, <2>1, <2>3, AverageSame
  <2> QED BY Zenon, <2>4 DEF Mean
<1> QED BY <1>4, <1>5

\* One more that is graded as badly, or as well, as can be.
LEMMA GradesFall ==
  ASSUME NEW log, NEW o, NEW L, NEW n, Recorded(log, o, L, n), NEW S \in SUBSET DOMAIN log, S # {},
         NEW G, o.grade \notin G
  PROVE  Mean(L, Graded(L, G), S \cup {n}) <= Mean(log, Graded(log, G), S)
<1>0. /\ log \in Seq(Outcomes) /\ L \in Seq(Outcomes) /\ L[n] = o
      /\ DOMAIN L = DOMAIN log \cup {n} /\ n \notin DOMAIN log
  BY Zenon, RecordedFacts
<1>1. IsFiniteSet(S) /\ n \notin S /\ S \cup {n} \in SUBSET DOMAIN L
  <2>1. IsFiniteSet(S)
    BY <1>0, LogFacts, FS_Subset
  <2> QED BY <1>0, <2>1
<1>2. PICK c \in Nat : c = 100
  OBVIOUS
<1>3. Rated(Weight(L), Graded(L, G), S \cup {n}, c)
  BY <1>0, <1>1, <1>2, GradesRated
<1>4. Graded(L, G)[n] = 0
  BY <1>0 DEF Graded
<1>5. Average(Weight(L), Graded(L, G), S \cup {n}) <= Average(Weight(L), Graded(L, G), S)
  BY <1>1, <1>3, <1>4, AverageFalls
<1>6. Mean(L, Graded(L, G), S) = Mean(log, Graded(log, G), S)
  BY MeanStays
<1> QED BY <1>5, <1>6 DEF Mean

LEMMA GradesRise ==
  ASSUME NEW log, NEW o, NEW L, NEW n, Recorded(log, o, L, n), NEW S \in SUBSET DOMAIN log, S # {},
         NEW G, o.grade \in G
  PROVE  Mean(log, Graded(log, G), S) <= Mean(L, Graded(L, G), S \cup {n})
<1>0. /\ log \in Seq(Outcomes) /\ L \in Seq(Outcomes) /\ L[n] = o
      /\ DOMAIN L = DOMAIN log \cup {n} /\ n \notin DOMAIN log
  BY Zenon, RecordedFacts
<1>1. IsFiniteSet(S) /\ n \notin S /\ S \cup {n} \in SUBSET DOMAIN L
  <2>1. IsFiniteSet(S)
    BY <1>0, LogFacts, FS_Subset
  <2> QED BY <1>0, <2>1
<1>2. PICK c \in Nat : c = 100
  OBVIOUS
<1>3. Rated(Weight(L), Graded(L, G), S \cup {n}, c)
  BY <1>0, <1>1, <1>2, GradesRated
<1>4. Graded(L, G)[n] = c
  BY <1>0, <1>2 DEF Graded
<1>5. Average(Weight(L), Graded(L, G), S) <= Average(Weight(L), Graded(L, G), S \cup {n})
  BY <1>1, <1>3, <1>4, AverageRises
<1>6. Mean(L, Graded(L, G), S) = Mean(log, Graded(log, G), S)
  BY MeanStays
<1> QED BY <1>5, <1>6 DEF Mean

LEMMA ConfidenceMoves ==
  ASSUME NEW log, NEW o, NEW L, NEW n, Recorded(log, o, L, n), NEW S \in SUBSET DOMAIN log, S # {}
  PROVE  /\ o.conf = 0 => Mean(L, Confidence(L), S \cup {n}) <= Mean(log, Confidence(log), S)
         /\ (\A i \in DOMAIN log : log[i].conf <= o.conf) =>
              Mean(log, Confidence(log), S) <= Mean(L, Confidence(L), S \cup {n})
<1>0. /\ log \in Seq(Outcomes) /\ L \in Seq(Outcomes) /\ L[n] = o /\ o \in Outcomes
      /\ DOMAIN L = DOMAIN log \cup {n} /\ n \notin DOMAIN log
      /\ \A i \in DOMAIN log : L[i] = log[i]
  BY Zenon, RecordedFacts
<1>1. IsFiniteSet(S) /\ n \notin S /\ S \cup {n} \in SUBSET DOMAIN L
  <2>1. IsFiniteSet(S)
    BY <1>0, LogFacts, FS_Subset
  <2> QED BY <1>0, <2>1
<1>2. PICK d \in 0..100 : d = o.conf
  BY <1>0, OutcomeFields
<1>3. Confidence(L)[n] = d
  BY <1>0, <1>2 DEF Confidence
<1>4. Mean(L, Confidence(L), S) = Mean(log, Confidence(log), S)
  BY MeanStays
<1>5. ASSUME d = 0 PROVE Mean(L, Confidence(L), S \cup {n}) <= Mean(log, Confidence(log), S)
  <2>1. PICK c \in Nat : c = 100
    OBVIOUS
  <2>2. \A i \in S \cup {n} : L[i].conf <= c
    <3> TAKE i \in S \cup {n}
    <3>1. L[i] \in Outcomes
      BY <1>0, <1>1, LogFacts
    <3>2. PICK e \in 0..100 : e = L[i].conf
      BY <3>1, OutcomeFields
    <3>3. e <= c
      BY <2>1
    <3> QED BY <3>2, <3>3
  <2>3. Rated(Weight(L), Confidence(L), S \cup {n}, c)
    BY <1>0, <1>1, <2>2, ConfidenceRated
  <2>4. Confidence(L)[n] = 0
    BY <1>3, <1>5
  <2>5. Average(Weight(L), Confidence(L), S \cup {n}) <= Average(Weight(L), Confidence(L), S)
    BY <1>1, <2>3, <2>4, AverageFalls
  <2> QED BY <1>4, <2>5 DEF Mean
<1>6. ASSUME \A i \in DOMAIN log : log[i].conf <= o.conf
      PROVE  Mean(log, Confidence(log), S) <= Mean(L, Confidence(L), S \cup {n})
  <2>1. PICK c \in Nat : c = d
    OBVIOUS
  <2>2. \A i \in S \cup {n} : L[i].conf <= c
    BY <1>0, <1>2, <1>6, <2>1
  <2>3. Rated(Weight(L), Confidence(L), S \cup {n}, c)
    BY <1>0, <1>1, <2>2, ConfidenceRated
  <2>4. Confidence(L)[n] = c
    BY <1>3, <2>1
  <2>5. Average(Weight(L), Confidence(L), S) <= Average(Weight(L), Confidence(L), S \cup {n})
    BY <1>1, <2>3, <2>4, AverageRises
  <2> QED BY <1>4, <2>5 DEF Mean
<1> QED BY <1>2, <1>5, <1>6

LEMMA BreakdownMoves ==
  ASSUME NEW log, NEW o, NEW L, NEW n, Recorded(log, o, L, n), NEW S \in SUBSET DOMAIN log, S # {}
  PROVE  /\ Worst(o) => Breakdown(L, S \cup {n}) <= Breakdown(log, S)
         /\ o.grade = "passed" /\ (\A i \in DOMAIN log : log[i].conf <= o.conf) =>
              Breakdown(log, S) <= Breakdown(L, S \cup {n})
<1>0. /\ log \in Seq(Outcomes) /\ L \in Seq(Outcomes) /\ DOMAIN L = DOMAIN log \cup {n}
  BY Zenon, RecordedFacts
<1>1. PICK p \in Nat : p = Mean(log, Graded(log, Succeeded), S)
  BY <1>0, Hundred
<1>2. PICK q \in Nat : q = Mean(log, Confidence(log), S)
  BY <1>0, Hundred
<1>3. PICK r \in Nat : r = Mean(log, Graded(log, Tested), S)
  BY <1>0, Hundred
<1>4. PICK s \in Nat : s = Mean(log, Graded(log, Reviewed), S)
  BY <1>0, Hundred
<1>5. PICK U \in SUBSET DOMAIN L : U = S \cup {n}
  BY <1>0
<1>6. PICK p2 \in Nat : p2 = Mean(L, Graded(L, Succeeded), U)
  BY <1>0, Hundred
<1>7. PICK q2 \in Nat : q2 = Mean(L, Confidence(L), U)
  BY <1>0, Hundred
<1>8. PICK r2 \in Nat : r2 = Mean(L, Graded(L, Tested), U)
  BY <1>0, Hundred
<1>9. PICK s2 \in Nat : s2 = Mean(L, Graded(L, Reviewed), U)
  BY <1>0, Hundred
<1>10. Breakdown(log, S) = Total(p, q, r, s)
  BY Zenon, <1>1, <1>2, <1>3, <1>4, BreakdownIs
<1>11. Breakdown(L, S \cup {n}) = Total(p2, q2, r2, s2)
  BY Zenon, <1>5, <1>6, <1>7, <1>8, <1>9, BreakdownIs
<1>12. ASSUME Worst(o) PROVE Total(p2, q2, r2, s2) <= Total(p, q, r, s)
  <2>1. o.grade \notin Succeeded /\ o.grade \notin Tested /\ o.grade \notin Reviewed /\ o.conf = 0
    BY <1>12 DEF Worst, Succeeded, Tested, Reviewed
  <2>2. p2 <= p
    BY <1>1, <1>5, <1>6, <2>1, GradesFall
  <2>3. r2 <= r
    BY <1>3, <1>5, <1>8, <2>1, GradesFall
  <2>4. s2 <= s
    BY <1>4, <1>5, <1>9, <2>1, GradesFall
  <2>5. q2 <= q
    BY <1>2, <1>5, <1>7, <2>1, ConfidenceMoves
  <2> QED BY <2>2, <2>3, <2>4, <2>5, TotalRises
<1>13. ASSUME o.grade = "passed", \A i \in DOMAIN log : log[i].conf <= o.conf
       PROVE  Total(p, q, r, s) <= Total(p2, q2, r2, s2)
  <2>1. o.grade \in Succeeded /\ o.grade \in Tested /\ o.grade \in Reviewed
    BY <1>13 DEF Succeeded, Tested, Reviewed, RhGrades
  <2>2. p <= p2
    BY <1>1, <1>5, <1>6, <2>1, GradesRise
  <2>3. r <= r2
    BY <1>3, <1>5, <1>8, <2>1, GradesRise
  <2>4. s <= s2
    BY <1>4, <1>5, <1>9, <2>1, GradesRise
  <2>5. q <= q2
    <3>1. Mean(log, Confidence(log), S) <= Mean(L, Confidence(L), S \cup {n})
      BY <1>13, ConfidenceMoves
    <3> QED BY <1>2, <1>5, <1>7, <3>1
  <2> QED BY <2>2, <2>3, <2>4, <2>5, TotalRises
<1> QED BY <1>10, <1>11, <1>12, <1>13

\* What an outcome of the agent's own does to its score.
Moved(log, L, o, a) ==
  HistoryScore(log, a) > 0 /\ Seen(L, a) = Seen(log, a) \cup {Len(L)} =>
    /\ Worst(o) => HistoryScore(L, a) <= HistoryScore(log, a)
    /\ Perfect(o) => HistoryScore(L, a) >= HistoryScore(log, a)

LEMMA OwnMoves ==
  ASSUME NEW log \in Seq(RhOutcomes), NEW o \in RhOutcomes, NEW L, NEW n, Recorded(log, o, L, n), NEW a
  PROVE  Moved(log, L, o, a)
<1> SUFFICES ASSUME HistoryScore(log, a) > 0, Seen(L, a) = Seen(log, a) \cup {Len(L)}
             PROVE  /\ Worst(o) => HistoryScore(L, a) <= HistoryScore(log, a)
                    /\ Perfect(o) => HistoryScore(L, a) >= HistoryScore(log, a)
  BY DEF Moved
<1>0. log \in Seq(Outcomes) /\ L \in Seq(Outcomes)
  BY Zenon, RecordedFacts
<1>1. PICK S \in SUBSET DOMAIN log : S = Seen(log, a) /\ Cardinality(S) \in Nat
  BY <1>0, SeenFacts
<1>2. ~(Cardinality(S) < 2)
  BY <1>1 DEF HistoryScore
<1>3. S # {}
  <2>1. Cardinality({}) = 0
    BY FS_EmptySet
  <2>2. S = {} => Cardinality(S) = 0
    BY Zenon, <2>1
  <2> QED BY <1>2, <2>2
<1>4. Seen(L, a) = S \cup {n}
  BY <1>1, RecordedFacts
<1>5. ~(Cardinality(Seen(L, a)) < 2)
  <2>1. Cardinality(Seen(L, a)) \in Nat /\ IsFiniteSet(Seen(L, a))
    BY <1>0, SeenFacts
  <2>2. S \in SUBSET Seen(L, a)
    BY <1>4
  <2>3. Cardinality(S) <= Cardinality(Seen(L, a))
    BY <2>1, <2>2, FS_Subset
  <2> QED BY <1>1, <1>2, <2>1, <2>3
<1>6. HistoryScore(log, a) = Breakdown(log, S) /\ HistoryScore(L, a) = Breakdown(L, S \cup {n})
  BY <1>1, <1>2, <1>4, <1>5 DEF HistoryScore
<1>7. /\ Worst(o) => Breakdown(L, S \cup {n}) <= Breakdown(log, S)
      /\ o.grade = "passed" /\ (\A i \in DOMAIN log : log[i].conf <= o.conf) =>
           Breakdown(log, S) <= Breakdown(L, S \cup {n})
  BY <1>3, BreakdownMoves
<1>8. Perfect(o) => o.grade = "passed" /\ \A i \in DOMAIN log : log[i].conf <= o.conf
  <2>1. \A i \in DOMAIN log : log[i] \in RhOutcomes
    OBVIOUS
  <2> QED BY <2>1 DEF Perfect
<1>9. Breakdown(log, S) \in 0..100
  BY <1>0, BreakdownShare
<1>10. Breakdown(L, S \cup {n}) \in 0..100
  <2>1. S \cup {n} \in SUBSET DOMAIN L
    BY <1>0, <1>4, SeenFacts
  <2> QED BY <1>0, <2>1, BreakdownShare
<1> QED BY <1>6, <1>7, <1>8, <1>9, <1>10

LEMMA LogOfOutcomes == ASSUME NEW log \in Seq(RhOutcomes) PROVE log \in Seq(Outcomes)
<1>1. RhOutcomes \subseteq Outcomes
  BY HistoryAssumption
<1>2. Len(log) \in Nat /\ DOMAIN log = 1..Len(log) /\ \A i \in 1..Len(log) : log[i] \in RhOutcomes
  OBVIOUS
<1>3. log = [i \in 1..Len(log) |-> log[i]]
  OBVIOUS
<1> QED BY <1>1, <1>2, <1>3

\* The route history is fair whatever agents and outcomes there are and however
\* many of them are listed and looked at: a score is a share, and a poor one from
\* failures alone; an agent's first outcome says nothing; a failure of its own
\* never raises its score and as good an outcome as there is never lowers it; and
\* an outcome of others pushes out of sight the last that was seen or the one no
\* longer listed (RouteHistoryScore over SearchRouteMemories).
THEOREM HistoryFairCorrect == RhSpec => HistoryFair
<1> DEFINE Recording == rhLog \in Seq(RhOutcomes)
           Fair == RhTypeOK' /\ FirstIsNeutral' /\ Monotone /\ OthersOnlyCrowdOut
<1>1. RhInit => Recording
  BY DEF RhInit
<1>2. Recording /\ [RhNext]_rhVars => Recording'
  BY DEF RhNext, RecordOutcome, rhVars
<1>3. Recording /\ [RhNext]_rhVars => [Fair]_rhVars
  <2> SUFFICES ASSUME Recording, RhNext PROVE Fair
    OBVIOUS
  <2>1. PICK o \in RhOutcomes : rhLog' = Append(rhLog, o)
    BY DEF RhNext, RecordOutcome
  <2>2. PICK log \in Seq(RhOutcomes) : log = rhLog
    OBVIOUS
  <2>3. PICK n : n = Len(log) + 1
    OBVIOUS
  <2>4. PICK L : L = rhLog' /\ Recorded(log, o, L, n)
    <3>1. log \in Seq(Outcomes) /\ o \in Outcomes
      BY LogOfOutcomes, HistoryAssumption
    <3> QED BY <2>1, <2>2, <2>3, <3>1 DEF Recorded
  <2>5. L \in Seq(Outcomes) /\ Len(L) = n /\ L[n] = o
    BY <2>4 DEF Recorded
  <2>6. RhTypeOK'
    <3>1. \A a \in RhAgents :
            /\ HistoryScore(L, a) \in 0..100
            /\ (\A i \in Seen(L, a) : Worst(L[i])) => HistoryScore(L, a) <= 13
      BY <2>5, ScoreShare
    <3> QED BY <2>4, <3>1 DEF RhTypeOK
  <2>7. FirstIsNeutral'
    <3>1. \A a \in RhAgents :
            Cardinality({i \in DOMAIN L : L[i].agent = a}) <= 1 => HistoryScore(L, a) = 0
      BY <2>5, FirstSaysNothing
    <3> QED BY <2>4, <3>1 DEF FirstIsNeutral
  <2>8. Monotone
    <3>1. \A a \in RhAgents : Moved(log, L, o, a)
      BY <2>4, OwnMoves
    <3> QED BY Zenon, <2>2, <2>4, <2>5, <3>1 DEF Monotone, Moved
  <2>9. OthersOnlyCrowdOut
    <3>1. \A a \in RhAgents : o.agent # a => CrowdsOut(log, L, a)
      BY <2>4, OthersCrowdOut
    <3> QED BY Zenon, <2>2, <2>4, <2>5, <3>1 DEF OthersOnlyCrowdOut, CrowdsOut
  <2> QED BY <2>6, <2>7, <2>8, <2>9
<1> QED BY <1>1, <1>2, <1>3, PTL DEF RhSpec, HistoryFair


-----------------------------------------------------------------------------
(* The ranking of retrievals: stable sorts.                                *)

\* Numbers with keys.
Keyed(key, D) == D = DOMAIN key /\ IsFiniteSet(D) /\ \A i \in D : i \in Nat /\ key[i] \in Int

Precedes(key, i, j) == key[i] > key[j] \/ (key[i] = key[j] /\ i < j)
Preceding(key, i) == {j \in DOMAIN key : Precedes(key, j, i)}

LEMMA PrecedesOrder ==
  ASSUME NEW key, NEW D, Keyed(key, D), NEW i \in D, NEW j \in D, NEW k \in D
  PROVE  /\ ~Precedes(key, i, i)
         /\ Precedes(key, i, j) /\ Precedes(key, j, k) => Precedes(key, i, k)
         /\ i = j \/ Precedes(key, i, j) \/ Precedes(key, j, i)
<1>1. i \in Nat /\ j \in Nat /\ k \in Nat
  BY DEF Keyed
<1>2. PICK a \in Int : a = key[i]
  BY DEF Keyed
<1>3. PICK b \in Int : b = key[j]
  BY DEF Keyed
<1>4. PICK c \in Int : c = key[k]
  BY DEF Keyed
<1> QED BY <1>1, <1>2, <1>3, <1>4 DEF Precedes

LEMMA PlaceIs ==
  ASSUME NEW key, NEW D, Keyed(key, D), NEW i \in D
  PROVE  /\ Preceding(key, i) \in SUBSET D /\ i \notin Preceding(key, i)
         /\ IsFiniteSet(Preceding(key, i)) /\ Cardinality(Preceding(key, i)) \in Nat
         /\ SortPlace(key, i) = 1 + Cardinality(Preceding(key, i))
<1>1. SortPlace(key, i) = 1 + Cardinality(Preceding(key, i))
  BY Zenon DEF SortPlace, Preceding, Precedes
<1>2. Preceding(key, i) \in SUBSET D /\ IsFiniteSet(D)
  BY DEF Keyed, Preceding
<1>3. i \notin Preceding(key, i)
  <2>1. ~Precedes(key, i, i)
    BY PrecedesOrder
  <2> QED BY <2>1 DEF Preceding
<1>4. IsFiniteSet(Preceding(key, i))
  BY <1>2, FS_Subset
<1> QED BY <1>1, <1>2, <1>3, <1>4, FS_CardinalityType

LEMMA PlaceRange ==
  ASSUME NEW key, NEW D, Keyed(key, D), NEW i \in D
  PROVE  SortPlace(key, i) \in 1..Cardinality(D)
<1>1. PICK P \in SUBSET D : /\ i \notin P /\ Cardinality(P) \in Nat /\ IsFiniteSet(P)
                            /\ SortPlace(key, i) = 1 + Cardinality(P)
  BY PlaceIs
<1>2. IsFiniteSet(D) /\ Cardinality(D) \in Nat
  BY FS_CardinalityType DEF Keyed
<1>3. P \cup {i} \in SUBSET D
  OBVIOUS
<1>4. Cardinality(P \cup {i}) <= Cardinality(D)
  BY <1>2, <1>3, FS_Subset
<1>5. Cardinality(P \cup {i}) = Cardinality(P) + 1
  BY <1>1, FS_AddElement
<1> QED BY <1>1, <1>2, <1>4, <1>5

\* What precedes comes first.
LEMMA PlaceOrder ==
  ASSUME NEW key, NEW D, Keyed(key, D), NEW i \in D, NEW j \in D, Precedes(key, i, j)
  PROVE  SortPlace(key, i) < SortPlace(key, j)
<1>1. PICK P \in SUBSET D : /\ i \notin P /\ Cardinality(P) \in Nat /\ IsFiniteSet(P)
                            /\ SortPlace(key, i) = 1 + Cardinality(P) /\ P = Preceding(key, i)
  BY PlaceIs
<1>2. PICK Q \in SUBSET D : /\ Cardinality(Q) \in Nat /\ IsFiniteSet(Q)
                            /\ SortPlace(key, j) = 1 + Cardinality(Q) /\ Q = Preceding(key, j)
  BY PlaceIs
<1>3. \A k \in P : k \in Q
  <2> TAKE k \in P
  <2>1. Precedes(key, k, i) /\ k \in D /\ k \in DOMAIN key
    BY <1>1 DEF Preceding
  <2>2. Precedes(key, k, j)
    BY <2>1, PrecedesOrder
  <2> QED BY <1>2, <2>1, <2>2 DEF Preceding
<1>4. i \in Q
  BY <1>2 DEF Preceding, Keyed
<1>5. P \cup {i} \in SUBSET Q
  BY <1>3, <1>4
<1>6. Cardinality(P \cup {i}) <= Cardinality(Q)
  BY <1>2, <1>5, FS_Subset
<1>7. Cardinality(P \cup {i}) = Cardinality(P) + 1
  BY <1>1, FS_AddElement
<1> QED BY <1>1, <1>2, <1>6, <1>7

LEMMA PlaceOnce ==
  ASSUME NEW key, NEW D, Keyed(key, D), NEW i \in D, NEW j \in D, SortPlace(key, i) = SortPlace(key, j)
  PROVE  i = j
<1>1. SortPlace(key, i) \in Int
  BY PlaceRange
<1>2. CASE Precedes(key, i, j)
  <2>1. SortPlace(key, i) < SortPlace(key, j)
    BY <1>2, PlaceOrder
  <2> QED BY <1>1, <2>1
<1>3. CASE Precedes(key, j, i)
  <2>1. SortPlace(key, j) < SortPlace(key, i)
    BY <1>3, PlaceOrder
  <2> QED BY <1>1, <2>1
<1>4. i = j \/ Precedes(key, i, j) \/ Precedes(key, j, i)
  BY PrecedesOrder
<1> QED BY <1>2, <1>3, <1>4

\* Every place is taken.
LEMMA PlaceTaken ==
  ASSUME NEW key, NEW D, Keyed(key, D), NEW k \in 1..Cardinality(D)
  PROVE  \E i \in D : SortPlace(key, i) = k
<1> DEFINE N == Cardinality(D)
           f == [i \in D |-> SortPlace(key, i)]
<1>1. IsFiniteSet(D) /\ N \in Nat
  BY FS_CardinalityType DEF Keyed
<1>2. PICK n \in Nat : n = N
  BY <1>1
<1>3. IsFiniteSet(1..n) /\ Cardinality(1..n) = n
  <2>1. PICK a \in Int, b \in Int : a = 1 /\ b = n
    OBVIOUS
  <2>2. IsFiniteSet(a..b) /\ Cardinality(a..b) = IF a > b THEN 0 ELSE b - a + 1
    BY FS_Interval
  <2> QED BY <2>1, <2>2
<1>4. f \in [D -> 1..n]
  BY <1>2, PlaceRange
<1>5. \A i, j \in D : f[i] = f[j] => i = j
  BY PlaceOnce
<1>6. f \in Injection(D, 1..n)
  <2> HIDE DEF f
  <2> QED BY <1>4, <1>5 DEF Injection, IsInjective
<1>7. f \in Surjection(D, 1..n)
  <2> HIDE DEF f
  <2>1. Cardinality(D) = Cardinality(1..n)
    BY <1>2, <1>3
  <2> QED BY <1>3, <1>6, <2>1, FS_Injection
<1>8. \E i \in D : f[i] = k
  <2> HIDE DEF f
  <2> QED BY <1>2, <1>7 DEF Surjection
<1> QED BY <1>8

\* What a sort gives.
LEMMA SortedFacts ==
  ASSUME NEW key, NEW D, Keyed(key, D)
  PROVE  /\ Cardinality(D) \in Nat /\ DOMAIN Sorted(key) = 1..Cardinality(D)
         /\ \A k \in 1..Cardinality(D) : Sorted(key)[k] \in D /\ SortPlace(key, Sorted(key)[k]) = k
         /\ \A i \in D : SortPlace(key, i) \in 1..Cardinality(D) /\ Sorted(key)[SortPlace(key, i)] = i
<1>0. Cardinality(D) \in Nat /\ D = DOMAIN key
  BY FS_CardinalityType DEF Keyed
<1>1. Sorted(key) = [k \in 1..Cardinality(DOMAIN key) |-> CHOOSE i \in DOMAIN key : SortPlace(key, i) = k]
  BY Zenon DEF Sorted
<1>2. ASSUME NEW k \in 1..Cardinality(D)
      PROVE  Sorted(key)[k] \in D /\ SortPlace(key, Sorted(key)[k]) = k
  <2>1. \E i \in D : SortPlace(key, i) = k
    BY PlaceTaken
  <2>2. k \in 1..Cardinality(DOMAIN key) /\ \E i \in DOMAIN key : SortPlace(key, i) = k
    BY <1>0, <2>1
  <2>3. Sorted(key)[k] = CHOOSE i \in DOMAIN key : SortPlace(key, i) = k
    BY <1>1, <2>2
  <2>4. Sorted(key)[k] \in DOMAIN key /\ SortPlace(key, Sorted(key)[k]) = k
    BY <2>2, <2>3
  <2> QED BY <1>0, <2>4
<1>3. ASSUME NEW i \in D
      PROVE  SortPlace(key, i) \in 1..Cardinality(D) /\ Sorted(key)[SortPlace(key, i)] = i
  <2>1. PICK k \in 1..Cardinality(D) : k = SortPlace(key, i)
    BY PlaceRange
  <2>2. PICK j \in D : j = Sorted(key)[k] /\ SortPlace(key, j) = k
    BY <1>2
  <2>3. j = i
    BY <2>1, <2>2, PlaceOnce
  <2> QED BY <2>1, <2>2, <2>3
<1> QED BY <1>0, <1>1, <1>2, <1>3

-----------------------------------------------------------------------------
(* The policy of a retrieval.                                              *)

LEMMA Within ==
  ASSUME NEW lo \in Nat, NEW hi \in Nat, lo <= hi, NEW n \in Nat, NEW m \in Nat, n <= m
  PROVE  /\ AtMost(hi, AtLeast(lo, n)) \in lo..hi
         /\ AtMost(hi, AtLeast(lo, n)) <= AtMost(hi, AtLeast(lo, m))
BY DEF AtMost, AtLeast

MoreResults(c)    == CASE c = "high" -> 2 [] c = "critical" -> 4 [] OTHER -> 0
MoreCandidates(c) == CASE c = "high" -> 512 [] c = "critical" -> 1024 [] OTHER -> 0
MoreTokens(c)     == CASE c = "medium" -> 192 [] c = "high" -> 384 [] c = "critical" -> 640 [] OTHER -> 0

WideResults(t) == CASE PolicyScope(t) \in {"history", "distilled"} -> 2
                    [] PolicyScope(t) = "deep-history" -> 4 [] OTHER -> 0
WideCandidates(t) == CASE PolicyScope(t) = "history" -> 512 [] PolicyScope(t) = "deep-history" -> 1536
                       [] PolicyScope(t) = "distilled" -> 256 [] OTHER -> 0

LEMMA MoreTyped ==
  ASSUME NEW c
  PROVE  /\ MoreResults(c) \in Nat /\ MoreCandidates(c) \in Nat /\ MoreTokens(c) \in Nat
         /\ MoreResults(c) <= MoreResults(Harder(c))
         /\ MoreCandidates(c) <= MoreCandidates(Harder(c)) /\ MoreTokens(c) <= MoreTokens(Harder(c))
<1>1. CASE c = "low"
  BY <1>1 DEF MoreResults, MoreCandidates, MoreTokens, Harder
<1>2. CASE c = "medium"
  BY <1>2 DEF MoreResults, MoreCandidates, MoreTokens, Harder
<1>3. CASE c = "high"
  BY <1>3 DEF MoreResults, MoreCandidates, MoreTokens, Harder
<1>4. CASE c = "critical"
  BY <1>4 DEF MoreResults, MoreCandidates, MoreTokens, Harder
<1>5. CASE c \notin {"low", "medium", "high", "critical"}
  BY <1>5 DEF MoreResults, MoreCandidates, MoreTokens, Harder
<1> QED BY <1>1, <1>2, <1>3, <1>4, <1>5

LEMMA WideTyped ==
  ASSUME NEW t
  PROVE  WideResults(t) \in Nat /\ WideCandidates(t) \in Nat
<1>1. PICK s : s = PolicyScope(t)
  OBVIOUS
<1>2. CASE s = "history"
  BY <1>1, <1>2 DEF WideResults, WideCandidates
<1>3. CASE s = "distilled"
  BY <1>1, <1>3 DEF WideResults, WideCandidates
<1>4. CASE s = "deep-history"
  BY <1>1, <1>4 DEF WideResults, WideCandidates
<1>5. CASE s \notin {"history", "distilled", "deep-history"}
  BY <1>1, <1>5 DEF WideResults, WideCandidates
<1> QED BY <1>2, <1>3, <1>4, <1>5

\* What a policy is made of besides the complexity.
OtherResults(t, asked) == (IF asked = 0 THEN 12 ELSE asked) + (IF DeepType(t) THEN 2 ELSE 0) + WideResults(t)
OtherCandidates(t) == 2048 + (IF t.files >= 4 THEN 256 ELSE 0) + (IF DeepType(t) THEN 512 ELSE 0) + WideCandidates(t)
OtherTokens(t) == 1536 + (IF CodeType(t) THEN 192 ELSE IF DeepType(t) THEN 384 ELSE 0)
                  + AtMost(256, 16 * t.criteria) + AtMost(320, 24 * t.files)

LEMMA TaskFields ==
  ASSUME NEW t \in RkTasks
  PROVE  t.files \in Nat /\ t.criteria \in Nat
<1>1. RkFiles \subseteq Nat /\ RkCriteria \subseteq Nat
  BY Zenon, RankingAssumption
<1> QED BY <1>1 DEF RkTasks

\* A task: what a policy asks of it.
Tasklike(t) == t.files \in Nat /\ t.criteria \in Nat

LEMMA OthersTyped ==
  ASSUME NEW t, Tasklike(t), NEW asked \in Nat
  PROVE  OtherResults(t, asked) \in Nat /\ OtherCandidates(t) \in Nat /\ OtherTokens(t) \in Nat
<1>1. PICK a \in Nat : a = WideResults(t)
  BY WideTyped
<1>2. PICK b \in Nat : b = WideCandidates(t)
  BY WideTyped
<1>3. PICK f \in Nat, g \in Nat : f = t.files /\ g = t.criteria
  BY DEF Tasklike
<1>4. OtherResults(t, asked) \in Nat
  BY <1>1 DEF OtherResults
<1>5. OtherCandidates(t) \in Nat
  BY <1>2 DEF OtherCandidates
<1>6. OtherTokens(t) \in Nat
  <2>1. AtMost(256, 16 * g) \in Nat /\ AtMost(320, 24 * f) \in Nat
    BY DEF AtMost
  <2> QED BY <1>3, <2>1 DEF OtherTokens
<1> QED BY <1>4, <1>5, <1>6

LEMMA PolicyIs ==
  ASSUME NEW t, Tasklike(t), NEW asked \in Nat
  PROVE  /\ TopK(t, asked) = AtMost(24, AtLeast(IF asked > 0 THEN 1 ELSE 4, OtherResults(t, asked) + MoreResults(t.complexity)))
         /\ CandidateLimit(t) = AtMost(5000, AtLeast(256, OtherCandidates(t) + MoreCandidates(t.complexity)))
         /\ TokenBudget(t) = AtMost(3072, AtLeast(512, OtherTokens(t) + MoreTokens(t.complexity)))
<1> DEFINE c == t.complexity
           w1 == WideResults(t)
           w2 == WideCandidates(t)
           b1 == IF asked = 0 THEN 12 ELSE asked
           d1 == IF DeepType(t) THEN 2 ELSE 0
           b2 == IF t.files >= 4 THEN 256 ELSE 0
           d2 == IF DeepType(t) THEN 512 ELSE 0
           d3 == IF CodeType(t) THEN 192 ELSE IF DeepType(t) THEN 384 ELSE 0
           m3 == AtMost(256, 16 * t.criteria)
           n3 == AtMost(320, 24 * t.files)
<1>1. TopK(t, asked) = AtMost(24, AtLeast(IF asked > 0 THEN 1 ELSE 4, b1 + MoreResults(c) + d1 + w1))
  BY Zenon DEF TopK, MoreResults, WideResults
<1>2. CandidateLimit(t) = AtMost(5000, AtLeast(256, 2048 + MoreCandidates(c) + b2 + d2 + w2))
  BY Zenon DEF CandidateLimit, MoreCandidates, WideCandidates
<1>3. TokenBudget(t) = AtMost(3072, AtLeast(512, 1536 + MoreTokens(c) + d3 + m3 + n3))
  BY Zenon DEF TokenBudget, MoreTokens
<1>4. /\ OtherResults(t, asked) = b1 + d1 + w1 /\ OtherCandidates(t) = 2048 + b2 + d2 + w2
      /\ OtherTokens(t) = 1536 + d3 + m3 + n3
  BY Zenon DEF OtherResults, OtherCandidates, OtherTokens
<1>5. MoreResults(c) \in Nat /\ MoreCandidates(c) \in Nat /\ MoreTokens(c) \in Nat
  BY MoreTyped
<1>6. w1 \in Nat /\ w2 \in Nat
  BY WideTyped
<1>7. b1 \in Nat /\ d1 \in Nat /\ b2 \in Nat /\ d2 \in Nat /\ d3 \in Nat
  OBVIOUS
<1>8. m3 \in Nat /\ n3 \in Nat
  BY DEF AtMost, Tasklike
<1> HIDE DEF c, w1, w2, b1, d1, b2, d2, d3, m3, n3
<1>9. /\ b1 + MoreResults(c) + d1 + w1 = b1 + d1 + w1 + MoreResults(c)
      /\ 2048 + MoreCandidates(c) + b2 + d2 + w2 = 2048 + b2 + d2 + w2 + MoreCandidates(c)
      /\ 1536 + MoreTokens(c) + d3 + m3 + n3 = 1536 + d3 + m3 + n3 + MoreTokens(c)
  BY <1>5, <1>6, <1>7, <1>8
<1>10. /\ TopK(t, asked) = AtMost(24, AtLeast(IF asked > 0 THEN 1 ELSE 4, OtherResults(t, asked) + MoreResults(c)))
       /\ CandidateLimit(t) = AtMost(5000, AtLeast(256, OtherCandidates(t) + MoreCandidates(c)))
       /\ TokenBudget(t) = AtMost(3072, AtLeast(512, OtherTokens(t) + MoreTokens(c)))
  BY <1>1, <1>2, <1>3, <1>4, <1>9
<1> QED BY <1>10 DEF c

\* The bounds of a policy, and what a harder task is given.
LEMMA PolicyBounds ==
  ASSUME NEW t, Tasklike(t), NEW asked \in Nat
  PROVE  /\ TopK(t, asked) \in 1..24 /\ CandidateLimit(t) \in 256..5000 /\ TokenBudget(t) \in 512..3072
         /\ TopK(t, asked) \in Nat /\ CandidateLimit(t) \in Nat /\ TokenBudget(t) \in Nat
         /\ TopK(t, asked) <= CandidateLimit(t)
<1>1. PICK n \in Nat : n = OtherResults(t, asked) + MoreResults(t.complexity)
  BY OthersTyped, MoreTyped
<1>2. PICK m \in Nat : m = OtherCandidates(t) + MoreCandidates(t.complexity)
  BY OthersTyped, MoreTyped
<1>3. PICK k \in Nat : k = OtherTokens(t) + MoreTokens(t.complexity)
  BY OthersTyped, MoreTyped
<1>4. TopK(t, asked) \in 1..24 /\ TopK(t, asked) \in Nat
  <2>1. TopK(t, asked) = AtMost(24, AtLeast(IF asked > 0 THEN 1 ELSE 4, n))
    BY <1>1, PolicyIs
  <2> QED BY <2>1 DEF AtMost, AtLeast
<1>5. CandidateLimit(t) \in 256..5000 /\ CandidateLimit(t) \in Nat
  <2>1. CandidateLimit(t) = AtMost(5000, AtLeast(256, m))
    BY <1>2, PolicyIs
  <2> QED BY <2>1 DEF AtMost, AtLeast
<1>6. TokenBudget(t) \in 512..3072 /\ TokenBudget(t) \in Nat
  <2>1. TokenBudget(t) = AtMost(3072, AtLeast(512, k))
    BY <1>3, PolicyIs
  <2> QED BY <2>1 DEF AtMost, AtLeast
<1>7. TopK(t, asked) <= CandidateLimit(t)
  <2>1. TopK(t, asked) = AtMost(24, AtLeast(IF asked > 0 THEN 1 ELSE 4, n)) /\ CandidateLimit(t) = AtMost(5000, AtLeast(256, m))
    BY <1>1, <1>2, PolicyIs
  <2> QED BY <2>1 DEF AtMost, AtLeast
<1> QED BY <1>4, <1>5, <1>6, <1>7

LEMMA PolicyRises ==
  ASSUME NEW t, Tasklike(t), NEW asked \in Nat, NEW u, Tasklike(u),
         u.type = t.type, u.scope = t.scope, u.files = t.files, u.criteria = t.criteria,
         u.complexity = Harder(t.complexity)
  PROVE  /\ TopK(t, asked) <= TopK(u, asked) /\ CandidateLimit(t) <= CandidateLimit(u)
         /\ TokenBudget(t) <= TokenBudget(u)
<1>1. (DeepType(u) <=> DeepType(t)) /\ (CodeType(u) <=> CodeType(t))
  BY DEF DeepType, CodeType
<1>2. PolicyScope(u) = PolicyScope(t)
  BY <1>1 DEF PolicyScope
<1>3. WideResults(u) = WideResults(t) /\ WideCandidates(u) = WideCandidates(t)
  BY Zenon, <1>2 DEF WideResults, WideCandidates
<1>4. OtherResults(u, asked) = OtherResults(t, asked)
  <2>1. (IF DeepType(u) THEN 2 ELSE 0) = (IF DeepType(t) THEN 2 ELSE 0)
    BY <1>1
  <2> QED BY Zenon, <1>3, <2>1 DEF OtherResults
<1>5. OtherCandidates(u) = OtherCandidates(t)
  <2>1. (IF DeepType(u) THEN 512 ELSE 0) = (IF DeepType(t) THEN 512 ELSE 0)
    BY <1>1
  <2>2. (IF u.files >= 4 THEN 256 ELSE 0) = (IF t.files >= 4 THEN 256 ELSE 0)
    BY Zenon
  <2> QED BY <1>3, <2>1, <2>2 DEF OtherCandidates
<1>6. OtherTokens(u) = OtherTokens(t)
  <2>1. (IF CodeType(u) THEN 192 ELSE IF DeepType(u) THEN 384 ELSE 0)
          = (IF CodeType(t) THEN 192 ELSE IF DeepType(t) THEN 384 ELSE 0)
    BY <1>1
  <2>2. AtMost(256, 16 * u.criteria) = AtMost(256, 16 * t.criteria) /\ AtMost(320, 24 * u.files) = AtMost(320, 24 * t.files)
    BY Zenon
  <2> QED BY <2>1, <2>2 DEF OtherTokens
<1>7. PICK n \in Nat, n2 \in Nat : /\ n = OtherResults(t, asked) + MoreResults(t.complexity) /\ n <= n2
                                   /\ n2 = OtherResults(t, asked) + MoreResults(u.complexity)
  <2>1. PICK x \in Nat : x = OtherResults(t, asked)
    BY OthersTyped
  <2>2. PICK y \in Nat, z \in Nat : y = MoreResults(t.complexity) /\ z = MoreResults(u.complexity) /\ y <= z
    BY MoreTyped
  <2>3. x + y \in Nat /\ x + z \in Nat /\ x + y <= x + z
    BY <2>2
  <2> QED BY <2>1, <2>2, <2>3
<1>8. PICK m \in Nat, m2 \in Nat : /\ m = OtherCandidates(t) + MoreCandidates(t.complexity) /\ m <= m2
                                   /\ m2 = OtherCandidates(t) + MoreCandidates(u.complexity)
  <2>1. PICK x \in Nat : x = OtherCandidates(t)
    BY OthersTyped
  <2>2. PICK y \in Nat, z \in Nat : y = MoreCandidates(t.complexity) /\ z = MoreCandidates(u.complexity) /\ y <= z
    BY MoreTyped
  <2>3. x + y \in Nat /\ x + z \in Nat /\ x + y <= x + z
    BY <2>2
  <2> QED BY <2>1, <2>2, <2>3
<1>9. PICK k \in Nat, k2 \in Nat : /\ k = OtherTokens(t) + MoreTokens(t.complexity) /\ k <= k2
                                   /\ k2 = OtherTokens(t) + MoreTokens(u.complexity)
  <2>1. PICK x \in Nat : x = OtherTokens(t)
    BY OthersTyped
  <2>2. PICK y \in Nat, z \in Nat : y = MoreTokens(t.complexity) /\ z = MoreTokens(u.complexity) /\ y <= z
    BY MoreTyped
  <2>3. x + y \in Nat /\ x + z \in Nat /\ x + y <= x + z
    BY <2>2
  <2> QED BY <2>1, <2>2, <2>3
<1>10. /\ TopK(t, asked) = AtMost(24, AtLeast(IF asked > 0 THEN 1 ELSE 4, n))
       /\ CandidateLimit(t) = AtMost(5000, AtLeast(256, m)) /\ TokenBudget(t) = AtMost(3072, AtLeast(512, k))
  BY <1>7, <1>8, <1>9, PolicyIs
<1>11. /\ TopK(u, asked) = AtMost(24, AtLeast(IF asked > 0 THEN 1 ELSE 4, n2))
       /\ CandidateLimit(u) = AtMost(5000, AtLeast(256, m2)) /\ TokenBudget(u) = AtMost(3072, AtLeast(512, k2))
  <2>1. /\ TopK(u, asked) = AtMost(24, AtLeast(IF asked > 0 THEN 1 ELSE 4, OtherResults(u, asked) + MoreResults(u.complexity)))
        /\ CandidateLimit(u) = AtMost(5000, AtLeast(256, OtherCandidates(u) + MoreCandidates(u.complexity)))
        /\ TokenBudget(u) = AtMost(3072, AtLeast(512, OtherTokens(u) + MoreTokens(u.complexity)))
    BY PolicyIs
  <2> QED BY <1>4, <1>5, <1>6, <1>7, <1>8, <1>9, <2>1
<1>12. TopK(t, asked) <= TopK(u, asked)
  BY <1>7, <1>10, <1>11 DEF AtMost, AtLeast
<1>13. CandidateLimit(t) <= CandidateLimit(u)
  BY <1>8, <1>10, <1>11 DEF AtMost, AtLeast
<1>14. TokenBudget(t) <= TokenBudget(u)
  BY <1>9, <1>10, <1>11 DEF AtMost, AtLeast
<1> QED BY <1>12, <1>13, <1>14

-----------------------------------------------------------------------------
(* The chunks of a text.                                                   *)

\* The j-th chunk starts within the text, and the one before does not end it.
Starting(words, j) == 96 * j < words /\ (j = 0 \/ 96 * (j - 1) + 120 < words)
Piece(words, j) == (96 * j + 1)..AtMost(96 * j + 120, words)

LEMMA PiecesAre ==
  ASSUME NEW words \in Nat
  PROVE  \A c : c \in ChunkText(words) <=> \E j \in Nat : Starting(words, j) /\ c = Piece(words, j)
<1>1. ASSUME NEW s PROVE s \in ChunkStarts(words) <=> \E j \in Nat : Starting(words, j) /\ s = 96 * j
  <2>1. ASSUME NEW j \in Nat, Starting(words, j) PROVE j \in 0..(words \div 96)
    <3>1. 96 * j < words
      BY <2>1 DEF Starting
    <3> QED BY <3>1
  <2>2. \A j \in 0..(words \div 96) : j \in Nat
    OBVIOUS
  <2> QED BY <2>1, <2>2 DEF ChunkStarts, Starting
<1>2. ASSUME NEW c PROVE c \in ChunkText(words) <=> \E s \in ChunkStarts(words) : c = (s + 1)..AtMost(s + 120, words)
  BY DEF ChunkText
<1>3. ASSUME NEW c, NEW s \in ChunkStarts(words), c = (s + 1)..AtMost(s + 120, words)
      PROVE  \E j \in Nat : Starting(words, j) /\ c = Piece(words, j)
  <2>1. PICK j \in Nat : Starting(words, j) /\ s = 96 * j
    BY <1>1
  <2>2. c = Piece(words, j)
    BY <1>3, <2>1 DEF Piece
  <2> QED BY <2>1, <2>2
<1>4. ASSUME NEW c, NEW j \in Nat, Starting(words, j), c = Piece(words, j)
      PROVE  \E s \in ChunkStarts(words) : c = (s + 1)..AtMost(s + 120, words)
  <2>1. PICK s : s = 96 * j
    OBVIOUS
  <2>2. s \in ChunkStarts(words)
    BY <1>1, <1>4, <2>1
  <2>3. c = (s + 1)..AtMost(s + 120, words)
    BY <1>4, <2>1 DEF Piece
  <2> QED BY <2>2, <2>3
<1> QED BY Zenon, <1>2, <1>3, <1>4

LEMMA PieceIs ==
  ASSUME NEW words \in Nat, NEW j \in Nat
  PROVE  \A n : n \in Piece(words, j) <=> n \in Nat /\ 96 * j + 1 <= n /\ n <= 96 * j + 120 /\ n <= words
BY DEF Piece, AtMost

LEMMA PieceSmall ==
  ASSUME NEW words \in Nat, NEW j \in Nat
  PROVE  Cardinality(Piece(words, j)) <= 120
<1>1. PICK a \in Int, b \in Int : a = 96 * j + 1 /\ b = AtMost(96 * j + 120, words) /\ b <= a + 119
  BY DEF AtMost
<1>2. Cardinality(a..b) = IF a > b THEN 0 ELSE b - a + 1
  BY FS_Interval
<1>3. Piece(words, j) = a..b
  BY <1>1 DEF Piece
<1> QED BY <1>1, <1>2, <1>3

\* Every word is in a chunk.
LEMMA PiecesCover ==
  ASSUME NEW words \in Nat, NEW n \in 1..words
  PROVE  \E j \in Nat : Starting(words, j) /\ n \in Piece(words, j)
<1>1. PICK j \in Nat : 96 * j <= n - 1 /\ n - 1 < 96 * j + 96
  <2>1. (n - 1) \div 96 \in Nat /\ 96 * ((n - 1) \div 96) <= n - 1 /\ n - 1 < 96 * ((n - 1) \div 96) + 96
    OBVIOUS
  <2> QED BY <2>1
<1>2. CASE Starting(words, j)
  <2>1. n \in Piece(words, j)
    BY <1>1, PieceIs
  <2> QED BY <1>2, <2>1
<1>3. CASE ~Starting(words, j)
  <2>1. j # 0 /\ words <= 96 * (j - 1) + 120
    BY <1>1, <1>3 DEF Starting
  <2>2. PICK k \in Nat : j = k + 1
    <3>1. j - 1 \in Nat /\ j = (j - 1) + 1
      BY <2>1
    <3> QED BY <3>1
  <2>3. Starting(words, k)
    BY <1>1, <2>2 DEF Starting
  <2>4. n \in Piece(words, k)
    <3>1. 96 * k + 1 <= n /\ n <= 96 * k + 120 /\ n <= words /\ n \in Nat
      BY <1>1, <2>1, <2>2
    <3> QED BY <3>1, PieceIs
  <2> QED BY <2>3, <2>4
<1> QED BY <1>2, <1>3

\* None lies within another.
LEMMA PiecesApart ==
  ASSUME NEW words \in Nat, NEW i \in Nat, NEW j \in Nat, Starting(words, i), Starting(words, j),
         Piece(words, i) \subseteq Piece(words, j)
  PROVE  i = j
<1>1. 96 * i + 1 \in Piece(words, i)
  BY PieceIs DEF Starting
<1>2. 96 * j + 1 <= 96 * i + 1
  BY <1>1, PieceIs
<1>3. CASE j < i
  <2>1. 96 * j + 120 < words
    BY <1>3 DEF Starting
  <2>2. 96 * j + 121 \in Piece(words, i) \/ (i > j + 1 /\ 96 * i + 1 > 96 * j + 120)
    BY <1>3, <2>1, PieceIs
  <2>3. 96 * j + 121 \notin Piece(words, j)
    BY PieceIs
  <2>4. 96 * i + 1 <= 96 * j + 120
    BY <1>1, PieceIs
  <2> QED BY <2>2, <2>3, <2>4
<1> QED BY <1>2, <1>3

LEMMA TextCovered ==
  ASSUME NEW words \in Nat
  PROVE  /\ UNION ChunkText(words) = 1..words
         /\ \A c \in ChunkText(words) : Cardinality(c) <= 120
         /\ \A c, d \in ChunkText(words) : c \subseteq d => c = d
<1>1. \A c : c \in ChunkText(words) <=> \E j \in Nat : Starting(words, j) /\ c = Piece(words, j)
  BY PiecesAre
<1>2. ASSUME NEW n PROVE n \in UNION ChunkText(words) <=> n \in 1..words
  <2>1. ASSUME n \in 1..words PROVE n \in UNION ChunkText(words)
    <3>1. PICK j \in Nat : Starting(words, j) /\ n \in Piece(words, j)
      BY <2>1, PiecesCover
    <3>2. Piece(words, j) \in ChunkText(words)
      BY <1>1, <3>1
    <3> QED BY <3>1, <3>2
  <2>2. ASSUME n \in UNION ChunkText(words) PROVE n \in 1..words
    <3>1. PICK j \in Nat : n \in Piece(words, j)
      BY <1>1, <2>2
    <3>2. n \in Nat /\ 96 * j + 1 <= n /\ n <= words
      BY <3>1, PieceIs
    <3> QED BY <3>2
  <2> QED BY <2>1, <2>2
<1>3. \A c \in ChunkText(words) : Cardinality(c) <= 120
  BY <1>1, PieceSmall
<1>4. ASSUME NEW c \in ChunkText(words), NEW d \in ChunkText(words), c \subseteq d PROVE c = d
  <2>1. PICK i \in Nat : Starting(words, i) /\ c = Piece(words, i)
    BY <1>1
  <2>2. PICK j \in Nat : Starting(words, j) /\ d = Piece(words, j)
    BY <1>1
  <2>3. i = j
    BY <1>4, <2>1, <2>2, PiecesApart
  <2> QED BY <2>1, <2>2, <2>3
<1> QED BY <1>2, <1>3, <1>4

-----------------------------------------------------------------------------
(* Packing.                                                                *)

PackStep(rs, b, g, k) == IF k = 0 THEN NothingPacked(b, rs) ELSE PackOne(g[k - 1], rs[k])

LEMMA PackExists ==
  ASSUME NEW rs, NEW b, NEW n \in Nat
  PROVE  \E g : g = [k \in 0..n |-> PackStep(rs, b, g, k)]
<1> DEFINE T == {m \in Nat : \E g : g = [k \in 0..m |-> PackStep(rs, b, g, k)]}
<1>1. 0 \in T
  <2> DEFINE g == [k \in 0..0 |-> NothingPacked(b, rs)]
  <2>1. g = [k \in 0..0 |-> PackStep(rs, b, g, k)]
    BY DEF PackStep
  <2> HIDE DEF g
  <2> QED BY <2>1
<1>2. ASSUME NEW m \in T PROVE m + 1 \in T
  <2>1. m \in Nat
    OBVIOUS
  <2>2. PICK g : g = [k \in 0..m |-> PackStep(rs, b, g, k)]
    OBVIOUS
  <2> DEFINE h == [k \in 0..(m + 1) |-> PackStep(rs, b, g, k)]
  <2>3. ASSUME NEW k \in 0..m PROVE h[k] = g[k]
    <3>1. h[k] = PackStep(rs, b, g, k)
      BY <2>1
    <3>2. g[k] = PackStep(rs, b, g, k)
      BY <2>2
    <3> QED BY <3>1, <3>2
  <2>4. ASSUME NEW k \in 0..(m + 1) PROVE PackStep(rs, b, g, k) = PackStep(rs, b, h, k)
    <3>1. CASE k = 0
      BY <3>1 DEF PackStep
    <3>2. CASE k # 0
      <4>1. k - 1 \in 0..m
        BY <2>1, <3>2
      <4>2. h[k - 1] = g[k - 1]
        <5> HIDE DEF h
        <5> QED BY <2>3, <4>1
      <4> HIDE DEF h
      <4> QED BY <3>2, <4>2 DEF PackStep
    <3> QED BY <3>1, <3>2
  <2>5. h = [k \in 0..(m + 1) |-> PackStep(rs, b, h, k)]
    <3>1. h = [k \in 0..(m + 1) |-> PackStep(rs, b, g, k)]
      OBVIOUS
    <3> HIDE DEF h
    <3> QED BY <2>4, <3>1
  <2> HIDE DEF h
  <2> QED BY <2>1, <2>5
<1>3. n \in T
  <2>1. T \in SUBSET Nat
    OBVIOUS
  <2> HIDE DEF T
  <2> QED BY <1>1, <1>2, <2>1, NumbersInduction
<1> QED BY <1>3

PackFun(rs, b) == CHOOSE g : g = [k \in 0..Len(rs) |-> PackStep(rs, b, g, k)]

LEMMA PackUnfold ==
  ASSUME NEW rs, NEW b, Len(rs) \in Nat
  PROVE  /\ PackResults(rs, b) = PackFun(rs, b)[Len(rs)]
         /\ \A k \in 0..Len(rs) : PackFun(rs, b)[k] = PackStep(rs, b, PackFun(rs, b), k)
<1>1. PackResults(rs, b) = PackFun(rs, b)[Len(rs)]
  BY Zenon DEF PackResults, PackFun, PackStep
<1>2. PICK n \in Nat : n = Len(rs)
  OBVIOUS
<1>3. \E g : g = [k \in 0..Len(rs) |-> PackStep(rs, b, g, k)]
  BY <1>2, PackExists
<1>4. PackFun(rs, b) = [k \in 0..Len(rs) |-> PackStep(rs, b, PackFun(rs, b), k)]
  BY <1>3, SMTT(40) DEF PackFun
<1>5. \A k \in 0..Len(rs) : PackFun(rs, b)[k] = PackStep(rs, b, PackFun(rs, b), k)
  BY <1>4
<1> QED BY <1>1, <1>5

\* The results of a retrieval.
Results == [chunk : RkChunks, at : Nat, score : Int]

LEMMA ChunkFields ==
  ASSUME NEW c \in RkChunks
  PROVE  /\ c.cos \in -100..100 /\ c.cos \in Int /\ c.ov \in 0..100 /\ c.hits \in Nat /\ c.imp \in Nat /\ c.conf \in Nat
         /\ c.words \in Nat /\ c.input \in BOOLEAN
<1>1. /\ c.cos \in -100..100 /\ c.ov \in 0..100 /\ c.hits \in Nat /\ c.imp \in Nat /\ c.conf \in Nat
      /\ c.words \in Nat /\ c.input \in BOOLEAN
  BY Zenon, RankingAssumption
<1>2. c.cos \in Int
  BY <1>1
<1> QED BY <1>1, <1>2

LEMMA TokensPositive ==
  ASSUME NEW r \in Results
  PROVE  Tokens(r.chunk) \in Nat /\ Tokens(r.chunk) > 0
<1>1. r.chunk \in RkChunks
  BY DEF Results
<1>2. PICK n \in Nat : n = r.chunk.words
  BY <1>1, ChunkFields
<1>3. Tokens(r.chunk) = (IF n = 0 THEN 0 ELSE AtLeast(1, (n * 5) \div 4)) + 8
  BY <1>2 DEF Tokens
<1> QED BY <1>3 DEF AtLeast

Over(rs, b, i) == Tokens(rs[i].chunk) > b

Usages == [packed : Seq(Results), used : Nat, truncated : Nat, budget : Nat, candidates : Nat, full : BOOLEAN]

LEMMA UsageMade ==
  ASSUME NEW p \in Seq(Results), NEW n \in Nat, NEW m \in Nat, NEW b \in Nat, NEW c \in Nat, NEW f \in BOOLEAN
  PROVE  [packed |-> p, used |-> n, truncated |-> m, budget |-> b, candidates |-> c, full |-> f] \in Usages
BY DEF Usages

LEMMA AppendedResult ==
  ASSUME NEW p \in Seq(Results), NEW r \in Results
  PROVE  Append(p, r) \in Seq(Results) /\ Len(Append(p, r)) = Len(p) + 1 /\ Append(p, r) # <<>>
<1>1. Append(p, r) \in Seq(Results) /\ Len(Append(p, r)) = Len(p) + 1 /\ Len(p) \in Nat
  OBVIOUS
<1>2. Append(p, r) # <<>>
  BY <1>1
<1> QED BY <1>1, <1>2

\* What holds of the packing after k results.
Packing(u, rs, b, k) ==
  /\ u \in Usages /\ u.budget = b /\ u.candidates = Len(rs)
  /\ u.used <= b /\ (u.used > 0 => u.packed # <<>>)
  /\ (u.packed = <<>> <=> \A i \in 1..k : Over(rs, b, i))
  /\ ~u.full => Len(u.packed) + u.truncated = k /\ (u.truncated > 0 => \E i \in 1..k : Over(rs, b, i))
  /\ u.full => /\ Len(u.packed) + u.truncated >= Len(rs) /\ u.packed # <<>>
               /\ (\A i \in 1..k : ~Over(rs, b, i)) => Len(u.packed) + u.truncated = Len(rs)

LEMMA PackingBegins ==
  ASSUME NEW rs \in Seq(Results), NEW b \in Nat
  PROVE  Packing(NothingPacked(b, rs), rs, b, 0)
<1>1. Len(rs) \in Nat
  OBVIOUS
<1>2. PICK u : u = NothingPacked(b, rs)
  OBVIOUS
<1>3. /\ u \in Usages /\ u.budget = b /\ u.candidates = Len(rs) /\ u.used = 0 /\ u.packed = <<>>
      /\ u.truncated = 0 /\ u.full = FALSE
  BY <1>1, <1>2 DEF NothingPacked, Usages
<1>4. Len(u.packed) = 0
  BY <1>3
<1> QED BY <1>2, <1>3, <1>4 DEF Packing

LEMMA PackingGoes ==
  ASSUME NEW rs \in Seq(Results), NEW b \in Nat, NEW k \in Nat, k + 1 <= Len(rs),
         NEW u, Packing(u, rs, b, k)
  PROVE  Packing(PackOne(u, rs[k + 1]), rs, b, k + 1)
<1>0. /\ u \in Usages /\ u.budget = b /\ u.candidates = Len(rs)
      /\ u.used <= b /\ (u.used > 0 => u.packed # <<>>)
      /\ (u.packed = <<>> <=> \A i \in 1..k : Over(rs, b, i))
      /\ ~u.full => Len(u.packed) + u.truncated = k /\ (u.truncated > 0 => \E i \in 1..k : Over(rs, b, i))
      /\ u.full => /\ Len(u.packed) + u.truncated >= Len(rs) /\ u.packed # <<>>
                   /\ (\A i \in 1..k : ~Over(rs, b, i)) => Len(u.packed) + u.truncated = Len(rs)
  BY Zenon DEF Packing
<1>1. Len(rs) \in Nat /\ rs[k + 1] \in Results
  OBVIOUS
<1>2. PICK r \in Results : r = rs[k + 1]
  BY <1>1
<1>3. PICK n \in Nat : n = Tokens(r.chunk) /\ n > 0
  BY TokensPositive
<1>4. /\ u.packed \in Seq(Results) /\ u.used \in Nat /\ u.truncated \in Nat /\ u.full \in BOOLEAN
      /\ Len(u.packed) \in Nat
  BY <1>0 DEF Usages
<1>5. \A i \in 1..(k + 1) : i \in 1..k \/ i = k + 1
  OBVIOUS
<1>6. (Over(rs, b, k + 1) <=> n > b) /\ k + 1 \in 1..(k + 1) /\ \A i \in 1..k : i \in 1..(k + 1)
  BY <1>2, <1>3 DEF Over
<1>7. CASE u.full
  <2>1. PackOne(u, r) = u
    BY <1>7 DEF PackOne
  <2>2. ~(\A i \in 1..k : Over(rs, b, i))
    BY <1>0, <1>7
  <2>3. ~(\A i \in 1..(k + 1) : Over(rs, b, i))
    BY <1>6, <2>2
  <2>4. (\A i \in 1..(k + 1) : ~Over(rs, b, i)) => Len(u.packed) + u.truncated = Len(rs)
    BY <1>0, <1>6, <1>7
  <2>5. Packing(u, rs, b, k + 1)
    BY Zenon, <1>0, <1>7, <2>3, <2>4 DEF Packing
  <2> QED BY <1>2, <2>1, <2>5
<1>8. CASE ~u.full /\ n > b
  <2>1. PICK v : v = PackOne(u, r)
    OBVIOUS
  <2>2. v = [u EXCEPT !.truncated = @ + 1]
    BY <1>0, <1>3, <1>8, <2>1 DEF PackOne
  <2>a. /\ v.budget = b /\ v.candidates = Len(rs) /\ v.used = u.used /\ v.packed = u.packed
        /\ v.truncated = u.truncated + 1 /\ v.full = FALSE
    BY <1>0, <1>8, <2>2 DEF Usages
  <2>b. v \in Usages
    <3>1. v = [packed |-> u.packed, used |-> u.used, truncated |-> u.truncated + 1, budget |-> b,
               candidates |-> Len(rs), full |-> FALSE]
      BY <1>0, <2>2, <2>a DEF Usages
    <3>2. u.truncated + 1 \in Nat
      BY <1>4
    <3>3. [packed |-> u.packed, used |-> u.used, truncated |-> u.truncated + 1, budget |-> b,
           candidates |-> Len(rs), full |-> FALSE] \in Usages
      BY Zenon, <1>1, <1>4, <3>2, UsageMade
    <3> QED BY <3>1, <3>3
  <2>3. /\ v \in Usages /\ v.budget = b /\ v.candidates = Len(rs) /\ v.used = u.used /\ v.packed = u.packed
        /\ v.truncated = u.truncated + 1 /\ v.full = FALSE
    BY <2>a, <2>b
  <2>4. Over(rs, b, k + 1)
    BY <1>6, <1>8
  <2>5. v.packed = <<>> <=> \A i \in 1..(k + 1) : Over(rs, b, i)
    BY <1>0, <1>5, <1>6, <2>3, <2>4
  <2>6. Len(v.packed) + v.truncated = k + 1
    <3>1. PICK l \in Nat, tr \in Nat : l = Len(u.packed) /\ tr = u.truncated /\ l + tr = k
      BY <1>0, <1>4, <1>8
    <3>2. Len(v.packed) = l /\ v.truncated = tr + 1
      BY <2>3, <3>1
    <3>a. l + tr = k
      BY <3>1
    <3>3. l + (tr + 1) = k + 1
      BY <3>a
    <3> QED BY Zenon, <3>2, <3>3
  <2>7. Packing(v, rs, b, k + 1)
    BY Zenon, <1>0, <1>6, <2>3, <2>4, <2>5, <2>6 DEF Packing
  <2> QED BY <1>2, <2>1, <2>7
<1>9. CASE ~u.full /\ ~(n > b) /\ u.used + n > b
  <2>1. PICK v : v = PackOne(u, r)
    OBVIOUS
  <2>2. v = [u EXCEPT !.truncated = @ + u.candidates - Len(u.packed), !.full = TRUE]
    BY <1>0, <1>3, <1>9, <2>1 DEF PackOne
  <2>3. /\ v.budget = b /\ v.candidates = Len(rs) /\ v.used = u.used /\ v.packed = u.packed
        /\ v.truncated = u.truncated + Len(rs) - Len(u.packed) /\ v.full = TRUE
    BY <1>0, <2>2 DEF Usages
  <2>4. u.packed # <<>>
    BY <1>0, <1>3, <1>4, <1>9
  <2>5. Len(u.packed) + u.truncated = k
    BY <1>0, <1>9
  <2>6. v.truncated \in Nat /\ Len(v.packed) + v.truncated = u.truncated + Len(rs)
    BY SMTT(40), <1>1, <1>4, <2>3, <2>5
  <2>7. v \in Usages
    <3>1. v = [packed |-> u.packed, used |-> u.used, truncated |-> v.truncated, budget |-> b,
               candidates |-> Len(rs), full |-> TRUE]
      BY <1>0, <2>2, <2>3 DEF Usages
    <3>2. [packed |-> u.packed, used |-> u.used, truncated |-> v.truncated, budget |-> b,
           candidates |-> Len(rs), full |-> TRUE] \in Usages
      BY Zenon, <1>1, <1>4, <2>6, UsageMade
    <3> QED BY <3>1, <3>2
  <2>8. ~Over(rs, b, k + 1)
    BY <1>6, <1>9
  <2>9. v.packed = <<>> <=> \A i \in 1..(k + 1) : Over(rs, b, i)
    BY <1>6, <2>3, <2>4, <2>8
  <2>10. Len(v.packed) + v.truncated >= Len(rs)
    BY <1>1, <1>4, <2>6
  <2>11. (\A i \in 1..(k + 1) : ~Over(rs, b, i)) => Len(v.packed) + v.truncated = Len(rs)
    <3>1. SUFFICES ASSUME \A i \in 1..(k + 1) : ~Over(rs, b, i) PROVE u.truncated = 0
      BY <1>1, <2>6
    <3>2. ~(u.truncated > 0)
      BY <1>0, <1>6, <1>9, <3>1
    <3> QED BY <1>4, <3>2
  <2>12. v.used <= b /\ v.packed # <<>>
    BY <1>0, <2>3, <2>4
  <2>13. Packing(v, rs, b, k + 1)
    BY Zenon, <2>3, <2>7, <2>9, <2>10, <2>11, <2>12 DEF Packing
  <2> QED BY <1>2, <2>1, <2>13
<1>10. CASE ~u.full /\ ~(n > b) /\ ~(u.used + n > b)
  <2>1. PICK v : v = PackOne(u, r)
    OBVIOUS
  <2>2. v = [u EXCEPT !.used = @ + n, !.packed = Append(@, r)]
    BY <1>0, <1>3, <1>10, <2>1 DEF PackOne
  <2>3. /\ v.budget = b /\ v.candidates = Len(rs) /\ v.used = u.used + n /\ v.packed = Append(u.packed, r)
        /\ v.truncated = u.truncated /\ v.full = FALSE
    BY <1>0, <1>10, <2>2 DEF Usages
  <2>4. v.packed \in Seq(Results) /\ Len(v.packed) = Len(u.packed) + 1 /\ v.packed # <<>>
    <3>1. PICK p \in Seq(Results) : p = u.packed
      BY <1>4
    <3>2. Append(p, r) \in Seq(Results) /\ Len(Append(p, r)) = Len(p) + 1 /\ Append(p, r) # <<>>
      BY AppendedResult
    <3> QED BY <2>3, <3>1, <3>2
  <2>5. v \in Usages
    <3>1. v = [packed |-> v.packed, used |-> v.used, truncated |-> u.truncated, budget |-> b,
               candidates |-> Len(rs), full |-> FALSE]
      BY <1>0, <2>2, <2>3 DEF Usages
    <3>2. v.used \in Nat
      BY <1>4, <2>3
    <3>3. [packed |-> v.packed, used |-> v.used, truncated |-> u.truncated, budget |-> b,
           candidates |-> Len(rs), full |-> FALSE] \in Usages
      BY Zenon, <1>1, <1>4, <2>4, <3>2, UsageMade
    <3> QED BY <3>1, <3>3
  <2>6. v.used <= b
    BY <1>4, <1>10, <2>3
  <2>7. ~Over(rs, b, k + 1)
    BY <1>6, <1>10
  <2>8. v.packed = <<>> <=> \A i \in 1..(k + 1) : Over(rs, b, i)
    BY <1>6, <2>4, <2>7
  <2>9. Len(v.packed) + v.truncated = k + 1
    <3>1. PICK l \in Nat, tr \in Nat : l = Len(u.packed) /\ tr = u.truncated /\ l + tr = k
      BY <1>0, <1>4, <1>10
    <3>2. Len(v.packed) = l + 1 /\ v.truncated = tr
      BY <2>3, <2>4, <3>1
    <3>a. l + tr = k
      BY <3>1
    <3>3. (l + 1) + tr = k + 1
      BY <3>a
    <3> QED BY Zenon, <3>2, <3>3
  <2>10. v.truncated > 0 => \E i \in 1..(k + 1) : Over(rs, b, i)
    BY <1>0, <1>6, <1>10, <2>3
  <2>11. Packing(v, rs, b, k + 1)
    BY Zenon, <2>3, <2>4, <2>5, <2>6, <2>8, <2>9, <2>10 DEF Packing
  <2> QED BY <1>2, <2>1, <2>11
<1> QED BY <1>7, <1>8, <1>9, <1>10

LEMMA PackingEnds ==
  ASSUME NEW rs \in Seq(Results), NEW b \in Nat
  PROVE  Packing(PackResults(rs, b), rs, b, Len(rs))
<1>1. Len(rs) \in Nat
  OBVIOUS
<1> DEFINE g == PackFun(rs, b)
           T == {m \in Nat : m <= Len(rs) => Packing(g[m], rs, b, m)}
<1>2. 0 \in T
  <2>1. g[0] = PackStep(rs, b, g, 0)
    BY <1>1, PackUnfold
  <2>2. g[0] = NothingPacked(b, rs)
    BY <2>1 DEF PackStep
  <2>3. Packing(g[0], rs, b, 0)
    BY <2>2, PackingBegins
  <2> QED BY <2>3
<1>3. ASSUME NEW m \in T PROVE m + 1 \in T
  <2>1. m \in Nat
    OBVIOUS
  <2>2. SUFFICES ASSUME m + 1 <= Len(rs) PROVE Packing(g[m + 1], rs, b, m + 1)
    BY <2>1
  <2>3. Packing(g[m], rs, b, m)
    BY <1>1, <2>1, <2>2
  <2>4. g[m + 1] = PackStep(rs, b, g, m + 1)
    <3>1. m + 1 \in 0..Len(rs)
      BY <1>1, <2>1, <2>2
    <3> QED BY <1>1, <3>1, PackUnfold
  <2>5. g[m + 1] = PackOne(g[m], rs[m + 1])
    <3>1. m + 1 # 0 /\ (m + 1) - 1 = m
      BY <2>1
    <3> HIDE DEF g
    <3> QED BY <2>4, <3>1 DEF PackStep
  <2> HIDE DEF g
  <2>6. PICK u : u = g[m]
    OBVIOUS
  <2>7. Packing(PackOne(u, rs[m + 1]), rs, b, m + 1)
    BY <2>1, <2>2, <2>3, <2>6, PackingGoes
  <2> QED BY <2>5, <2>6, <2>7
<1>4. Len(rs) \in T
  <2>1. T \in SUBSET Nat
    OBVIOUS
  <2> HIDE DEF T
  <2> QED BY <1>1, <1>2, <1>3, <2>1, NumbersInduction
<1>5. Packing(g[Len(rs)], rs, b, Len(rs))
  BY <1>1, <1>4
<1> QED BY <1>1, <1>5, PackUnfold

-----------------------------------------------------------------------------
(* The order of the results.                                               *)

\* A larger divisor, a smaller quotient.
LEMMA QuotientFalls ==
  ASSUME NEW y \in Nat, NEW w \in Nat \ {0}, NEW v \in Nat \ {0}, w <= v
  PROVE  y \div v \in Nat /\ y \div w \in Nat /\ y \div v <= y \div w
<1>1. PICK q \in Nat : q = y \div v /\ q * v <= y
  BY Quotient
<1>2. q * w <= v * q /\ q * w \in Nat
  BY Product
<1>3. q * v = v * q
  BY <1>1
<1>4. q * v \in Nat
  BY <1>1
<1>5. q * w <= y
  BY <1>1, <1>2, <1>3, <1>4
<1>6. y \div w >= q
  BY <1>5, QuotientAtLeast
<1>7. y \div w \in Nat
  BY Quotient
<1> QED BY <1>1, <1>6, <1>7

LEMMA TimesRises ==
  ASSUME NEW a \in Nat, NEW b \in Nat, a >= b, NEW w \in Nat
  PROVE  a * w \in Nat /\ b * w \in Nat /\ a * w >= b * w
<1>1. w * b \in Nat /\ w * b <= a * w
  BY Product
<1>2. w * b = b * w /\ a * w \in Nat
  OBVIOUS
<1> QED BY <1>1, <1>2

\* What trustScore and extractNumeric read is the same but for exactly 1.
LEMMA ShareFacts ==
  ASSUME NEW raw \in Nat
  PROVE  /\ Share(raw) \in 0..100 /\ TrustShare(raw) \in 0..100
         /\ Share(raw) <= TrustShare(raw) /\ (raw # 100 => Share(raw) = TrustShare(raw))
<1>1. PICK q \in Nat : q = raw \div 100 /\ q * 100 <= raw /\ raw < (q + 1) * 100
  OBVIOUS
<1>2. CASE raw < 100
  <2>1. q = 0
    BY <1>1, <1>2
  <2> QED BY <1>1, <1>2, <2>1 DEF Share, TrustShare, Percent, AtMost, AtLeast
<1>3. CASE raw = 100
  <2>1. q = 1
    BY <1>1, <1>3
  <2> QED BY <1>1, <1>3, <2>1 DEF Share, TrustShare, Percent, AtMost, AtLeast
<1>4. CASE raw > 100
  <2>1. q >= 1
    BY <1>1, <1>4
  <2> QED BY <1>1, <1>4, <2>1 DEF Share, TrustShare, Percent, AtMost, AtLeast
<1> QED BY <1>2, <1>3, <1>4

Weights(w) == /\ w.semantic \in Nat /\ w.lexical \in Nat /\ w.importance \in Nat
              /\ w.scope \in Nat /\ w.trust \in Nat /\ w.min \in Nat

LEMMA RerankerWeights ==
  ASSUME NEW t
  PROVE  Weights(Reranker(t))
BY DEF Weights, Reranker

LEMMA AgeFacts ==
  ASSUME NEW c
  PROVE  Recency(c) \in 0..100 /\ Freshness(c) \in 0..100
<1>1. CASE c.age = "new"
  BY <1>1 DEF Recency, Freshness
<1>2. CASE c.age = "week"
  BY <1>2 DEF Recency, Freshness
<1>3. CASE c.age = "old"
  BY <1>3 DEF Recency, Freshness
<1>4. CASE c.age \notin {"new", "week", "old"}
  BY <1>4 DEF Recency, Freshness
<1> QED BY <1>1, <1>2, <1>3, <1>4

LEMMA SignalFacts ==
  ASSUME NEW t, NEW c \in RkChunks
  PROVE  ScopeSignal(t, c) \in Nat /\ ScopeConfidence(t, c) \in Nat /\ Trust(c) \in Nat
<1>1. PICK h \in 0..100 : h = Share(c.conf)
  BY ChunkFields, ShareFacts
<1>2. PICK a \in 0..100 : a = TrustShare(c.imp)
  BY ChunkFields, ShareFacts
<1>3. PICK b \in 0..100 : b = TrustShare(c.conf)
  BY ChunkFields, ShareFacts
<1>4. ScopeSignal(t, c) \in Nat
  BY DEF ScopeSignal
<1>5. ScopeConfidence(t, c) \in Nat
  BY <1>1, <1>4 DEF ScopeConfidence
<1>6. Trust(c) \in Nat
  <2>1. Trust(c) = AtMost(10000, 55 * a + 45 * b + (IF c.input THEN 800 ELSE 0) + (IF c.scope = "session" THEN 400 ELSE 0))
    BY <1>2, <1>3 DEF Trust
  <2> QED BY <2>1 DEF AtMost
<1> QED BY <1>4, <1>5, <1>6

\* What was found: a sequence of chunks.
Finding(found) == \E n \in Nat : found \in [1..n -> RkChunks]

LEMMA CandidateFacts ==
  ASSUME NEW found, Finding(found)
  PROVE  /\ IsFiniteSet(Candidates(found))
         /\ \A i \in Candidates(found) : i \in Nat /\ found[i] \in RkChunks
<1>1. PICK n \in Nat : found \in [1..n -> RkChunks]
  BY DEF Finding
<1>2. IsFiniteSet(1..n)
  <2>1. PICK a \in Int, b \in Int : a = 1 /\ b = n
    OBVIOUS
  <2>2. IsFiniteSet(a..b)
    BY FS_Interval
  <2> QED BY <2>1, <2>2
<1>3. Candidates(found) \in SUBSET (1..n)
  BY <1>1 DEF Candidates
<1>4. IsFiniteSet(Candidates(found))
  BY <1>2, <1>3, FS_Subset
<1> QED BY <1>1, <1>3, <1>4

LEMMA NearnessKeyed ==
  ASSUME NEW found, Finding(found)
  PROVE  Keyed(Nearness(found), Candidates(found))
<1> DEFINE C == Candidates(found)
<1>1. IsFiniteSet(C) /\ \A i \in C : i \in Nat /\ found[i] \in RkChunks
  BY CandidateFacts
<1>2. Nearness(found) = [i \in C |-> Then(found[i].cos, Recency(found[i]))]
  BY Zenon DEF Nearness
<1>3. ASSUME NEW i \in C PROVE Then(found[i].cos, Recency(found[i])) \in Int
  <2>1. PICK c \in RkChunks : c = found[i]
    BY <1>1
  <2>2. PICK a \in Int, b \in 0..100 : a = c.cos /\ b = Recency(c)
    BY ChunkFields, AgeFacts
  <2>3. 101 * a + b \in Int
    OBVIOUS
  <2> QED BY <2>1, <2>2, <2>3 DEF Then
<1> HIDE DEF C
<1>4. DOMAIN Nearness(found) = C /\ \A i \in C : Nearness(found)[i] \in Int
  BY <1>2, <1>3
<1>5. Keyed(Nearness(found), C)
  BY Zenon, <1>1, <1>4 DEF Keyed
<1> QED BY <1>5 DEF C

LEMMA LikelihoodKeyed ==
  ASSUME NEW found, Finding(found)
  PROVE  Keyed(Likelihood(found), Candidates(found))
<1> DEFINE C == Candidates(found)
<1>1. IsFiniteSet(C) /\ \A i \in C : i \in Nat /\ found[i] \in RkChunks
  BY CandidateFacts
<1>2. Likelihood(found) = [i \in C |-> Then(Then(found[i].hits, found[i].ov), Recency(found[i]))]
  BY Zenon DEF Likelihood
<1>3. ASSUME NEW i \in C PROVE Then(Then(found[i].hits, found[i].ov), Recency(found[i])) \in Int
  <2>1. PICK c \in RkChunks : c = found[i]
    BY <1>1
  <2>2. PICK a \in Nat, d \in 0..100, b \in 0..100 : a = c.hits /\ d = c.ov /\ b = Recency(c)
    BY ChunkFields, AgeFacts
  <2>3. 101 * (101 * a + d) + b \in Int
    OBVIOUS
  <2>4. Then(Then(found[i].hits, found[i].ov), Recency(found[i])) = 101 * (101 * a + d) + b
    BY SMTT(40), <2>1, <2>2 DEF Then
  <2> QED BY <2>3, <2>4
<1> HIDE DEF C
<1>4. DOMAIN Likelihood(found) = C /\ \A i \in C : Likelihood(found)[i] \in Int
  BY <1>2, <1>3
<1>5. Keyed(Likelihood(found), C)
  BY Zenon, <1>1, <1>4 DEF Keyed
<1> QED BY <1>5 DEF C

\* The reciprocal ranks of the earlier of two places.
LEMMA PlacesRise ==
  ASSUME NEW y \in Nat, NEW p \in Nat, NEW q \in Nat, p <= q
  PROVE  /\ y \div (60 + p) \in Nat /\ y \div (60 + q) \in Nat
         /\ y \div (60 + q) <= y \div (60 + p)
<1>1. PICK a \in Nat \ {0}, b \in Nat \ {0} : a = 60 + p /\ b = 60 + q /\ a <= b
  OBVIOUS
<1>2. y \div b \in Nat /\ y \div a \in Nat /\ y \div b <= y \div a
  BY <1>1, QuotientFalls
<1> QED BY <1>1, <1>2

\* A sort's place of what is found earlier and has no smaller key.
LEMMA KeyedPlaces ==
  ASSUME NEW key, NEW D, Keyed(key, D), NEW i \in D, NEW j \in D, i < j, key[i] >= key[j]
  PROVE  /\ SortPlace(key, i) \in Nat /\ SortPlace(key, j) \in Nat
         /\ SortPlace(key, i) < SortPlace(key, j)
<1>1. Precedes(key, i, j)
  <2>1. key[i] \in Int /\ key[j] \in Int
    BY DEF Keyed
  <2> QED BY <2>1 DEF Precedes
<1>2. SortPlace(key, i) < SortPlace(key, j)
  BY <1>1, PlaceOrder
<1>3. SortPlace(key, i) \in 1..Cardinality(D) /\ SortPlace(key, j) \in 1..Cardinality(D)
  BY PlaceRange
<1>4. Cardinality(D) \in Nat
  BY FS_CardinalityType DEF Keyed
<1> QED BY <1>2, <1>3, <1>4

LEMMA RRFIs ==
  ASSUME NEW found, Finding(found), NEW i \in Candidates(found)
  PROVE  RRF(found, i) \in Nat
<1>1. PICK n \in Nat : SortPlace(Nearness(found), i) \in 1..n
  <2>1. Keyed(Nearness(found), Candidates(found))
    BY NearnessKeyed
  <2>2. SortPlace(Nearness(found), i) \in 1..Cardinality(Candidates(found))
    BY <2>1, PlaceRange
  <2>3. Cardinality(Candidates(found)) \in Nat
    BY CandidateFacts, FS_CardinalityType
  <2> QED BY <2>2, <2>3
<1>2. PICK m \in Nat : SortPlace(Likelihood(found), i) \in 1..m
  <2>1. Keyed(Likelihood(found), Candidates(found))
    BY LikelihoodKeyed
  <2>2. SortPlace(Likelihood(found), i) \in 1..Cardinality(Candidates(found))
    BY <2>1, PlaceRange
  <2>3. Cardinality(Candidates(found)) \in Nat
    BY CandidateFacts, FS_CardinalityType
  <2> QED BY <2>2, <2>3
<1>3. PICK p \in Nat : p = SortPlace(Nearness(found), i)
  BY <1>1
<1>4. PICK q \in Nat : q = SortPlace(Likelihood(found), i)
  BY <1>2
<1>5. PICK y \in Nat : RRF(found, i) = y \div (60 + p) + y \div (60 + q)
  BY SMT, <1>3, <1>4 DEF RRF
<1>6. y \div (60 + p) \in Nat
  BY PlacesRise
<1>7. y \div (60 + q) \in Nat
  BY PlacesRise
<1> QED BY <1>5, <1>6, <1>7

LEMMA RRFRises ==
  ASSUME NEW found, Finding(found), NEW i \in Candidates(found), NEW j \in Candidates(found), i < j,
         found[i].cos >= found[j].cos, found[i].ov >= found[j].ov, found[i].hits >= found[j].hits,
         Recency(found[i]) >= Recency(found[j])
  PROVE  RRF(found, i) >= RRF(found, j)
<1> DEFINE C == Candidates(found)
           ne == Nearness(found)
           li == Likelihood(found)
<1>1. PICK a \in RkChunks, b \in RkChunks : a = found[i] /\ b = found[j]
  BY CandidateFacts
<1>2. PICK x \in Int, y \in Int : x = a.cos /\ y = b.cos /\ x >= y
  <2>1. a.cos \in Int /\ b.cos \in Int
    BY ChunkFields
  <2>2. a.cos >= b.cos
    BY <1>1
  <2> QED BY <2>1, <2>2
<1>3. PICK x2 \in Nat, y2 \in Nat : x2 = a.ov /\ y2 = b.ov /\ x2 >= y2
  <2>1. a.ov \in Nat /\ b.ov \in Nat
    BY ChunkFields
  <2>2. a.ov >= b.ov
    BY <1>1
  <2> QED BY <2>1, <2>2
<1>4. PICK x3 \in Nat, y3 \in Nat : x3 = a.hits /\ y3 = b.hits /\ x3 >= y3
  <2>1. a.hits \in Nat /\ b.hits \in Nat
    BY ChunkFields
  <2>2. a.hits >= b.hits
    BY <1>1
  <2> QED BY <2>1, <2>2
<1>5. PICK x4 \in Nat, y4 \in Nat : x4 = Recency(a) /\ y4 = Recency(b) /\ x4 >= y4
  <2>1. Recency(a) \in Nat /\ Recency(b) \in Nat
    BY AgeFacts
  <2>2. Recency(a) >= Recency(b)
    BY <1>1
  <2> QED BY <2>1, <2>2
<1>6. ne[i] = 101 * x + x4 /\ ne[j] = 101 * y + y4
  <2>1. ne[i] = Then(found[i].cos, Recency(found[i])) /\ ne[j] = Then(found[j].cos, Recency(found[j]))
    BY DEF Nearness
  <2> HIDE DEF ne
  <2> QED BY <1>1, <1>2, <1>5, <2>1 DEF Then
<1>7. li[i] = 101 * (101 * x3 + x2) + x4 /\ li[j] = 101 * (101 * y3 + y2) + y4
  <2>1. /\ li[i] = Then(Then(found[i].hits, found[i].ov), Recency(found[i]))
        /\ li[j] = Then(Then(found[j].hits, found[j].ov), Recency(found[j]))
    BY DEF Likelihood
  <2> HIDE DEF li
  <2> QED BY <1>1, <1>3, <1>4, <1>5, <2>1 DEF Then
<1>8. Keyed(ne, C) /\ Keyed(li, C)
  BY NearnessKeyed, LikelihoodKeyed
<1> HIDE DEF ne, li
<1>9. ne[i] >= ne[j] /\ li[i] >= li[j]
  BY <1>2, <1>3, <1>4, <1>5, <1>6, <1>7
<1>10. PICK p \in Nat, q \in Nat : p = SortPlace(ne, i) /\ q = SortPlace(ne, j) /\ p < q
  BY <1>8, <1>9, KeyedPlaces
<1>11. PICK p2 \in Nat, q2 \in Nat : p2 = SortPlace(li, i) /\ q2 = SortPlace(li, j) /\ p2 < q2
  BY <1>8, <1>9, KeyedPlaces
<1>12. PICK z \in Nat : /\ RRF(found, i) = z \div (60 + p) + z \div (60 + p2)
                        /\ RRF(found, j) = z \div (60 + q) + z \div (60 + q2)
  BY SMT, <1>10, <1>11 DEF RRF, ne, li
<1>13. z \div (60 + p) \in Nat /\ z \div (60 + q) \in Nat /\ z \div (60 + q) <= z \div (60 + p)
  <2>1. p <= q
    BY <1>10
  <2> QED BY ZenonT(40), <2>1, PlacesRise
<1>14. z \div (60 + p2) \in Nat /\ z \div (60 + q2) \in Nat /\ z \div (60 + q2) <= z \div (60 + p2)
  <2>1. p2 <= q2
    BY <1>11
  <2> QED BY ZenonT(40), <2>1, PlacesRise
<1> QED BY <1>12, <1>13, <1>14

\* The terms of a score; a cosine may be negative.
LEMMA CosineRises ==
  ASSUME NEW a \in Int, NEW b \in Int, a >= b, NEW w \in Nat
  PROVE  a * w * 10 \in Int /\ b * w * 10 \in Int /\ a * w * 10 >= b * w * 10
<1>1. PICK d \in Nat : a = b + d
  <2>1. a - b \in Nat /\ a = b + (a - b)
    OBVIOUS
  <2> QED BY <2>1
<1>2. PICK x \in Int, y \in Nat : x = b * w /\ y = d * w
  OBVIOUS
<1>3. a * w = x + y
  <2>1. (b + d) * w = b * w + d * w
    OBVIOUS
  <2> QED BY <1>1, <1>2, <2>1
<1> QED BY <1>2, <1>3

LEMMA Weighed ==
  ASSUME NEW a \in Nat, NEW b \in Nat, a >= b, NEW w \in Nat, NEW k \in Nat
  PROVE  a * w * k \in Nat /\ b * w * k \in Nat /\ a * w * k >= b * w * k
<1>1. PICK c \in Nat, d \in Nat : c = a * w /\ d = b * w /\ c >= d
  BY TimesRises
<1>2. c * k \in Nat /\ d * k \in Nat /\ c * k >= d * k
  BY <1>1, TimesRises
<1> QED BY <1>1, <1>2

LEMMA TenthRises ==
  ASSUME NEW a \in Nat, NEW b \in Nat, a >= b
  PROVE  a \div 10 \in Nat /\ b \div 10 \in Nat /\ a \div 10 >= b \div 10
OBVIOUS

LEMMA PassagesRise ==
  ASSUME NEW a \in Nat, NEW b \in Nat, a >= b
  PROVE  /\ AtMost(4000, 5000 * a) \in Nat /\ AtMost(4000, 5000 * b) \in Nat
         /\ AtMost(4000, 5000 * a) >= AtMost(4000, 5000 * b)
BY DEF AtMost

\* A chunk found earlier and at least as good by every signal.
Better(t, found, i, j) ==
  /\ i < j /\ AtLeastAsGood(t, found[i], found[j])
  /\ found[i].imp # 100 /\ found[i].conf # 100

LEMMA SharesRise ==
  ASSUME NEW a \in Nat, NEW b \in Nat, TrustShare(a) >= TrustShare(b), a # 100
  PROVE  Share(a) \in Nat /\ Share(b) \in Nat /\ Share(a) >= Share(b)
<1>1. PICK x \in 0..100, y \in 0..100 : x = Share(a) /\ y = TrustShare(a) /\ x = y
  BY ShareFacts
<1>2. PICK u \in 0..100, v \in 0..100 : u = Share(b) /\ v = TrustShare(b) /\ u <= v
  BY ShareFacts
<1>3. y >= v
  BY <1>1, <1>2
<1> QED BY <1>1, <1>2, <1>3

LEMMA RankScoreTyped ==
  ASSUME NEW t, NEW w, Weights(w), NEW found, Finding(found), NEW i \in Candidates(found)
  PROVE  RankScore(t, w, found, i) \in Int
<1>1. PICK c \in RkChunks : c = found[i]
  BY CandidateFacts
<1>2. c.cos \in Int /\ c.ov \in Nat /\ c.hits \in Nat /\ c.imp \in Nat /\ c.conf \in Nat
  BY ChunkFields
<1>3. Share(c.imp) \in Nat
  BY <1>2, ShareFacts
<1>4. Recency(c) \in Nat /\ Freshness(c) \in Nat
  BY AgeFacts
<1>5. ScopeConfidence(t, c) \in Nat /\ Trust(c) \in Nat
  BY SignalFacts
<1>6. RRF(found, i) \in Nat
  BY RRFIs
<1> DEFINE T1 == c.cos * w.semantic * 10
           T2 == c.ov * w.lexical * 10
           T3 == Share(c.imp) * w.importance * 10
           T4 == Recency(c) * 70
           T5 == ScopeConfidence(t, c) * w.scope * 5
           T6 == RRF(found, i)
           T7 == AtMost(4000, 5000 * c.hits)
           T8 == (Trust(c) * w.trust) \div 10
           T9 == Freshness(c) * 30
           T0 == IF c.source = "own" THEN 8000 ELSE 0
<1>7. RankScore(t, w, found, i) = T1 + T2 + T3 + T4 + T5 + T6 + T7 + T8 + T9 - T0
  BY SMT, <1>1 DEF RankScore
<1>8. T1 \in Int
  BY <1>2, CosineRises DEF Weights
<1>9. T2 \in Nat
  BY <1>2, Weighed DEF Weights
<1>10. T3 \in Nat
  BY <1>3, Weighed DEF Weights
<1>11. T4 \in Nat /\ T6 \in Nat /\ T9 \in Nat /\ T0 \in Nat
  BY SMT, <1>4, <1>6
<1>12. T5 \in Nat
  BY <1>5, Weighed DEF Weights
<1>13. T7 \in Nat
  BY SMT, <1>2 DEF AtMost
<1>14. T8 \in Nat
  <2>1. PICK m \in Nat : m = Trust(c) * w.trust
    BY <1>5, TimesRises DEF Weights
  <2>2. m \div 10 \in Nat
    OBVIOUS
  <2> QED BY <2>1, <2>2
<1> HIDE DEF T0, T1, T2, T3, T4, T5, T6, T7, T8, T9
<1> QED BY SMT, <1>7, <1>8, <1>9, <1>10, <1>11, <1>12, <1>13, <1>14

LEMMA RankScoreRises ==
  ASSUME NEW t, NEW w, Weights(w), NEW found, Finding(found),
         NEW i \in Candidates(found), NEW j \in Candidates(found), Better(t, found, i, j)
  PROVE  RankScore(t, w, found, i) >= RankScore(t, w, found, j)
<1>1. PICK a \in RkChunks, b \in RkChunks : a = found[i] /\ b = found[j]
  BY CandidateFacts
<1>2. /\ a.cos \in Int /\ a.ov \in Nat /\ a.hits \in Nat /\ a.imp \in Nat /\ a.conf \in Nat
      /\ b.cos \in Int /\ b.ov \in Nat /\ b.hits \in Nat /\ b.imp \in Nat /\ b.conf \in Nat
  BY ChunkFields
<1>3. i < j /\ AtLeastAsGood(t, a, b) /\ a.imp # 100 /\ a.conf # 100
  BY Zenon, <1>1 DEF Better
<1>4. /\ a.cos >= b.cos /\ a.ov >= b.ov /\ a.hits >= b.hits
      /\ Recency(a) >= Recency(b) /\ Freshness(a) >= Freshness(b)
      /\ TrustShare(a.imp) >= TrustShare(b.imp) /\ TrustShare(a.conf) >= TrustShare(b.conf)
      /\ ScopeSignal(t, a) >= ScopeSignal(t, b) /\ Trust(a) >= Trust(b)
      /\ (a.source = "own" => b.source = "own")
  BY Zenon, <1>3 DEF AtLeastAsGood
<1>5. w.semantic \in Nat /\ w.lexical \in Nat /\ w.importance \in Nat /\ w.scope \in Nat /\ w.trust \in Nat
  BY DEF Weights
<1>6. Share(a.imp) \in Nat /\ Share(b.imp) \in Nat /\ Share(a.imp) >= Share(b.imp)
  BY <1>2, <1>3, <1>4, SharesRise
<1>7. Share(a.conf) \in Nat /\ Share(b.conf) \in Nat /\ Share(a.conf) >= Share(b.conf)
  BY <1>2, <1>3, <1>4, SharesRise
<1>8. /\ ScopeConfidence(t, a) \in Nat /\ ScopeConfidence(t, b) \in Nat
      /\ ScopeConfidence(t, a) >= ScopeConfidence(t, b)
  <2>1. PICK x \in Nat, y \in Nat : x = ScopeSignal(t, a) /\ y = ScopeSignal(t, b)
    BY SignalFacts
  <2>2. x >= y
    BY <1>4, <2>1
  <2> QED BY <1>7, <2>1, <2>2 DEF ScopeConfidence
<1>9. Recency(a) \in Nat /\ Recency(b) \in Nat /\ Freshness(a) \in Nat /\ Freshness(b) \in Nat
  BY AgeFacts
<1>10. Trust(a) \in Nat /\ Trust(b) \in Nat
  BY SignalFacts
<1>11. RRF(found, i) \in Nat /\ RRF(found, j) \in Nat
  BY RRFIs
<1>12. RRF(found, i) >= RRF(found, j)
  BY <1>1, <1>3, <1>4, RRFRises
<1> DEFINE T1(c) == c.cos * w.semantic * 10
           T2(c) == c.ov * w.lexical * 10
           T3(c) == Share(c.imp) * w.importance * 10
           T4(c) == Recency(c) * 70
           T5(c) == ScopeConfidence(t, c) * w.scope * 5
           T6(k) == RRF(found, k)
           T7(c) == AtMost(4000, 5000 * c.hits)
           T8(c) == (Trust(c) * w.trust) \div 10
           T9(c) == Freshness(c) * 30
           T0(c) == IF c.source = "own" THEN 8000 ELSE 0
<1>13. RankScore(t, w, found, i) = T1(a) + T2(a) + T3(a) + T4(a) + T5(a) + T6(i) + T7(a) + T8(a) + T9(a) - T0(a)
  BY SMT, <1>1 DEF RankScore
<1>14. RankScore(t, w, found, j) = T1(b) + T2(b) + T3(b) + T4(b) + T5(b) + T6(j) + T7(b) + T8(b) + T9(b) - T0(b)
  BY SMT, <1>1 DEF RankScore
<1>15. T1(a) \in Int /\ T1(b) \in Int /\ T1(a) >= T1(b)
  BY <1>2, <1>4, <1>5, CosineRises
<1>16. T2(a) \in Nat /\ T2(b) \in Nat /\ T2(a) >= T2(b)
  BY <1>2, <1>4, <1>5, Weighed
<1>17. T3(a) \in Nat /\ T3(b) \in Nat /\ T3(a) >= T3(b)
  BY <1>5, <1>6, Weighed
<1>18. T4(a) \in Nat /\ T4(b) \in Nat /\ T4(a) >= T4(b)
  BY <1>4, <1>9, TimesRises
<1>19. T5(a) \in Nat /\ T5(b) \in Nat /\ T5(a) >= T5(b)
  BY <1>5, <1>8, Weighed
<1>20. T7(a) \in Nat /\ T7(b) \in Nat /\ T7(a) >= T7(b)
  BY SMT, <1>2, <1>4, PassagesRise
<1>21. T8(a) \in Nat /\ T8(b) \in Nat /\ T8(a) >= T8(b)
  <2>1. PICK m \in Nat, n \in Nat : m = Trust(a) * w.trust /\ n = Trust(b) * w.trust /\ m >= n
    BY <1>4, <1>5, <1>10, TimesRises
  <2>2. m \div 10 \in Nat /\ n \div 10 \in Nat /\ m \div 10 >= n \div 10
    BY <2>1, TenthRises
  <2> QED BY <2>1, <2>2
<1>22. T9(a) \in Nat /\ T9(b) \in Nat /\ T9(a) >= T9(b)
  BY <1>4, <1>9, TimesRises
<1>23. T0(a) \in Nat /\ T0(b) \in Nat /\ T0(a) <= T0(b)
  BY SMT, <1>4
<1>24. T6(i) \in Nat /\ T6(j) \in Nat /\ T6(i) >= T6(j)
  BY <1>11, <1>12
<1> HIDE DEF T0, T1, T2, T3, T4, T5, T6, T7, T8, T9
<1> QED BY SMT, <1>13, <1>14, <1>15, <1>16, <1>17, <1>18, <1>19, <1>20, <1>21, <1>22, <1>23, <1>24

LEMMA ScoreRounds ==
  ASSUME NEW a \in Int, NEW b \in Int, a >= b
  PROVE  (a + 500) \div 1000 \in Int /\ (b + 500) \div 1000 \in Int /\ (a + 500) \div 1000 >= (b + 500) \div 1000
BY SMT

\* The rounded score.
LEMMA ResultIs ==
  ASSUME NEW t, NEW w, Weights(w), NEW found, Finding(found), NEW i \in Candidates(found)
  PROVE  /\ Result(t, w, found, i) \in Results /\ Result(t, w, found, i).at = i
         /\ Result(t, w, found, i).chunk = found[i]
         /\ Result(t, w, found, i).score = (RankScore(t, w, found, i) + 500) \div 1000
         /\ Result(t, w, found, i).score \in Int
<1>1. PICK a \in Int : a = RankScore(t, w, found, i)
  BY RankScoreTyped
<1>2. PICK s \in Int : s = (a + 500) \div 1000
  BY ScoreRounds
<1>3. Result(t, w, found, i) = [chunk |-> found[i], at |-> i, score |-> s]
  BY SMT, <1>1, <1>2 DEF Result
<1>4. i \in Nat /\ found[i] \in RkChunks
  BY CandidateFacts
<1>5. [chunk |-> found[i], at |-> i, score |-> s] \in Results
  BY <1>4 DEF Results
<1> QED BY SMT, <1>1, <1>2, <1>3, <1>5

LEMMA GoodnessKeyed ==
  ASSUME NEW t, NEW w, Weights(w), NEW found, Finding(found)
  PROVE  /\ Keyed(Goodness(t, w, found), Eligible(t, w, found))
         /\ Eligible(t, w, found) \in SUBSET Candidates(found)
<1> DEFINE C == Eligible(t, w, found)
<1>1. IsFiniteSet(Candidates(found)) /\ \A i \in Candidates(found) : i \in Nat
  BY CandidateFacts
<1>2. C \in SUBSET Candidates(found)
  BY DEF Eligible
<1>3. IsFiniteSet(C)
  BY <1>1, <1>2, FS_Subset
<1>4. Goodness(t, w, found) = [i \in C |-> Then(Result(t, w, found, i).score, Recency(found[i]))]
  BY Zenon DEF Goodness
<1>5. ASSUME NEW i \in C PROVE Then(Result(t, w, found, i).score, Recency(found[i])) \in Int
  <2>1. i \in Candidates(found)
    BY <1>2
  <2>2. PICK s \in Int : s = Result(t, w, found, i).score
    BY <2>1, ResultIs
  <2>3. PICK b \in 0..100 : b = Recency(found[i])
    BY AgeFacts
  <2>4. 101 * s + b \in Int
    OBVIOUS
  <2> QED BY <2>2, <2>3, <2>4 DEF Then
<1> HIDE DEF C
<1>6. DOMAIN Goodness(t, w, found) = C /\ \A i \in C : Goodness(t, w, found)[i] \in Int
  BY <1>4, <1>5
<1>7. \A i \in C : i \in Nat
  BY <1>1, <1>2
<1>8. Keyed(Goodness(t, w, found), C)
  BY Zenon, <1>3, <1>6, <1>7 DEF Keyed
<1> QED BY <1>2, <1>8 DEF C

\* What Ranked gives: results in their places.
InPlace(rs, t, w, found) ==
  /\ rs \in Seq(Results)
  /\ \A k \in 1..Len(rs) :
       /\ rs[k].at \in Eligible(t, w, found) /\ rs[k].chunk = found[rs[k].at]
       /\ SortPlace(Goodness(t, w, found), rs[k].at) = k

LEMMA RankedFacts ==
  ASSUME NEW t, NEW w, Weights(w), NEW found, Finding(found)
  PROVE  InPlace(Ranked(t, w, found), t, w, found)
<1> DEFINE D == Eligible(t, w, found)
           key == Goodness(t, w, found)
           rs == Ranked(t, w, found)
           order == Sorted(key)
<1>1. Keyed(key, D) /\ D \in SUBSET Candidates(found)
  BY GoodnessKeyed
<1>2. PICK n \in Nat : /\ n = Cardinality(D) /\ DOMAIN order = 1..n
                       /\ \A k \in 1..n : order[k] \in D /\ SortPlace(key, order[k]) = k
  <2> HIDE DEF D, key
  <2> QED BY <1>1, SortedFacts
<1>3. rs = [k \in DOMAIN order |-> Result(t, w, found, order[k])]
  BY Zenon DEF Ranked
<1> HIDE DEF D, key, rs, order
<1>4. rs = [k \in 1..n |-> Result(t, w, found, order[k])]
  BY <1>2, <1>3
<1>5. ASSUME NEW k \in 1..n
      PROVE  /\ rs[k] \in Results /\ rs[k].at = order[k] /\ rs[k].chunk = found[order[k]]
  <2>1. PICK i \in Candidates(found) : i = order[k]
    BY <1>1, <1>2
  <2>2. Result(t, w, found, i) \in Results /\ Result(t, w, found, i).at = i /\ Result(t, w, found, i).chunk = found[i]
    BY ResultIs
  <2>3. rs[k] = Result(t, w, found, i)
    BY <1>4, <2>1
  <2> QED BY <2>1, <2>2, <2>3
<1>6. rs \in Seq(Results) /\ Len(rs) = n
  BY <1>4, <1>5
<1>7. ASSUME NEW k \in 1..Len(rs)
      PROVE  rs[k].at \in D /\ rs[k].chunk = found[rs[k].at] /\ SortPlace(key, rs[k].at) = k
  <2>1. k \in 1..n
    BY <1>6
  <2>2. rs[k].at = order[k] /\ rs[k].chunk = found[order[k]]
    BY <1>5, <2>1
  <2> QED BY <1>2, <2>1, <2>2
<1> QED BY Zenon, <1>6, <1>7 DEF InPlace, D, key, rs

\* Better chunks come first.
LEMMA BetterFirst ==
  ASSUME NEW t, NEW w, Weights(w), NEW found, Finding(found),
         NEW i \in Eligible(t, w, found), NEW j \in Eligible(t, w, found), Better(t, found, i, j)
  PROVE  SortPlace(Goodness(t, w, found), i) < SortPlace(Goodness(t, w, found), j)
<1> DEFINE D == Eligible(t, w, found)
           key == Goodness(t, w, found)
<1>1. Keyed(key, D) /\ D \in SUBSET Candidates(found)
  BY GoodnessKeyed
<1>2. PICK k \in Candidates(found), l \in Candidates(found) : k = i /\ l = j
  BY <1>1
<1>3. PICK a \in Int, b \in Int : a = RankScore(t, w, found, i) /\ b = RankScore(t, w, found, j) /\ a >= b
  <2>1. RankScore(t, w, found, k) \in Int /\ RankScore(t, w, found, l) \in Int
    BY RankScoreTyped
  <2>2. RankScore(t, w, found, k) >= RankScore(t, w, found, l)
    BY <1>2, RankScoreRises
  <2> QED BY <1>2, <2>1, <2>2
<1>4. PICK x \in Int, y \in Int : x = (a + 500) \div 1000 /\ y = (b + 500) \div 1000 /\ x >= y
  BY <1>3, ScoreRounds
<1>5. Result(t, w, found, k).score = x /\ Result(t, w, found, l).score = y
  <2>1. Result(t, w, found, k).score = (RankScore(t, w, found, k) + 500) \div 1000
    BY ResultIs
  <2>2. Result(t, w, found, l).score = (RankScore(t, w, found, l) + 500) \div 1000
    BY ResultIs
  <2> QED BY SMT, <1>2, <1>3, <1>4, <2>1, <2>2
<1>6. PICK p \in Nat, q \in Nat : p = Recency(found[i]) /\ q = Recency(found[j]) /\ p >= q
  <2>1. Recency(found[i]) \in Nat /\ Recency(found[j]) \in Nat
    BY AgeFacts
  <2>2. AtLeastAsGood(t, found[i], found[j])
    BY Zenon DEF Better
  <2>3. Recency(found[i]) >= Recency(found[j])
    BY Zenon, <2>2 DEF AtLeastAsGood
  <2> QED BY <2>1, <2>3
<1>7. key[i] = 101 * x + p /\ key[j] = 101 * y + q
  <2>1. /\ key[i] = Then(Result(t, w, found, i).score, Recency(found[i]))
        /\ key[j] = Then(Result(t, w, found, j).score, Recency(found[j]))
    BY DEF Goodness
  <2> HIDE DEF key
  <2> QED BY <1>2, <1>5, <1>6, <2>1 DEF Then
<1>8. i < j
  BY Zenon DEF Better
<1> HIDE DEF D, key
<1>9. key[i] >= key[j] /\ i \in D /\ j \in D
  BY <1>4, <1>6, <1>7 DEF D
<1>10. SortPlace(key, i) < SortPlace(key, j)
  BY <1>1, <1>8, <1>9, KeyedPlaces
<1> QED BY <1>10 DEF key

LEMMA DominanceHolds ==
  ASSUME NEW t, NEW w, Weights(w), NEW found, Finding(found), NEW rs, InPlace(rs, t, w, found),
         NEW i \in DOMAIN rs, NEW j \in DOMAIN rs, rs[i].at < rs[j].at,
         AtLeastAsGood(t, rs[i].chunk, rs[j].chunk), rs[i].chunk.imp # 100, rs[i].chunk.conf # 100
  PROVE  i < j
<1>1. rs \in Seq(Results)
  BY Zenon DEF InPlace
<1>2. i \in 1..Len(rs) /\ j \in 1..Len(rs)
  BY <1>1
<1>3. PICK a \in Eligible(t, w, found) : /\ a = rs[i].at /\ rs[i].chunk = found[a]
                                         /\ SortPlace(Goodness(t, w, found), a) = i
  BY Zenon, <1>2 DEF InPlace
<1>4. PICK b \in Eligible(t, w, found) : /\ b = rs[j].at /\ rs[j].chunk = found[b]
                                         /\ SortPlace(Goodness(t, w, found), b) = j
  BY Zenon, <1>2 DEF InPlace
<1>5. Better(t, found, a, b)
  BY Zenon, <1>3, <1>4 DEF Better
<1>6. SortPlace(Goodness(t, w, found), a) < SortPlace(Goodness(t, w, found), b)
  BY <1>5, BetterFirst
<1> QED BY <1>3, <1>4, <1>6

LEMMA ResultsDistinct ==
  ASSUME NEW t, NEW w, NEW found, NEW rs, InPlace(rs, t, w, found),
         NEW i \in DOMAIN rs, NEW j \in DOMAIN rs, rs[i] = rs[j]
  PROVE  i = j
<1>1. rs \in Seq(Results)
  BY Zenon DEF InPlace
<1>2. i \in 1..Len(rs) /\ j \in 1..Len(rs)
  BY <1>1
<1> QED BY Zenon, <1>2 DEF InPlace

-----------------------------------------------------------------------------
(* The diverse selection.                                                  *)

SourceOf(rs, i) == rs[i].chunk.source

LEMMA IntervalFinite ==
  ASSUME NEW n \in Nat
  PROVE  IsFiniteSet(1..n) /\ Cardinality(1..n) = n
<1>1. PICK a \in Int, b \in Int : a = 1 /\ b = n
  OBVIOUS
<1>2. IsFiniteSet(a..b) /\ Cardinality(a..b) = IF a > b THEN 0 ELSE b - a + 1
  BY FS_Interval
<1> QED BY <1>1, <1>2

\* The least of a set of numbers.
LEMMA LeastNumber ==
  ASSUME NEW S \in SUBSET Nat, S # {}
  PROVE  \E x \in S : \A y \in S : x <= y
<1> DEFINE R == {q \in Nat \X Nat : q[1] < q[2]}
<1>1. IsWellFoundedOn(R, Nat)
  BY NatLessThanWellFounded DEF OpToRel
<1>2. \E x \in S : \A y \in S : ~(<<y, x>> \in R)
  <2> HIDE DEF R
  <2> QED BY <1>1, WFMin
<1>3. PICK x \in S : \A y \in S : ~(<<y, x>> \in R)
  BY <1>2
<1>4. ASSUME NEW y \in S PROVE x <= y
  <2>1. ~(<<y, x>> \in R)
    BY <1>3
  <2> QED BY <2>1
<1> QED BY <1>4

\* Every source has a first result.
LEMMA FirstExists ==
  ASSUME NEW rs, NEW n \in Nat, NEW i \in 1..n
  PROVE  \E f \in 1..n : FirstOfSource(rs, f) /\ SourceOf(rs, f) = SourceOf(rs, i)
<1> DEFINE S == {j \in 1..n : SourceOf(rs, j) = SourceOf(rs, i)}
<1>1. S \in SUBSET Nat /\ S # {}
  OBVIOUS
<1>2. \E x \in S : \A y \in S : x <= y
  <2> HIDE DEF S
  <2> QED BY <1>1, LeastNumber
<1>3. PICK f \in S : \A y \in S : f <= y
  BY <1>2
<1>4. f \in 1..n /\ SourceOf(rs, f) = SourceOf(rs, i)
  OBVIOUS
<1>5. ASSUME NEW j \in 1..(f - 1) PROVE SourceOf(rs, j) # SourceOf(rs, f)
  <2>1. j \in 1..n /\ j < f
    BY <1>4
  <2>2. j \notin S
    BY <1>3, <1>4, <2>1
  <2> QED BY <1>4, <2>1, <2>2
<1>6. FirstOfSource(rs, f)
  BY Zenon, <1>5 DEF FirstOfSource, SourceOf
<1> QED BY <1>4, <1>6

LEMMA FirstsDiffer ==
  ASSUME NEW rs, NEW i \in Nat, NEW j \in Nat, i >= 1, i < j, SourceOf(rs, i) = SourceOf(rs, j)
  PROVE  ~FirstOfSource(rs, j)
<1>1. i \in 1..(j - 1)
  OBVIOUS
<1> QED BY Zenon, <1>1 DEF FirstOfSource, SourceOf

LEMMA DiversityKeyed ==
  ASSUME NEW rs, NEW n \in Nat, DOMAIN rs = 1..n
  PROVE  /\ Keyed(Diversity(rs), 1..n)
         /\ \A i \in 1..n : Diversity(rs)[i] = IF FirstOfSource(rs, i) THEN 1 ELSE 0
<1>1. Diversity(rs) = [i \in 1..n |-> IF FirstOfSource(rs, i) THEN 1 ELSE 0]
  BY Zenon DEF Diversity
<1>2. \A i \in 1..n : Diversity(rs)[i] = IF FirstOfSource(rs, i) THEN 1 ELSE 0
  BY <1>1
<1>3. DOMAIN Diversity(rs) = 1..n /\ \A i \in 1..n : i \in Nat /\ Diversity(rs)[i] \in Int
  BY <1>1
<1>4. IsFiniteSet(1..n)
  BY IntervalFinite
<1>5. Keyed(Diversity(rs), 1..n)
  BY Zenon, <1>3, <1>4 DEF Keyed
<1> QED BY <1>2, <1>5

\* The first results of their sources come first.
LEMMA FirstsLead ==
  ASSUME NEW rs, NEW n \in Nat, DOMAIN rs = 1..n, NEW F, F = {i \in 1..n : FirstOfSource(rs, i)},
         NEW i \in 1..n
  PROVE  /\ IsFiniteSet(F) /\ Cardinality(F) \in Nat
         /\ i \in F <=> SortPlace(Diversity(rs), i) <= Cardinality(F)
<1> DEFINE key == Diversity(rs)
<1>1. Keyed(key, 1..n) /\ \A j \in 1..n : key[j] = IF FirstOfSource(rs, j) THEN 1 ELSE 0
  BY DiversityKeyed
<1>2. IsFiniteSet(F) /\ Cardinality(F) \in Nat
  <2>1. IsFiniteSet(1..n) /\ F \in SUBSET (1..n)
    BY IntervalFinite
  <2>2. IsFiniteSet(F)
    BY <2>1, FS_Subset
  <2> QED BY <2>2, FS_CardinalityType
<1>3. PICK P \in SUBSET (1..n) : /\ P = Preceding(key, i) /\ i \notin P /\ IsFiniteSet(P) /\ Cardinality(P) \in Nat
                                 /\ SortPlace(key, i) = 1 + Cardinality(P)
  <2> HIDE DEF key
  <2> QED BY <1>1, PlaceIs
<1>4. P = {j \in 1..n : Precedes(key, j, i)}
  <2> HIDE DEF key
  <2> QED BY <1>1, <1>3 DEF Preceding, Keyed
<1> HIDE DEF key
<1>5. CASE i \in F
  <2>1. key[i] = 1
    BY <1>1, <1>5
  <2>2. ASSUME NEW j \in P PROVE j \in F
    <3>1. j \in 1..n /\ Precedes(key, j, i)
      BY <1>4
    <3>2. key[j] = IF FirstOfSource(rs, j) THEN 1 ELSE 0
      BY <1>1, <3>1
    <3>3. FirstOfSource(rs, j)
      BY <2>1, <3>1, <3>2 DEF Precedes
    <3> QED BY <3>1, <3>3
  <2>3. P \cup {i} \in SUBSET F
    BY <1>5, <2>2
  <2>4. Cardinality(P \cup {i}) <= Cardinality(F)
    BY <1>2, <2>3, FS_Subset
  <2>5. Cardinality(P \cup {i}) = Cardinality(P) + 1
    BY <1>3, FS_AddElement
  <2> QED BY <1>2, <1>3, <1>5, <2>4, <2>5 DEF key
<1>6. CASE i \notin F
  <2>1. key[i] = 0
    BY <1>1, <1>6
  <2>2. ASSUME NEW j \in F PROVE j \in P
    <3>1. key[j] = 1 /\ j \in 1..n
      BY <1>1
    <3>2. Precedes(key, j, i)
      BY <2>1, <3>1 DEF Precedes
    <3> QED BY <1>4, <3>1, <3>2
  <2>3. F \in SUBSET P
    BY <2>2
  <2>4. Cardinality(F) <= Cardinality(P)
    BY <1>3, <2>3, FS_Subset
  <2>5. ~(SortPlace(key, i) <= Cardinality(F))
    BY <1>2, <1>3, <2>4
  <2> QED BY <1>2, <1>6, <2>5 DEF key
<1> QED BY <1>5, <1>6

\* The sources of results, as many as results at most.
LEMMA SourcesFew ==
  ASSUME NEW rs, NEW I, IsFiniteSet(I), NEW T, T = {SourceOf(rs, i) : i \in I}
  PROVE  IsFiniteSet(T) /\ Cardinality(T) \in Nat /\ Cardinality(T) <= Cardinality(I)
<1> DEFINE f == [i \in I |-> SourceOf(rs, i)]
<1>1. f \in [I -> T] /\ \A x \in T : \E i \in I : f[i] = x
  OBVIOUS
<1>2. f \in Surjection(I, T)
  <2> HIDE DEF f
  <2> QED BY <1>1 DEF Surjection
<1>3. IsFiniteSet(T) /\ Cardinality(T) <= Cardinality(I)
  <2> HIDE DEF f
  <2> QED BY <1>2, FS_Surjection
<1> QED BY <1>3, FS_CardinalityType

LEMMA SourcesAll ==
  ASSUME NEW rs, NEW I, IsFiniteSet(I), NEW T, T = {SourceOf(rs, i) : i \in I},
         \A i, j \in I : SourceOf(rs, i) = SourceOf(rs, j) => i = j
  PROVE  Cardinality(T) = Cardinality(I)
<1> DEFINE f == [i \in I |-> SourceOf(rs, i)]
<1>1. f \in [I -> T] /\ \A x \in T : \E i \in I : f[i] = x
  OBVIOUS
<1>2. f \in Surjection(I, T)
  <2> HIDE DEF f
  <2> QED BY <1>1 DEF Surjection
<1>3. \A i, j \in I : f[i] = f[j] => i = j
  OBVIOUS
<1>4. f \in Injection(I, T)
  <2> HIDE DEF f
  <2> QED BY <1>1, <1>3 DEF Injection, IsInjective
<1> HIDE DEF f
<1> QED BY <1>2, <1>4, FS_Surjection

\* The results that are kept: those of the first places.
LEMMA KeptAre ==
  ASSUME NEW rs \in Seq(Results), NEW k \in Nat, Len(rs) > k
  PROVE  /\ SelectDiverse(rs, k) \in Seq(Results) /\ Len(SelectDiverse(rs, k)) = k
         /\ \A m \in 1..k : \E i \in 1..Len(rs) : SortPlace(Diversity(rs), i) = m /\ SelectDiverse(rs, k)[m] = rs[i]
         /\ \A i \in 1..Len(rs) : SortPlace(Diversity(rs), i) <= k =>
              SortPlace(Diversity(rs), i) \in 1..k /\ SelectDiverse(rs, k)[SortPlace(Diversity(rs), i)] = rs[i]
<1> DEFINE key == Diversity(rs)
           order == Sorted(key)
           kept == SelectDiverse(rs, k)
<1>1. PICK n \in Nat : n = Len(rs) /\ DOMAIN rs = 1..n /\ n > k
  OBVIOUS
<1>2. Keyed(key, 1..n)
  BY <1>1, DiversityKeyed
<1>3. Cardinality(1..n) = n
  BY IntervalFinite
<1>4. /\ \A m \in 1..n : order[m] \in 1..n /\ SortPlace(key, order[m]) = m
      /\ \A i \in 1..n : SortPlace(key, i) \in 1..n /\ order[SortPlace(key, i)] = i
  <2> HIDE DEF key
  <2>1. PICK D : D = 1..n
    OBVIOUS
  <2>2. /\ \A m \in 1..Cardinality(D) : Sorted(key)[m] \in D /\ SortPlace(key, Sorted(key)[m]) = m
        /\ \A i \in D : SortPlace(key, i) \in 1..Cardinality(D) /\ Sorted(key)[SortPlace(key, i)] = i
    BY <1>2, <2>1, SortedFacts
  <2> QED BY <1>3, <2>1, <2>2
<1>5. kept = [m \in 1..k |-> rs[order[m]]]
  <2>1. ~(Len(rs) <= k)
    BY <1>1
  <2> QED BY Zenon, <2>1 DEF SelectDiverse
<1> HIDE DEF key, order, kept
<1>6. kept \in Seq(Results) /\ Len(kept) = k
  <2>1. \A m \in 1..k : order[m] \in 1..n
    BY <1>1, <1>4
  <2>2. \A m \in 1..k : rs[order[m]] \in Results
    BY <1>1, <2>1
  <2> QED BY <1>5, <2>2
<1>7. ASSUME NEW m \in 1..k PROVE \E i \in 1..Len(rs) : SortPlace(key, i) = m /\ kept[m] = rs[i]
  <2>1. m \in 1..n
    BY <1>1
  <2>2. order[m] \in 1..Len(rs) /\ SortPlace(key, order[m]) = m
    BY <1>1, <1>4, <2>1
  <2>3. kept[m] = rs[order[m]]
    BY <1>5
  <2> QED BY <2>2, <2>3
<1>8. ASSUME NEW i \in 1..Len(rs), SortPlace(key, i) <= k
      PROVE  SortPlace(key, i) \in 1..k /\ kept[SortPlace(key, i)] = rs[i]
  <2>1. i \in 1..n
    BY <1>1
  <2>2. PICK m \in 1..n : m = SortPlace(key, i) /\ order[m] = i
    BY <1>4, <2>1
  <2>3. m \in 1..k
    BY <1>8, <2>2
  <2>4. kept[m] = rs[order[m]]
    BY <1>5, <2>3
  <2> QED BY <2>2, <2>3, <2>4
<1> QED BY <1>6, <1>7, <1>8 DEF key, kept

\* What SelectDiverse promises of results that are all different.
Diverse(all, kept, k) ==
  LET Kept(i) == \E j \in DOMAIN kept : kept[j] = all[i]
  IN /\ Len(kept) = AtMost(k, Len(all))
     /\ Cardinality(Sources(kept)) = AtMost(k, Cardinality(Sources(all)))
     /\ \A i, j \in DOMAIN all :
          i < j /\ all[i].chunk.source = all[j].chunk.source /\ Kept(j) => Kept(i)

LEMMA SourcesOf ==
  ASSUME NEW rs \in Seq(Results)
  PROVE  /\ Sources(rs) = {SourceOf(rs, i) : i \in 1..Len(rs)} /\ Len(rs) \in Nat
         /\ IsFiniteSet(Sources(rs)) /\ Cardinality(Sources(rs)) \in Nat
         /\ Cardinality(Sources(rs)) <= Len(rs)
<1>1. PICK n \in Nat : n = Len(rs) /\ DOMAIN rs = 1..n
  OBVIOUS
<1>2. Sources(rs) = {SourceOf(rs, i) : i \in 1..n}
  BY <1>1 DEF Sources, SourceOf
<1>3. IsFiniteSet(1..n) /\ Cardinality(1..n) = n
  BY IntervalFinite
<1>4. PICK D : D = 1..n
  OBVIOUS
<1>5. PICK T : T = Sources(rs)
  OBVIOUS
<1>6. T = {SourceOf(rs, i) : i \in D} /\ IsFiniteSet(D) /\ Cardinality(D) = n
  BY <1>2, <1>3, <1>4, <1>5
<1>7. IsFiniteSet(T) /\ Cardinality(T) \in Nat /\ Cardinality(T) <= Cardinality(D)
  BY <1>6, SourcesFew
<1> QED BY <1>1, <1>2, <1>5, <1>6, <1>7

LEMMA KeptSources ==
  ASSUME NEW rs \in Seq(Results), NEW k \in Nat, Len(rs) > k
  PROVE  Cardinality(Sources(SelectDiverse(rs, k))) = AtMost(k, Cardinality(Sources(rs)))
<1> DEFINE key == Diversity(rs)
           kept == SelectDiverse(rs, k)
           F == {i \in 1..Len(rs) : FirstOfSource(rs, i)}
<1>1. PICK n \in Nat : n = Len(rs) /\ DOMAIN rs = 1..n
  OBVIOUS
<1>2. /\ kept \in Seq(Results) /\ Len(kept) = k
      /\ \A m \in 1..k : \E i \in 1..n : SortPlace(key, i) = m /\ kept[m] = rs[i]
      /\ \A i \in 1..n : SortPlace(key, i) <= k => SortPlace(key, i) \in 1..k /\ kept[SortPlace(key, i)] = rs[i]
  BY <1>1, KeptAre
<1>3. ASSUME NEW i \in 1..n
      PROVE  IsFiniteSet(F) /\ Cardinality(F) \in Nat /\ (i \in F <=> SortPlace(key, i) <= Cardinality(F))
  <2>1. F = {j \in 1..n : FirstOfSource(rs, j)}
    BY <1>1
  <2> HIDE DEF F
  <2> QED BY <1>1, <2>1, FirstsLead
<1>4. IsFiniteSet(F) /\ Cardinality(F) \in Nat
  <2>1. 1 \in 1..n
    BY <1>1
  <2> QED BY <1>3, <2>1
<1>5. /\ Sources(kept) = {SourceOf(kept, m) : m \in 1..k}
      /\ IsFiniteSet(Sources(kept)) /\ Cardinality(Sources(kept)) \in Nat
  <2> HIDE DEF kept
  <2> QED BY <1>2, SourcesOf
<1>6. /\ Sources(rs) = {SourceOf(rs, i) : i \in 1..n}
      /\ IsFiniteSet(Sources(rs)) /\ Cardinality(Sources(rs)) \in Nat
  BY <1>1, SourcesOf
<1> HIDE DEF key, kept
<1>7. \A x \in Sources(kept) : x \in Sources(rs)
  <2> TAKE x \in Sources(kept)
  <2>1. PICK m \in 1..k : x = SourceOf(kept, m)
    BY <1>5
  <2>2. PICK i \in 1..n : kept[m] = rs[i]
    BY <1>2
  <2>3. x = SourceOf(rs, i)
    BY <2>1, <2>2 DEF SourceOf
  <2> QED BY <1>6, <2>3
<1>8. CASE k <= Cardinality(F)
  <2>1. ASSUME NEW m \in 1..k, NEW l \in 1..k, SourceOf(kept, m) = SourceOf(kept, l) PROVE m = l
    <3>1. PICK i \in 1..n : SortPlace(key, i) = m /\ kept[m] = rs[i]
      BY <1>2
    <3>2. PICK j \in 1..n : SortPlace(key, j) = l /\ kept[l] = rs[j]
      BY <1>2
    <3>3. SourceOf(rs, i) = SourceOf(rs, j)
      BY <2>1, <3>1, <3>2 DEF SourceOf
    <3>4. SortPlace(key, i) <= Cardinality(F) /\ SortPlace(key, j) <= Cardinality(F)
      BY <1>4, <1>8, <3>1, <3>2
    <3>5. i \in F /\ j \in F
      <4> HIDE DEF F
      <4> QED BY <1>3, <3>4
    <3>6. FirstOfSource(rs, i) /\ FirstOfSource(rs, j) /\ i \in Nat /\ j \in Nat /\ i >= 1 /\ j >= 1
      BY <3>5
    <3>7. ~(i < j)
      BY <3>3, <3>6, FirstsDiffer
    <3>8. ~(j < i)
      BY <3>3, <3>6, FirstsDiffer
    <3>9. i = j
      BY <3>6, <3>7, <3>8
    <3> QED BY <3>1, <3>2, <3>9
  <2>2. PICK D : D = 1..k
    OBVIOUS
  <2>3. PICK T : T = Sources(kept)
    OBVIOUS
  <2>4. /\ T = {SourceOf(kept, m) : m \in D} /\ IsFiniteSet(D) /\ Cardinality(D) = k
        /\ \A m, l \in D : SourceOf(kept, m) = SourceOf(kept, l) => m = l
    BY <1>5, <2>1, <2>2, <2>3, IntervalFinite
  <2>5. Cardinality(T) = Cardinality(D)
    BY <2>4, SourcesAll
  <2>6. T \in SUBSET Sources(rs)
    BY <1>7, <2>3
  <2>7. Cardinality(T) <= Cardinality(Sources(rs))
    BY <1>6, <2>6, FS_Subset
  <2>8. Cardinality(Sources(kept)) = k /\ k <= Cardinality(Sources(rs))
    BY <2>3, <2>4, <2>5, <2>7
  <2>9. AtMost(k, Cardinality(Sources(rs))) = k
    BY <1>6, <2>8 DEF AtMost
  <2> QED BY <2>8, <2>9 DEF kept
<1>9. CASE ~(k <= Cardinality(F))
  <2>1. PICK T : T = Sources(rs)
    OBVIOUS
  <2>2. ASSUME NEW i \in 1..n
        PROVE  \E f \in F : SourceOf(rs, f) = SourceOf(rs, i) /\ SourceOf(rs, f) \in Sources(kept)
    <3>1. PICK f \in 1..n : FirstOfSource(rs, f) /\ SourceOf(rs, f) = SourceOf(rs, i)
      BY FirstExists
    <3>2. f \in F
      BY <1>1, <3>1
    <3>3. SortPlace(key, f) <= Cardinality(F)
      <4> HIDE DEF F
      <4> QED BY <1>3, <3>2
    <3>4. SortPlace(key, f) \in 1..k /\ kept[SortPlace(key, f)] = rs[f]
      <4>1. SortPlace(key, f) \in Int
        <5>1. Keyed(key, 1..n)
          BY <1>1, DiversityKeyed DEF key
        <5>2. PICK D : D = 1..n /\ Keyed(key, D) /\ f \in D
          BY <5>1
        <5>3. SortPlace(key, f) \in 1..Cardinality(D)
          BY <5>2, PlaceRange
        <5> QED BY <5>3
      <4>2. SortPlace(key, f) <= k
        BY <1>4, <1>9, <3>3, <4>1
      <4> QED BY <1>2, <4>2
    <3>5. PICK m \in 1..k : kept[m] = rs[f]
      BY <3>4
    <3>6. SourceOf(kept, m) = SourceOf(rs, f)
      BY <3>5 DEF SourceOf
    <3>7. SourceOf(rs, f) \in Sources(kept)
      BY <1>5, <3>6
    <3> QED BY <3>1, <3>2, <3>7
  <2>3. \A x \in T : x \in Sources(kept)
    BY <1>6, <2>1, <2>2
  <2>4. Sources(kept) = T
    BY <1>7, <2>1, <2>3
  <2>5. T = {SourceOf(rs, i) : i \in F}
    <3>1. \A x \in T : \E f \in F : x = SourceOf(rs, f)
      BY <1>6, <2>1, <2>2
    <3>2. \A f \in F : SourceOf(rs, f) \in T
      BY <1>1, <1>6, <2>1
    <3> HIDE DEF F
    <3> QED BY <3>1, <3>2
  <2>6. Cardinality(T) <= Cardinality(F)
    <3> HIDE DEF F
    <3> QED BY <1>4, <2>5, SourcesFew
  <2>7. Cardinality(T) <= k /\ Cardinality(T) \in Nat
    BY <1>4, <1>6, <1>9, <2>1, <2>6
  <2>8. AtMost(k, Cardinality(T)) = Cardinality(T)
    BY <2>7 DEF AtMost
  <2> QED BY <2>1, <2>4, <2>8 DEF kept
<1> QED BY <1>8, <1>9

LEMMA DiverseHolds ==
  ASSUME NEW rs \in Seq(Results), NEW k \in Nat,
         \A i, j \in DOMAIN rs : rs[i] = rs[j] => i = j
  PROVE  SelectDiverse(rs, k) \in Seq(Results) /\ Diverse(rs, SelectDiverse(rs, k), k)
<1>0. PICK n \in Nat : n = Len(rs) /\ DOMAIN rs = 1..n
  OBVIOUS
<1>1. CASE Len(rs) <= k
  <2>1. SelectDiverse(rs, k) = rs
    BY Zenon, <1>1 DEF SelectDiverse
  <2>2. Len(rs) = AtMost(k, Len(rs))
    BY <1>0, <1>1 DEF AtMost
  <2>3. Cardinality(Sources(rs)) = AtMost(k, Cardinality(Sources(rs)))
    <3>1. PICK c \in Nat : c = Cardinality(Sources(rs)) /\ c <= Len(rs)
      BY SourcesOf
    <3> QED BY <1>0, <1>1, <3>1 DEF AtMost
  <2>4. Diverse(rs, rs, k)
    BY Zenon, <2>2, <2>3 DEF Diverse
  <2> QED BY <2>1, <2>4
<1>2. CASE Len(rs) > k
  <2> DEFINE key == Diversity(rs)
             kept == SelectDiverse(rs, k)
  <2>1. /\ kept \in Seq(Results) /\ Len(kept) = k
        /\ \A m \in 1..k : \E i \in 1..n : SortPlace(key, i) = m /\ kept[m] = rs[i]
        /\ \A i \in 1..n : SortPlace(key, i) <= k => SortPlace(key, i) \in 1..k /\ kept[SortPlace(key, i)] = rs[i]
    BY <1>0, <1>2, KeptAre
  <2>2. Cardinality(Sources(kept)) = AtMost(k, Cardinality(Sources(rs)))
    BY <1>2, KeptSources
  <2>3. Len(kept) = AtMost(k, Len(rs))
    BY <1>0, <1>2, <2>1 DEF AtMost
  <2>4. /\ Keyed(key, 1..n)
        /\ \A i \in 1..n : key[i] = IF FirstOfSource(rs, i) THEN 1 ELSE 0
    BY <1>0, DiversityKeyed
  <2> HIDE DEF key, kept
  <2>5. ASSUME NEW i \in DOMAIN rs, NEW j \in DOMAIN rs, i < j,
               rs[i].chunk.source = rs[j].chunk.source, \E m \in DOMAIN kept : kept[m] = rs[j]
        PROVE  \E m \in DOMAIN kept : kept[m] = rs[i]
    <3>1. i \in 1..n /\ j \in 1..n /\ i \in Nat /\ j \in Nat /\ i >= 1
      BY <1>0
    <3>2. PICK m \in 1..k : kept[m] = rs[j]
      BY <2>1, <2>5
    <3>3. PICK l \in 1..n : SortPlace(key, l) = m /\ kept[m] = rs[l]
      BY <2>1
    <3>4. l = j
      BY <1>0, <3>1, <3>2, <3>3
    <3>5. ~FirstOfSource(rs, j)
      BY <2>5, <3>1, FirstsDiffer DEF SourceOf
    <3>6. key[j] = 0 /\ key[i] \in {0, 1}
      BY <2>4, <3>1, <3>5
    <3>7. key[i] >= key[j]
      BY <3>6
    <3>8. PICK p \in Nat : p = SortPlace(key, i) /\ p < SortPlace(key, j)
      <4>1. PICK D : D = 1..n /\ Keyed(key, D) /\ i \in D /\ j \in D
        BY <2>4, <3>1
      <4>2. SortPlace(key, i) \in Nat /\ SortPlace(key, i) < SortPlace(key, j)
        BY <2>5, <3>7, <4>1, KeyedPlaces
      <4> QED BY <4>2
    <3>9. p <= k
      BY <3>3, <3>4, <3>8
    <3>10. p \in 1..k /\ kept[p] = rs[i]
      BY <2>1, <3>1, <3>8, <3>9
    <3>11. p \in DOMAIN kept
      BY <2>1, <3>10
    <3> QED BY <3>10, <3>11
  <2>6. Diverse(rs, kept, k)
    BY Zenon, <2>2, <2>3, <2>5 DEF Diverse
  <2> QED BY <2>1, <2>6 DEF kept
<1> QED BY <1>0, <1>1, <1>2

-----------------------------------------------------------------------------
(* One retrieval, or one text cut.                                         *)

\* What each stage of a retrieval was made from.
AskedFor(t, asked) == [stage |-> "asked", task |-> t, asked |-> asked, policy |-> BuildPolicy(t, asked)]
RankedFor(t, asked, found) ==
  [stage |-> "ranked", task |-> t, policy |-> BuildPolicy(t, asked),
   ranked |-> Ranked(t, BuildPolicy(t, asked).reranker, found),
   results |-> SelectDiverse(Ranked(t, BuildPolicy(t, asked).reranker, found), BuildPolicy(t, asked).topK)]
PackedFrom(rs, b) ==
  [stage |-> "packed", results |-> rs, usage |-> PackResults(rs, b), tier |-> Tier(PackResults(rs, b))]
CutFrom(words) == [stage |-> "cut", words |-> words, chunks |-> ChunkText(words)]

RkStart  == rkCase = [stage |-> "start"]
RkAsked  == \E t \in RkTasks, asked \in Nat : rkCase = AskedFor(t, asked)
RkRanks  == \E t \in RkTasks, asked \in Nat : \E found : Finding(found) /\ rkCase = RankedFor(t, asked, found)
RkPacked == \E rs \in Seq(Results), b \in Nat : rkCase = PackedFrom(rs, b)
RkCut    == \E words \in Nat : rkCase = CutFrom(words)

RkInv == RkStart \/ RkAsked \/ RkRanks \/ RkPacked \/ RkCut

LEMMA PolicyFields ==
  ASSUME NEW t, NEW asked
  PROVE  /\ BuildPolicy(t, asked).topK = TopK(t, asked) /\ BuildPolicy(t, asked).limit = CandidateLimit(t)
         /\ BuildPolicy(t, asked).budget = TokenBudget(t) /\ BuildPolicy(t, asked).reranker = Reranker(t)
BY DEF BuildPolicy

LEMMA RkBounds ==
  ASSUME NEW t \in RkTasks, NEW asked \in Nat
  PROVE  /\ Tasklike(t) /\ TopK(t, asked) \in 1..24 /\ CandidateLimit(t) \in 256..5000
         /\ TokenBudget(t) \in 512..3072 /\ TopK(t, asked) \in Nat /\ TokenBudget(t) \in Nat
         /\ TopK(t, asked) <= CandidateLimit(t)
<1>1. Tasklike(t)
  BY TaskFields DEF Tasklike
<1> QED BY <1>1, PolicyBounds

LEMMA HarderTask ==
  ASSUME NEW t \in RkTasks, NEW asked \in Nat, NEW u, u = [t EXCEPT !.complexity = Harder(@)]
  PROVE  /\ TopK(t, asked) <= TopK(u, asked) /\ CandidateLimit(t) <= CandidateLimit(u)
         /\ TokenBudget(t) <= TokenBudget(u)
<1>1. /\ u.type = t.type /\ u.scope = t.scope /\ u.files = t.files /\ u.criteria = t.criteria
      /\ u.complexity = Harder(t.complexity)
  BY DEF RkTasks
<1>2. Tasklike(t)
  BY RkBounds
<1>3. Tasklike(u)
  BY <1>1, <1>2 DEF Tasklike
<1> QED BY <1>1, <1>2, <1>3, PolicyRises

LEMMA StageStart == RkStart => RankingSound
BY DEF RkStart, RankingSound, RkTypeOK, HarderGetsMore, DominanceKept, DiverseSelection, PackAccounts, ChunksCover

LEMMA StageAsked == RkAsked => RankingSound
<1> SUFFICES ASSUME RkAsked PROVE RankingSound
  OBVIOUS
<1>1. PICK t \in RkTasks, asked \in Nat : rkCase = AskedFor(t, asked)
  BY DEF RkAsked
<1>2. PICK p : p = BuildPolicy(t, asked)
  OBVIOUS
<1>3. rkCase.stage = "asked" /\ rkCase.task = t /\ rkCase.asked = asked /\ rkCase.policy = p
  BY <1>1, <1>2 DEF AskedFor
<1>4. PICK u : u = [t EXCEPT !.complexity = Harder(@)]
  OBVIOUS
<1>5. PICK h : h = BuildPolicy(u, asked)
  OBVIOUS
<1>6. /\ p.topK = TopK(t, asked) /\ p.limit = CandidateLimit(t) /\ p.budget = TokenBudget(t)
      /\ h.topK = TopK(u, asked) /\ h.limit = CandidateLimit(u) /\ h.budget = TokenBudget(u)
  BY SMTT(40), <1>2, <1>5, PolicyFields
<1>7. TopK(t, asked) \in 1..24 /\ CandidateLimit(t) \in 256..5000 /\ TokenBudget(t) \in 512..3072
  BY RkBounds
<1>8. /\ TopK(t, asked) <= TopK(u, asked) /\ CandidateLimit(t) <= CandidateLimit(u)
      /\ TokenBudget(t) <= TokenBudget(u)
  BY <1>4, HarderTask
<1>9. RkTypeOK
  <2>1. TopK(t, asked) <= CandidateLimit(t)
    BY RkBounds
  <2> QED BY SMT, <1>3, <1>6, <1>7, <2>1 DEF RkTypeOK
<1>10. /\ BuildPolicy(u, asked).topK >= p.topK /\ BuildPolicy(u, asked).limit >= p.limit
       /\ BuildPolicy(u, asked).budget >= p.budget
  <2>1. h.topK >= p.topK /\ h.limit >= p.limit /\ h.budget >= p.budget
    <3>1. TopK(u, asked) \in Int /\ CandidateLimit(u) \in Int /\ TokenBudget(u) \in Int
      <4>1. Tasklike(u)
        BY <1>4, TaskFields DEF Tasklike, RkTasks
      <4> QED BY <4>1, PolicyBounds
    <3> QED BY <1>6, <1>7, <1>8, <3>1
  <2> QED BY <1>5, <2>1
<1>11. HarderGetsMore
  BY Zenon, <1>3, <1>4, <1>10 DEF HarderGetsMore
<1> QED BY <1>3, <1>9, <1>11 DEF RankingSound, DominanceKept, DiverseSelection, PackAccounts, ChunksCover

LEMMA StageRanked == RkRanks => RankingSound
<1> SUFFICES ASSUME RkRanks PROVE RankingSound
  OBVIOUS
<1>0. PICK t \in RkTasks, asked \in Nat : \E found : Finding(found) /\ rkCase = RankedFor(t, asked, found)
  BY Zenon DEF RkRanks
<1>1. PICK found : Finding(found) /\ rkCase = RankedFor(t, asked, found)
  BY <1>0
<1>2. PICK w : w = Reranker(t)
  OBVIOUS
<1>3. PICK k \in Nat : k = TopK(t, asked)
  BY RkBounds
<1>4. PICK all : all = Ranked(t, w, found)
  OBVIOUS
<1>5. PICK kept : kept = SelectDiverse(all, k)
  OBVIOUS
<1>6. /\ rkCase.stage = "ranked" /\ rkCase.task = t /\ rkCase.policy = BuildPolicy(t, asked)
      /\ rkCase.ranked = Ranked(t, BuildPolicy(t, asked).reranker, found)
      /\ rkCase.results = SelectDiverse(Ranked(t, BuildPolicy(t, asked).reranker, found), BuildPolicy(t, asked).topK)
  BY <1>1 DEF RankedFor
<1>7. rkCase.ranked = all /\ rkCase.results = kept /\ rkCase.policy.topK = k
  BY <1>2, <1>3, <1>4, <1>5, <1>6, PolicyFields
<1>8. Weights(w)
  BY <1>2, RerankerWeights
<1>9. InPlace(all, t, w, found)
  BY <1>1, <1>4, <1>8, RankedFacts
<1>10. all \in Seq(Results)
  BY Zenon, <1>9 DEF InPlace
<1>11. DominanceKept
  <2>1. ASSUME NEW i \in DOMAIN all, NEW j \in DOMAIN all, all[i].at < all[j].at,
               AtLeastAsGood(t, all[i].chunk, all[j].chunk), all[i].chunk.imp # 100, all[i].chunk.conf # 100
        PROVE  i < j
    BY <1>1, <1>8, <1>9, <2>1, DominanceHolds
  <2> QED BY Zenon, <1>6, <1>7, <2>1 DEF DominanceKept
<1>12. DiverseSelection
  <2>1. \A i, j \in DOMAIN all : all[i] = all[j] => i = j
    BY <1>9, ResultsDistinct
  <2>2. Diverse(all, kept, k)
    BY <1>5, <1>10, <2>1, DiverseHolds
  <2> QED BY Zenon, <1>6, <1>7, <2>2 DEF DiverseSelection, Diverse
<1>13. RkTypeOK
  BY <1>6 DEF RkTypeOK
<1> QED BY <1>6, <1>11, <1>12, <1>13 DEF RankingSound, HarderGetsMore, PackAccounts, ChunksCover

LEMMA StagePacked == RkPacked => RankingSound
<1> SUFFICES ASSUME RkPacked PROVE RankingSound
  OBVIOUS
<1>1. PICK rs \in Seq(Results), b \in Nat : rkCase = PackedFrom(rs, b)
  BY DEF RkPacked
<1>2. PICK u : u = PackResults(rs, b)
  OBVIOUS
<1>3. rkCase.stage = "packed" /\ rkCase.results = rs /\ rkCase.usage = u
  BY <1>1, <1>2 DEF PackedFrom
<1>4. Packing(u, rs, b, Len(rs))
  BY <1>2, PackingEnds
<1>5. /\ u \in Usages /\ u.budget = b /\ u.candidates = Len(rs) /\ u.used <= b
      /\ (u.packed = <<>> <=> \A i \in 1..Len(rs) : Over(rs, b, i))
      /\ ~u.full => Len(u.packed) + u.truncated = Len(rs)
      /\ u.full => /\ Len(u.packed) + u.truncated >= Len(rs)
                   /\ (\A i \in 1..Len(rs) : ~Over(rs, b, i)) => Len(u.packed) + u.truncated = Len(rs)
  BY Zenon, <1>4 DEF Packing
<1>6. PICK n \in Nat, m \in Nat : n = Len(rs) /\ m = Len(u.packed) + u.truncated /\ DOMAIN rs = 1..n
  <2>1. Len(u.packed) \in Nat /\ u.truncated \in Nat
    BY <1>5 DEF Usages
  <2> QED BY <2>1
<1> DEFINE oversized == {i \in DOMAIN rs : Tokens(rs[i].chunk) > b}
<1>7. \A i \in 1..n : i \in oversized <=> Over(rs, b, i)
  BY <1>6 DEF Over
<1>8. oversized \in SUBSET (1..n)
  BY <1>6
<1>9. oversized = DOMAIN rs <=> \A i \in 1..n : Over(rs, b, i)
  <2> HIDE DEF oversized
  <2> QED BY <1>6, <1>7, <1>8
<1>10. oversized = {} => \A i \in 1..n : ~Over(rs, b, i)
  <2> HIDE DEF oversized
  <2> QED BY <1>7
<1>11. m >= n /\ (oversized = {} => m = n)
  <2> HIDE DEF oversized
  <2> QED BY <1>5, <1>6, <1>10
<1>12. (u.packed = <<>>) = (oversized = DOMAIN rs)
  <2> HIDE DEF oversized
  <2> QED BY <1>5, <1>6, <1>9
<1>13. PackAccounts
  <2>1. Len(u.packed) + u.truncated >= u.candidates /\ (oversized = {} => Len(u.packed) + u.truncated = u.candidates)
    <3> HIDE DEF oversized
    <3> QED BY <1>5, <1>6, <1>11
  <2> QED BY Zenon, <1>3, <1>5, <1>12, <2>1 DEF PackAccounts
<1>14. RkTypeOK
  BY <1>3 DEF RkTypeOK
<1> QED BY <1>3, <1>13, <1>14 DEF RankingSound, HarderGetsMore, DominanceKept, DiverseSelection, ChunksCover

LEMMA StageCut == RkCut => RankingSound
<1> SUFFICES ASSUME RkCut PROVE RankingSound
  OBVIOUS
<1>1. PICK words \in Nat : rkCase = CutFrom(words)
  BY DEF RkCut
<1>2. rkCase.stage = "cut" /\ rkCase.words = words /\ rkCase.chunks = ChunkText(words)
  BY <1>1 DEF CutFrom
<1>3. ChunksCover
  <2>1. PICK cs : cs = ChunkText(words)
    OBVIOUS
  <2>2. /\ UNION cs = 1..words /\ \A c \in cs : Cardinality(c) <= 120
        /\ \A c, d \in cs : c \subseteq d => c = d
    BY Zenon, <2>1, TextCovered
  <2> QED BY <1>2, <2>1, <2>2 DEF ChunksCover
<1>4. RkTypeOK
  BY <1>2 DEF RkTypeOK
<1> QED BY <1>2, <1>3, <1>4 DEF RankingSound, HarderGetsMore, DominanceKept, DiverseSelection, PackAccounts

LEMMA RankingImplied == RkInv => RankingSound
BY StageStart, StageAsked, StageRanked, StagePacked, StageCut DEF RkInv

\* What a retrieval keeps are results.
LEMMA KeptResults ==
  ASSUME NEW t \in RkTasks, NEW asked \in Nat, NEW found, Finding(found)
  PROVE  SelectDiverse(Ranked(t, Reranker(t), found), TopK(t, asked)) \in Seq(Results)
<1>1. PICK w, all : w = Reranker(t) /\ all = Ranked(t, w, found)
  OBVIOUS
<1>2. PICK k \in Nat : k = TopK(t, asked)
  BY RkBounds
<1>3. InPlace(all, t, w, found)
  BY <1>1, RerankerWeights, RankedFacts
<1>4. all \in Seq(Results)
  BY Zenon, <1>3 DEF InPlace
<1>5. \A i, j \in DOMAIN all : all[i] = all[j] => i = j
  BY <1>3, ResultsDistinct
<1>6. SelectDiverse(all, k) \in Seq(Results)
  BY <1>4, <1>5, DiverseHolds
<1> QED BY <1>1, <1>2, <1>6

LEMMA RkNextInv == RkInv /\ [RkNext]_rkVars => RkInv'
<1> SUFFICES ASSUME RkInv, [RkNext]_rkVars PROVE RkInv'
  OBVIOUS
<1>0. /\ RkStart => rkCase.stage = "start"
      /\ RkAsked => rkCase.stage = "asked"
      /\ RkRanks => rkCase.stage = "ranked"
      /\ RkPacked => rkCase.stage = "packed"
      /\ RkCut => rkCase.stage = "cut"
  <2>1. RkStart => rkCase.stage = "start"
    BY DEF RkStart
  <2>2. RkAsked => rkCase.stage = "asked"
    BY DEF RkAsked, AskedFor
  <2>3. RkRanks => rkCase.stage = "ranked"
    BY DEF RkRanks, RankedFor
  <2>4. RkPacked => rkCase.stage = "packed"
    BY DEF RkPacked, PackedFrom
  <2>5. RkCut => rkCase.stage = "cut"
    BY DEF RkCut, CutFrom
  <2> QED BY <2>1, <2>2, <2>3, <2>4, <2>5
<1>1. CASE Ask
  <2>1. PICK t \in RkTasks, asked \in RkAskedTopK : rkCase' = AskedFor(t, asked)
    BY Zenon, <1>1 DEF Ask, AskedFor
  <2>2. RkAskedTopK \subseteq Nat
    BY Zenon, RankingAssumption
  <2>3. asked \in Nat
    BY <2>2
  <2> QED BY Zenon, <2>1, <2>3 DEF RkInv, RkAsked
<1>2. CASE Rank
  <2>1. rkCase.stage = "asked"
    BY <1>2 DEF Rank
  <2>2. RkAsked
    BY <1>0, <2>1 DEF RkInv
  <2>3. PICK t \in RkTasks, asked \in Nat : rkCase = AskedFor(t, asked)
    BY <2>2 DEF RkAsked
  <2>4. rkCase.task = t /\ rkCase.policy = BuildPolicy(t, asked)
    BY <2>3 DEF AskedFor
  <2>5. PICK n \in 0..RkMaxFound : \E found \in [1..n -> RkChunks] :
          rkCase' = [stage |-> "ranked", task |-> rkCase.task, policy |-> rkCase.policy,
                     ranked |-> Ranked(rkCase.task, rkCase.policy.reranker, found),
                     results |-> SelectDiverse(Ranked(rkCase.task, rkCase.policy.reranker, found), rkCase.policy.topK)]
    BY Zenon, <1>2 DEF Rank
  <2>6. PICK found \in [1..n -> RkChunks] :
          rkCase' = [stage |-> "ranked", task |-> rkCase.task, policy |-> rkCase.policy,
                     ranked |-> Ranked(rkCase.task, rkCase.policy.reranker, found),
                     results |-> SelectDiverse(Ranked(rkCase.task, rkCase.policy.reranker, found), rkCase.policy.topK)]
    BY <2>5
  <2>7. RkMaxFound \in Nat
    BY Zenon, RankingAssumption
  <2>8. Finding(found)
    BY <2>7 DEF Finding
  <2>9. rkCase' = RankedFor(t, asked, found)
    BY Zenon, <2>4, <2>6 DEF RankedFor
  <2> QED BY Zenon, <2>8, <2>9 DEF RkInv, RkRanks
<1>3. CASE Pack
  <2>1. rkCase.stage = "ranked"
    BY <1>3 DEF Pack
  <2>2. RkRanks
    BY <1>0, <2>1 DEF RkInv
  <2>a. PICK t \in RkTasks, asked \in Nat : \E found : Finding(found) /\ rkCase = RankedFor(t, asked, found)
    BY Zenon, <2>2 DEF RkRanks
  <2>3. PICK found : Finding(found) /\ rkCase = RankedFor(t, asked, found)
    BY <2>a
  <2>4. /\ rkCase.results = SelectDiverse(Ranked(t, BuildPolicy(t, asked).reranker, found), BuildPolicy(t, asked).topK)
        /\ rkCase.policy = BuildPolicy(t, asked)
    BY <2>3 DEF RankedFor
  <2>5. /\ rkCase.results = SelectDiverse(Ranked(t, Reranker(t), found), TopK(t, asked))
        /\ rkCase.policy.budget = TokenBudget(t)
    BY <2>4, PolicyFields
  <2>6. SelectDiverse(Ranked(t, Reranker(t), found), TopK(t, asked)) \in Seq(Results)
    BY <2>3, KeptResults
  <2>7. PICK rs \in Seq(Results), b \in Nat : rs = rkCase.results /\ b = rkCase.policy.budget
    <3>1. TokenBudget(t) \in Nat
      BY RkBounds
    <3> QED BY <2>5, <2>6, <3>1
  <2>8. rkCase' = [stage |-> "packed", results |-> rkCase.results,
                   usage |-> PackResults(rkCase.results, rkCase.policy.budget),
                   tier |-> Tier(PackResults(rkCase.results, rkCase.policy.budget))]
    BY Zenon, <1>3 DEF Pack
  <2>9. rkCase' = PackedFrom(rs, b)
    BY Zenon, <2>7, <2>8 DEF PackedFrom
  <2> QED BY Zenon, <2>9 DEF RkInv, RkPacked
<1>4. CASE Cut
  <2>1. PICK words \in RkWords : rkCase' = CutFrom(words)
    BY Zenon, <1>4 DEF Cut, CutFrom
  <2>2. RkWords \subseteq Nat
    BY Zenon, RankingAssumption
  <2>3. words \in Nat
    BY <2>2
  <2> QED BY Zenon, <2>1, <2>3 DEF RkInv, RkCut
<1>5. CASE UNCHANGED rkVars
  BY Zenon, <1>5 DEF rkVars, RkInv, RkStart, RkAsked, RkRanks, RkPacked, RkCut
<1> QED BY <1>1, <1>2, <1>3, <1>4, <1>5 DEF RkNext

\* Whatever a memory manager wrote, lost and listed, retrieval finds what it
\* acknowledged; and of what is found, better chunks come first, every source
\* has its best, the budget is kept, harder tasks get no less and the chunks
\* hold all of a text: for any items, tasks, chunks and texts.
THEOREM RetrievalSoundCorrect == MeSpec /\ RkSpec => []RetrievalSound
<1>1. RkInit => RkInv
  BY DEF RkInit, RkInv, RkStart
<1>2. RkSpec => []RankingSound
  BY <1>1, RkNextInv, RankingImplied, PTL DEF RkSpec
<1> QED BY <1>2, RecordsFoundCorrect, PTL DEF RetrievalSound

=============================================================================
