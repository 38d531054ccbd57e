--------------------------- MODULE ExecutionProofs ---------------------------
(***************************************************************************)
(* Theorems about the execution of agents: the kernel's slots for any      *)
(* number of jobs and any limits, the streamed tasks of providers for any  *)
(* number of tasks, gates and retries, and the probes of providers for any *)
(* queue and any durations.                                                *)
(***************************************************************************)
EXTENDS MCExecutionSlots, SequenceTheorems, FiniteSetTheorems, TLAPS

\* One element may come or go: the size follows.
LEMMA SizeStep ==
  ASSUME NEW S, NEW T, NEW x, IsFiniteSet(S), S \ {x} = T \ {x}
  PROVE  /\ IsFiniteSet(T) /\ Cardinality(S) \in Nat /\ Cardinality(T) \in Nat
         /\ (x \in S <=> x \in T) => Cardinality(T) = Cardinality(S)
         /\ x \in T /\ x \notin S => Cardinality(T) = Cardinality(S) + 1
         /\ x \in S /\ x \notin T => Cardinality(T) = Cardinality(S) - 1
<1>1. CASE x \in S <=> x \in T
  <2>1. S = T
    BY <1>1
  <2> QED BY <1>1, <2>1, FS_CardinalityType
<1>2. CASE x \in T /\ x \notin S
  <2>1. T = S \cup {x}
    BY <1>2
  <2>2. IsFiniteSet(T) /\ Cardinality(T) = Cardinality(S) + 1
    BY <1>2, <2>1, FS_AddElement
  <2> QED BY <1>2, <2>2, FS_CardinalityType
<1>3. CASE x \in S /\ x \notin T
  <2>1. T = S \ {x}
    BY <1>3
  <2>2. IsFiniteSet(T) /\ Cardinality(T) = Cardinality(S) - 1
    BY <1>3, <2>1, FS_RemoveElement
  <2> QED BY <1>3, <2>2, FS_CardinalityType
<1> QED BY <1>1, <1>2, <1>3

\* The elements of a sequence by their places.
LEMMA ToSetOfSeq ==
  ASSUME NEW S, NEW s \in Seq(S)
  PROVE  ToSet(s) = {s[i] : i \in 1 .. Len(s)}
  BY LenProperties DEF ToSet

LEMMA ToSetAppend ==
  ASSUME NEW S, NEW s \in Seq(S), NEW e \in S
  PROVE  ToSet(Append(s, e)) = ToSet(s) \cup {e}
<1> DEFINE t == Append(s, e)
<1>1. /\ t \in Seq(S) /\ Len(t) = Len(s) + 1 /\ Len(s) \in Nat
      /\ \A i \in 1 .. Len(s) : t[i] = s[i]
      /\ t[Len(s) + 1] = e
  BY AppendProperties, LenProperties
<1> HIDE DEF t
<1>2. ToSet(t) = {t[i] : i \in 1 .. Len(s) + 1} /\ ToSet(s) = {s[i] : i \in 1 .. Len(s)}
  BY <1>1, ToSetOfSeq
<1>3. ASSUME NEW x \in ToSet(t) PROVE x \in ToSet(s) \cup {e}
  BY <1>1, <1>2
<1>4. ASSUME NEW x \in ToSet(s) \cup {e} PROVE x \in ToSet(t)
  <2>1. CASE x = e
    <3>1. Len(s) + 1 \in 1 .. Len(s) + 1
      BY <1>1
    <3> QED BY <1>1, <1>2, <2>1, <3>1
  <2>2. CASE x # e
    <3>1. PICK i \in 1 .. Len(s) : x = s[i]
      BY <1>2, <1>4, <2>2
    <3>2. i \in 1 .. Len(s) + 1 /\ t[i] = x
      BY <1>1, <3>1
    <3> QED BY <1>2, <3>2
  <2> QED BY <2>1, <2>2
<1> QED BY <1>3, <1>4 DEF t

-----------------------------------------------------------------------------
(* The kernel's slots.                                                     *)

\* A job's slots are a beginning of its chain.
HeldOf(j) ==
  /\ Len(held[j]) <= Len(Chain(j))
  /\ \A i \in 1 .. Len(held[j]) : held[j][i] = Chain(j)[i]

SlotInv ==
  /\ used \in [Slots -> Nat] /\ step \in [Jobs -> Steps]
  /\ held \in [Jobs -> Seq(Slots)] /\ \A j \in Jobs : HeldOf(j)
  /\ sample \in [Jobs -> Nat] /\ reported \in [Agents -> Nat]
  /\ SlotAccounting

\* The channels of a chain are different ones, and each has a limit.
LEMMA ChainFacts ==
  ASSUME NEW j \in Jobs
  PROVE  /\ Chain(j) \in Seq(Slots)
         /\ \A a, b \in 1 .. Len(Chain(j)) : Chain(j)[a] = Chain(j)[b] => a = b
         /\ \A a \in 1 .. Len(Chain(j)) : Limit(Chain(j)[a]) > 0
<1> DEFINE g == Slot(Global)
           m == Slot(AgentOf[j])
           n == Slot(ModelOf[j])
<1>1. /\ AgentOf[j] \in Slots /\ ModelOf[j] \in Slots /\ Global \in Slots
      /\ Global # AgentOf[j] /\ Global # ModelOf[j] /\ AgentOf[j] # ModelOf[j]
  BY SlotsAssumption DEF Slots, Agents, Models
<1>2. ASSUME NEW s \in Slots
      PROVE  /\ Slot(s) \in Seq(Slots) /\ Len(Slot(s)) \in {0, 1}
             /\ \A a \in 1 .. Len(Slot(s)) : Slot(s)[a] = s /\ Limit(s) > 0
  BY DEF Slot
<1>3. /\ g \in Seq(Slots) /\ Len(g) \in {0, 1}
      /\ \A a \in 1 .. Len(g) : g[a] = Global /\ Limit(Global) > 0
  BY <1>1, <1>2
<1>4. /\ m \in Seq(Slots) /\ Len(m) \in {0, 1}
      /\ \A a \in 1 .. Len(m) : m[a] = AgentOf[j] /\ Limit(AgentOf[j]) > 0
  BY <1>1, <1>2
<1>5. /\ n \in Seq(Slots) /\ Len(n) \in {0, 1}
      /\ \A a \in 1 .. Len(n) : n[a] = ModelOf[j] /\ Limit(ModelOf[j]) > 0
  BY <1>1, <1>2
<1> HIDE DEF g, m, n
<1>6. Chain(j) = (g \o m) \o n
  BY DEF Chain, g, m, n
<1>7. /\ g \o m \in Seq(Slots) /\ Len(g \o m) = Len(g) + Len(m)
      /\ \A i \in 1 .. Len(g) + Len(m) : (g \o m)[i] = IF i <= Len(g) THEN g[i] ELSE m[i - Len(g)]
  BY <1>3, <1>4, ConcatProperties
<1> DEFINE h == g \o m
<1>8. /\ h \o n \in Seq(Slots) /\ Len(h \o n) = Len(h) + Len(n)
      /\ \A i \in 1 .. Len(h) + Len(n) : (h \o n)[i] = IF i <= Len(h) THEN h[i] ELSE n[i - Len(h)]
  <2> HIDE DEF h
  <2>1. h \in Seq(Slots)
    BY <1>7 DEF h
  <2> QED BY <1>5, <2>1, ConcatProperties
<1>9. \A i \in 1 .. Len(h) : \/ i = 1 /\ Len(g) = 1 /\ h[i] = Global /\ Limit(Global) > 0
                             \/ i = Len(g) + 1 /\ Len(m) = 1 /\ h[i] = AgentOf[j] /\ Limit(AgentOf[j]) > 0
  BY <1>3, <1>4, <1>7
<1> DEFINE c == h \o n
<1>10. \A i \in 1 .. Len(c) :
          \/ i = 1 /\ Len(g) = 1 /\ c[i] = Global /\ Limit(Global) > 0
          \/ i = Len(g) + 1 /\ Len(m) = 1 /\ c[i] = AgentOf[j] /\ Limit(AgentOf[j]) > 0
          \/ i = Len(h) + 1 /\ Len(n) = 1 /\ c[i] = ModelOf[j] /\ Limit(ModelOf[j]) > 0
  <2> HIDE DEF h
  <2>1. Len(h) \in Nat
    BY <1>3, <1>4, <1>7 DEF h
  <2> QED BY <1>5, <1>8, <1>9, <2>1
<1>11. c = Chain(j) /\ c \in Seq(Slots)
  BY <1>6, <1>8
<1> HIDE DEF c, h
<1> QED BY <1>1, <1>10, <1>11

LEMMA SlotInvImplies == SlotInv => TypeOK /\ SlotAccounting
<1> SUFFICES ASSUME SlotInv, NEW j \in Jobs PROVE IsPrefix(held[j], Chain(j))
  BY DEF SlotInv, TypeOK
<1> DEFINE h == held[j]
           c == Chain(j)
           n == Len(h)
<1>1. /\ h \in Seq(Slots) /\ c \in Seq(Slots) /\ n \in Nat /\ n <= Len(c)
      /\ \A i \in 1 .. n : h[i] = c[i] /\ h[i] \in Slots
  BY ChainFacts, LenProperties DEF SlotInv, HeldOf
<1> HIDE DEF h, c
<1>2. /\ SubSeq(h, 1, n) \in Seq(Slots) /\ Len(SubSeq(h, 1, n)) = n
      /\ \A i \in 1 .. n : SubSeq(h, 1, n)[i] = h[i]
  BY <1>1, SubSeqProperties
<1>3. /\ SubSeq(c, 1, n) \in Seq(Slots) /\ Len(SubSeq(c, 1, n)) = n
      /\ \A i \in 1 .. n : SubSeq(c, 1, n)[i] = c[i]
  BY <1>1, SubSeqProperties
<1>4. SubSeq(h, 1, n) = SubSeq(c, 1, n)
  BY <1>1, <1>2, <1>3, SeqEqual
<1> QED BY <1>1, <1>4 DEF IsPrefix, h, c

\* A job that takes a slot more, or gives one back, is one holder more or less
\* of that slot and of no other.
LEMMA HoldersStep ==
  ASSUME SlotInv, NEW j \in Jobs, NEW s \in Slots,
         used' \in [Slots -> Nat], held' \in [Jobs -> Seq(Slots)],
         HeldOf(j)', \A i \in Jobs \ {j} : held'[i] = held[i],
         \A x \in Slots \ {s} : used'[x] = used[x] /\ (x \in ToSet(held[j]) <=> x \in ToSet(held'[j])),
         \/ /\ s \in ToSet(held'[j]) /\ s \notin ToSet(held[j])
            /\ used'[s] = used[s] + 1 /\ used[s] < Limit(s)
         \/ /\ s \in ToSet(held[j]) /\ s \notin ToSet(held'[j])
            /\ used'[s] = used[s] - 1,
         UNCHANGED <<step, sample, reported>>
  PROVE  SlotInv'
<1>1. ASSUME NEW i \in Jobs PROVE HeldOf(i)'
  <2>1. CASE i = j BY <2>1
  <2>2. CASE i # j BY <2>2, SMTT(40) DEF SlotInv, HeldOf
  <2> QED BY <2>1, <2>2
<1>2. ASSUME NEW x \in Slots
      PROVE  /\ used'[x] = Cardinality(Holders(x)')
             /\ used'[x] <= IF Limit(x) > 0 THEN Limit(x) ELSE 0
  <2>1. Holders(x) \subseteq Jobs /\ Holders(x)' \subseteq Jobs
        /\ Holders(x) \ {j} = Holders(x)' \ {j}
    BY DEF Holders
  <2>2. IsFiniteSet(Holders(x))
    BY <2>1, FS_Subset, SlotsAssumption
  <2>3. /\ j \in Holders(x) <=> x \in ToSet(held[j])
        /\ j \in Holders(x)' <=> x \in ToSet(held'[j])
    BY DEF Holders
  <2>4. /\ Cardinality(Holders(x)) \in Nat /\ Cardinality(Holders(x)') \in Nat
        /\ (j \in Holders(x) <=> j \in Holders(x)') => Cardinality(Holders(x)') = Cardinality(Holders(x))
        /\ j \in Holders(x)' /\ j \notin Holders(x) => Cardinality(Holders(x)') = Cardinality(Holders(x)) + 1
        /\ j \in Holders(x) /\ j \notin Holders(x)' => Cardinality(Holders(x)') = Cardinality(Holders(x)) - 1
    <3> HIDE DEF Holders
    <3> QED BY <2>1, <2>2, SizeStep
  <2>5. used[x] = Cardinality(Holders(x)) /\ used[x] \in Nat
        /\ used[x] <= IF Limit(x) > 0 THEN Limit(x) ELSE 0
    BY DEF SlotInv, SlotAccounting
  <2>6. Limit(x) \in Int
    BY SlotsAssumption DEF Limit
  <2>7. CASE x # s
    BY <2>3, <2>4, <2>5, <2>7
  <2>8. CASE x = s
    BY <2>3, <2>4, <2>5, <2>6, <2>8
  <2> QED BY <2>7, <2>8
<1>3. SlotAccounting'
  BY <1>2 DEF SlotAccounting, Limit
<1> QED BY <1>1, <1>3 DEF SlotInv

LEMMA SlotNextInv == ASSUME SlotInv, [Next]_vars PROVE SlotInv'
<1>1. ASSUME NEW j \in Jobs, Acquire(j) PROVE SlotInv'
  <2> DEFINE h == held[j]
             s == Wanted(j)
  <2>1. /\ h \in Seq(Slots) /\ Len(h) \in Nat /\ Len(h) + 1 \in 1 .. Len(Chain(j))
        /\ \A i \in 1 .. Len(h) : h[i] = Chain(j)[i]
    BY <1>1, ChainFacts DEF Acquire, SlotInv, HeldOf
  <2>2. s \in Slots /\ s = Chain(j)[Len(h) + 1]
    BY <2>1, ChainFacts, ElementOfSeq DEF Wanted
  <2>3. /\ held'[j] = Append(h, s) /\ held' \in [Jobs -> Seq(Slots)]
        /\ \A i \in Jobs \ {j} : held'[i] = held[i]
    BY <1>1, <2>1, <2>2, AppendProperties DEF Acquire, SlotInv
  <2>4. /\ Len(held'[j]) = Len(h) + 1
        /\ \A i \in 1 .. Len(h) : held'[j][i] = h[i]
        /\ held'[j][Len(h) + 1] = s
    BY <2>1, <2>2, <2>3, AppendProperties
  <2>5. HeldOf(j)'
    <3>1. Chain(j)' = Chain(j)
      BY DEF Chain, Slot, Limit, Agents
    <3>2. \A i \in 1 .. Len(h) + 1 : held'[j][i] = Chain(j)[i]
      BY <2>1, <2>2, <2>4
    <3> QED BY <2>1, <2>4, <3>1, <3>2 DEF HeldOf
  <2>6. ToSet(held'[j]) = ToSet(h) \cup {s}
    BY <2>1, <2>2, <2>3, ToSetAppend
  <2>7. s \notin ToSet(h)
    BY <2>1, <2>2, ChainFacts, SMTT(40) DEF ToSet
  <2>8. /\ used' \in [Slots -> Nat] /\ used'[s] = used[s] + 1 /\ used[s] < Limit(s)
        /\ \A x \in Slots \ {s} : used'[x] = used[x]
    BY <1>1, <2>2 DEF Acquire, SlotInv
  <2>9. UNCHANGED <<step, sample, reported>>
    BY <1>1 DEF Acquire
  <2> HIDE DEF s
  <2> QED BY <2>2, <2>3, <2>5, <2>6, <2>7, <2>8, <2>9, HoldersStep
<1>2. ASSUME NEW j \in Jobs, Release(j) PROVE SlotInv'
  <2> DEFINE h == held[j]
             n == Len(h)
             s == h[n]
  <2>1. h \in Seq(Slots) /\ h # <<>> /\ n \in Nat /\ n > 0
        /\ \A i \in 1 .. n : h[i] = Chain(j)[i] /\ h[i] \in Slots
    BY <1>2, EmptySeq, LenProperties DEF Release, SlotInv, HeldOf
  <2>2. /\ Front(h) \in Seq(Slots) /\ Len(Front(h)) = n - 1
        /\ \A i \in 1 .. n - 1 : Front(h)[i] = h[i]
    BY <2>1, SubSeqProperties DEF Front
  <2>3. /\ held'[j] = Front(h) /\ held' \in [Jobs -> Seq(Slots)]
        /\ \A i \in Jobs \ {j} : held'[i] = held[i]
    BY <1>2, <2>2 DEF Release, SlotInv
  <2>4. n <= Len(Chain(j)) /\ Len(Chain(j)) \in Nat
    BY ChainFacts, LenProperties DEF SlotInv, HeldOf
  <2>5. HeldOf(j)'
    BY <2>1, <2>2, <2>3, <2>4 DEF HeldOf, Chain, Slot, Limit
  <2>6. s \in Slots /\ s \in ToSet(h)
    BY <2>1 DEF ToSet
  <2>7. ToSet(held'[j]) = {h[i] : i \in 1 .. n - 1} /\ ToSet(h) = {h[i] : i \in 1 .. n}
    <3> HIDE DEF h
    <3>1. {Front(h)[i] : i \in 1 .. n - 1} = {h[i] : i \in 1 .. n - 1}
      BY <2>2
    <3>2. ToSet(Front(h)) = {Front(h)[i] : i \in 1 .. n - 1}
      BY <2>2, ToSetOfSeq
    <3>3. ToSet(h) = {h[i] : i \in 1 .. n}
      BY <2>1, ToSetOfSeq
    <3> HIDE DEF n
    <3> QED BY <2>3, <3>1, <3>2, <3>3
  <2>8. s \notin ToSet(held'[j])
    BY <2>1, <2>4, <2>7, ChainFacts
  <2>9. \A x \in Slots \ {s} : x \in ToSet(h) <=> x \in ToSet(held'[j])
    BY <2>1, <2>7
  <2>10. s \in ToSet(h) /\ used[s] > 0
    <3>1. j \in Holders(s) /\ Holders(s) \subseteq Jobs
      BY <2>6 DEF Holders
    <3>2. IsFiniteSet(Holders(s)) /\ Holders(s) # {}
      BY <3>1, FS_Subset, SlotsAssumption
    <3>3. Cardinality(Holders(s)) \in Nat /\ Cardinality(Holders(s)) # 0
      BY <3>2, FS_CardinalityType, FS_EmptySet
    <3> QED BY <2>6, <3>3 DEF SlotInv, SlotAccounting
  <2>11. /\ used' \in [Slots -> Nat] /\ used'[s] = used[s] - 1
         /\ \A x \in Slots \ {s} : used'[x] = used[x]
    BY <1>2, <2>6, <2>10 DEF Release, SlotInv, Last
  <2>12. UNCHANGED <<step, sample, reported>>
    BY <1>2 DEF Release
  <2> HIDE DEF s
  <2> QED BY <2>3, <2>5, <2>6, <2>8, <2>9, <2>11, <2>12, HoldersStep
<1>3. ASSUME UNCHANGED <<used, held>>, step' \in [Jobs -> Steps], sample' \in [Jobs -> Nat],
             reported' \in [Agents -> Nat]
      PROVE  SlotInv'
  BY <1>3 DEF SlotInv, SlotAccounting, Holders, HeldOf
<1>4. ASSUME NEW j \in Jobs, Acquired(j) \/ Cancelled(j) \/ Execute(j) \/ Released(j)
      PROVE  SlotInv'
  BY <1>3, <1>4 DEF Acquired, Cancelled, Execute, Released, Goto, Steps, SlotInv
<1>5. ASSUME NEW j \in Jobs, Sample(j) PROVE SlotInv'
  <2>1. AgentUsage(j) \in Nat
    BY SlotsAssumption DEF AgentUsage, SlotInv, Slots, Agents
  <2> QED BY <1>3, <1>5, <2>1 DEF Sample, Goto, Steps, SlotInv
<1>6. ASSUME NEW j \in Jobs, Report(j) PROVE SlotInv'
  BY <1>3, <1>6 DEF Report, Goto, Steps, SlotInv
<1>7. CASE UNCHANGED vars
  BY <1>3, <1>7 DEF vars, SlotInv
<1> QED BY <1>1, <1>2, <1>4, <1>5, <1>6, <1>7 DEF Next, Run

-----------------------------------------------------------------------------
(* Tasks on providers.                                                     *)

Places == {"idle", "gate", "answered", "tool", "result", "closed"} \cup HoldsKey \cup Sending
Modes  == {"native", "buffered"}
Counts == [native : Nat, buffered : Nat]

ExecTypes ==
  /\ at \in [Tasks -> Places] /\ mode \in [Tasks -> Modes]
  /\ round \in [Tasks -> 0 .. (MaxRounds - 1)] /\ tries \in [Tasks -> Nat]
  /\ emitted \in [Tasks -> Counts] /\ shown \in [Tasks -> Counts]
  /\ deltas \in [Tasks -> Seq(Modes \X Nat)]
  /\ verdict \in [Tasks -> {"none", "done", "failed"}] /\ handed \in [Tasks -> BOOLEAN]
  /\ slots \in [Gates -> 0 .. GateMax]
  /\ reader \in [Tasks -> {"none", "reading", "left", "returned"}]
  /\ got \in [Tasks -> {"none", "done", "failed"}] /\ ended \in [Tasks -> BOOLEAN]

\* What was sent and not yet read, run by run.
Waiting(t, run) == emitted[t][run] - shown[t][run]

DeltasOf(t) ==
  /\ shown[t].native <= emitted[t].native /\ shown[t].buffered <= emitted[t].buffered
  /\ Len(deltas[t]) = Waiting(t, "native") + Waiting(t, "buffered")
  /\ Len(deltas[t]) <= DeltaBuffer
  /\ \A i \in 1 .. Len(deltas[t]) :
       deltas[t][i] = IF i <= Waiting(t, "native") THEN <<"native", shown[t].native + i>>
                      ELSE <<"buffered", shown[t].buffered + i - Waiting(t, "native")>>
  /\ shown[t].buffered > 0 => Waiting(t, "native") = 0
  /\ mode[t] = "native" => emitted[t].buffered = 0

\* A result is taken only when it was sent, and stays the agent's last.
ResultOf(t) ==
  /\ at[t] = "idle" => reader[t] = "none" /\ got[t] = "none"
  /\ handed[t] <=> at[t] = "closed"
  /\ got[t] # "none" /\ reader[t] # "left" => handed[t] /\ got[t] = verdict[t]
  /\ reader[t] = "returned" => got[t] # "none" /\ deltas[t] = <<>>

ExecInv ==
  /\ ExecTypes /\ SlotsAreHeld
  /\ \A t \in Tasks : DeltasOf(t) /\ ResultOf(t)

\* Whether the task has one of the gate's slots at that place.
Holds(t, g, place) == \/ KeyGate[t] = g /\ place \in HoldsKey
                      \/ ModelGate[t] = g /\ place \in HoldsModel

\* What a step of the agent's goroutine that ends at q, in mode m, may change.
AgentEffect(t, q, m) ==
  /\ at[t] # "closed" /\ at' = [at EXCEPT ![t] = q] /\ q \in Places \ {"idle"}
  /\ mode' = [mode EXCEPT ![t] = m] /\ m \in Modes /\ (mode[t] = "buffered" => m = "buffered")
  /\ slots' = [g \in Gates |-> IF Holds(t, g, q) /\ ~Holds(t, g, at[t]) THEN slots[g] + 1
                               ELSE IF ~Holds(t, g, q) /\ Holds(t, g, at[t]) THEN slots[g] - 1
                               ELSE slots[g]]
  /\ \A g \in Gates : Holds(t, g, q) /\ ~Holds(t, g, at[t]) => slots[g] < GateMax
  /\ round' \in [Tasks -> 0 .. (MaxRounds - 1)] /\ tries' \in [Tasks -> Nat]
  /\ verdict' \in [Tasks -> {"none", "done", "failed"}]
  /\ \A u \in Tasks \ {t} : verdict'[u] = verdict[u]
  /\ UNCHANGED <<emitted, deltas>> \/ SendDelta(t)
  /\ handed' = [handed EXCEPT ![t] = (q = "closed")]
  /\ \/ UNCHANGED reader
     \/ at[t] = "idle" /\ reader' = [reader EXCEPT ![t] = "reading"]
  /\ UNCHANGED <<got, shown, ended>>

LEMMA ExecInvImplies == ExecInv => DeltasWhole /\ SlotsAreHeld
<1> SUFFICES ASSUME ExecInv PROVE DeltasWhole
  BY DEF ExecInv
<1>1. ExecTypeOK
  BY DEF ExecInv, ExecTypes, ExecTypeOK, DeltasOf, Places, Modes
<1>2. ASSUME NEW t \in Tasks
      PROVE  /\ deltas[t] = [i \in 1 .. (Waiting(t, "native") + Waiting(t, "buffered")) |->
                               IF i <= Waiting(t, "native") THEN <<"native", shown[t].native + i>>
                               ELSE <<"buffered", shown[t].buffered + i - Waiting(t, "native")>>]
             /\ shown[t].buffered > 0 => Waiting(t, "native") = 0
  <2>1. DeltasOf(t) /\ deltas[t] \in Seq(Modes \X Nat)
    BY DEF ExecInv, ExecTypes
  <2>2. deltas[t] = [i \in 1 .. Len(deltas[t]) |-> deltas[t][i]]
    BY <2>1, SMTT(40)
  <2> QED BY <2>1, <2>2 DEF DeltasOf
<1>3. DeltasInOrder
  BY <1>2 DEF DeltasInOrder, Waiting
<1>4. ASSUME NEW t \in Tasks, reader[t] = "returned"
      PROVE  at[t] = "closed" /\ shown[t] = emitted[t] /\ got[t] = verdict[t]
  <2>1. DeltasOf(t) /\ ResultOf(t) /\ shown[t] \in Counts /\ emitted[t] \in Counts
    BY DEF ExecInv, ExecTypes
  <2>2. Len(deltas[t]) = 0
    BY <1>4, <2>1 DEF ResultOf
  <2>3. shown[t].native = emitted[t].native /\ shown[t].buffered = emitted[t].buffered
    BY <2>1, <2>2 DEF DeltasOf, Waiting, Counts
  <2>4. shown[t] = emitted[t]
    BY <2>1, <2>3 DEF Counts
  <2> QED BY <1>4, <2>1, <2>4 DEF ResultOf
<1> QED BY <1>1, <1>3, <1>4 DEF DeltasWhole, ReturnIsWhole

LEMMA DeltasKept ==
  ASSUME ExecInv, NEW t \in Tasks, NEW q, NEW m, AgentEffect(t, q, m), NEW u \in Tasks
  PROVE  /\ emitted'[u] \in Counts /\ deltas'[u] \in Seq(Modes \X Nat)
         /\ DeltasOf(u)'
<1>0. /\ DeltasOf(u) /\ emitted[u] \in Counts /\ shown[u] \in Counts /\ shown' = shown
      /\ deltas[u] \in Seq(Modes \X Nat) /\ mode[u] \in Modes
      /\ mode'[u] \in Modes /\ (mode[u] = "buffered" => mode'[u] = "buffered")
  BY DEF ExecInv, ExecTypes, AgentEffect
<1>1. CASE emitted'[u] = emitted[u] /\ deltas'[u] = deltas[u]
  BY <1>0, <1>1 DEF DeltasOf, Waiting, Modes
<1>2. CASE u = t /\ SendDelta(t)
  <2> DEFINE n == emitted[u][mode[u]] + 1
             e == emitted'[u]
             d == deltas[u]
  <2>1. e = [emitted[u] EXCEPT ![mode[u]] = n]
    BY <1>2 DEF SendDelta, ExecInv, ExecTypes
  <2>2. /\ e \in Counts /\ n \in Nat
        /\ mode[u] = "native" => e.native = n /\ e.buffered = emitted[u].buffered
        /\ mode[u] = "buffered" => e.buffered = n /\ e.native = emitted[u].native
    BY <1>0, <2>1 DEF Counts, Modes
  <2>3. deltas'[u] = Append(d, <<mode[u], n>>) /\ Len(d) < DeltaBuffer
    BY <1>2 DEF SendDelta, ExecInv, ExecTypes
  <2>4. <<mode[u], n>> \in Modes \X Nat
    BY <1>0, <2>2
  <2>5. /\ deltas'[u] \in Seq(Modes \X Nat) /\ Len(deltas'[u]) = Len(d) + 1
        /\ \A i \in 1 .. Len(d) : deltas'[u][i] = d[i]
        /\ deltas'[u][Len(d) + 1] = <<mode[u], n>>
    BY <1>0, <2>3, <2>4, AppendProperties
  <2>6. Len(d) \in Nat /\ DeltaBuffer \in Nat
    BY <1>0, LenProperties, ExecAssumption
  <2> DEFINE en == emitted[u].native
             eb == emitted[u].buffered
             sn == shown[u].native
             sb == shown[u].buffered
  <2>7. /\ en \in Nat /\ eb \in Nat /\ sn \in Nat /\ sb \in Nat
        /\ shown'[u].native = sn /\ shown'[u].buffered = sb
        /\ mode[u] = "native" => n = en + 1 /\ e.native = en + 1 /\ e.buffered = eb
        /\ mode[u] = "buffered" => n = eb + 1 /\ e.buffered = eb + 1 /\ e.native = en
    BY <1>0, <2>2 DEF Counts
  <2>8. /\ sn <= en /\ sb <= eb /\ Len(d) = (en - sn) + (eb - sb)
        /\ \A i \in 1 .. Len(d) : d[i] = IF i <= en - sn THEN <<"native", sn + i>>
                                        ELSE <<"buffered", sb + i - (en - sn)>>
        /\ sb > 0 => en - sn = 0
        /\ mode[u] = "native" => eb = 0
    BY <1>0 DEF DeltasOf, Waiting
  <2>9. ASSUME sn <= e.native, sb <= e.buffered,
                Len(d) + 1 = (e.native - sn) + (e.buffered - sb),
                \A i \in 1 .. Len(d) + 1 :
                  deltas'[u][i] = IF i <= e.native - sn THEN <<"native", sn + i>>
                                  ELSE <<"buffered", sb + i - (e.native - sn)>>,
                sb > 0 => e.native - sn = 0,
                mode'[u] = "native" => e.buffered = 0
         PROVE  DeltasOf(u)'
    <3>1. Len(d) + 1 <= DeltaBuffer
      BY <2>3, <2>6
    <3> HIDE DEF n, d
    <3> QED BY <2>5, <2>7, <2>9, <3>1 DEF DeltasOf, Waiting
  <2> HIDE DEF n, e, d, en, eb, sn, sb
  <2>10. ASSUME mode[u] = "native" PROVE DeltasOf(u)'
    <3>1. en - sn = Len(d) /\ e.native - sn = Len(d) + 1 /\ e.buffered = 0 /\ sb = 0
      BY <2>6, <2>10, <2>7, <2>8
    <3>2. ASSUME NEW i \in 1 .. Len(d) + 1
          PROVE  deltas'[u][i] = <<"native", sn + i>>
      <4>1. CASE i \in 1 .. Len(d)
        BY <2>5, <2>6, <2>8, <3>1, <4>1
      <4>2. CASE i = Len(d) + 1
        <5>1. n = sn + i
          BY <2>6, <2>10, <2>7, <3>1, <4>2
        <5> QED BY <2>5, <2>10, <4>2, <5>1
      <4> QED BY <2>6, <4>1, <4>2
    <3>3. sn <= e.native /\ sb <= e.buffered /\ Len(d) + 1 = (e.native - sn) + (e.buffered - sb)
      BY <2>6, <2>10, <2>7, <2>8, <3>1
    <3> QED BY <2>6, <2>9, <3>1, <3>2, <3>3
  <2>11. ASSUME mode[u] = "buffered" PROVE DeltasOf(u)'
    <3>1. /\ e.native = en /\ e.buffered = eb + 1 /\ mode'[u] = "buffered"
          /\ Len(d) + 1 = (e.native - sn) + (e.buffered - sb)
          /\ sn <= e.native /\ sb <= e.buffered
      BY <1>0, <2>6, <2>11, <2>7, <2>8
    <3>2. ASSUME NEW i \in 1 .. Len(d) + 1
          PROVE  deltas'[u][i] = IF i <= e.native - sn THEN <<"native", sn + i>>
                                 ELSE <<"buffered", sb + i - (e.native - sn)>>
      <4>1. CASE i \in 1 .. Len(d)
        BY <2>5, <2>6, <2>8, <3>1, <4>1
      <4>2. CASE i = Len(d) + 1
        <5>1. n = sb + i - (en - sn) /\ ~(i <= en - sn)
          BY <2>6, <2>11, <2>7, <2>8, <4>2
        <5> QED BY <2>5, <2>11, <3>1, <4>2, <5>1
      <4> QED BY <2>6, <4>1, <4>2
    <3> QED BY <2>8, <2>9, <3>1, <3>2
  <2>12. DeltasOf(u)'
    BY <1>0, <2>10, <2>11 DEF Modes
  <2> QED BY <2>2, <2>5, <2>12 DEF e
<1>3. CASE u # t
  BY <1>1, <1>3 DEF AgentEffect, SendDelta, ExecInv, ExecTypes
<1> QED BY <1>1, <1>2, <1>3 DEF AgentEffect

LEMMA SlotsFollow ==
  ASSUME ExecInv, NEW t \in Tasks, NEW q, NEW m, AgentEffect(t, q, m)
  PROVE  SlotsAreHeld' /\ slots' \in [Gates -> 0 .. GateMax]
<1> SUFFICES ASSUME NEW g \in Gates
             PROVE  /\ slots'[g] = Cardinality({u \in Tasks : Holds(u, g, at'[u])})
                    /\ slots'[g] \in 0 .. GateMax
  BY DEF SlotsAreHeld, Holds, AgentEffect
<1> DEFINE A == {u \in Tasks : Holds(u, g, at[u])}
           B == {u \in Tasks : Holds(u, g, at'[u])}
<1>1. /\ at'[t] = q /\ \A u \in Tasks \ {t} : at'[u] = at[u]
      /\ slots[g] \in 0 .. GateMax /\ GateMax \in Nat
  BY ExecAssumption DEF AgentEffect, ExecInv, ExecTypes
<1>2. slots[g] = Cardinality(A)
  BY DEF ExecInv, SlotsAreHeld, Holds
<1>3. A \ {t} = B \ {t} /\ A \subseteq Tasks /\ (t \in A <=> Holds(t, g, at[t])) /\ (t \in B <=> Holds(t, g, q))
  BY <1>1
<1>4. IsFiniteSet(A)
  BY <1>3, FS_Subset, ExecAssumption
<1>5. /\ Cardinality(A) \in Nat /\ Cardinality(B) \in Nat
      /\ (t \in A <=> t \in B) => Cardinality(B) = Cardinality(A)
      /\ t \in B /\ t \notin A => Cardinality(B) = Cardinality(A) + 1
      /\ t \in A /\ t \notin B => Cardinality(B) = Cardinality(A) - 1
  <2> HIDE DEF A, B
  <2> QED BY <1>3, <1>4, SizeStep
<1>6. slots'[g] = (IF Holds(t, g, q) /\ ~Holds(t, g, at[t]) THEN slots[g] + 1
                   ELSE IF ~Holds(t, g, q) /\ Holds(t, g, at[t]) THEN slots[g] - 1
                   ELSE slots[g])
      /\ (Holds(t, g, q) /\ ~Holds(t, g, at[t]) => slots[g] < GateMax)
  BY DEF AgentEffect
<1> HIDE DEF A, B, Holds
<1> QED BY <1>1, <1>2, <1>3, <1>5, <1>6 DEF B

\* A step with that effect keeps the invariant.
LEMMA AgentEffectInv ==
  ASSUME ExecInv, NEW t \in Tasks, NEW q, NEW m, AgentEffect(t, q, m)
  PROVE  ExecInv'
<1>1. SlotsAreHeld' /\ slots' \in [Gates -> 0 .. GateMax]
  BY SlotsFollow
<1>2. \A u \in Tasks : emitted'[u] \in Counts /\ deltas'[u] \in Seq(Modes \X Nat) /\ DeltasOf(u)'
  BY DeltasKept
<1>3. emitted' \in [Tasks -> Counts] /\ deltas' \in [Tasks -> Seq(Modes \X Nat)]
  <2>1. DOMAIN emitted' = Tasks /\ DOMAIN deltas' = Tasks
        /\ emitted' = [u \in Tasks |-> emitted'[u]] /\ deltas' = [u \in Tasks |-> deltas'[u]]
    BY DEF AgentEffect, SendDelta, ExecInv, ExecTypes
  <2> QED BY <1>2, <2>1
<1>4. ExecTypes'
  BY <1>1, <1>3 DEF AgentEffect, ExecInv, ExecTypes
<1>5. ASSUME NEW u \in Tasks PROVE ResultOf(u)'
  <2>1. CASE u # t
    <3>1. deltas'[u] = deltas[u]
      BY <2>1 DEF AgentEffect, SendDelta, ExecInv, ExecTypes
    <3> QED BY <2>1, <3>1 DEF AgentEffect, ResultOf, ExecInv, ExecTypes
  <2>2. CASE u = t
    <3>1. ResultOf(t) /\ ~handed[t] /\ reader[t] # "returned"
      BY DEF AgentEffect, ResultOf, ExecInv
    <3>2. handed'[t] <=> at'[t] = "closed"
      BY DEF AgentEffect, ExecInv, ExecTypes
    <3>3. at'[t] # "idle" /\ got'[t] = got[t] /\ reader'[t] # "returned"
      BY <3>1 DEF AgentEffect, ExecInv, ExecTypes
    <3>4. got[t] # "none" => reader[t] = "left" /\ reader' = reader
      BY <3>1 DEF AgentEffect, ResultOf
    <3> QED BY <2>2, <3>2, <3>3, <3>4 DEF ResultOf
  <2> QED BY <2>1, <2>2
<1> QED BY <1>1, <1>2, <1>4, <1>5 DEF ExecInv

\* Outside of the places between acquiring and releasing nothing is held; at
\* those of a request both gates are.
LEMMA HoldsAt ==
  ASSUME NEW t \in Tasks, NEW g \in Gates, NEW q
  PROVE  /\ q \notin HoldsKey => ~Holds(t, g, q)
         /\ q \in HoldsModel => (Holds(t, g, q) <=> g \in BothGates(t))
         /\ q = "model gate" => (Holds(t, g, q) <=> g = KeyGate[t])
  BY DEF Holds, HoldsKey, HoldsModel, BothGates

LEMMA EndRunEffect ==
  ASSUME ExecInv, NEW t \in Tasks, NEW end \in {"done", "failed"}, EndRun(t, end)
  PROVE  \E q \in {"gate", "result", "partial"}, m \in Modes :
           /\ at' = [at EXCEPT ![t] = q]
           /\ mode' = [mode EXCEPT ![t] = m] /\ (mode[t] = "buffered" => m = "buffered")
           /\ round' \in [Tasks -> 0 .. (MaxRounds - 1)]
           /\ verdict' \in [Tasks -> {"none", "done", "failed"}]
           /\ \A u \in Tasks \ {t} : verdict'[u] = verdict[u]
<1> USE DEF ExecInv, ExecTypes, GoTo
<1>1. CASE mode[t] = "native" /\ end = "failed" /\ t \in Fallback
  <2>1. at' = [at EXCEPT ![t] = "gate"] /\ mode' = [mode EXCEPT ![t] = "buffered"]
        /\ round' = [round EXCEPT ![t] = 0] /\ verdict' = verdict /\ "buffered" \in Modes
    BY <1>1 DEF EndRun, Modes
  <2>2. round' \in [Tasks -> 0 .. (MaxRounds - 1)]
    BY <2>1, ExecAssumption
  <2> QED BY <2>1, <2>2
<1>2. CASE ~(mode[t] = "native" /\ end = "failed" /\ t \in Fallback)
  <2>1. \E q \in {"gate", "result", "partial"} : at' = [at EXCEPT ![t] = q]
    BY <1>2 DEF EndRun
  <2>2. mode' = [mode EXCEPT ![t] = mode[t]] /\ round' = round /\ mode[t] \in Modes
    BY <1>2 DEF EndRun
  <2>3. verdict' = [verdict EXCEPT ![t] = end]
    BY <1>2 DEF EndRun
  <2> QED BY <2>1, <2>2, <2>3
<1> QED BY <1>1, <1>2

\* Where a run ends, no slot is kept: what the task held at its place is given
\* back, nothing else is.
LEMMA EndRunStep ==
  ASSUME ExecInv, NEW t \in Tasks, NEW end \in {"done", "failed"}, EndRun(t, end),
         at[t] # "closed",
         slots' = [g \in Gates |-> IF Holds(t, g, at[t]) THEN slots[g] - 1 ELSE slots[g]],
         UNCHANGED <<emitted, deltas>> \/ SendDelta(t),
         UNCHANGED <<tries, handed, readerVars, ended>>
  PROVE  \E q, m : AgentEffect(t, q, m)
<1>1. PICK q \in {"gate", "result", "partial"}, m \in Modes :
           /\ at' = [at EXCEPT ![t] = q]
           /\ mode' = [mode EXCEPT ![t] = m] /\ (mode[t] = "buffered" => m = "buffered")
           /\ round' \in [Tasks -> 0 .. (MaxRounds - 1)]
           /\ verdict' \in [Tasks -> {"none", "done", "failed"}]
           /\ \A u \in Tasks \ {t} : verdict'[u] = verdict[u]
  BY EndRunEffect
<1>2. \A g \in Gates : ~Holds(t, g, q)
  BY HoldsAt DEF HoldsKey
<1>3. handed' = [handed EXCEPT ![t] = (q = "closed")]
  BY DEF ExecInv, ExecTypes, ResultOf
<1>4. q \in Places \ {"idle"} /\ tries' \in [Tasks -> Nat]
  BY DEF Places, Sending, ExecInv, ExecTypes
<1>5. slots' = [g \in Gates |-> IF Holds(t, g, q) /\ ~Holds(t, g, at[t]) THEN slots[g] + 1
                               ELSE IF ~Holds(t, g, q) /\ Holds(t, g, at[t]) THEN slots[g] - 1
                               ELSE slots[g]]
  BY <1>2
<1>6. AgentEffect(t, q, m)
  BY <1>1, <1>2, <1>3, <1>4, <1>5 DEF AgentEffect, readerVars
<1> QED BY <1>6

\* A step within a run, its slots as they were or one more.
LEMMA RunStep ==
  ASSUME ExecInv, NEW t \in Tasks, NEW q \in Places \ {"idle"},
         at[t] # "closed", GoTo(t, q),
         slots' = [g \in Gates |-> IF Holds(t, g, q) /\ ~Holds(t, g, at[t]) THEN slots[g] + 1
                                   ELSE IF ~Holds(t, g, q) /\ Holds(t, g, at[t]) THEN slots[g] - 1
                                   ELSE slots[g]],
         \A g \in Gates : Holds(t, g, q) /\ ~Holds(t, g, at[t]) => slots[g] < GateMax,
         round' \in [Tasks -> 0 .. (MaxRounds - 1)], tries' \in [Tasks -> Nat],
         UNCHANGED <<emitted, deltas>> \/ SendDelta(t),
         handed' = [handed EXCEPT ![t] = (q = "closed")],
         \/ UNCHANGED reader
         \/ at[t] = "idle" /\ reader' = [reader EXCEPT ![t] = "reading"],
         UNCHANGED <<mode, verdict, got, shown, ended>>
  PROVE  \E r, m : AgentEffect(t, r, m)
<1>1. mode' = [mode EXCEPT ![t] = mode[t]] /\ mode[t] \in Modes
  BY DEF ExecInv, ExecTypes
<1>2. verdict' \in [Tasks -> {"none", "done", "failed"}] /\ at' = [at EXCEPT ![t] = q]
  BY DEF ExecInv, ExecTypes, GoTo
<1>3. AgentEffect(t, q, mode[t])
  BY <1>1, <1>2 DEF AgentEffect
<1> QED BY <1>3

\* Every step of an agent's goroutine has such an effect.
LEMMA AgentStepEffect ==
  ASSUME ExecInv, NEW t \in Tasks, ExecuteStream(t) \/ AgentStep(t)
  PROVE  \E q, m : AgentEffect(t, q, m)
<1> DEFINE Goal == \E q, m : AgentEffect(t, q, m)
           Kept == slots' = slots
           Rest == UNCHANGED <<mode, verdict, got, shown, ended>>
<1>0. /\ slots = [g \in Gates |-> slots[g]] /\ round \in [Tasks -> 0 .. (MaxRounds - 1)]
      /\ tries \in [Tasks -> Nat] /\ handed \in [Tasks -> BOOLEAN]
      /\ (at[t] # "closed" => handed[t] = FALSE) /\ at[t] \in Places
  BY DEF ExecInv, ExecTypes, ResultOf
<1>1. ASSUME NEW q \in Places \ {"idle", "closed"}, at[t] # "closed", GoTo(t, q), Kept,
             (q \in HoldsModel /\ at[t] \in HoldsModel) \/ (q \notin HoldsKey /\ at[t] \notin HoldsKey),
             round' \in [Tasks -> 0 .. (MaxRounds - 1)], tries' \in [Tasks -> Nat],
             UNCHANGED <<emitted, deltas>> \/ SendDelta(t),
             \/ UNCHANGED reader
             \/ at[t] = "idle" /\ reader' = [reader EXCEPT ![t] = "reading"],
             UNCHANGED <<mode, verdict, handed, got, shown, ended>>
      PROVE  Goal
  <2>1. \A g \in Gates : Holds(t, g, q) <=> Holds(t, g, at[t])
    BY <1>1, HoldsAt
  <2>2. slots' = [g \in Gates |-> IF Holds(t, g, q) /\ ~Holds(t, g, at[t]) THEN slots[g] + 1
                                   ELSE IF ~Holds(t, g, q) /\ Holds(t, g, at[t]) THEN slots[g] - 1
                                   ELSE slots[g]]
    BY <1>0, <1>1, <2>1
  <2>3. handed' = [handed EXCEPT ![t] = (q = "closed")]
    BY <1>0, <1>1
  <2> QED BY <1>1, <2>1, <2>2, <2>3, RunStep
<1>2. CASE ExecuteStream(t)
  BY <1>0, <1>1, <1>2 DEF ExecuteStream, Places, Sending, HoldsKey
<1>3. CASE SendStarted(t)
  BY <1>0, <1>1, <1>3 DEF SendStarted, Places, HoldsKey, readerVars
<1>4. CASE AcquireKeySlot(t)
  <2>1. \A g \in Gates : ~Holds(t, g, at[t]) /\ (Holds(t, g, "model gate") <=> g = KeyGate[t])
    BY <1>4, HoldsAt DEF AcquireKeySlot, HoldsKey
  <2>2. slots' = [g \in Gates |-> IF g = KeyGate[t] THEN slots[g] + 1 ELSE slots[g]]
    BY <1>0, <1>4 DEF AcquireKeySlot
  <2>3. \A g \in Gates : g = KeyGate[t] => slots[g] < GateMax
    BY <1>4 DEF AcquireKeySlot
  <2>4. "model gate" \in Places \ {"idle"} /\ handed' = [handed EXCEPT ![t] = ("model gate" = "closed")]
    BY <1>0, <1>4 DEF AcquireKeySlot, Places, HoldsKey
  <2>5. slots' = [g \in Gates |-> IF Holds(t, g, "model gate") /\ ~Holds(t, g, at[t]) THEN slots[g] + 1
                                   ELSE IF ~Holds(t, g, "model gate") /\ Holds(t, g, at[t]) THEN slots[g] - 1
                                   ELSE slots[g]]
    BY <2>1, <2>2
  <2>6. \A g \in Gates : Holds(t, g, "model gate") /\ ~Holds(t, g, at[t]) => slots[g] < GateMax
    BY <2>1, <2>3
  <2> QED BY <1>0, <1>4, <2>4, <2>5, <2>6, RunStep DEF AcquireKeySlot, readerVars
<1>5. CASE AcquireModelSlot(t)
  <2>1. \A g \in Gates : /\ Holds(t, g, at[t]) <=> g = KeyGate[t]
                         /\ Holds(t, g, "request") <=> g \in BothGates(t)
    BY <1>5, HoldsAt DEF AcquireModelSlot, HoldsModel
  <2>2. slots' = [g \in Gates |-> IF g = ModelGate[t] THEN slots[g] + 1 ELSE slots[g]]
    BY <1>0, <1>5 DEF AcquireModelSlot
  <2>3. \A g \in Gates : g = ModelGate[t] => slots[g] < GateMax /\ g # KeyGate[t]
    BY <1>5, ExecAssumption DEF AcquireModelSlot
  <2>4. "request" \in Places \ {"idle"} /\ handed' = [handed EXCEPT ![t] = ("request" = "closed")]
    BY <1>0, <1>5 DEF AcquireModelSlot, Places, HoldsKey
  <2>5. slots' = [g \in Gates |-> IF Holds(t, g, "request") /\ ~Holds(t, g, at[t]) THEN slots[g] + 1
                                   ELSE IF ~Holds(t, g, "request") /\ Holds(t, g, at[t]) THEN slots[g] - 1
                                   ELSE slots[g]]
    BY <2>1, <2>2, <2>3 DEF BothGates
  <2>6. \A g \in Gates : Holds(t, g, "request") /\ ~Holds(t, g, at[t]) => slots[g] < GateMax
    BY <2>1, <2>3 DEF BothGates
  <2>7. tries' \in [Tasks -> Nat]
    BY <1>0, <1>5 DEF AcquireModelSlot
  <2> QED BY <1>0, <1>5, <2>4, <2>5, <2>6, <2>7, RunStep DEF AcquireModelSlot, readerVars
<1>6. ASSUME at[t] \in HoldsModel, GiveBack(BothGates(t))
      PROVE  slots' = [g \in Gates |-> IF Holds(t, g, at[t]) THEN slots[g] - 1 ELSE slots[g]]
  BY <1>6, HoldsAt DEF GiveBack
<1>7. CASE LeaveGate(t)
  <2>1. slots' = [g \in Gates |-> IF Holds(t, g, at[t]) THEN slots[g] - 1 ELSE slots[g]]
    BY <1>7, HoldsAt DEF LeaveGate, GiveBack, HoldsKey
  <2> QED BY <1>7, <2>1, EndRunStep DEF LeaveGate
<1>8. CASE RequestFails(t) \/ LeaveBackoff(t) \/ StreamBreaks(t)
  <2>1. /\ at[t] \in HoldsModel /\ at[t] # "closed" /\ GiveBack(BothGates(t)) /\ EndRun(t, "failed")
        /\ UNCHANGED <<tries, emitted, handed, deltas, readerVars, ended>>
    BY <1>8 DEF RequestFails, LeaveBackoff, StreamBreaks, HoldsModel
  <2> QED BY <1>6, <2>1, EndRunStep
<1>9. CASE RequestRetries(t) \/ BackoffEnds(t) \/ StreamOpens(t) \/ StreamToken(t) \/ SendToken(t)
  <2>1. tries' \in [Tasks -> Nat]
    BY <1>0, <1>9 DEF RequestRetries, BackoffEnds, StreamOpens, StreamToken, SendToken
  <2> QED BY <1>0, <1>1, <1>9, <2>1 DEF RequestRetries, BackoffEnds, StreamOpens, StreamToken, SendToken,
             Places, HoldsKey, HoldsModel, Sending, readerVars
<1>10. CASE RequestAnswered(t) \/ StreamEnds(t)
  <2>1. /\ at[t] \in HoldsModel /\ at[t] # "closed" /\ GiveBack(BothGates(t)) /\ GoTo(t, "answered")
        /\ UNCHANGED <<mode, round, tries, emitted, verdict, handed, deltas, readerVars, ended>>
    BY <1>10 DEF RequestAnswered, StreamEnds, HoldsModel
  <2>2. \A g \in Gates : ~Holds(t, g, "answered")
    BY HoldsAt DEF HoldsKey
  <2>3. slots' = [g \in Gates |-> IF Holds(t, g, at[t]) THEN slots[g] - 1 ELSE slots[g]]
    BY <1>6, <2>1
  <2>4. "answered" \in Places \ {"idle"} /\ handed' = [handed EXCEPT ![t] = ("answered" = "closed")]
    BY <1>0, <2>1 DEF Places
  <2> QED BY <1>0, <2>1, <2>2, <2>3, <2>4, RunStep DEF readerVars
<1>11. ASSUME at[t] \notin HoldsKey, Kept
       PROVE  slots' = [g \in Gates |-> IF Holds(t, g, at[t]) THEN slots[g] - 1 ELSE slots[g]]
  BY <1>0, <1>11, HoldsAt
<1>12. ASSUME NEW end \in {"done", "failed"}, TextAnswer(t, end) PROVE Goal
  BY <1>11, <1>12, EndRunStep DEF TextAnswer, HoldsKey
<1>13. CASE ToolAnswer(t) \/ SendToolStarted(t) \/ SendSummary(t)
  <2>1. \E q \in {"tool start", "tool", "final", "result"} : GoTo(t, q)
    BY <1>13 DEF ToolAnswer, SendToolStarted, SendSummary
  <2> QED BY <1>0, <1>1, <1>13, <2>1 DEF ToolAnswer, SendToolStarted, SendSummary,
             Places, HoldsKey, Sending, readerVars
<1>14. ASSUME NextRound(t), at[t] \in {"tool", "tool end"}, UNCHANGED <<emitted, deltas>> \/ SendDelta(t),
              UNCHANGED <<tries, handed, slots, readerVars, ended>>
       PROVE  Goal
  <2>1. at[t] \notin HoldsKey /\ at[t] # "closed"
    BY <1>14 DEF HoldsKey
  <2>2. CASE round[t] + 1 = MaxRounds
    BY <1>11, <1>14, <2>1, <2>2, EndRunStep DEF NextRound
  <2>3. CASE round[t] + 1 # MaxRounds
    <3>1. round' = [round EXCEPT ![t] = @ + 1] /\ GoTo(t, "gate") /\ UNCHANGED <<mode, verdict>>
      BY <1>14, <2>3 DEF NextRound
    <3>2. round[t] \in 0 .. (MaxRounds - 1) /\ MaxRounds \in Nat
      BY <1>0, ExecAssumption
    <3>3. round[t] + 1 \in 0 .. (MaxRounds - 1)
      BY <2>3, <3>2
    <3>4. round' \in [Tasks -> 0 .. (MaxRounds - 1)]
      BY <1>0, <3>1, <3>3
    <3>5. "gate" \in Places \ {"idle", "closed"} /\ "gate" \notin HoldsKey
      BY DEF Places, HoldsKey
    <3> QED BY <1>0, <1>1, <1>14, <2>1, <3>1, <3>4, <3>5 DEF readerVars
  <2> QED BY <2>2, <2>3
<1>15. CASE ExecuteTool(t)
  <2>1. CASE mode[t] = "native"
    BY <1>0, <1>1, <1>15, <2>1 DEF ExecuteTool, Places, HoldsKey, Sending, readerVars
  <2>2. CASE mode[t] # "native"
    BY <1>14, <1>15, <2>2 DEF ExecuteTool
  <2> QED BY <2>1, <2>2
<1>16. CASE SendToolFinished(t)
  BY <1>14, <1>16 DEF SendToolFinished
<1>17. CASE SendResult(t)
  <2>1. \A g \in Gates : ~Holds(t, g, "closed") /\ ~Holds(t, g, at[t])
    BY <1>17, HoldsAt DEF HoldsKey, SendResult
  <2>2. "closed" \in Places \ {"idle"} /\ handed' = [handed EXCEPT ![t] = ("closed" = "closed")]
    BY <1>0, <1>17 DEF Places, SendResult
  <2> QED BY <1>0, <1>17, <2>1, <2>2, RunStep DEF SendResult, readerVars
<1> QED BY <1>2, <1>3, <1>4, <1>5, <1>7, <1>8, <1>9, <1>10, <1>12, <1>13, <1>15, <1>16, <1>17
        DEF AgentStep

\* A delta read is the next one of its run.
LEMMA ReadDeltaInv ==
  ASSUME ExecInv, NEW t \in Tasks, ReadDelta(t)
  PROVE  ExecInv'
<1> DEFINE d == deltas[t]
           en == emitted[t].native
           eb == emitted[t].buffered
           sn == shown[t].native
           sb == shown[t].buffered
           run == Head(d)[1]
           k == Head(d)[2]
<1>1. /\ d \in Seq(Modes \X Nat) /\ d # <<>> /\ Len(d) \in Nat /\ Len(d) > 0 /\ Head(d) = d[1]
      /\ Head(d) \in Modes \X Nat
      /\ Tail(d) \in Seq(Modes \X Nat) /\ Len(Tail(d)) = Len(d) - 1
      /\ \A i \in 1 .. Len(d) - 1 : Tail(d)[i] = d[i + 1]
  BY HeadTailProperties, LenProperties, EmptySeq DEF ReadDelta, ExecInv, ExecTypes
<1>2. en \in Nat /\ eb \in Nat /\ sn \in Nat /\ sb \in Nat
  BY DEF ExecInv, ExecTypes, Counts
<1>3. /\ sn <= en /\ sb <= eb /\ Len(d) = (en - sn) + (eb - sb) /\ Len(d) <= DeltaBuffer
      /\ \A i \in 1 .. Len(d) : d[i] = IF i <= en - sn THEN <<"native", sn + i>>
                                      ELSE <<"buffered", sb + i - (en - sn)>>
      /\ sb > 0 => en - sn = 0
      /\ mode[t] = "native" => eb = 0
  BY DEF DeltasOf, Waiting, ExecInv
<1>4. /\ deltas' = [deltas EXCEPT ![t] = Tail(d)]
      /\ shown' = [shown EXCEPT ![t] = [shown[t] EXCEPT ![run] = k]]
      /\ UNCHANGED <<agentVars, slots, reader, got, ended>> /\ reader[t] = "reading"
  BY DEF ReadDelta
<1>5. /\ run \in Modes /\ k \in Nat /\ shown'[t] = [shown[t] EXCEPT ![run] = k]
      /\ deltas'[t] = Tail(d)
  BY <1>1, <1>4 DEF ExecInv, ExecTypes
<1> DEFINE sn2 == shown'[t].native
           sb2 == shown'[t].buffered
<1>6. /\ shown'[t] \in Counts
      /\ run = "native" => sn2 = k /\ sb2 = sb
      /\ run = "buffered" => sn2 = sn /\ sb2 = k
  BY <1>5, SMTT(40) DEF ExecInv, ExecTypes, Counts, Modes
<1>7. \/ 1 <= en - sn /\ sn2 = sn + 1 /\ sb2 = sb
      \/ ~(1 <= en - sn) /\ sn2 = sn /\ sb2 = sb + 1
  <2>1. d[1] = IF 1 <= en - sn THEN <<"native", sn + 1>> ELSE <<"buffered", sb + 1 - (en - sn)>>
    BY <1>1, <1>3
  <2>2. CASE 1 <= en - sn
    BY <1>1, <1>6, <2>1, <2>2
  <2>3. CASE ~(1 <= en - sn)
    <3>1. en - sn = 0
      BY <1>2, <1>3, <2>3, SMTT(40)
    <3>2. sb + 1 - (en - sn) = sb + 1
      BY <1>2, <3>1
    <3> QED BY <1>1, <1>6, <2>1, <2>3, <3>2
  <2> QED BY <2>2, <2>3
<1>8. DeltasOf(t)'
  <2>1. /\ sn2 <= en /\ sb2 <= eb /\ Len(d) - 1 = (en - sn2) + (eb - sb2) /\ Len(d) - 1 <= DeltaBuffer
        /\ sb2 > 0 => en - sn2 = 0
    <3> HIDE DEF d, en, eb, sn, sb, sn2, sb2
    <3>1. DeltaBuffer \in Nat
      BY ExecAssumption
    <3>2. sn <= en /\ sb <= eb /\ Len(d) = (en - sn) + (eb - sb) /\ Len(d) <= DeltaBuffer
          /\ (sb > 0 => en - sn = 0) /\ Len(d) > 0
      BY <1>1, <1>3
    <3>3. CASE 1 <= en - sn /\ sn2 = sn + 1 /\ sb2 = sb
      BY <1>2, <3>1, <3>2, <3>3
    <3>4. CASE ~(1 <= en - sn) /\ sn2 = sn /\ sb2 = sb + 1
      BY <1>2, <3>1, <3>2, <3>4
    <3> QED BY <1>7, <3>3, <3>4
  <2>2. ASSUME NEW i \in 1 .. Len(d) - 1
        PROVE  Tail(d)[i] = IF i <= en - sn2 THEN <<"native", sn2 + i>>
                            ELSE <<"buffered", sb2 + i - (en - sn2)>>
    <3>1. i + 1 \in 1 .. Len(d) /\ Tail(d)[i] = d[i + 1]
      BY <1>1
    <3>2. d[i + 1] = IF i + 1 <= en - sn THEN <<"native", sn + (i + 1)>>
                     ELSE <<"buffered", sb + (i + 1) - (en - sn)>>
      BY <1>3, <3>1
    <3>3. (i + 1 <= en - sn <=> i <= en - sn2) 
          /\ (i <= en - sn2 => sn2 + i = sn + (i + 1))
          /\ (~(i <= en - sn2) => sb2 + i - (en - sn2) = sb + (i + 1) - (en - sn))
      <4> HIDE DEF d, en, eb, sn, sb, sn2, sb2
      <4>1. i \in Nat /\ i >= 1
        BY <1>1
      <4>2. CASE 1 <= en - sn /\ sn2 = sn + 1 /\ sb2 = sb
        BY <1>2, <4>1, <4>2
      <4>3. CASE ~(1 <= en - sn) /\ sn2 = sn /\ sb2 = sb + 1
        BY <1>2, <1>3, <4>1, <4>3
      <4> QED BY <1>7, <4>2, <4>3
    <3> QED BY <3>1, <3>2, <3>3
  <2>3. emitted' = emitted /\ mode' = mode
    BY <1>4 DEF agentVars
  <2> HIDE DEF d
  <2> QED BY <1>1, <1>3, <1>5, <2>1, <2>2, <2>3 DEF DeltasOf, Waiting
<1>9. ASSUME NEW u \in Tasks PROVE DeltasOf(u)' /\ ResultOf(u)'
  <2>1. CASE u = t
    BY <1>4, <1>8, <2>1 DEF ResultOf, ExecInv, agentVars
  <2>2. CASE u # t
    BY <1>4, <2>2 DEF ResultOf, DeltasOf, Waiting, ExecInv, ExecTypes, agentVars
  <2> QED BY <2>1, <2>2
<1>10. ExecTypes'
  BY <1>1, <1>4, <1>6 DEF ExecInv, ExecTypes, agentVars
<1>11. SlotsAreHeld'
  BY <1>4 DEF ExecInv, SlotsAreHeld, agentVars
<1> QED BY <1>9, <1>10, <1>11 DEF ExecInv

LEMMA ExecNextInv == ASSUME ExecInv, [ExecNext]_execVars PROVE ExecInv'
<1>1. ASSUME NEW t \in Tasks, ExecuteStream(t) \/ AgentStep(t) PROVE ExecInv'
  BY <1>1, AgentStepEffect, AgentEffectInv
<1>2. ASSUME NEW t \in Tasks, ReadDelta(t) PROVE ExecInv'
  BY <1>2, ReadDeltaInv
<1>3. ASSUME UNCHANGED <<agentVars, deltas, slots, shown>>,
             reader' \in [Tasks -> {"none", "reading", "left", "returned"}],
             got' \in [Tasks -> {"none", "done", "failed"}], ended' \in [Tasks -> BOOLEAN],
             \A t \in Tasks : ResultOf(t)'
      PROVE  ExecInv'
  BY <1>3 DEF ExecInv, ExecTypes, SlotsAreHeld, DeltasOf, Waiting, agentVars
<1>4. ASSUME NEW t \in Tasks, ReadResult(t) PROVE ExecInv'
  <2>1. verdict[t] \in {"none", "done", "failed"}
    BY DEF ExecInv, ExecTypes
  <2> QED BY <1>3, <1>4, <2>1 DEF ReadResult, ResultOf, ExecInv, ExecTypes, agentVars
<1>5. ASSUME NEW t \in Tasks, ReaderEnds(t) PROVE ExecInv'
  BY <1>3, <1>5 DEF ReaderEnds, ResultOf, ExecInv, ExecTypes, agentVars
<1>6. ASSUME NEW t \in Tasks, ReaderLeaves(t) PROVE ExecInv'
  BY <1>3, <1>6 DEF ReaderLeaves, ResultOf, ExecInv, ExecTypes, agentVars
<1>7. ASSUME NEW t \in Tasks, TaskContextEnds(t) PROVE ExecInv'
  BY <1>3, <1>7 DEF TaskContextEnds, ResultOf, ExecInv, ExecTypes, agentVars, readerVars
<1>8. CASE UNCHANGED execVars
  BY <1>3, <1>8 DEF execVars, readerVars, agentVars, ResultOf, ExecInv, ExecTypes
<1> QED BY <1>1, <1>2, <1>4, <1>5, <1>6, <1>7, <1>8 DEF ExecNext, ReaderStep

-----------------------------------------------------------------------------
(* Probes of providers.                                                    *)

ProbeStates ==
  [reporter : BOOLEAN, refreshAfter : Nat, cooldownUntil : Nat, inflight : BOOLEAN,
   queued : BOOLEAN]

ProbeTypes ==
  /\ tick \in 0 .. LastTick /\ stopped \in BOOLEAN
  /\ backlog \in Seq(Probed) /\ Len(backlog) <= ProbeQueue
  /\ state \in [Probed -> ProbeStates]
  /\ prober \in [ProbeWorkers -> [at : {"idle", "taken", "probing", "gone"},
                                  provider : Probed \cup {"none"}]]
  /\ \A w \in ProbeWorkers : prober[w].at \in {"taken", "probing"} => prober[w].provider \in Probed

\* A provider is at one place of the queue, with one worker that has not begun,
\* or with one that probes it.
OnePlace ==
  /\ \A i, k \in 1 .. Len(backlog) : backlog[i] = backlog[k] => i = k
  /\ \A w \in ProbeWorkers, i \in 1 .. Len(backlog) :
       prober[w].at = "taken" => prober[w].provider # backlog[i]
  /\ \A v, w \in ProbeWorkers :
       prober[v].at = prober[w].at /\ prober[v].at \in {"taken", "probing"}
         /\ prober[v].provider = prober[w].provider => v = w

\* The marks say exactly where providers are, and never both.
MarksTrue ==
  \A p \in Probed :
    /\ state[p].queued <=> \/ \E i \in 1 .. Len(backlog) : backlog[i] = p
                           \/ \E w \in ProbeWorkers : prober[w].at = "taken" /\ prober[w].provider = p
    /\ state[p].inflight <=> \E w \in ProbeWorkers : prober[w].at = "probing" /\ prober[w].provider = p
    /\ ~(state[p].queued /\ state[p].inflight)

ProbeInv == ProbeTypes /\ OnePlace /\ MarksTrue /\ PauseKept

LEMMA ProbeInvImplies == ProbeInv => ProbesSound
<1> SUFFICES ASSUME ProbeInv PROVE ProbesTypeOK /\ ProbeHeldOnce
  BY DEF ProbesSound, ProbeInv
<1>1. ProbesTypeOK
  <2>1. ToSet(backlog) \subseteq Probed
    BY ToSetOfSeq DEF ProbeInv, ProbeTypes
  <2> QED BY <2>1 DEF ProbesTypeOK, ProbeInv, ProbeTypes, ProbeStates
<1>2. ASSUME NEW w \in ProbeWorkers, NEW place, NEW p
      PROVE  prober[w] = [at |-> place, provider |-> p]
               <=> prober[w].at = place /\ prober[w].provider = p
  BY DEF ProbeInv, ProbeTypes
<1>3. DOMAIN backlog = 1 .. Len(backlog)
  BY LenProperties DEF ProbeInv, ProbeTypes
<1> DEFINE places(p) == {i \in DOMAIN backlog : backlog[i] = p}
           taken(p)  == {w \in ProbeWorkers : prober[w] = [at |-> "taken", provider |-> p]}
           busy(p)   == {w \in ProbeWorkers : prober[w] = [at |-> "probing", provider |-> p]}
           single(s) == \E x \in s : s = {x}
<1>4. ASSUME NEW p \in Probed
      PROVE  /\ \A i, k \in places(p) : i = k
             /\ \A v, w \in taken(p) : v = w
             /\ \A v, w \in busy(p) : v = w
             /\ places(p) = {} \/ taken(p) = {}
             /\ state[p].queued <=> places(p) # {} \/ taken(p) # {}
             /\ state[p].inflight <=> busy(p) # {}
  BY <1>2, <1>3 DEF ProbeInv, OnePlace, MarksTrue
<1>5. ASSUME NEW p \in Probed
      PROVE  /\ IF state[p].queued
                THEN (single(places(p)) /\ taken(p) = {}) \/ (places(p) = {} /\ single(taken(p)))
                ELSE places(p) = {} /\ taken(p) = {}
             /\ IF state[p].inflight THEN single(busy(p)) ELSE busy(p) = {}
  <2> HIDE DEF places, taken, busy
  <2> QED BY <1>4
<1> QED BY <1>1, <1>5 DEF ProbeHeldOnce

LEMMA ObserveInv ==
  ASSUME ProbeInv, NEW p \in Probed, NEW reporter \in BOOLEAN, NEW probe \in BOOLEAN,
         Observe(p, reporter, probe)
  PROVE  ProbeInv'
<1> DEFINE seen == [state[p] EXCEPT !.reporter = reporter]
           add  == probe /\ ShouldQueue(seen) /\ Len(backlog) < ProbeQueue
           s2   == [seen EXCEPT !.queued = @ \/ add]
<1>1. /\ state[p] \in ProbeStates /\ backlog \in Seq(Probed) /\ Len(backlog) \in Nat
      /\ add \in BOOLEAN
  BY LenProperties DEF ProbeInv, ProbeTypes, ShouldQueue
<1>2. /\ seen \in ProbeStates /\ seen.queued = state[p].queued /\ seen.inflight = state[p].inflight
      /\ seen.cooldownUntil = state[p].cooldownUntil /\ seen.refreshAfter = state[p].refreshAfter
  BY <1>1 DEF ProbeStates
<1>3. /\ add => ~state[p].queued /\ ~state[p].inflight
                /\ tick >= state[p].cooldownUntil /\ tick >= state[p].refreshAfter
                /\ Len(backlog) < ProbeQueue
  BY <1>2 DEF ShouldQueue
<1>4. /\ state' = [state EXCEPT ![p] = s2]
      /\ backlog' = IF add THEN Append(backlog, p) ELSE backlog
      /\ UNCHANGED <<tick, prober, stopped>>
  BY DEF Observe
<1> HIDE DEF add, seen
<1>5. /\ s2 \in ProbeStates /\ s2.queued = (state[p].queued \/ add) /\ s2.inflight = state[p].inflight
      /\ s2.cooldownUntil = state[p].cooldownUntil /\ s2.refreshAfter = state[p].refreshAfter
  BY <1>1, <1>2 DEF ProbeStates
<1> HIDE DEF s2
<1>6. /\ state' \in [Probed -> ProbeStates] /\ state'[p] = s2
      /\ \A q \in Probed \ {p} : state'[q] = state[q]
  BY <1>4, <1>5 DEF ProbeInv, ProbeTypes
<1>7. PauseKept'
  BY <1>3, <1>4, <1>5, <1>6 DEF ProbeInv, PauseKept
<1>8. CASE add
  <2> DEFINE b == Append(backlog, p)
             n == Len(backlog)
  <2>1. /\ b \in Seq(Probed) /\ Len(b) = n + 1 /\ b[n + 1] = p
        /\ \A i \in 1 .. n : b[i] = backlog[i]
    BY <1>1, AppendProperties
  <2>2. backlog' = b
    BY <1>4, <1>8
  <2>3. Len(b) <= ProbeQueue
    BY <1>1, <1>3, <1>8, <2>1, ProbesAssumption
  <2> HIDE DEF b
  <2>4. ProbeTypes'
    BY <1>4, <1>6, <2>1, <2>2, <2>3 DEF ProbeInv, ProbeTypes
  <2>5. /\ \A i \in 1 .. n : backlog[i] # p
        /\ \A w \in ProbeWorkers : prober[w].at = "taken" => prober[w].provider # p
    BY <1>3, <1>8 DEF ProbeInv, MarksTrue
  <2>6. \A i \in 1 .. n + 1 : (i \in 1 .. n /\ b[i] = backlog[i]) \/ (i = n + 1 /\ b[i] = p)
    BY <1>1, <2>1
  <2>7. OnePlace'
    BY <1>4, <2>1, <2>2, <2>5, <2>6 DEF ProbeInv, OnePlace
  <2>8. ASSUME NEW q \in Probed
        PROVE  (\E i \in 1 .. n + 1 : b[i] = q) <=> q = p \/ \E i \in 1 .. n : backlog[i] = q
    BY <1>1, <2>1, <2>6
  <2>9. MarksTrue'
    <3> SUFFICES ASSUME NEW q \in Probed
                 PROVE  /\ state'[q].queued <=> \/ \E i \in 1 .. n + 1 : b[i] = q
                             \/ \E w \in ProbeWorkers : prober[w].at = "taken" /\ prober[w].provider = q
                        /\ state'[q].inflight <=> \E w \in ProbeWorkers : prober[w].at = "probing" /\ prober[w].provider = q
                        /\ ~(state'[q].queued /\ state'[q].inflight)
      BY <1>4, <2>1, <2>2 DEF MarksTrue
    <3>1. CASE q = p
      BY <1>3, <1>5, <1>6, <1>8, <2>8, <3>1 DEF ProbeInv, MarksTrue
    <3>2. CASE q # p
      BY <1>6, <2>8, <3>2 DEF ProbeInv, MarksTrue
    <3> QED BY <3>1, <3>2
  <2> QED BY <1>7, <2>4, <2>7, <2>9 DEF ProbeInv
<1>9. CASE ~add
  <2>1. ProbeTypes' /\ OnePlace'
    BY <1>4, <1>6, <1>9 DEF ProbeInv, ProbeTypes, OnePlace
  <2>2. \A q \in Probed : state'[q].queued = state[q].queued /\ state'[q].inflight = state[q].inflight
    <3>1. s2.queued = state[p].queued
      BY <1>1, <1>5, <1>9 DEF ProbeStates
    <3> QED BY <1>5, <1>6, <3>1
  <2>3. MarksTrue'
    BY <1>4, <1>9, <2>2 DEF ProbeInv, MarksTrue
  <2> QED BY <1>7, <2>1, <2>3 DEF ProbeInv
<1> QED BY <1>8, <1>9

LEMMA ProbeTakeInv ==
  ASSUME ProbeInv, NEW w \in ProbeWorkers, ProbeTake(w)
  PROVE  ProbeInv'
<1> DEFINE b == Tail(backlog)
           p == Head(backlog)
           n == Len(backlog)
<1>1. /\ backlog \in Seq(Probed) /\ backlog # <<>> /\ n \in Nat /\ n > 0 /\ p = backlog[1] /\ p \in Probed
      /\ b \in Seq(Probed) /\ Len(b) = n - 1 /\ \A i \in 1 .. n - 1 : b[i] = backlog[i + 1]
  BY HeadTailProperties, LenProperties, EmptySeq DEF ProbeTake, ProbeInv, ProbeTypes
<1>2. /\ backlog' = b /\ UNCHANGED <<tick, state, stopped>>
      /\ prober' = [prober EXCEPT ![w] = [at |-> "taken", provider |-> p]]
      /\ prober[w].at = "idle"
  BY DEF ProbeTake
<1>3. /\ prober'[w].at = "taken" /\ prober'[w].provider = p
      /\ \A v \in ProbeWorkers \ {w} : prober'[v] = prober[v]
  BY <1>2 DEF ProbeInv, ProbeTypes
<1> HIDE DEF b, p
<1>4. ProbeTypes'
  <2>1. n - 1 <= ProbeQueue
    BY <1>1, ProbesAssumption DEF ProbeInv, ProbeTypes
  <2> QED BY <1>1, <1>2, <2>1 DEF ProbeInv, ProbeTypes
<1>5. \A i \in 1 .. n - 1 : i + 1 \in 1 .. n /\ i + 1 # 1 /\ b[i] = backlog[i + 1] /\ b[i] # p
  BY <1>1 DEF ProbeInv, OnePlace
<1>6. OnePlace'
  <2>1. ASSUME NEW i \in 1 .. n - 1, NEW k \in 1 .. n - 1, b[i] = b[k] PROVE i = k
    <3>1. backlog[i + 1] = backlog[k + 1] /\ i + 1 \in 1 .. n /\ k + 1 \in 1 .. n
      BY <1>5, <2>1
    <3>2. i + 1 = k + 1
      BY <3>1 DEF ProbeInv, OnePlace
    <3> QED BY <1>1, <3>2
  <2>2. \A v \in ProbeWorkers, i \in 1 .. n - 1 : prober'[v].at = "taken" => prober'[v].provider # b[i]
    BY <1>3, <1>5 DEF ProbeInv, OnePlace
  <2>3. \A v \in ProbeWorkers : prober[v].at = "taken" => prober[v].provider # p
    BY <1>1 DEF ProbeInv, OnePlace
  <2> QED BY <1>1, <1>2, <1>3, <2>1, <2>2, <2>3 DEF ProbeInv, OnePlace
<1>7. ASSUME NEW q \in Probed
      PROVE  (\E i \in 1 .. n : backlog[i] = q) <=> q = p \/ \E i \in 1 .. n - 1 : b[i] = q
  <2>1. ASSUME NEW i \in 1 .. n, backlog[i] = q, q # p PROVE \E k \in 1 .. n - 1 : b[k] = q
    <3>1. i - 1 \in 1 .. n - 1 /\ (i - 1) + 1 = i
      BY <1>1, <2>1
    <3>2. b[i - 1] = q
      BY <1>1, <2>1, <3>1
    <3> QED BY <3>1, <3>2
  <2>2. 1 \in 1 .. n
    BY <1>1
  <2> QED BY <1>1, <1>5, <2>1, <2>2
<1>8. MarksTrue'
  BY <1>1, <1>2, <1>3, <1>7 DEF ProbeInv, MarksTrue
<1>9. PauseKept'
  BY <1>2 DEF ProbeInv, PauseKept
<1> QED BY <1>4, <1>6, <1>8, <1>9 DEF ProbeInv

LEMMA ProbeBeginInv ==
  ASSUME ProbeInv, NEW w \in ProbeWorkers, ProbeBegin(w)
  PROVE  ProbeInv'
<1> DEFINE p == prober[w].provider
<1>1. p \in Probed /\ prober[w].at = "taken" /\ state[p] \in ProbeStates
      /\ prober[w] \in [at : {"idle", "taken", "probing", "gone"}, provider : Probed \cup {"none"}]
  BY DEF ProbeBegin, ProbeInv, ProbeTypes
<1>2. state' = [state EXCEPT ![p] = [state[p] EXCEPT !.queued = FALSE, !.inflight = state[p].reporter]]
      /\ UNCHANGED <<tick, backlog, stopped>>
  BY <1>1 DEF ProbeBegin, ProbeInv, ProbeTypes, ProbeStates
<1>3. /\ state' \in [Probed -> ProbeStates] /\ ~state'[p].queued
      /\ state'[p].inflight = state[p].reporter
      /\ state'[p].refreshAfter = state[p].refreshAfter
      /\ state'[p].cooldownUntil = state[p].cooldownUntil
      /\ \A q \in Probed \ {p} : state'[q] = state[q]
  BY <1>1, <1>2 DEF ProbeInv, ProbeTypes, ProbeStates
<1>4. /\ prober' \in [ProbeWorkers -> [at : {"idle", "taken", "probing", "gone"},
                                      provider : Probed \cup {"none"}]]
      /\ \A v \in ProbeWorkers \ {w} : prober'[v] = prober[v]
      /\ IF state[p].reporter THEN prober'[w].at = "probing" /\ prober'[w].provider = p
         ELSE prober'[w].at = "idle"
  BY <1>1 DEF ProbeBegin, ProbeInv, ProbeTypes, Idle
<1>5. state[p].queued /\ ~state[p].inflight /\ state[p].reporter \in BOOLEAN
  BY <1>1 DEF ProbeInv, MarksTrue, ProbeStates
<1> HIDE DEF p
<1>6. ProbeTypes'
  BY <1>1, <1>2, <1>3, <1>4 DEF ProbeInv, ProbeTypes
<1>7. /\ \A v \in ProbeWorkers : prober[v].at = "probing" => prober[v].provider # p
      /\ \A v \in ProbeWorkers \ {w} : prober[v].at = "taken" => prober[v].provider # p
      /\ \A i \in 1 .. Len(backlog) : backlog[i] # p
  BY <1>1, <1>5 DEF ProbeInv, MarksTrue, OnePlace, p
<1>8. OnePlace'
  BY <1>1, <1>2, <1>4, <1>7 DEF ProbeInv, OnePlace
<1>9. MarksTrue'
  <2> SUFFICES ASSUME NEW q \in Probed
               PROVE  /\ state'[q].queued <=> \/ \E i \in 1 .. Len(backlog) : backlog[i] = q
                           \/ \E v \in ProbeWorkers : prober'[v].at = "taken" /\ prober'[v].provider = q
                      /\ state'[q].inflight <=> \E v \in ProbeWorkers : prober'[v].at = "probing" /\ prober'[v].provider = q
                      /\ ~(state'[q].queued /\ state'[q].inflight)
    BY <1>2 DEF MarksTrue
  <2>1. CASE q = p
    BY <1>3, <1>4, <1>5, <1>7, <2>1
  <2>2. CASE q # p
    BY <1>1, <1>3, <1>4, <2>2 DEF ProbeInv, MarksTrue, p
  <2> QED BY <2>1, <2>2
<1>10. PauseKept'
  BY <1>2, <1>3, <1>5 DEF ProbeInv, PauseKept
<1> QED BY <1>6, <1>8, <1>9, <1>10 DEF ProbeInv

LEMMA ProbeEndInv ==
  ASSUME ProbeInv, NEW w \in ProbeWorkers, NEW answer \in Answers, ProbeEnd(w, answer)
  PROVE  ProbeInv'
<1> DEFINE p == prober[w].provider
           plan == ScheduleFor(Probe(answer))
           r == IF plan.refresh > 0 THEN tick + plan.refresh ELSE 0
           c == IF plan.cooldown > 0 THEN tick + plan.cooldown ELSE 0
           s2 == [state[p] EXCEPT !.inflight = FALSE, !.queued = FALSE, !.refreshAfter = r,
                                  !.cooldownUntil = c]
<1>1. p \in Probed /\ prober[w].at = "probing" /\ state[p] \in ProbeStates
  BY DEF ProbeEnd, ProbeInv, ProbeTypes
<1>2. plan.refresh \in Nat /\ plan.cooldown \in Nat
  BY ProbesAssumption DEF ScheduleFor
<1>3. r \in Nat /\ c \in Nat
  <2> HIDE DEF plan
  <2> QED BY <1>2 DEF ProbeInv, ProbeTypes
<1>4. /\ state' = [state EXCEPT ![p] = s2] /\ prober' = [prober EXCEPT ![w] = Idle]
      /\ UNCHANGED <<tick, backlog, stopped>>
  BY DEF ProbeEnd
<1> HIDE DEF r, c
<1>5. s2 \in ProbeStates /\ ~s2.queued /\ ~s2.inflight
  BY <1>1, <1>3 DEF ProbeStates
<1> HIDE DEF s2
<1>6. /\ state' \in [Probed -> ProbeStates] /\ state'[p] = s2
      /\ \A q \in Probed \ {p} : state'[q] = state[q]
  BY <1>1, <1>4, <1>5 DEF ProbeInv, ProbeTypes
<1>7. /\ prober'[w].at = "idle" /\ \A v \in ProbeWorkers \ {w} : prober'[v] = prober[v]
      /\ prober' \in [ProbeWorkers -> [at : {"idle", "taken", "probing", "gone"},
                                      provider : Probed \cup {"none"}]]
  BY <1>4 DEF ProbeInv, ProbeTypes, Idle
<1>8. ProbeTypes'
  BY <1>4, <1>6, <1>7 DEF ProbeInv, ProbeTypes
<1> HIDE DEF p
<1>9. state[p].inflight /\ ~state[p].queued
  BY <1>1 DEF ProbeInv, MarksTrue, p
<1>10. OnePlace'
  BY <1>4, <1>7 DEF ProbeInv, OnePlace
<1>11. MarksTrue'
  <2> SUFFICES ASSUME NEW q \in Probed
               PROVE  /\ state'[q].queued <=> \/ \E i \in 1 .. Len(backlog) : backlog[i] = q
                           \/ \E v \in ProbeWorkers : prober'[v].at = "taken" /\ prober'[v].provider = q
                      /\ state'[q].inflight <=> \E v \in ProbeWorkers : prober'[v].at = "probing" /\ prober'[v].provider = q
                      /\ ~(state'[q].queued /\ state'[q].inflight)
    BY <1>4 DEF MarksTrue
  <2>1. CASE q = p
    <3>1. /\ \A i \in 1 .. Len(backlog) : backlog[i] # p
          /\ \A v \in ProbeWorkers : prober[v].at = "taken" => prober[v].provider # p
      BY <1>1, <1>9 DEF ProbeInv, MarksTrue
    <3>2. \A v \in ProbeWorkers \ {w} : prober[v].at = "probing" => prober[v].provider # p
      BY <1>1 DEF ProbeInv, OnePlace, p
    <3> QED BY <1>5, <1>6, <1>7, <2>1, <3>1, <3>2
  <2>2. CASE q # p
    BY <1>1, <1>6, <1>7, <2>2 DEF ProbeInv, MarksTrue, p
  <2> QED BY <2>1, <2>2
<1>12. PauseKept'
  BY <1>4, <1>5, <1>6 DEF ProbeInv, PauseKept
<1> QED BY <1>8, <1>10, <1>11, <1>12 DEF ProbeInv

LEMMA ProbesNextInv == ASSUME ProbeInv, [ProbesNext]_probeVars PROVE ProbeInv'
<1>1. ASSUME NEW w \in ProbeWorkers, ProbeExit(w) PROVE ProbeInv'
  <2>1. /\ prober' \in [ProbeWorkers -> [at : {"idle", "taken", "probing", "gone"},
                                        provider : Probed \cup {"none"}]]
        /\ prober'[w].at = "gone" /\ prober[w].at = "idle"
        /\ \A v \in ProbeWorkers \ {w} : prober'[v] = prober[v]
        /\ UNCHANGED <<tick, backlog, state, stopped>>
    BY <1>1 DEF ProbeExit, ProbeInv, ProbeTypes
  <2>2. ProbeTypes' /\ OnePlace'
    <3>1. ProbeTypes'
      BY <2>1 DEF ProbeInv, ProbeTypes
    <3>2. \A v \in ProbeWorkers : prober'[v].at \in {"taken", "probing"} => v # w
      BY <2>1
    <3>3. OnePlace'
      BY <2>1, <3>2 DEF ProbeInv, OnePlace
    <3> QED BY <3>1, <3>3
  <2>3. \A v \in ProbeWorkers, p \in Probed :
          /\ prober'[v].at = "taken" /\ prober'[v].provider = p
               <=> prober[v].at = "taken" /\ prober[v].provider = p
          /\ prober'[v].at = "probing" /\ prober'[v].provider = p
               <=> prober[v].at = "probing" /\ prober[v].provider = p
    BY <2>1
  <2>4. MarksTrue'
    BY <2>1, <2>3 DEF ProbeInv, MarksTrue
  <2> QED BY <2>1, <2>2, <2>4 DEF ProbeInv, PauseKept
<1>2. CASE ProbeTick
  <2>1. tick' \in 0 .. LastTick /\ tick' >= tick /\ tick \in Nat
        /\ UNCHANGED <<backlog, state, prober, stopped>>
    BY <1>2, ProbesAssumption DEF ProbeTick, ProbeInv, ProbeTypes
  <2>2. PauseKept'
    BY <2>1 DEF ProbeInv, ProbeTypes, ProbeStates, PauseKept
  <2> QED BY <2>1, <2>2 DEF ProbeInv, ProbeTypes, OnePlace, MarksTrue
<1>3. CASE ProbeStop
  BY <1>3 DEF ProbeStop, ProbeInv, ProbeTypes, OnePlace, MarksTrue, PauseKept
<1>4. CASE UNCHANGED probeVars
  BY <1>4 DEF probeVars, ProbeInv, ProbeTypes, OnePlace, MarksTrue, PauseKept
<1> QED BY <1>1, <1>2, <1>3, <1>4, ObserveInv, ProbeTakeInv, ProbeBeginInv, ProbeEndInv
        DEF ProbesNext, ProbeWorker

\* The invariants hold to begin with.
LEMMA InitSlotInv == Init => SlotInv
<1> SUFFICES ASSUME Init PROVE SlotInv
  OBVIOUS
<1>1. ASSUME NEW s \in Slots PROVE Cardinality(Holders(s)) = 0
  <2>1. Holders(s) = {}
    BY DEF Holders, Init, ToSet
  <2> QED BY <2>1, FS_EmptySet
<1>2. \A s \in Slots : Limit(s) \in Int
  BY SlotsAssumption DEF Limit
<1>3. SlotAccounting
  BY <1>1, <1>2 DEF SlotAccounting, Init
<1>4. ASSUME NEW j \in Jobs PROVE HeldOf(j)
  BY ChainFacts, LenProperties DEF HeldOf, Init
<1> QED BY <1>3, <1>4 DEF SlotInv, Init, Steps

LEMMA InitExecInv == ExecInit => ExecInv
<1> SUFFICES ASSUME ExecInit PROVE ExecInv
  OBVIOUS
<1>1. ExecTypes
  BY ExecAssumption DEF ExecInit, ExecTypes, Places, Modes, Counts, NoDeltas
<1>2. ASSUME NEW g \in Gates PROVE slots[g] = Cardinality({t \in Tasks : Holds(t, g, at[t])})
  <2>1. {t \in Tasks : Holds(t, g, at[t])} = {}
    BY DEF ExecInit, Holds, HoldsKey, HoldsModel
  <2> QED BY <2>1, FS_EmptySet DEF ExecInit
<1>3. SlotsAreHeld
  BY <1>2 DEF SlotsAreHeld, Holds
<1>4. ASSUME NEW t \in Tasks PROVE DeltasOf(t) /\ ResultOf(t)
  BY ExecAssumption DEF ExecInit, DeltasOf, ResultOf, Waiting, NoDeltas
<1> QED BY <1>1, <1>3, <1>4 DEF ExecInv

LEMMA InitProbeInv == ProbesInit => ProbeInv
<1> SUFFICES ASSUME ProbesInit PROVE ProbeInv
  OBVIOUS
<1>1. ProbeTypes
  <2>1. NoState \in ProbeStates
    BY DEF NoState, ProbeStates
  <2>2. Idle \in [at : {"idle", "taken", "probing", "gone"}, provider : Probed \cup {"none"}]
        /\ Idle.at = "idle"
    BY DEF Idle
  <2>3. tick \in 0 .. LastTick /\ Len(backlog) <= ProbeQueue /\ backlog \in Seq(Probed)
    BY ProbesAssumption DEF ProbesInit
  <2> QED BY <2>1, <2>2, <2>3 DEF ProbesInit, ProbeTypes
<1>2. OnePlace /\ MarksTrue /\ PauseKept
  BY DEF ProbesInit, OnePlace, MarksTrue, PauseKept, NoState, Idle
<1> QED BY <1>1, <1>2 DEF ProbeInv

-----------------------------------------------------------------------------
(* The theorems.                                                           *)

\* However jobs are cancelled between two slots and requests end between two
\* gates, a channel's length is the number of those that hold one of its slots
\* and within its limit.
THEOREM SlotsKeptCorrect == PartsSpec => []SlotsKept
<1>1. PartsInit => SlotInv /\ ExecInv
  <2> SUFFICES ASSUME PartsInit PROVE SlotInv /\ ExecInv
    OBVIOUS
  <2>1. SlotInv
    BY InitSlotInv DEF PartsInit
  <2> QED BY <2>1, InitExecInv DEF PartsInit
<1>2. PartsNext => [Next]_vars /\ [ExecNext]_execVars
  BY DEF PartsNext
<1>3. SlotInv /\ ExecInv /\ [PartsNext]_<<vars, execVars, probeVars, part>> => (SlotInv /\ ExecInv)'
  BY <1>2, SlotNextInv, ExecNextInv
<1>4. SlotInv /\ ExecInv => SlotsKept
  BY SlotInvImplies, ExecInvImplies DEF SlotsKept
<1> QED BY <1>1, <1>3, <1>4, PTL DEF PartsSpec

\* What a reader publishes of a streamed task is what the agent sent, in order
\* and without a gap, and a result it returns comes after all of it, through
\* retries, tool rounds and the fallback to buffered execution.
THEOREM DeltasWholeCorrect == PartsSpec => []DeltasWhole
<1>1. PartsInit => ExecInv
  BY InitExecInv DEF PartsInit
<1>2. PartsNext => [ExecNext]_execVars
  BY DEF PartsNext
<1>3. ExecInv /\ [PartsNext]_<<vars, execVars, probeVars, part>> => ExecInv'
  BY <1>2, ExecNextInv
<1>4. ExecInv => DeltasWhole
  BY ExecInvImplies
<1> QED BY <1>1, <1>3, <1>4, PTL DEF PartsSpec

\* A provider is queued once, probed by one worker at a time, never left marked,
\* and not probed while a pause lasts.
THEOREM ProbesSoundCorrect == PartsSpec => []ProbesSound
<1>1. PartsInit => ProbeInv
  BY InitProbeInv DEF PartsInit
<1>2. PartsNext => [ProbesNext]_probeVars
  BY DEF PartsNext
<1>3. ProbeInv /\ [PartsNext]_<<vars, execVars, probeVars, part>> => ProbeInv'
  BY <1>2, ProbesNextInv
<1>4. ProbeInv => ProbesSound
  BY ProbeInvImplies
<1> QED BY <1>1, <1>3, <1>4, PTL DEF PartsSpec
=============================================================================
