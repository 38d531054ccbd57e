--------------------------- MODULE ExecutionSlots ---------------------------
(***************************************************************************)
(* The concurrency limits of agent executions: acquireExecutionSlots takes *)
(* a slot of the process, of the agent and of the model, in this order,    *)
(* holding the earlier ones while it waits, and gives back what it has if  *)
(* its context ends first.  Each slot is a buffered channel; a limit that  *)
(* is not positive means no channel.  refreshRuntimeCapacity reads channel *)
(* lengths and reports them to the runtime manager without a lock.         *)
(***************************************************************************)
EXTENDS Integers, Sequences, SequencesExt

CONSTANTS
  Jobs,      \* executions: handleAgentEnvelope, executeDeliveredTask
  AgentOf, ModelOf,
  GlobalMax, PerAgentMax, PerModelMax,
  Global     \* the process-wide slot

\* Agents, models and the process have channels of their own, each in its own
\* map: an agent and a model of the same name do not share one.
ASSUME SlotsAssumption ==
  /\ GlobalMax \in Int /\ PerAgentMax \in Int /\ PerModelMax \in Int
  /\ DOMAIN AgentOf = Jobs /\ DOMAIN ModelOf = Jobs /\ IsFiniteSet(Jobs)
  /\ \A i, j \in Jobs : /\ AgentOf[i] # ModelOf[j]
                        /\ AgentOf[i] # Global /\ ModelOf[j] # Global

VARIABLES
  used,      \* length of each channel
  step,      \* per job: where it is
  held,      \* per job: the slots it holds, in the order they were taken
  sample,    \* per job: usage of its agent's slot, read and not yet reported
  reported   \* InFlight of each agent as the runtime manager has it

vars == <<used, step, held, sample, reported>>

Agents == {AgentOf[j] : j \in Jobs}
Models == {ModelOf[j] : j \in Jobs}
Slots  == {Global} \cup Agents \cup Models

Limit(s) == IF s = Global THEN GlobalMax
            ELSE IF s \in Agents THEN PerAgentMax ELSE PerModelMax

\* Mutant: the model's slot is taken before the agent's for some jobs.
ChainMixed(j) ==
  SelectSeq(IF j = CHOOSE x \in Jobs : TRUE THEN <<Global, ModelOf[j], AgentOf[j]>>
                                            ELSE <<Global, AgentOf[j], ModelOf[j]>>,
            LAMBDA s : Limit(s) > 0)

\* slotForAgent, slotForModel: the channels a job goes through.
Slot(s)  == IF Limit(s) > 0 THEN <<s>> ELSE <<>>
Chain(j) == Slot(Global) \o Slot(AgentOf[j]) \o Slot(ModelOf[j])

Steps == {"acquire", "sampleStart", "reportStart", "execute", "release",
          "sampleEnd", "reportEnd", "unwind", "done"}

TypeOK ==
  /\ used \in [Slots -> Nat]
  /\ step \in [Jobs -> Steps]
  /\ \A j \in Jobs : IsPrefix(held[j], Chain(j))
  /\ sample \in [Jobs -> Nat]
  /\ reported \in [Agents -> Nat]

Init ==
  /\ used = [s \in Slots |-> 0]
  /\ step = [j \in Jobs |-> "acquire"]
  /\ held = [j \in Jobs |-> <<>>]
  /\ sample = [j \in Jobs |-> 0]
  /\ reported = [a \in Agents |-> 0]

Goto(j, s) == step' = [step EXCEPT ![j] = s]

-----------------------------------------------------------------------------
Wanted(j) == Chain(j)[Len(held[j]) + 1]

Acquire(j) ==
  /\ step[j] = "acquire"
  /\ Len(held[j]) < Len(Chain(j))
  /\ used[Wanted(j)] < Limit(Wanted(j))
  /\ used' = [used EXCEPT ![Wanted(j)] = @ + 1]
  /\ held' = [held EXCEPT ![j] = Append(@, Wanted(j))]
  /\ UNCHANGED <<step, sample, reported>>

Acquired(j) ==
  /\ step[j] = "acquire"
  /\ Len(held[j]) = Len(Chain(j))
  /\ Goto(j, "sampleStart")
  /\ UNCHANGED <<used, held, sample, reported>>

\* The context ends while a slot is waited for.
Cancelled(j) ==
  /\ step[j] = "acquire"
  /\ Len(held[j]) < Len(Chain(j))
  /\ Goto(j, "unwind")
  /\ UNCHANGED <<used, held, sample, reported>>

\* refreshRuntimeCapacity after acquiring and after releasing.
AgentUsage(j) == IF PerAgentMax > 0 THEN used[AgentOf[j]] ELSE 0

Sample(j) ==
  /\ step[j] \in {"sampleStart", "sampleEnd"}
  /\ sample' = [sample EXCEPT ![j] = AgentUsage(j)]
  /\ Goto(j, IF step[j] = "sampleStart" THEN "reportStart" ELSE "reportEnd")
  /\ UNCHANGED <<used, held, reported>>

Report(j) ==
  /\ step[j] \in {"reportStart", "reportEnd"}
  /\ reported' = [reported EXCEPT ![AgentOf[j]] = sample[j]]
  /\ sample' = [sample EXCEPT ![j] = 0]
  /\ Goto(j, IF step[j] = "reportStart" THEN "execute" ELSE "done")
  /\ UNCHANGED <<used, held>>

Execute(j) ==
  /\ step[j] = "execute"
  /\ Goto(j, "release")
  /\ UNCHANGED <<used, held, sample, reported>>

\* Slots go back last taken first, one receive at a time.
Release(j) ==
  /\ step[j] \in {"release", "unwind"}
  /\ held[j] # <<>>
  /\ used' = [used EXCEPT ![Last(held[j])] = @ - 1]
  /\ held' = [held EXCEPT ![j] = Front(@)]
  /\ UNCHANGED <<step, sample, reported>>

Released(j) ==
  /\ step[j] \in {"release", "unwind"}
  /\ held[j] = <<>>
  /\ Goto(j, IF step[j] = "release" THEN "sampleEnd" ELSE "done")
  /\ UNCHANGED <<used, held, sample, reported>>

-----------------------------------------------------------------------------
Run(j) == \/ Acquire(j) \/ Acquired(j) \/ Sample(j) \/ Report(j) \/ Execute(j)
          \/ Release(j) \/ Released(j)

Next == \E j \in Jobs : Run(j) \/ Cancelled(j)

Spec == Init /\ [][Next]_vars

\* Jobs are goroutines; no context has to end.  Every job runs once, so weak
\* fairness is enough for a channel's waiting senders.

-----------------------------------------------------------------------------
(* Properties.                                                             *)

Holders(s) == {j \in Jobs : s \in ToSet(held[j])}

\* A channel is never fuller than its limit, and whatever was cancelled or
\* released half-way, its length is the number of jobs that hold it: no slot is
\* lost and none is given back twice.
SlotAccounting ==
  \A s \in Slots : /\ used[s] = Cardinality(Holders(s))
                   /\ used[s] <= IF Limit(s) > 0 THEN Limit(s) ELSE 0

\* No job is waiting for a slot any more.
AllJobsDone == \A j \in Jobs : step[j] = "done"
=============================================================================
