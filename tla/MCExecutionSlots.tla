-------------------------- MODULE MCExecutionSlots --------------------------
(* Instances for TLC of ExecutionSlots, ProviderExecution and              *)
(* ProviderProbes: "part" is the one that moves.                           *)
EXTENDS ExecutionSlots, ProviderExecution, ProviderProbes

CONSTANTS j1, j2, j3, a1, a2, m1, prov1, prov2, byKey, byModel

VARIABLE part

\* j1 and j2 share an agent, all share the model.
TwoAgents == [j \in Jobs |-> IF j = j3 THEN a2 ELSE a1]
OneModel  == [j \in Jobs |-> m1]

\* Both tasks use the same key and the same model.
OneKey   == [t \in Tasks |-> byKey]
OneGate  == [t \in Tasks |-> byModel]

PartsInit ==
  Init /\ ExecInit /\ ProbesInit /\ part \in {"slots", "tasks", "probes"}

PartsNext ==
  \/ part = "slots" /\ Next /\ UNCHANGED <<execVars, probeVars, part>>
  \/ part = "tasks" /\ ExecNext /\ UNCHANGED <<vars, probeVars, part>>
  \/ part = "probes" /\ ProbesNext /\ UNCHANGED <<vars, execVars, part>>

\* Goroutines are scheduled; requests and probes have timeouts.
Goroutines ==
  /\ \A j \in Jobs : WF_vars(part = "slots" /\ Run(j))
  /\ \A t \in Tasks : /\ WF_execVars(part = "tasks" /\ AgentStep(t))
                      /\ WF_execVars(part = "tasks" /\ ReaderStep(t))
  /\ \A w \in ProbeWorkers : WF_probeVars(part = "probes" /\ ProbeWorker(w))

PartsSpec == PartsInit /\ [][PartsNext]_<<vars, execVars, probeVars, part>> /\ Goroutines

\* A slot counts as taken exactly while somebody holds it: the kernel's for a
\* job, a provider's for a request, whatever was cancelled half-way.
SlotsKept == TypeOK /\ SlotAccounting /\ SlotsAreHeld

\* Jobs that hold a slot while they wait for another never wait for each other,
\* readers return unless an abandoned agent keeps its provider's slots, and a
\* provider does not stay in the queue unless the background context ends.
WorkEnds ==
  /\ <>[]((part # "slots" \/ AllJobsDone) /\ ReadersBack)
  /\ \A p \in Probed : []<>Served(p)
=============================================================================
