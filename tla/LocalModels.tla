----------------------------- MODULE LocalModels -----------------------------
(***************************************************************************)
(* The manager of local models and the runtime through which it talks to   *)
(* their servers.  Connect, Warm, Disconnect and Residents change what a   *)
(* server has loaded, list it and bring the records up to date, each step  *)
(* under its own hold of the lock.  A request goes to the endpoints one    *)
(* after another, the one that answered last first, in several rounds.     *)
(*                                                                         *)
(* Endpoints are servers of their own (fallbacks).  A request may be lost  *)
(* before or after the server acted on it.  Sizes and times are left out;  *)
(* a record's error stands for LastError.                                  *)
(***************************************************************************)
EXTENDS Integers, Sequences, FiniteSets

CONSTANTS
  LoCallers,
  LoModels,     \* the models that have a record
  LoEndpoints,  \* sequence of endpoints, the configured one first
  LoAttempts,   \* RetryPolicy.MaxAttempts
  LoMaxCalls,   \* bound: operations called
  LoMaxFaults   \* bound: servers that fall over or come back, models that expire

LoNodes == {LoEndpoints[i] : i \in DOMAIN LoEndpoints}

\* The endpoints are listed once each.
ASSUME LocalAssumption ==
  /\ LoEndpoints \in Seq(LoNodes) \ {<<>>}
  /\ \A i, j \in DOMAIN LoEndpoints : LoEndpoints[i] = LoEndpoints[j] => i = j
  /\ IsFiniteSet(LoCallers)
  /\ LoAttempts \in Nat \ {0} /\ LoMaxCalls \in Nat /\ LoMaxFaults \in Nat

VARIABLES
  loUp,       \* endpoints whose server answers
  loLoaded,   \* per endpoint: the models it has loaded
  loActive,   \* Runtime.activeEndpoint
  loRecord,   \* Manager.records: per model, resident, error, warmups and evictions
  loCall,     \* per caller: the operation under way
  loDone,     \* history: per model and request, how often a server did it
  loCalls, loFaults  \* the bounds' counters

loVars == <<loUp, loLoaded, loActive, loRecord, loCall, loDone, loCalls, loFaults>>

Resting == [op |-> "none", model |-> CHOOSE m \in LoModels : TRUE, pc |-> "idle", todo |-> <<>>,
            rounds |-> 0, seen |-> {}, alone |-> FALSE]

LoInit ==
  /\ loUp = LoNodes /\ loLoaded = [e \in LoNodes |-> {}] /\ loActive = LoEndpoints[1]
  /\ loRecord = [m \in LoModels |-> [resident |-> FALSE, error |-> FALSE, warmups |-> 0, evictions |-> 0]]
  /\ loCall = [c \in LoCallers |-> Resting]
  /\ loDone = [m \in LoModels |-> [warm |-> 0, unload |-> 0]]
  /\ loCalls = 0 /\ loFaults = 0

\* endpointOrder: the active endpoint, then the others in their order.
EndpointOrder ==
  LET i == CHOOSE i \in DOMAIN LoEndpoints : LoEndpoints[i] = loActive
  IN <<loActive>> \o SubSeq(LoEndpoints, 1, i - 1) \o SubSeq(LoEndpoints, i + 1, Len(LoEndpoints))

\* What c does next; whoever else is at work is no longer alone.
Step(c, x) ==
  loCall' = [d \in LoCallers |-> IF d = c THEN x ELSE [loCall[d] EXCEPT !.alone = FALSE]]

Requesting(c) == loCall[c].pc \in {"pull", "warm", "unload", "list"}
Ask(x, pc) == [x EXCEPT !.pc = pc, !.todo = <<>>, !.rounds = LoAttempts]

-----------------------------------------------------------------------------
(* Operations.                                                             *)

\* Connect pulls and warms, Warm warms, Disconnect unloads, Residents only lists.
Call(c) ==
  /\ loCall[c].pc = "idle" /\ loCalls < LoMaxCalls
  /\ loCalls' = loCalls + 1
  /\ \E m \in LoModels, first \in {"pull", "warm", "unload", "list"} :
       Step(c, Ask([Resting EXCEPT !.op = first, !.model = m,
                      !.alone = \A d \in LoCallers : loCall[d].pc = "idle"], first))
  /\ UNCHANGED <<loUp, loLoaded, loActive, loRecord, loDone, loFaults>>

\* Mutant: rounds are not counted.
RoundEndless(c) ==
  /\ Requesting(c) /\ loCall[c].todo = <<>>
  /\ Step(c, [loCall[c] EXCEPT !.todo = EndpointOrder])
  /\ UNCHANGED <<loUp, loLoaded, loActive, loRecord, loDone, loCalls, loFaults>>

\* doJSON begins a round.
Round(c) ==
  /\ Requesting(c) /\ loCall[c].todo = <<>> /\ loCall[c].rounds > 0
  /\ Step(c, [loCall[c] EXCEPT !.todo = EndpointOrder, !.rounds = @ - 1])
  /\ UNCHANGED <<loUp, loLoaded, loActive, loRecord, loDone, loCalls, loFaults>>

\* What a server does with a request; pulling and listing load nothing.
Effect(x, e) ==
  /\ loLoaded' = [loLoaded EXCEPT ![e] = CASE x.pc = "warm" -> @ \cup {x.model}
                                           [] x.pc = "unload" -> @ \ {x.model} [] OTHER -> @]
  /\ loDone' = IF x.pc \in {"warm", "unload"} THEN [loDone EXCEPT ![x.model][x.pc] = @ + 1] ELSE loDone

\* Mutant: the endpoint that answered is not remembered.
AnsweredForgets(c) ==
  LET x == loCall[c]  e == Head(x.todo)
  IN /\ Requesting(c) /\ x.todo # <<>> /\ e \in loUp
     /\ Effect(x, e)
     /\ Step(c, CASE x.pc = "pull" -> Ask(x, "warm") [] x.pc = "list" -> [x EXCEPT !.pc = "apply", !.seen = loLoaded[e]]
                  [] OTHER -> Ask(x, "list"))
     /\ UNCHANGED <<loUp, loActive, loRecord, loCalls, loFaults>>

\* The first endpoint answers: it is the active one from now on.
Answered(c) ==
  LET x == loCall[c]  e == Head(x.todo)
  IN /\ Requesting(c) /\ x.todo # <<>> /\ e \in loUp
     /\ Effect(x, e) /\ loActive' = e
     /\ Step(c, CASE x.pc = "pull" -> Ask(x, "warm")
                  [] x.pc = "list" -> [x EXCEPT !.pc = "apply", !.seen = loLoaded[e]]
                  [] OTHER -> Ask(x, "list"))
     /\ UNCHANGED <<loUp, loRecord, loCalls, loFaults>>

\* The request is given up.
GivenUp(x) == [x EXCEPT !.pc = IF @ = "list" THEN "applyError" ELSE "mark"]

\* A request failed: the next endpoint, another round, or the end.
\* A listing that moves on may come from another server than the change.
After(x) ==
  IF Len(x.todo) = 1 /\ x.rounds = 0 THEN GivenUp(x)
  ELSE [x EXCEPT !.todo = Tail(@), !.alone = @ /\ x.pc # "list"]

\* No answer within the timeout: the server is down, or the request or, after
\* the server acted, its answer is lost.
\* An error of the kind that is retried is the same, and so is a caller whose
\* context ends meanwhile, but for the retrying.
Unanswered(c) ==
  LET x == loCall[c]  e == Head(x.todo)
  IN /\ Requesting(c) /\ x.todo # <<>>
     /\ \/ e \notin loUp /\ UNCHANGED <<loLoaded, loDone, loFaults>>
        \/ /\ e \in loUp /\ loFaults < LoMaxFaults /\ loFaults' = loFaults + 1
           /\ (Effect(x, e) \/ UNCHANGED <<loLoaded, loDone>>)
     /\ (Step(c, After(x)) \/ Step(c, GivenUp(x)))
     /\ UNCHANGED <<loUp, loActive, loRecord, loCalls>>

\* A status that is not retried, or the context ends while a round is awaited.
Refused(c) ==
  LET x == loCall[c]
  IN /\ Requesting(c)
     /\ x.todo = <<>> => x.rounds \in 1..(LoAttempts - 1)
     /\ x.todo # <<>> => Head(x.todo) \in loUp
     /\ Step(c, GivenUp(x))
     /\ UNCHANGED <<loUp, loLoaded, loActive, loRecord, loDone, loCalls, loFaults>>

\* markFailure of the pull, warming or unloading.
MarkFailure(c) ==
  /\ loCall[c].pc = "mark"
  /\ loRecord' = [loRecord EXCEPT ![loCall[c].model].error = TRUE]
  /\ Step(c, Resting)
  /\ UNCHANGED <<loUp, loLoaded, loActive, loDone, loCalls, loFaults>>

\* Sync after a failed listing: nothing counts as resident, everything failed.
ApplyError(c) ==
  /\ loCall[c].pc = "applyError"
  /\ loRecord' = [m \in LoModels |-> [loRecord[m] EXCEPT !.resident = FALSE, !.error = TRUE]]
  /\ Step(c, Resting)
  /\ UNCHANGED <<loUp, loLoaded, loActive, loDone, loCalls, loFaults>>

\* Sync after a listing: residents are as listed, and only their errors are gone.
Apply(c) ==
  LET x == loCall[c]
  IN /\ x.pc = "apply"
     /\ loRecord' = [m \in LoModels |->
          IF m \in x.seen THEN [loRecord[m] EXCEPT !.resident = TRUE, !.error = FALSE]
          ELSE [loRecord[m] EXCEPT !.resident = FALSE]]
     /\ Step(c, IF x.op = "list" THEN Resting ELSE [x EXCEPT !.pc = "finish"])
     /\ UNCHANGED <<loUp, loLoaded, loActive, loDone, loCalls, loFaults>>

\* The operation is noted in its record and answered.
Finish(c) ==
  LET x == loCall[c]
      Noted(r) == IF x.op = "unload" THEN [r EXCEPT !.evictions = @ + 1] ELSE [r EXCEPT !.warmups = @ + 1]
  IN /\ x.pc = "finish"
     /\ loRecord' = [loRecord EXCEPT ![x.model] = [Noted(@) EXCEPT !.error = FALSE]]
     /\ Step(c, Resting)
     /\ UNCHANGED <<loUp, loLoaded, loActive, loDone, loCalls, loFaults>>

\* Servers go or return, or a model it kept warm expires: no one is alone.
Disturb ==
  /\ loFaults < LoMaxFaults /\ loFaults' = loFaults + 1
  /\ \/ loUp' \in (SUBSET LoNodes) \ {loUp} /\ UNCHANGED loLoaded
     \/ \E e \in LoNodes : \E m \in loLoaded[e] :
          loLoaded' = [loLoaded EXCEPT ![e] = @ \ {m}] /\ UNCHANGED loUp
  /\ loCall' = [c \in LoCallers |-> [loCall[c] EXCEPT !.alone = FALSE]]
  /\ UNCHANGED <<loActive, loRecord, loDone, loCalls>>

LoStep(c) ==
  \/ Round(c) \/ Answered(c) \/ Unanswered(c) \/ Refused(c)
  \/ MarkFailure(c) \/ ApplyError(c) \/ Apply(c) \/ Finish(c)

LoNext == Disturb \/ \E c \in LoCallers : Call(c) \/ LoStep(c)

\* Requests have timeouts, so that a call in progress goes on.
LoSpec == LoInit /\ [][LoNext]_loVars /\ \A c \in LoCallers : WF_loVars(LoStep(c))

-----------------------------------------------------------------------------
(* Properties.                                                             *)

LoTypeOK ==
  /\ loUp \subseteq LoNodes /\ loActive \in LoNodes
  /\ \A e \in LoNodes : loLoaded[e] \subseteq LoModels
  /\ \A c \in LoCallers :
       /\ loCall[c].pc \in {"idle", "pull", "warm", "unload", "list", "mark", "applyError", "apply", "finish"}
       /\ loCall[c].rounds \in 0..LoAttempts
       /\ Len(loCall[c].todo) <= Len(LoEndpoints)

\* An operation that nobody disturbs and whose listing does not move to another
\* server leaves the records as the server it spoke to is: whatever endpoint
\* the change fell back to, and however often it was lost, a warmed model shows
\* as resident and a disconnected one does not.
DoneAsTold ==
  \A c \in LoCallers :
    loCall[c].pc = "finish" /\ loCall[c].alone =>
      /\ \A m \in LoModels : loRecord[m].resident = (m \in loLoaded[loActive])
      /\ loRecord[loCall[c].model].resident = (loCall[c].op # "unload")

\* No warming or eviction is counted that no server did, however many answers
\* were lost and requests repeated.
CountsHonest ==
  \A m \in LoModels :
    loRecord[m].warmups <= loDone[m].warm /\ loRecord[m].evictions <= loDone[m].unload

\* The records of the local models are true of the servers: an undisturbed
\* operation shows as done, and nothing is counted that no server did.
LocalSound == LoTypeOK /\ DoneAsTold /\ CountsHonest
=============================================================================
