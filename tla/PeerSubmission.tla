--------------------------- MODULE PeerSubmission ---------------------------
(***************************************************************************)
(* Synchronous submissions of one session: several callers run             *)
(* submitTaskSync at once, each through the cache guard, the adaptive      *)
(* runtime, the router, the assignment policy and the token budget to an   *)
(* agent, and from agent to agent while executions fail.                   *)
(*                                                                         *)
(* They share the agents' mailboxes, the lanes and the session's state.    *)
(* An envelope is sent to the agent's mailbox and the first one there is   *)
(* fetched, whoever's it is; others read and fill the mailboxes too.  The  *)
(* session's state is read, changed and saved whole without a version, so  *)
(* that a save undoes what others saved since the read, and everything     *)
(* after a read that failed.                                               *)
(*                                                                         *)
(* Which of several candidates scores best is left open (TaskRouting has   *)
(* the scores).  Of the session's state only the token counts are kept, as *)
(* the number of executions counted for an agent's model (an agent has a   *)
(* model of its own).  Whether a model's tokens and those planned for the  *)
(* task, a quarter of its description's length, exceed the budget is left  *)
(* open: texts and the providers' counts decide it.  A lane is its error   *)
(* rate in quarters and whether it is suppressed (RuntimeManager has the   *)
(* races of its updates).                                                  *)
(***************************************************************************)
EXTENDS Integers, Sequences, FiniteSets, SequencesExt

CONSTANTS
  PsAgents,       \* registered agents
  PsOrchestrator, \* the one the adaptive runtime prefers
  PsListed,       \* agents of a provider in budgetFallbackProviders
  PsCallers,      \* requests being served
  PsMaxCalls,     \* bound: submissions
  PsMaxFaults,    \* bound: reads and saves that fail, others at the mailboxes
  PsMaxRecovered  \* bound: operator recoveries and suppressions that end

ASSUME SubmissionAssumption ==
  /\ PsOrchestrator \in PsAgents /\ PsListed \subseteq PsAgents
  /\ IsFiniteSet(PsCallers)
  /\ PsMaxCalls \in Nat /\ PsMaxFaults \in Nat /\ PsMaxRecovered \in Nat

VARIABLES
  psCall,       \* per caller: its submission
  psMail,       \* agents' mailboxes: the envelopes' tasks
  psErr,        \* lanes: error rate in quarters
  psShut,       \* lanes suppressed
  psUsage,      \* the session's state: executions counted per agent's model
  psStopped,    \* a hard stop is among the session's invalidations
  psCalls, psFaults, psRecovered,   \* bounds' counters
  psSpent,      \* history: executions that used tokens, per agent
  psFailed,     \* history: an execution failed
  psHelped,     \* history: lanes an operator recovered
  psConcurrent  \* history: two submissions were under way together

psGhosts == <<psSpent, psFailed, psHelped, psConcurrent>>
psBounds == <<psCalls, psFaults, psRecovered>>
psVars == <<psCall, psMail, psErr, psShut, psUsage, psStopped, psBounds, psGhosts>>

Resting == [pc |-> "idle", task |-> 0, assigned |-> {}, override |-> FALSE, agent |-> {},
            tried |-> {}, over |-> {}, copy |-> {}, status |-> "none"]

\* A lane that has failed three times in other sessions is suppressed, or its
\* suppression has ended.
PsInit ==
  /\ psCall = [c \in PsCallers |-> Resting]
  /\ psMail = [a \in PsAgents |-> <<>>]
  /\ psErr \in {[a \in PsAgents |-> IF a \in s THEN 3 ELSE 0] : s \in SUBSET (PsAgents \ {PsOrchestrator})}
  /\ psShut \in {{}, {a \in PsAgents : psErr[a] = 3}}
  /\ psUsage = [a \in PsAgents |-> 0]
  /\ psStopped = FALSE
  /\ psCalls = 0 /\ psFaults = 0 /\ psRecovered = 0
  /\ psSpent = [a \in PsAgents |-> 0]
  /\ psFailed = FALSE /\ psHelped = {} /\ psConcurrent = FALSE

\* Writing the next step of caller c's submission.
At(c, pc) == psCall[c].pc = pc
Now(c) == CHOOSE a \in psCall[c].agent : TRUE
Goes(c, r) == psCall' = [psCall EXCEPT ![c] = r]

\* SaveWorkflow of the record, and the caller has its answer; or the save fails
\* and it has an error.  Either way nothing of the submission is left here.
Ends(c) == Goes(c, Resting)

-----------------------------------------------------------------------------
(* Up to the first attempt.                                                *)

\* A request comes in; "assigned" is the provider it asks for, as the agents of
\* that provider.  Without a type it is refused and not stored.
Submit(c) ==
  /\ At(c, "idle") /\ psCalls < PsMaxCalls
  /\ psCalls' = psCalls + 1
  /\ \E assigned \in {{}} \cup {{a} : a \in PsAgents} :
       Goes(c, [Resting EXCEPT !.pc = "check", !.task = psCalls', !.assigned = assigned])
  /\ psConcurrent' = (psConcurrent \/ \E d \in PsCallers \ {c} : ~At(d, "idle"))
  /\ UNCHANGED <<psMail, psErr, psShut, psUsage, psStopped, psFaults, psRecovered,
                 psSpent, psFailed, psHelped>>

\* preflightPolicy: without a type or a description the submission ends; else the
\* CacheGuardSnapshot of the session is taken.  A hard stop rejects it, a snapshot
\* that cannot be read lets it through.
Preflight(c) ==
  /\ At(c, "check")
  /\ \/ Ends(c)
     \/ ~psStopped /\ Goes(c, [psCall[c] EXCEPT !.pc = "adapt"])
     \/ psStopped /\ psFaults < PsMaxFaults /\ Goes(c, [psCall[c] EXCEPT !.pc = "adapt"])
  /\ psFaults' = IF psStopped /\ psCall'[c].pc = "adapt" THEN psFaults + 1 ELSE psFaults
  /\ UNCHANGED <<psMail, psErr, psShut, psUsage, psStopped, psCalls, psRecovered, psGhosts>>

\* applyAdaptivePolicy: lanes at three quarters are suppressed again, and with
\* any lane degraded or shut the orchestrator is preferred.
Adapt(c) ==
  LET struck == {a \in PsAgents : psErr[a] >= 3}
  IN /\ At(c, "adapt")
     /\ psShut' = psShut \cup struck
     /\ Goes(c, [psCall[c] EXCEPT !.pc = "route",
                   !.override = psShut' # {} \/ \E a \in PsAgents : psErr[a] >= 1])
     /\ UNCHANGED <<psMail, psErr, psUsage, psStopped, psBounds, psGhosts>>

Candidates(k, exclude) ==
  LET open == PsAgents \ (psShut \cup exclude)
      filtered == IF k.assigned = {} \/ exclude # {} THEN open ELSE open \cap k.assigned
  IN  IF k.override /\ PsOrchestrator \in open THEN {PsOrchestrator} ELSE filtered

Route(c) ==
  LET k == psCall[c]
      found == Candidates(k, {})
  IN /\ At(c, "route")
     /\ \/ found = {} /\ Ends(c)
        \/ \E a \in found : Goes(c, [k EXCEPT !.pc = "policy", !.agent = {a}])
     /\ UNCHANGED <<psMail, psErr, psShut, psUsage, psStopped, psBounds, psGhosts>>

\* assignmentPolicy reads the lane again.
Assign(c) ==
  LET k == psCall[c]
      blocked == Now(c) \in psShut \/ (k.assigned # {} /\ Now(c) \notin k.assigned)
  IN /\ At(c, "policy")
     /\ \/ blocked /\ Ends(c)
        \/ ~blocked /\ Goes(c, [k EXCEPT !.pc = "budget"])
     /\ UNCHANGED <<psMail, psErr, psShut, psUsage, psStopped, psBounds, psGhosts>>

\* One round of enforceModelBudgetPolicy: RouteWithinProviders offers the next
\* agent, until one is within its budget or none is left.  Then the record is
\* saved with a failed result and the acceptance as it was.  EvaluateModelBudget
\* may find any model within its budget or beyond.
Budget(c) ==
  LET k == psCall[c]
      left == PsListed \ (psShut \cup k.over \cup k.agent)
  IN /\ At(c, "budget")
     /\ \/ Goes(c, [k EXCEPT !.pc = "attach", !.over = {},
                               !.assigned = IF k.over = {} THEN @ ELSE k.agent])
        \/ \E a \in left : Goes(c, [k EXCEPT !.agent = {a}, !.over = @ \cup k.agent])
        \/ left = {} /\ Ends(c)
     /\ UNCHANGED <<psMail, psErr, psShut, psUsage, psStopped, psBounds, psGhosts>>

-----------------------------------------------------------------------------
(* An attempt.                                                             *)

Undisturbed == ~psConcurrent /\ psFaults = 0

\* A step that may go wrong, as often as the bound allows.
Fails == psFaults < PsMaxFaults /\ psFaults' = psFaults + 1

Blank == [a \in PsAgents |-> 0]

\* persistSessionState: the session's state is read; if that fails it is taken
\* to be empty.
Read(c, pc, next) ==
  /\ At(c, pc)
  /\ \/ Goes(c, [psCall[c] EXCEPT !.pc = next, !.copy = {psUsage}]) /\ UNCHANGED psFaults
     \/ Goes(c, [psCall[c] EXCEPT !.pc = next, !.copy = {Blank}]) /\ Fails
  /\ UNCHANGED <<psMail, psErr, psShut, psUsage, psStopped, psCalls, psRecovered, psGhosts>>

\* What was read is saved, changed to u, over what is there by now; an error of
\* the save is ignored.
Save(c, pc, next, u) ==
  /\ At(c, pc)
  /\ \/ psUsage' = u /\ UNCHANGED psFaults
     \/ UNCHANGED psUsage /\ Fails
  /\ Goes(c, [psCall[c] EXCEPT !.pc = next, !.copy = {}])
  /\ UNCHANGED <<psMail, psErr, psShut, psStopped, psCalls, psRecovered, psGhosts>>

Copy(c) == CHOOSE u \in psCall[c].copy : TRUE

\* attachRuntimeContext, before every attempt.
Attach(c) == Read(c, "attach", "attached") \/ Save(c, "attached", "dispatch", Copy(c))

\* DispatchEnvelope to the agent's mailbox.
Dispatch(c) ==
  /\ At(c, "dispatch")
  /\ psMail' = [psMail EXCEPT ![Now(c)] = Append(@, psCall[c].task)]
  /\ Goes(c, [psCall[c] EXCEPT !.pc = "fetch"])
  /\ UNCHANGED <<psErr, psShut, psUsage, psStopped, psBounds, psGhosts>>

\* Mutant: the envelope is looked at and stays.
FetchKeeps(c) ==
  LET box == psMail[Now(c)]
      own == box # <<>> /\ Head(box) = psCall[c].task
  IN /\ At(c, "fetch")
     /\ Goes(c, [psCall[c] EXCEPT !.pc = IF own THEN "run" ELSE "misled"])
     /\ UNCHANGED <<psMail, psErr, psShut, psUsage, psStopped, psBounds, psGhosts>>

\* FetchAgentMailbox takes the first envelope if there is one (empty_mailbox),
\* ConfirmDeliveryPayload compares its checksum with that of the caller's own.
Fetch(c) ==
  LET box == psMail[Now(c)]
      own == box # <<>> /\ Head(box) = psCall[c].task
  IN /\ At(c, "fetch")
     /\ psMail' = [psMail EXCEPT ![Now(c)] = IF @ = <<>> THEN @ ELSE Tail(@)]
     /\ Goes(c, [psCall[c] EXCEPT !.pc = IF own THEN "run" ELSE "misled"])
     /\ UNCHANGED <<psErr, psShut, psUsage, psStopped, psBounds, psGhosts>>

\* No delivery, or not the caller's own: the attempt has failed unexecuted.
Misled(c) ==
  /\ At(c, "misled")
  /\ Goes(c, [psCall[c] EXCEPT !.pc = "keep", !.status = "failed"])
  /\ UNCHANGED <<psMail, psErr, psShut, psUsage, psStopped, psBounds, psGhosts>>

\* The agent executes, or no slot is free before the request is cancelled.  An
\* execution that fails reports no usage, one that succeeds may.
Run(c) ==
  /\ At(c, "run")
  /\ \/ /\ psSpent' = [psSpent EXCEPT ![Now(c)] = @ + 1] /\ UNCHANGED psFailed
        /\ Goes(c, [psCall[c] EXCEPT !.pc = "usage", !.status = "completed"])
     \/ /\ Goes(c, [psCall[c] EXCEPT !.pc = "outcome", !.status = "completed"])
        /\ UNCHANGED <<psSpent, psFailed>>
     \/ /\ psFailed' = TRUE /\ UNCHANGED psSpent
        /\ Goes(c, [psCall[c] EXCEPT !.pc = "outcome", !.status = "failed"])
     \/ /\ Goes(c, [psCall[c] EXCEPT !.pc = "next", !.status = "failed"])
        /\ UNCHANGED <<psSpent, psFailed>>
  /\ UNCHANGED <<psMail, psErr, psShut, psUsage, psStopped, psBounds, psHelped,
                 psConcurrent>>

\* RecordModelUsage: read, and save one more.
Usage(c) ==
  \/ Read(c, "usage", "used")
  \/ Save(c, "used", "outcome", [Copy(c) EXCEPT ![Now(c)] = @ + 1])

Least(x, y) == IF x < y THEN x ELSE y

\* RecordHardStop and RecordRuntimeFailure, or RecordSuccess; the delivery's ack.
Outcome(c) ==
  LET a == Now(c)
      e == IF psCall[c].status = "failed" THEN Least(4, psErr[a] + 1)
           ELSE IF psErr[a] > 2 THEN psErr[a] - 2 ELSE 0
  IN /\ At(c, "outcome")
     /\ psStopped' = (psStopped \/ psCall[c].status = "failed")
     /\ psErr' = [psErr EXCEPT ![a] = e]
     /\ psShut' = IF psCall[c].status = "failed" /\ e >= 3 THEN psShut \cup {a} ELSE psShut
     /\ Goes(c, [psCall[c] EXCEPT !.pc = "keep"])
     /\ UNCHANGED <<psMail, psUsage, psBounds, psGhosts>>

\* persistExecutionState.
Keep(c) == Read(c, "keep", "kept") \/ Save(c, "kept", "next", Copy(c))

\* Mutant: an agent that failed may be tried again.
FallbackForgets(c) ==
  LET k == psCall[c]
      found == Candidates(k, {})
      more == k.status = "failed" /\ found # {}
  IN /\ At(c, "next")
     /\ \/ /\ more
           /\ \E a \in found :
                Goes(c, [k EXCEPT !.pc = "attach", !.agent = {a}, !.tried = @ \cup k.agent,
                                  !.assigned = {a}, !.status = "none"])
        \/ ~more /\ Ends(c)
     /\ UNCHANGED <<psMail, psErr, psShut, psUsage, psStopped, psBounds, psGhosts>>

\* A failed attempt moves on to an agent not tried yet, as often as there are
\* agents; the task is bound to that agent's provider.  Else the record is saved.
Fallback(c) ==
  LET k == psCall[c]
      found == Candidates(k, k.tried \cup k.agent)
      more == k.status = "failed" /\ found # {} /\ Cardinality(k.tried) + 1 < Cardinality(PsAgents)
  IN /\ At(c, "next")
     /\ \/ /\ more
           /\ \E a \in found :
                Goes(c, [k EXCEPT !.pc = "attach", !.agent = {a}, !.tried = @ \cup k.agent,
                                  !.assigned = {a}, !.status = "none"])
        \/ ~more /\ Ends(c)
     /\ UNCHANGED <<psMail, psErr, psShut, psUsage, psStopped, psBounds, psGhosts>>

-----------------------------------------------------------------------------
(* Others.                                                                 *)

\* mailbox.fetch takes the first envelope of a mailbox.
Take(a) ==
  /\ psMail[a] # <<>> /\ Fails
  /\ psMail' = [psMail EXCEPT ![a] = Tail(@)]
  /\ UNCHANGED <<psCall, psErr, psShut, psUsage, psStopped, psCalls, psRecovered, psGhosts>>

\* InspectTimeouts sends the envelope of an attempt again that is under way.
Again(c) ==
  /\ psCall[c].pc \in {"fetch", "misled", "run", "usage", "used", "outcome", "keep", "kept", "next"}
  /\ Fails
  /\ psMail' = [psMail EXCEPT ![Now(c)] = Append(@, psCall[c].task)]
  /\ UNCHANGED <<psCall, psErr, psShut, psUsage, psStopped, psCalls, psRecovered, psGhosts>>

\* The time of a suppression passes: minutes, and no submission is that long
\* between its look at the lanes and its routing.
Expire(a) ==
  /\ \A c \in PsCallers : ~At(c, "route")
  /\ a \in psShut /\ psRecovered < PsMaxRecovered
  /\ psRecovered' = psRecovered + 1
  /\ psShut' = psShut \ {a}
  /\ UNCHANGED <<psCall, psMail, psErr, psUsage, psStopped, psCalls, psFaults, psGhosts>>

\* An operator recovers the lane: RecoverLane leaves its error rate.
Recover(a) ==
  /\ a \in psShut /\ psRecovered < PsMaxRecovered
  /\ psRecovered' = psRecovered + 1
  /\ psShut' = psShut \ {a} /\ psHelped' = psHelped \cup {a}
  /\ UNCHANGED <<psCall, psMail, psErr, psUsage, psStopped, psCalls, psFaults,
                 psSpent, psFailed, psConcurrent>>

PsStep(c) ==
  \/ Preflight(c) \/ Adapt(c) \/ Route(c) \/ Assign(c) \/ Budget(c)
  \/ Attach(c) \/ Dispatch(c) \/ Fetch(c) \/ Misled(c) \/ Run(c) \/ Usage(c) \/ Outcome(c)
  \/ Keep(c) \/ Fallback(c)

PsNext ==
  \/ \E c \in PsCallers : Submit(c) \/ PsStep(c) \/ Again(c)
  \/ \E a \in PsAgents : Take(a) \/ Expire(a) \/ Recover(a)

PsSpec == PsInit /\ [][PsNext]_psVars /\ \A c \in PsCallers : WF_psVars(PsStep(c))

-----------------------------------------------------------------------------
(* Properties.                                                             *)

Pcs == {"idle", "check", "adapt", "route", "policy", "budget", "attach", "attached",
        "dispatch", "fetch", "misled", "run", "usage", "used", "outcome", "keep", "kept", "next"}

PsTypeOK ==
  /\ \A c \in PsCallers :
       /\ psCall[c].pc \in Pcs
       /\ psCall[c].agent \cup psCall[c].tried \cup psCall[c].over \subseteq PsAgents
       /\ Cardinality(psCall[c].agent) <= 1
       /\ psCall[c].status \in {"none", "completed", "failed"}
  /\ \A a \in PsAgents : psErr[a] \in 0..4 /\ ToSet(psMail[a]) \subseteq Nat
  /\ psShut \subseteq PsAgents
  /\ psStopped \in BOOLEAN

\* Submissions one after another get their own envelopes, each execution that
\* used tokens is counted once, and no envelope is left, as long as the session's
\* state can be read and saved and no one else is at the mailboxes.
SerialExact ==
  Undisturbed =>
    /\ \A c \in PsCallers : ~At(c, "misled")
    /\ (\A c \in PsCallers : At(c, "idle")) =>
         psUsage = psSpent /\ \A a \in PsAgents : psMail[a] = <<>>

\* However saves overwrite each other and reads and saves fail, the session's
\* state never counts an execution twice: a budget is never refused for tokens
\* that nobody used.
UsageNotOverstated == \A a \in PsAgents : psUsage[a] <= psSpent[a]

\* Only an execution that failed stops the session; a delivery that went wrong
\* between two callers does not.
StopHasFailure == psStopped => psFailed

\* A submission never comes back to an agent that has failed it.
NeverTwice == \A c \in PsCallers : psCall[c].agent \cap psCall[c].tried = {}

\* The end of its suppression does not bring a lane back that failed too often:
\* submissions route their first attempt to it only after an operator's help.
StruckLaneNeedsHelp ==
  \A c \in PsCallers, a \in PsAgents :
    At(c, "route") /\ psCall'[c].pc = "policy" /\ psCall'[c].agent = {a} =>
      psErr[a] < 3 \/ a \in psHelped

\* What a submission does to its session and to its agents' mailboxes comes
\* out even, however two of them interleave and attempts fail.
SubmissionSound ==
  PsTypeOK /\ SerialExact /\ UsageNotOverstated /\ StopHasFailure /\ NeverTwice
=============================================================================
