-------------------------- MODULE WorkflowWaiters --------------------------
(***************************************************************************)
(* Waiting for a workflow to end: WaitWorkflowTerminal, used by callers of *)
(* asynchronous submissions and by the plan executor, and                  *)
(* notifyWorkflowWaiters, called by whoever saved the workflow.            *)
(*                                                                         *)
(* One workflow.  A waiter looks at the store, registers a channel of      *)
(* capacity one under resultMu and waits; a reporter saves the record,     *)
(* takes the registered channels under resultMu and offers each of them    *)
(* the record without blocking.                                            *)
(***************************************************************************)
EXTENDS Naturals

CONSTANTS
  Waiters,     \* calls of WaitWorkflowTerminal
  Reporters,   \* goroutines that save the workflow and notify
  MaxReopened  \* bound: results saved as running

VARIABLES
  path,        \* who executes the task: the agents, or the coding runtime
  stored,      \* the saved workflow: still open, or terminal
  registered,  \* resultWaiters of the workflow
  chan,        \* record in a waiter's channel
  waiter,      \* per waiter: where it is
  reporter,    \* per reporter: where it is
  record,      \* per reporter: the record it announces
  targets,     \* per reporter: channels copied and not yet offered the record
  reopened     \* results saved as running so far

ASSUME ReopenedAssumption == MaxReopened \in Nat

reporting == <<reporter, record, targets>>
vars == <<path, stored, registered, chan, waiter, reporting, reopened>>

Records == {"open", "terminal"}

TypeOK ==
  /\ path \in {"agents", "coding"}
  /\ stored \in Records
  /\ registered \subseteq Waiters
  /\ chan \in [Waiters -> Records \cup {"empty"}]
  /\ waiter \in [Waiters -> {"start", "checked", "waiting", "leaving", "returned"}]
  /\ reporter \in [Reporters -> {"working", "saved", "sending"}]
  /\ record \in [Reporters -> Records]
  /\ targets \in [Reporters -> SUBSET Waiters]
  /\ reopened \in 0 .. MaxReopened

Init ==
  /\ path \in {"agents", "coding"}
  /\ stored = "open"
  /\ registered = {}
  /\ chan = [w \in Waiters |-> "empty"]
  /\ waiter = [w \in Waiters |-> "start"]
  /\ reporter = [r \in Reporters |-> "working"]
  /\ record = [r \in Reporters |-> "open"]
  /\ targets = [r \in Reporters |-> {}]
  /\ reopened = 0

-----------------------------------------------------------------------------
(* WaitWorkflowTerminal.                                                   *)

Move(w, s) == waiter' = [waiter EXCEPT ![w] = s]

Check(w) ==
  /\ waiter[w] = "start"
  /\ Move(w, IF stored = "terminal" THEN "returned" ELSE "checked")
  /\ UNCHANGED <<path, stored, registered, chan, reporting, reopened>>

Register(w) ==
  /\ waiter[w] = "checked"
  /\ registered' = registered \cup {w}
  /\ Move(w, "waiting")
  /\ UNCHANGED <<path, stored, chan, reporting, reopened>>

\* A record that is not terminal sends the waiter back to its select.
Receive(w) ==
  /\ waiter[w] = "waiting"
  /\ chan[w] # "empty"
  /\ chan' = [chan EXCEPT ![w] = "empty"]
  /\ Move(w, IF chan[w] = "terminal" THEN "leaving" ELSE "waiting")
  /\ UNCHANGED <<path, stored, registered, reporting, reopened>>

Cancelled(w) ==
  /\ waiter[w] = "waiting"
  /\ Move(w, "leaving")
  /\ UNCHANGED <<path, stored, registered, chan, reporting, reopened>>

\* Mutant: the channel stays registered.
RemoveWorkflowWaiterSkip(w) ==
  /\ waiter[w] = "leaving"
  /\ Move(w, "returned")
  /\ UNCHANGED <<path, stored, registered, chan, reporting, reopened>>

\* The deferred removeWorkflowWaiter.
RemoveWorkflowWaiter(w) ==
  /\ waiter[w] = "leaving"
  /\ registered' = registered \ {w}
  /\ Move(w, "returned")
  /\ UNCHANGED <<path, stored, chan, reporting, reopened>>

-----------------------------------------------------------------------------
(* Reporters: handleTaskResult, dispatchTaskAsync and submitTaskSync for a *)
(* task of the agents, any number of them when results are duplicated; the *)
(* one goroutine that delegates a task to the coding runtime.              *)

MayReport(r) ==
  /\ reporter[r] = "working"
  /\ path = "coding" => \A q \in Reporters : reporter[q] = "working"

Save(r) ==
  /\ MayReport(r)
  /\ stored' = "terminal"
  /\ record' = [record EXCEPT ![r] = "terminal"]
  /\ reporter' = [reporter EXCEPT ![r] = "saved"]
  /\ UNCHANGED <<path, registered, chan, waiter, targets, reopened>>

\* A failed result that is routed again, and a result that is queued or
\* running: the record is running, whatever it was, and nobody is told.  The
\* reporter has the task's next result to handle.
SaveRunning(r) ==
  /\ MayReport(r)
  /\ path = "agents"
  /\ reopened < MaxReopened
  /\ reopened' = reopened + 1
  /\ stored' = "open"
  /\ UNCHANGED <<path, registered, chan, waiter, reporting>>

\* StartTask fails: a failed result is saved, but with the acceptance status
\* "accepted".
CodingStartFails(r) ==
  /\ MayReport(r)
  /\ path = "coding"
  /\ stored' = "open"
  /\ record' = [record EXCEPT ![r] = "open"]
  /\ reporter' = [reporter EXCEPT ![r] = "saved"]
  /\ UNCHANGED <<path, registered, chan, waiter, targets, reopened>>

\* The delegate's goroutine ignores the store's error and notifies anyway.
CodingSaveFails(r) ==
  /\ MayReport(r)
  /\ path = "coding"
  /\ record' = [record EXCEPT ![r] = "terminal"]
  /\ reporter' = [reporter EXCEPT ![r] = "saved"]
  /\ UNCHANGED <<path, stored, registered, chan, waiter, targets, reopened>>

\* Mutant: the channels are forgotten before they are copied.
CollectWaitersLate(r) ==
  /\ reporter[r] = "saved"
  /\ registered' = IF record[r] = "terminal" THEN {} ELSE registered
  /\ targets' = [targets EXCEPT ![r] = registered']
  /\ reporter' = [reporter EXCEPT ![r] = "sending"]
  /\ UNCHANGED <<path, stored, chan, waiter, record, reopened>>

\* notifyWorkflowWaiters, under resultMu.
CollectWaiters(r) ==
  /\ reporter[r] = "saved"
  /\ targets' = [targets EXCEPT ![r] = registered]
  /\ registered' = IF record[r] = "terminal" THEN {} ELSE registered
  /\ reporter' = [reporter EXCEPT ![r] = "sending"]
  /\ UNCHANGED <<path, stored, chan, waiter, record, reopened>>

\* A full channel drops the record.
Send(r, w) ==
  /\ w \in targets[r]
  /\ targets' = [targets EXCEPT ![r] = @ \ {w}]
  /\ chan' = IF chan[w] = "empty" THEN [chan EXCEPT ![w] = record[r]] ELSE chan
  /\ UNCHANGED <<path, stored, registered, waiter, reporter, record, reopened>>

-----------------------------------------------------------------------------
Waiting(w) == Check(w) \/ Register(w) \/ Receive(w) \/ RemoveWorkflowWaiter(w)

Reporting(r) ==
  \/ Save(r) \/ SaveRunning(r) \/ CodingStartFails(r) \/ CodingSaveFails(r)
  \/ CollectWaiters(r)
  \/ \E w \in Waiters : Send(r, w)

Next ==
  \/ \E w \in Waiters : Waiting(w) \/ Cancelled(w)
  \/ \E r \in Reporters : Reporting(r)

Spec == Init /\ [][Next]_vars

\* Waiters and reporters are goroutines that keep running; a context need not
\* ever be cancelled.
FairSpec ==
  /\ Spec
  /\ \A w \in Waiters : WF_vars(Waiting(w))
  /\ \A r \in Reporters : WF_vars(Reporting(r))

-----------------------------------------------------------------------------
(* Properties.                                                             *)

\* A waiter that has not been told of the end is still known: registered, or
\* about to be offered a terminal record.  No notification takes a waiter off
\* the list, or finds its channel full, without its hearing of the end.
SleeperIsKnown ==
  \A w \in Waiters :
    waiter[w] = "waiting" /\ chan[w] # "terminal" =>
      w \in registered \/ \E r \in Reporters : w \in targets[r] /\ record[r] = "terminal"

\* The map does not grow: a call that has returned leaves no channel behind.
NoLeak == \A w \in registered : waiter[w] \in {"waiting", "leaving"}

\* A waiter registered while the workflow is open gets its answer, whether the
\* record ends for the first time or was opened again.
RegisteredIsServed ==
  \A w \in Waiters :
    path = "agents" /\ w \in registered /\ stored = "open" ~> waiter[w] = "returned"

\* Tests expect every wait for a submitted task to return.
WaitReturns == \A w \in Waiters : <>(waiter[w] = "returned" \/ path = "coding")
=============================================================================
