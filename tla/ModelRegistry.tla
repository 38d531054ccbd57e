---------------------------- MODULE ModelRegistry ----------------------------
(***************************************************************************)
(* The provider model registry: refreshes that fetch every provider's      *)
(* inventory, probe the models that are due, filter them through the model *)
(* catalogue and publish one snapshot per provider, which routing reads.   *)
(*                                                                         *)
(* Time is in ticks.  A row keeps what decides its next state (status,     *)
(* verification, inventory, times, queue position); texts, latencies,      *)
(* counters nobody reads and metadata are left out.  A provider's answer   *)
(* is a status code and the class of its text.                             *)
(***************************************************************************)
EXTENDS Integers, Sequences, FiniteSets, SequencesExt

CONSTANTS
  Providers,        \* keys of configs
  Configured,       \* providers with credentials and a real endpoint
  Names,            \* the model names in the order inventories are sorted
  Default,          \* the configured default model, or NoModel
  NoModel,
  NotForTransport,  \* models the validation transport cannot serve
  Inventories,      \* answers of the models source and the codex source
  Replies,          \* answers to a probe
  Callers,          \* the ticker's goroutine and health requests
  Interval, PendingTTL, ConfirmationTTL, RetryCooldown,
  ValidationLimit, QueueLimit,
  MaxTime,          \* bound: ticks
  MaxRestarts       \* bound: restarts of the process

Models == ToSet(Names)
Never  == -1

ASSUME RegistryAssumption ==
  /\ Configured \subseteq Providers
  /\ Names \in Seq(Models) /\ Names # <<>>
  /\ \A a \in Inventories : \A source \in {a.main, a.codex} :
       source.listed \cup source.disabled \subseteq Models
  /\ NotForTransport \subseteq Models
  /\ Default \in Models \cup {NoModel} /\ NoModel \notin Models
  /\ {Interval, PendingTTL, ConfirmationTTL, RetryCooldown} \subseteq Nat \ {0}
  /\ {ValidationLimit, QueueLimit, MaxTime, MaxRestarts} \subseteq Nat

VARIABLES
  now,         \* the clock
  snapshots,   \* ProviderModelRegistry.snapshots
  refreshing,  \* the flag of a refresh under way
  work,        \* per caller and provider: the fetch under way
  caller,      \* per caller: "idle", "fetch" or "finish"
  entries,     \* modelCatalog.entries
  file,        \* the catalogue file
  restarts,    \* restarts so far
  probed       \* history: fetch and outcome of the last probe of each row kept since

vars == <<now, snapshots, refreshing, work, caller, entries, file, restarts, probed>>

Statuses == {"verification_pending", "missing", "disabled", "transport_inapplicable",
             "registration_stale", "ready", "verification_cooldown",
             "registration_queued", "registration_overflow", "validation_failed"}
RowType == [status : Statuses, available : BOOLEAN,
            inventory : {"verified", "missing", "unavailable"},
            verification : {"verifying", "unconfirmed", "stale", "confirmed", "skipped"},
            started : Int, success : Int, next : Int, expires : Int, position : Nat]
RowsType(rows) == DOMAIN rows \subseteq Models /\ \A m \in DOMAIN rows : rows[m] \in RowType

NoProbe    == [at |-> Never, outcome |-> "none"]
NoRows     == [m \in {} |-> 0]
NoSnapshot == [at |-> Never, status |-> "none", models |-> NoRows]
NoWork     == [stage |-> "none", at |-> Never, rows |-> NoRows, queue |-> {},
               errors |-> FALSE, status |-> "none"]

TypeOK ==
  /\ now \in 0..MaxTime /\ restarts \in 0..MaxRestarts /\ refreshing \in BOOLEAN
  /\ \A p \in Providers :
       /\ snapshots[p].at \in Never..now /\ RowsType(snapshots[p].models)
       /\ entries[p] \subseteq Models /\ file[p] \subseteq Models
  /\ \A c \in Callers, p \in Providers :
       /\ caller[c] \in {"idle", "fetch", "finish"}
       /\ work[c][p].stage \in {"none", "start", "probe", "done"}
       /\ RowsType(work[c][p].rows) /\ work[c][p].queue \subseteq Models

Init ==
  /\ now = 0 /\ restarts = 0 /\ refreshing = FALSE
  /\ snapshots = [p \in Providers |-> NoSnapshot]
  /\ work = [c \in Callers |-> [p \in Providers |-> NoWork]]
  /\ caller = [c \in Callers |-> "idle"]
  /\ \E listed \in {{}, {Names[1]}} : file = [p \in Providers |-> listed]
  /\ entries = file
  /\ probed = [p \in Providers |-> [m \in Models |-> NoProbe]]

-----------------------------------------------------------------------------
(* The inventory of a provider.                                            *)

Discovered(disabled) ==
  [status       |-> IF disabled THEN "disabled" ELSE "verification_pending",
   available    |-> FALSE, inventory |-> "verified",
   verification |-> IF disabled THEN "unconfirmed" ELSE "verifying",
   started |-> Never, success |-> Never, next |-> Never, expires |-> Never, position |-> 0]

\* Rows of the models source first; an optional source that is not found is
\* not an error when there are rows already.
FetchProviderModels(main, codex) ==
  LET names == main.listed \cup main.disabled \cup codex.listed \cup codex.disabled
      off(m) == m \in main.disabled \/ (m \notin main.listed /\ m \in codex.disabled)
  IN  [rows   |-> [m \in names |-> Discovered(off(m))],
       errors |-> \/ main.error # "none"
                  \/ codex.error = "failed"
                  \/ codex.error = "not_found" /\ main.listed \cup main.disabled = {}]

\* A configured default model always has a row.
WithDefault(rows) ==
  IF Default = NoModel \/ Default \in DOMAIN rows THEN rows
  ELSE [m \in DOMAIN rows \cup {Default} |->
          IF m \in DOMAIN rows THEN rows[m]
          ELSE IF rows = NoRows
          THEN [Discovered(FALSE) EXCEPT !.inventory = "unavailable"]
          ELSE [Discovered(TRUE) EXCEPT !.status = "missing", !.inventory = "missing"]]

MergeProviderLifecycle(row, previous) ==
  [row EXCEPT !.started = previous.started, !.success = previous.success,
              !.next = previous.next, !.expires = previous.expires,
              !.position = previous.position]

Merged(p, rows) ==
  [m \in DOMAIN rows |-> IF m \in DOMAIN snapshots[p].models
                         THEN MergeProviderLifecycle(rows[m], snapshots[p].models[m])
                         ELSE rows[m]]

-----------------------------------------------------------------------------
(* Which models are probed.                                                *)

CanParticipate(row) == row.status \notin {"disabled", "missing", "transport_inapplicable"}

\* keepConfirmedModelFresh: whether the row stays confirmed.
KeepConfirmedFresh(row, at) ==
  /\ row.verification = "confirmed" /\ row.available
  /\ row.expires # Never \/ row.success # Never
  /\ at <= (IF row.expires # Never THEN row.expires ELSE row.success + ConfirmationTTL)

Prepared(row, at) ==
  LET stale   == row.started # Never /\ at - row.started >= PendingTTL
      expires == IF row.success # Never /\ row.expires = Never
                 THEN row.success + ConfirmationTTL ELSE row.expires
  IN  [row EXCEPT !.available = FALSE, !.expires = expires,
                  !.started = IF @ = Never THEN at ELSE @,
                  !.status = IF stale THEN "registration_stale" ELSE @,
                  !.verification = IF stale \/ @ = "confirmed" THEN "stale" ELSE @]

RegistrationDue(row, at) == row.next = Never \/ at >= row.next

\* The order of validation: the default model first, the others by name.
PrioritizeModelValidation(m) ==
  IF m = Default THEN 0 ELSE CHOOSE i \in DOMAIN Names : Names[i] = m

\* The models that want a place in the queue, and their places in the order.
Due(rows, at) ==
  {m \in DOMAIN rows :
     /\ CanParticipate(rows[m]) /\ ~KeepConfirmedFresh(rows[m], at)
     /\ m \notin NotForTransport /\ RegistrationDue(Prepared(rows[m], at), at)}

Place(m, due) ==
  Cardinality({n \in due : PrioritizeModelValidation(n) <= PrioritizeModelValidation(m)})

Within(place, limit) == limit = 0 \/ place <= limit

Probes(due) == {m \in due : Within(Place(m, due), QueueLimit) /\ Within(Place(m, due), ValidationLimit)}

\* What the loop of validateDiscoveredModels makes of one row.
Considered(m, row, due, at) ==
  LET prep    == Prepared(row, at)
      expires == IF row.expires # Never THEN row.expires ELSE row.success + ConfirmationTTL
  IN  IF ~CanParticipate(row) THEN row
      ELSE IF KeepConfirmedFresh(row, at)
      THEN [row EXCEPT !.status = "ready", !.inventory = "verified", !.position = 0,
                       !.expires = expires, !.next = expires]
      ELSE IF m \in NotForTransport
      THEN [row EXCEPT !.available = FALSE, !.next = Never, !.position = 0,
                       !.status = "transport_inapplicable", !.inventory = "verified",
                       !.verification = "skipped"]
      ELSE IF m \notin due
      THEN [prep EXCEPT !.status = "verification_cooldown", !.position = 0]
      ELSE IF ~Within(Place(m, due), QueueLimit)
      THEN [prep EXCEPT !.status = "registration_overflow", !.position = 0]
      ELSE IF ~Within(Place(m, due), ValidationLimit)
      THEN [prep EXCEPT !.status = "registration_queued", !.position = Place(m, due)]
      ELSE prep

\* The queue is a set: its order is that of PrioritizeModelValidation.
ValidateDiscoveredModels(rows, at) ==
  LET due == Due(rows, at)
  IN  [queue |-> Probes(due),
       rows  |-> [m \in DOMAIN rows |-> Considered(m, rows[m], due, at)]]

-----------------------------------------------------------------------------
(* A probe and its result.                                                 *)

Unretryable == (100..199) \cup (300..399) \cup {404, 422}

\* classifyProviderAPIError: the text overrides the code.
Retryable(reply) ==
  /\ reply.text \notin {"model not found", "unsupported"}
  /\ \/ reply.text = "rate limit"
     \/ reply.code \in {408, 429} \/ reply.code >= 500
     \/ reply.text = "busy" /\ reply.code \notin Unretryable

\* validateModelViaTransport: code 0 is a request that failed in transport.
Outcome(reply) ==
  IF reply.code = 0 THEN "retryable"
  ELSE IF reply.code \in 200..299
  THEN IF reply.text = "ok" THEN "ok" ELSE "permanent"
  ELSE IF Retryable(reply) THEN "retryable" ELSE "permanent"

MarkModelConfirmed(row, success) ==
  [row EXCEPT !.available = TRUE, !.status = "ready", !.inventory = "verified",
              !.verification = "confirmed", !.position = 0, !.success = success,
              !.expires = success + ConfirmationTTL, !.next = success + ConfirmationTTL]

MarkModelFailure(row, outcome, at) ==
  IF outcome = "retryable"
  THEN [row EXCEPT !.available = FALSE, !.status = "verification_cooldown",
                   !.verification = "verifying", !.position = 0,
                   !.next = at + RetryCooldown]
  ELSE [row EXCEPT !.available = FALSE, !.status = "validation_failed",
                   !.verification = "unconfirmed", !.position = 0, !.next = Never]

-----------------------------------------------------------------------------
(* The catalogue.                                                          *)

CatalogFilter(p, rows) ==
  IF entries[p] = {} THEN rows
  ELSE [m \in DOMAIN rows \cap entries[p] |-> rows[m]]

\* The models syncProvider adds.
CatalogAdds(rows) ==
  {m \in DOMAIN rows :
     /\ rows[m].status \notin {"missing", "disabled"} /\ rows[m].inventory # "missing"
     /\ \/ rows[m].available \/ rows[m].inventory = "verified"
        \/ rows[m].verification = "verifying" \/ m = Default}

SnapshotStatus(rows, errors) ==
  LET verdict(v) == \E m \in DOMAIN rows : rows[m].verification = v
      failed     == verdict("unconfirmed") \/ verdict("stale")
  IN  IF verdict("confirmed")
      THEN IF verdict("verifying") \/ failed \/ errors THEN "degraded" ELSE "ready"
      ELSE IF verdict("verifying") THEN "verifying" ELSE "unavailable"

-----------------------------------------------------------------------------
(* A refresh.                                                              *)

NeedsRefresh == \E p \in Providers : snapshots[p].at = Never \/ now - snapshots[p].at >= Interval

BeginRefreshAlways(c, force) ==
  /\ caller[c] = "idle"
  /\ refreshing' = TRUE
  /\ caller' = [caller EXCEPT ![c] = "fetch"]
  /\ work' = [work EXCEPT ![c] = [p \in Providers |-> [NoWork EXCEPT !.stage = "start"]]]
  /\ UNCHANGED <<now, snapshots, entries, file, restarts, probed>>

\* Refresh (force) or RefreshIfStale.
BeginRefresh(c, force) ==
  /\ caller[c] = "idle" /\ ~refreshing
  /\ force \/ NeedsRefresh
  /\ refreshing' = TRUE
  /\ caller' = [caller EXCEPT ![c] = "fetch"]
  /\ work' = [work EXCEPT ![c] = [p \in Providers |-> [NoWork EXCEPT !.stage = "start"]]]
  /\ UNCHANGED <<now, snapshots, entries, file, restarts, probed>>

\* A provider that is not configured, or names a placeholder host.
FetchUnconfigured(c, p) ==
  /\ caller[c] = "fetch" /\ work[c][p].stage = "start" /\ p \notin Configured
  /\ work' = [work EXCEPT ![c][p] = [NoWork EXCEPT !.stage = "done", !.at = now,
                                                   !.status = "not_configured"]]
  /\ UNCHANGED <<now, snapshots, refreshing, caller, entries, file, restarts, probed>>

\* fetchProviderSnapshot up to the probes.
FetchInventory(c, p, answers) ==
  LET found == FetchProviderModels(answers.main, answers.codex)
      rows  == WithDefault(found.rows)
      plan  == ValidateDiscoveredModels(Merged(p, rows), now)
  IN  /\ caller[c] = "fetch" /\ work[c][p].stage = "start" /\ p \in Configured
      /\ work' = [work EXCEPT ![c][p] =
           IF rows = NoRows
           THEN [NoWork EXCEPT !.stage = "done", !.at = now, !.status = "unavailable"]
           ELSE [stage |-> "probe", at |-> now, rows |-> plan.rows, queue |-> plan.queue,
                 errors |-> found.errors, status |-> "none"]]
      /\ UNCHANGED <<now, snapshots, refreshing, caller, entries, file, restarts, probed>>

\* The loop over the queue takes the models in their order.
FirstQueued(queue) ==
  CHOOSE m \in queue : \A n \in queue :
    PrioritizeModelValidation(m) <= PrioritizeModelValidation(n)

ProbeModelLenient(c, p, reply) ==
  LET w == work[c][p]
      m == FirstQueued(w.queue)
      outcome == Outcome(reply)
      row == IF outcome # "permanent" THEN MarkModelConfirmed(w.rows[m], now)
             ELSE MarkModelFailure(w.rows[m], outcome, w.at)
  IN  /\ caller[c] = "fetch" /\ w.stage = "probe" /\ w.queue # {}
      /\ work' = [work EXCEPT ![c][p] = [w EXCEPT !.queue = @ \ {m},
                                                   !.rows = [w.rows EXCEPT ![m] = row]]]
      /\ probed' = [probed EXCEPT ![p][m] = [at |-> w.at, outcome |-> outcome]]
      /\ UNCHANGED <<now, snapshots, refreshing, caller, entries, file, restarts>>

ProbeModel(c, p, reply) ==
  LET w == work[c][p]
      m == FirstQueued(w.queue)
      outcome == Outcome(reply)
      row == IF outcome = "ok" THEN MarkModelConfirmed(w.rows[m], now)
             ELSE MarkModelFailure(w.rows[m], outcome, w.at)
  IN  /\ caller[c] = "fetch" /\ w.stage = "probe" /\ w.queue # {}
      /\ work' = [work EXCEPT ![c][p] = [w EXCEPT !.queue = @ \ {m},
                                                   !.rows = [w.rows EXCEPT ![m] = row]]]
      /\ probed' = [probed EXCEPT ![p][m] = [at |-> w.at, outcome |-> outcome]]
      /\ UNCHANGED <<now, snapshots, refreshing, caller, entries, file, restarts>>

\* The catalogue's file is written through a temporary file, or not at all.
CompleteSnapshot(c, p, written) ==
  LET w    == work[c][p]
      rows == CatalogFilter(p, w.rows)
  IN  /\ caller[c] = "fetch" /\ w.stage = "probe" /\ w.queue = {}
      /\ entries' = [entries EXCEPT ![p] = @ \cup CatalogAdds(rows)]
      /\ file' = IF written THEN entries' ELSE file
      /\ work' = [work EXCEPT ![c][p] = [w EXCEPT !.stage = "done", !.rows = rows,
                                                   !.status = SnapshotStatus(rows, w.errors)]]
      /\ UNCHANGED <<now, snapshots, refreshing, caller, restarts, probed>>

\* All providers have answered: publish under one lock.
PublishSnapshots(c) ==
  /\ caller[c] = "fetch" /\ \A p \in Providers : work[c][p].stage = "done"
  /\ snapshots' = [p \in Providers |-> [at |-> work[c][p].at, status |-> work[c][p].status,
                                        models |-> work[c][p].rows]]
  /\ probed' = [p \in Providers |-> [m \in Models |->
                  IF m \in DOMAIN work[c][p].rows THEN probed[p][m] ELSE NoProbe]]
  /\ work' = [work EXCEPT ![c] = [p \in Providers |-> NoWork]]
  /\ caller' = [caller EXCEPT ![c] = "finish"]
  /\ UNCHANGED <<now, refreshing, entries, file, restarts>>

FinishRefresh(c) ==
  /\ caller[c] = "finish"
  /\ refreshing' = FALSE
  /\ caller' = [caller EXCEPT ![c] = "idle"]
  /\ UNCHANGED <<now, snapshots, work, entries, file, restarts, probed>>

Tick ==
  /\ now < MaxTime /\ now' = now + 1
  /\ UNCHANGED <<snapshots, refreshing, work, caller, entries, file, restarts, probed>>

\* A new process loads the catalogue and has no snapshots.
Restart ==
  /\ restarts < MaxRestarts /\ restarts' = restarts + 1
  /\ snapshots' = [p \in Providers |-> NoSnapshot] /\ refreshing' = FALSE
  /\ work' = [c \in Callers |-> [p \in Providers |-> NoWork]]
  /\ caller' = [c \in Callers |-> "idle"]
  /\ entries' = file
  /\ probed' = [p \in Providers |-> [m \in Models |-> NoProbe]]
  /\ UNCHANGED <<now, file>>

Step(c) ==
  \/ \E p \in Providers :
       \/ FetchUnconfigured(c, p)
       \/ \E answers \in Inventories : FetchInventory(c, p, answers)
       \/ \E reply \in Replies : ProbeModel(c, p, reply)
       \/ \E written \in BOOLEAN : CompleteSnapshot(c, p, written)
  \/ PublishSnapshots(c)
  \/ FinishRefresh(c)

Next ==
  \/ \E c \in Callers, force \in BOOLEAN : BeginRefresh(c, force)
  \/ \E c \in Callers : Step(c)
  \/ Tick
  \/ Restart

Spec == Init /\ [][Next]_vars

-----------------------------------------------------------------------------
(* What routing reads.                                                     *)

RoutingReady(row) == row.available /\ row.status = "ready" /\ row.verification = "confirmed"
RoutingUsable(p)  == snapshots[p].at # Never /\ snapshots[p].at + 2 * Interval >= now
HealthyModels(p)  ==
  IF RoutingUsable(p)
  THEN {m \in DOMAIN snapshots[p].models : RoutingReady(snapshots[p].models[m])}
  ELSE {}

(***************************************************************************)
(* A model that routing may choose is one whose latest probe succeeded, or *)
(* is being repeated by the refresh under way, and its confirmation is not *)
(* older than the confirmation time and two refresh intervals: no failure, *)
(* cooldown, queue overflow, lost inventory or restart leaves a model      *)
(* routable that the provider does not serve.                              *)
(***************************************************************************)
RoutedModelWasVerified ==
  \A p \in Providers : \A m \in HealthyModels(p) :
    LET row == snapshots[p].models[m] IN
      /\ \/ probed[p][m].outcome = "ok"
         \/ probed[p][m].at > snapshots[p].at
      /\ row.success # Never /\ now <= row.expires + 2 * Interval

(***************************************************************************)
(* A model that routing may choose is in the catalogue, so that no later   *)
(* refresh of this process filters it out.                                 *)
(***************************************************************************)
RoutedModelIsCatalogued == \A p \in Providers : HealthyModels(p) \subseteq entries[p]

(***************************************************************************)
(* A published snapshot is never replaced by one fetched earlier, however  *)
(* the ticker's refreshes and those of health requests overlap.            *)
(***************************************************************************)
SnapshotsMoveForward ==
  restarts' = restarts => \A p \in Providers : snapshots'[p].at >= snapshots[p].at

(***************************************************************************)
(* A model whose last probe failed in a way worth retrying is not probed   *)
(* again before the retry cooldown, as long as the registry has kept a row *)
(* of it in between.                                                       *)
(***************************************************************************)
CooldownHonoured ==
  \A p \in Providers, m \in Models :
    ( /\ probed[p][m].outcome = "retryable"
      /\ probed'[p][m] \notin {probed[p][m], NoProbe} )
      => probed'[p][m].at - probed[p][m].at >= RetryCooldown

(***************************************************************************)
(* One refresh queues and probes no more models than its limits allow, and *)
(* the models left waiting in a snapshot have the places behind the probes *)
(* in the order of the queue, each its own.                                *)
(***************************************************************************)
QueueWithinLimits ==
  /\ \A c \in Callers, p \in Providers :
       ValidationLimit # 0 => Cardinality(work[c][p].queue) <= ValidationLimit
  /\ \A p \in Providers :
       LET rows == snapshots[p].models
           waiting == {m \in DOMAIN rows : rows[m].status = "registration_queued"}
       IN  \A m \in waiting :
             /\ rows[m].position > ValidationLimit
             /\ QueueLimit # 0 => rows[m].position <= QueueLimit
             /\ \A n \in waiting \ {m} : rows[n].position # rows[m].position

(***************************************************************************)
(* The refreshing flag is up exactly while one caller is in a refresh, so  *)
(* two refreshes never overlap and the registry never refuses every later  *)
(* one because a flag was left behind.                                     *)
(***************************************************************************)
RefreshFlagOwned ==
  /\ refreshing <=> \E c \in Callers : caller[c] # "idle"
  /\ \A c, d \in Callers : caller[c] # "idle" /\ caller[d] # "idle" => c = d

(***************************************************************************)
(* What routing is offered was verified and is catalogued, within the      *)
(* limits of one refresh at a time.                                        *)
(***************************************************************************)
ModelsVerified ==
  /\ TypeOK /\ RoutedModelWasVerified /\ RoutedModelIsCatalogued
  /\ QueueWithinLimits /\ RefreshFlagOwned

(***************************************************************************)
(* Refreshes come in order and failed probes rest: whoever refreshes,      *)
(* snapshots never go back and no model is probed again in its cooldown.   *)
(***************************************************************************)
RefreshesInOrder == [][SnapshotsMoveForward /\ CooldownHonoured]_vars
=============================================================================
