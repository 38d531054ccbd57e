------------------------- MODULE ProviderExecution -------------------------
(***************************************************************************)
(* A task on a provider's agent: the goroutine that talks to the provider, *)
(* natively streamed with buffered execution to fall back on, and the      *)
(* reader that publishes what it streams.  Every request holds a slot of   *)
(* the gate of its key and then one of the gate of its model.              *)
(*                                                                         *)
(* Deltas are numbered per run; what they say is left out.  A streamed     *)
(* request is not retried, a buffered one is, with its slots held.  What   *)
(* the provider sends is any answer; a run that used tools asks again.     *)
(***************************************************************************)
EXTENDS Integers, Sequences, FiniteSets

CONSTANTS
  Tasks,        \* executions
  Gates,        \* gates by key and by model
  KeyGate,      \* per task: the gate of requestGateKey
  ModelGate,    \* per task: the gate of requestModelGateKey
  Native,       \* tasks whose provider streams
  Fallback,     \* tasks whose provider allows pseudo realtime
  Tooled,       \* tasks with a workspace runtime
  GateMax,      \* slots of a gate
  DeltaBuffer,  \* capacity of the channel of deltas
  MaxRetries,   \* GO_CORE_PROVIDER_MAX_RETRIES
  MaxRounds,    \* requests of a tool loop
  MaxTokens,    \* bound: tokens of a stream
  MayLeave      \* tasks whose context may end

VARIABLES
  at,        \* per task: where the agent's goroutine is
  mode,      \* per task: "native" or "buffered"
  round,     \* per task: requests answered in this run
  tries,     \* per task: attempts of this request; tokens, when it streams
  emitted,   \* per task: deltas sent in each run
  deltas,    \* per task: the channel, of <<mode, number>>
  verdict,   \* per task: the result, "none", "done" or "failed"
  handed,    \* per task: the result is in the channel of results, or was
  slots,     \* per gate: slots in use
  reader,    \* per task: "none", "reading", "left" or "returned"
  got,       \* per task: the result the reader took
  shown,     \* per task: deltas published of each run
  ended      \* per task: its context is done

agentVars  == <<at, mode, round, tries, emitted, verdict, handed>>
readerVars == <<reader, got, shown>>
execVars   == <<agentVars, deltas, slots, readerVars, ended>>

ASSUME ExecAssumption ==
  /\ Native \cup Fallback \cup Tooled \cup MayLeave \subseteq Tasks
  /\ GateMax \in Nat \ {0} /\ DeltaBuffer \in Nat \ {0} /\ MaxRounds \in Nat \ {0}
  /\ {MaxRetries, MaxTokens} \subseteq Nat
  /\ IsFiniteSet(Tasks) /\ KeyGate \in [Tasks -> Gates] /\ ModelGate \in [Tasks -> Gates]
  /\ \A t \in Tasks : KeyGate[t] # ModelGate[t]

HoldsKey   == {"model gate", "request", "backoff", "stream", "token"}
HoldsModel == {"request", "backoff", "stream", "token"}
Sending    == {"hello", "token", "tool start", "tool end", "partial", "final"}

ExecTypeOK ==
  /\ \A t \in Tasks :
       /\ at[t] \in {"idle", "gate", "answered", "tool", "result", "closed"}
                      \cup HoldsKey \cup Sending
       /\ mode[t] \in {"native", "buffered"} /\ round[t] \in 0..(MaxRounds - 1)
       /\ Len(deltas[t]) <= DeltaBuffer
       /\ verdict[t] \in {"none", "done", "failed"}
       /\ reader[t] \in {"none", "reading", "left", "returned"}
  /\ \A g \in Gates : slots[g] \in 0..GateMax

NoDeltas == [native |-> 0, buffered |-> 0]

ExecInit ==
  /\ at = [t \in Tasks |-> "idle"]
  /\ mode = [t \in Tasks |-> IF t \in Native THEN "native" ELSE "buffered"]
  /\ round = [t \in Tasks |-> 0] /\ tries = [t \in Tasks |-> 0]
  /\ emitted = [t \in Tasks |-> NoDeltas] /\ shown = [t \in Tasks |-> NoDeltas]
  /\ deltas = [t \in Tasks |-> <<>>]
  /\ verdict = [t \in Tasks |-> "none"] /\ handed = [t \in Tasks |-> FALSE]
  /\ slots = [g \in Gates |-> 0]
  /\ reader = [t \in Tasks |-> "none"] /\ got = [t \in Tasks |-> "none"]
  /\ ended = [t \in Tasks |-> FALSE]

-----------------------------------------------------------------------------
(* Steps of the agent's goroutine.                                         *)

GoTo(t, place) == at' = [at EXCEPT ![t] = place]

\* A send on the channel of deltas blocks while it is full, whatever the
\* context says.
SendDelta(t) ==
  /\ Len(deltas[t]) < DeltaBuffer
  /\ emitted' = [emitted EXCEPT ![t][mode[t]] = @ + 1]
  /\ deltas' = [deltas EXCEPT ![t] = Append(@, <<mode[t], emitted[t][mode[t]] + 1>>)]

\* The run ends with the verdict.  A failed streamed run gives way to a
\* buffered one, which starts over; buffered results are announced like
\* others, failures too.
EndRun(t, end) ==
  IF mode[t] = "native" /\ end = "failed"
  THEN IF t \in Fallback
       THEN /\ GoTo(t, "gate") /\ mode' = [mode EXCEPT ![t] = "buffered"]
            /\ round' = [round EXCEPT ![t] = 0] /\ UNCHANGED verdict
       ELSE /\ GoTo(t, "result") /\ verdict' = [verdict EXCEPT ![t] = "failed"]
            /\ UNCHANGED <<mode, round>>
  ELSE /\ GoTo(t, "partial") /\ verdict' = [verdict EXCEPT ![t] = end]
       /\ UNCHANGED <<mode, round>>

GiveBack(gs) == slots' = [g \in Gates |-> IF g \in gs THEN slots[g] - 1 ELSE slots[g]]
BothGates(t) == {KeyGate[t], ModelGate[t]}

ExecuteStream(t) ==
  /\ at[t] = "idle" /\ GoTo(t, "hello")
  /\ reader' = [reader EXCEPT ![t] = "reading"]
  /\ UNCHANGED <<mode, round, tries, emitted, verdict, handed, deltas, slots, got, shown, ended>>

SendStarted(t) ==
  /\ at[t] = "hello" /\ SendDelta(t) /\ GoTo(t, "gate")
  /\ UNCHANGED <<mode, round, tries, verdict, handed, slots, readerVars, ended>>

AcquireKeySlot(t) ==
  /\ at[t] = "gate" /\ slots[KeyGate[t]] < GateMax /\ GoTo(t, "model gate")
  /\ slots' = [slots EXCEPT ![KeyGate[t]] = @ + 1]
  /\ UNCHANGED <<mode, round, tries, emitted, verdict, handed, deltas, readerVars, ended>>

AcquireModelSlot(t) ==
  /\ at[t] = "model gate" /\ slots[ModelGate[t]] < GateMax /\ GoTo(t, "request")
  /\ slots' = [slots EXCEPT ![ModelGate[t]] = @ + 1]
  /\ tries' = [tries EXCEPT ![t] = 0]
  /\ UNCHANGED <<mode, round, emitted, verdict, handed, deltas, readerVars, ended>>

LeaveGateKept(t) ==
  /\ at[t] \in {"gate", "model gate"} /\ ended[t]
  /\ EndRun(t, "failed")
  /\ UNCHANGED <<slots, tries, emitted, handed, deltas, readerVars, ended>>

LeaveGate(t) ==
  /\ at[t] \in {"gate", "model gate"} /\ ended[t]
  /\ EndRun(t, "failed")
  /\ GiveBack(IF at[t] = "model gate" THEN {KeyGate[t]} ELSE {})
  /\ UNCHANGED <<tries, emitted, handed, deltas, readerVars, ended>>

\* An error or a status that is no success; for good, or the last attempt,
\* or the context is done.
RequestFails(t) ==
  /\ at[t] = "request" /\ EndRun(t, "failed") /\ GiveBack(BothGates(t))
  /\ UNCHANGED <<tries, emitted, handed, deltas, readerVars, ended>>

\* shouldRetryFailure, then the pause of retryDelay.
RequestRetries(t) ==
  /\ at[t] = "request" /\ mode[t] = "buffered" /\ tries[t] < MaxRetries /\ ~ended[t]
  /\ GoTo(t, "backoff")
  /\ UNCHANGED <<mode, round, tries, emitted, verdict, handed, deltas, slots, readerVars, ended>>

BackoffEnds(t) ==
  /\ at[t] = "backoff" /\ GoTo(t, "request") /\ tries' = [tries EXCEPT ![t] = @ + 1]
  /\ UNCHANGED <<mode, round, emitted, verdict, handed, deltas, slots, readerVars, ended>>

LeaveBackoff(t) ==
  /\ at[t] = "backoff" /\ ended[t] /\ EndRun(t, "failed") /\ GiveBack(BothGates(t))
  /\ UNCHANGED <<tries, emitted, handed, deltas, readerVars, ended>>

RequestAnswered(t) ==
  /\ at[t] = "request" /\ mode[t] = "buffered" /\ GoTo(t, "answered")
  /\ GiveBack(BothGates(t))
  /\ UNCHANGED <<mode, round, tries, emitted, verdict, handed, deltas, readerVars, ended>>

StreamOpens(t) ==
  /\ at[t] = "request" /\ mode[t] = "native" /\ GoTo(t, "stream")
  /\ UNCHANGED <<mode, round, tries, emitted, verdict, handed, deltas, slots, readerVars, ended>>

\* A token was read: nothing else happens until its delta is sent.
StreamToken(t) ==
  /\ at[t] = "stream" /\ tries[t] < MaxTokens /\ GoTo(t, "token")
  /\ tries' = [tries EXCEPT ![t] = @ + 1]
  /\ UNCHANGED <<mode, round, emitted, verdict, handed, deltas, slots, readerVars, ended>>

SendToken(t) ==
  /\ at[t] = "token" /\ SendDelta(t) /\ GoTo(t, "stream")
  /\ UNCHANGED <<mode, round, tries, verdict, handed, slots, readerVars, ended>>

StreamEnds(t) ==
  /\ at[t] = "stream" /\ GoTo(t, "answered") /\ GiveBack(BothGates(t))
  /\ UNCHANGED <<mode, round, tries, emitted, verdict, handed, deltas, readerVars, ended>>

\* A chunk that does not decode, or a body that cannot be read to its end.
StreamBreaks(t) ==
  /\ at[t] = "stream" /\ EndRun(t, "failed") /\ GiveBack(BothGates(t))
  /\ UNCHANGED <<tries, emitted, handed, deltas, readerVars, ended>>

\* Text ends the run; no choices, or nothing but spaces, ends it as well.
TextAnswer(t, end) ==
  /\ at[t] = "answered" /\ (mode[t] = "native" /\ tries[t] = 0 => end = "failed")
  /\ EndRun(t, end)
  /\ UNCHANGED <<tries, emitted, handed, deltas, slots, readerVars, ended>>

\* Without a runtime a streamed answer's calls are overlooked (TextAnswer)
\* and a buffered one's are an error (TextAnswer, failed).
ToolAnswer(t) ==
  /\ at[t] = "answered" /\ t \in Tooled
  /\ GoTo(t, IF mode[t] = "native" THEN "tool start" ELSE "tool")
  /\ UNCHANGED <<mode, round, tries, emitted, verdict, handed, deltas, slots, readerVars, ended>>

SendToolStarted(t) ==
  /\ at[t] = "tool start" /\ SendDelta(t) /\ GoTo(t, "tool")
  /\ UNCHANGED <<mode, round, tries, verdict, handed, slots, readerVars, ended>>

\* The loop asks at most MaxRounds times.
NextRound(t) ==
  IF round[t] + 1 = MaxRounds THEN EndRun(t, "failed")
  ELSE /\ round' = [round EXCEPT ![t] = @ + 1] /\ GoTo(t, "gate")
       /\ UNCHANGED <<mode, verdict>>

\* The tool runs, well or not: the model is told.
ExecuteTool(t) ==
  /\ at[t] = "tool"
  /\ IF mode[t] = "native" THEN GoTo(t, "tool end") /\ UNCHANGED <<mode, round, verdict>>
     ELSE NextRound(t)
  /\ UNCHANGED <<tries, emitted, handed, deltas, slots, readerVars, ended>>

SendToolFinished(t) ==
  /\ at[t] = "tool end" /\ SendDelta(t) /\ NextRound(t)
  /\ UNCHANGED <<tries, handed, slots, readerVars, ended>>

SendSummary(t) ==
  /\ at[t] \in {"partial", "final"} /\ SendDelta(t)
  /\ GoTo(t, IF at[t] = "partial" THEN "final" ELSE "result")
  /\ UNCHANGED <<mode, round, tries, verdict, handed, slots, readerVars, ended>>

\* The result, and both channels closed.
SendResult(t) ==
  /\ at[t] = "result" /\ GoTo(t, "closed") /\ handed' = [handed EXCEPT ![t] = TRUE]
  /\ UNCHANGED <<mode, round, tries, emitted, verdict, deltas, slots, readerVars, ended>>

-----------------------------------------------------------------------------
(* executeStreamingAgent.                                                  *)

ReadDelta(t) ==
  /\ reader[t] = "reading" /\ deltas[t] # <<>>
  /\ deltas' = [deltas EXCEPT ![t] = Tail(@)]
  /\ shown' = [shown EXCEPT ![t][Head(deltas[t])[1]] = Head(deltas[t])[2]]
  /\ UNCHANGED <<agentVars, slots, reader, got, ended>>

ReadResult(t) ==
  /\ reader[t] = "reading" /\ handed[t] /\ got[t] = "none"
  /\ got' = [got EXCEPT ![t] = verdict[t]]
  /\ UNCHANGED <<agentVars, deltas, slots, reader, shown, ended>>

ReaderEndsWithResult(t) ==
  /\ reader[t] = "reading" /\ got[t] # "none"
  /\ reader' = [reader EXCEPT ![t] = "returned"]
  /\ UNCHANGED <<agentVars, deltas, slots, got, shown, ended>>

\* Both channels closed and empty.
ReaderEnds(t) ==
  /\ reader[t] = "reading" /\ at[t] = "closed" /\ deltas[t] = <<>> /\ got[t] # "none"
  /\ reader' = [reader EXCEPT ![t] = "returned"]
  /\ UNCHANGED <<agentVars, deltas, slots, got, shown, ended>>

\* The select may choose it from then on, or something else that is ready.
ReaderLeaves(t) ==
  /\ reader[t] = "reading" /\ ended[t]
  /\ reader' = [reader EXCEPT ![t] = "left"] /\ got' = [got EXCEPT ![t] = "failed"]
  /\ UNCHANGED <<agentVars, deltas, slots, shown, ended>>

TaskContextEnds(t) ==
  /\ t \in MayLeave /\ ~ended[t] /\ at[t] # "idle" /\ reader[t] = "reading"
  /\ ended' = [ended EXCEPT ![t] = TRUE]
  /\ UNCHANGED <<agentVars, deltas, slots, readerVars>>

AgentStep(t) ==
  \/ SendStarted(t)
  \/ AcquireKeySlot(t)
  \/ AcquireModelSlot(t)
  \/ LeaveGate(t)
  \/ RequestFails(t)
  \/ RequestRetries(t)
  \/ BackoffEnds(t)
  \/ LeaveBackoff(t)
  \/ RequestAnswered(t)
  \/ StreamOpens(t)
  \/ StreamToken(t)
  \/ SendToken(t)
  \/ StreamEnds(t)
  \/ StreamBreaks(t)
  \/ \E end \in {"done", "failed"} : TextAnswer(t, end)
  \/ ToolAnswer(t)
  \/ SendToolStarted(t)
  \/ ExecuteTool(t)
  \/ SendToolFinished(t)
  \/ SendSummary(t)
  \/ SendResult(t)

ReaderStep(t) == ReadDelta(t) \/ ReadResult(t) \/ ReaderEnds(t) \/ ReaderLeaves(t)

ExecNext ==
  \E t \in Tasks :
    \/ ExecuteStream(t)
    \/ AgentStep(t)
    \/ ReaderStep(t)
    \/ TaskContextEnds(t)

-----------------------------------------------------------------------------
(***************************************************************************)
(* A gate's slots are exactly those of the agents between their acquiring  *)
(* and their releasing: however a request ends, it gives both back.        *)
(***************************************************************************)
SlotsAreHeld ==
  \A g \in Gates :
    slots[g] = Cardinality({t \in Tasks : \/ KeyGate[t] = g /\ at[t] \in HoldsKey
                                          \/ ModelGate[t] = g /\ at[t] \in HoldsModel})

(***************************************************************************)
(* What was published and what waits in the channel is what was sent, in   *)
(* order and without a gap, the streamed run before the buffered one.      *)
(***************************************************************************)
DeltasInOrder ==
  \A t \in Tasks :
    LET waiting(run) == emitted[t][run] - shown[t][run]
        streamed     == waiting("native")
    IN  /\ deltas[t] = [i \in 1..(streamed + waiting("buffered")) |->
                          IF i <= streamed THEN <<"native", shown[t].native + i>>
                          ELSE <<"buffered", shown[t].buffered + i - streamed>>]
        /\ shown[t].buffered > 0 => streamed = 0

(***************************************************************************)
(* A reader that returns the agent's result has published everything the   *)
(* agent sent, and the result is the one of the agent's last run.          *)
(***************************************************************************)
ReturnIsWhole ==
  \A t \in Tasks : reader[t] = "returned" =>
    at[t] = "closed" /\ shown[t] = emitted[t] /\ got[t] = verdict[t]

\* An agent whose reader left it with a full channel and slots it holds.
Abandoned == \E t \in Tasks : reader[t] = "left" /\ at[t] = "token"

(***************************************************************************)
(* No reader is waiting, or another's departure left an agent in the       *)
(* middle of a stream, with the slots.                                     *)
(***************************************************************************)
ReadersBack == \A t \in Tasks : reader[t] # "reading" \/ Abandoned

\* What a client sees of a streamed run is complete and in order, through
\* retries, fallback and tool rounds.
DeltasWhole == ExecTypeOK /\ DeltasInOrder /\ ReturnIsWhole
=============================================================================
