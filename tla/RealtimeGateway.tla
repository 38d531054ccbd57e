--------------------------- MODULE RealtimeGateway ---------------------------
(***************************************************************************)
(* One websocket connection and the event hub behind it.  The reader takes *)
(* frames, tracks every request in the session and starts a goroutine for  *)
(* it; a subscription sends the hub's history and then every event its     *)
(* channel receives.  Publishers assign ids and record history under the   *)
(* hub's lock and hand the event to the subscribers after it.              *)
(*                                                                         *)
(* Frame contents are a verb, a request id and a topic.  What a            *)
(* single-answer handler computes is left out: it answers once.            *)
(***************************************************************************)
EXTENDS Integers, Sequences, SequencesExt, FiniteSets

CONSTANTS
  Requests,     \* goroutines of dispatched requests
  RequestIds,   \* the ids a client puts into its frames
  Topics,       \* topics of the hub
  Watched,      \* topics streams ask for: some of Topics, and "all"
  Publishers,   \* goroutines that publish
  HistorySize,  \* events kept per topic
  ChannelSize,  \* capacity of a subscriber's channel
  MaxEvents     \* bound: events published

ASSUME GatewayAssumption ==
  IsFiniteSet(Requests) /\ {HistorySize, ChannelSize, MaxEvents} \subseteq Nat

VARIABLES
  nextID,     \* Hub.nextID: ids of events and of subscribers
  history,    \* Hub.history: ids per topic
  subscribers,\* Hub.subscribers: the requests that have subscribed, by their topic
  channel,    \* per request: its channel and whether it is closed
  publisher,  \* per publisher: event, topic and the subscribers still to be told
  dropped,    \* Hub.dropped
  request,    \* per request: stage, id, topic and whether its context is done
  cancels,    \* Session.requestCancels: the request each id would cancel
  bindings,   \* Session.subscriptions
  connection, \* "open", "leaving" once its context is done, "closed" after Close
  published,  \* history: events published
  got, missed,\* history: ids put into each channel, and refused by it
  reused      \* history: a request id was used while it was in use

hub     == <<nextID, history, subscribers, channel, publisher, dropped>>
session == <<request, cancels, bindings, connection>>
seen    == <<published, got, missed, reused>>
gatewayVars == <<hub, session, seen>>

Unused  == [stage |-> "unused", id |-> "none", topic |-> "none", done |-> FALSE,
            bound |-> FALSE, from |-> 0]
Resting == [event |-> 0, topic |-> "none", todo |-> {}]
Stages  == {"unused", "single", "snapshot", "subscribe", "first", "loop", "leave",
            "close", "unbind", "finish", "ended"}
Running(r) == request[r].stage \notin {"unused", "ended"}

GatewayTypeOK ==
  /\ \A r \in Requests : /\ request[r].stage \in Stages
                         /\ Len(channel[r].ids) <= ChannelSize
  /\ subscribers \in SUBSET Requests
  /\ \A t \in Topics : Len(history[t]) <= HistorySize
  /\ DOMAIN cancels \subseteq RequestIds /\ bindings \subseteq RequestIds
  /\ connection \in {"open", "leaving", "closed"}

GatewayInit ==
  /\ nextID = 0 /\ history = [t \in Topics |-> <<>>] /\ subscribers = {}
  /\ channel = [r \in Requests |-> [ids |-> <<>>, closed |-> FALSE]]
  /\ publisher = [p \in Publishers |-> Resting] /\ dropped = 0
  /\ request = [r \in Requests |-> Unused]
  /\ cancels = [i \in {} |-> 0] /\ bindings = {} /\ connection = "open"
  /\ published = 0 /\ reused = FALSE
  /\ got = [r \in Requests |-> {}] /\ missed = [r \in Requests |-> {}]

Without(f, i) == [j \in DOMAIN f \ {i} |-> f[j]]
With(f, i, v) == [j \in DOMAIN f \cup {i} |-> IF j = i THEN v ELSE f[j]]

-----------------------------------------------------------------------------
(* Publish.                                                                *)

AppendBounded(ids, id) ==
  LET all == Append(ids, id)
  IN  IF Len(all) <= HistorySize THEN all
      ELSE SubSeq(all, Len(all) - HistorySize + 1, Len(all))

\* The event gets its id and its place in the history, and the subscribers
\* of this moment are copied, under the lock.
PublishBegin(p, topic) ==
  /\ publisher[p] = Resting /\ published < MaxEvents
  /\ nextID' = nextID + 1 /\ published' = published + 1
  /\ history' = [history EXCEPT ![topic] = AppendBounded(@, nextID')]
  /\ publisher' = [publisher EXCEPT ![p] =
       [event |-> nextID', topic |-> topic,
        todo |-> {r \in subscribers : request[r].topic \in {"all", topic}}]]
  /\ UNCHANGED <<subscribers, channel, dropped, session, got, missed, reused>>

PublishToUnchecked(p, r) ==
  LET e == publisher[p].event IN
  /\ r \in publisher[p].todo /\ Len(channel[r].ids) < ChannelSize
  /\ publisher' = [publisher EXCEPT ![p].todo = @ \ {r}]
  /\ channel' = [channel EXCEPT ![r].ids = Append(@, e)]
  /\ got' = [got EXCEPT ![r] = @ \cup {e}]
  /\ UNCHANGED <<nextID, history, subscribers, dropped, session, published, missed, reused>>

PublishToSilently(p, r) ==
  LET e == publisher[p].event
      accept == ~channel[r].closed /\ Len(channel[r].ids) < ChannelSize
  IN  /\ r \in publisher[p].todo
      /\ publisher' = [publisher EXCEPT ![p].todo = @ \ {r}]
      /\ channel' = IF accept THEN [channel EXCEPT ![r].ids = Append(@, e)] ELSE channel
      /\ got' = IF accept THEN [got EXCEPT ![r] = @ \cup {e}] ELSE got
      /\ UNCHANGED <<nextID, history, subscribers, dropped, session, published, missed,
                     reused>>

\* subscriber.publish: refused when the channel is closed or full.
PublishTo(p, r) ==
  LET e == publisher[p].event
      accept == ~channel[r].closed /\ Len(channel[r].ids) < ChannelSize
  IN  /\ r \in publisher[p].todo
      /\ publisher' = [publisher EXCEPT ![p].todo = @ \ {r}]
      /\ channel' = IF accept THEN [channel EXCEPT ![r].ids = Append(@, e)] ELSE channel
      /\ dropped' = IF accept THEN dropped ELSE dropped + 1
      /\ got' = IF accept THEN [got EXCEPT ![r] = @ \cup {e}] ELSE got
      /\ missed' = IF accept THEN missed ELSE [missed EXCEPT ![r] = @ \cup {e}]
      /\ UNCHANGED <<nextID, history, subscribers, session, published, reused>>

PublishEnd(p) ==
  /\ publisher[p] # Resting /\ publisher[p].todo = {}
  /\ publisher' = [publisher EXCEPT ![p] = Resting]
  /\ UNCHANGED <<nextID, history, subscribers, channel, dropped, session, seen>>

-----------------------------------------------------------------------------
(* The reader: one frame after the other.                                  *)

\* TrackRequest overwrites what an id stood for.  A frame of type subscribe
\* makes a binding, whatever its action is.
StartDispatch(r, id, kind, topic, subscribe) ==
  /\ connection = "open" /\ request[r].stage = "unused"
  /\ request' = [request EXCEPT ![r] =
       [Unused EXCEPT !.stage = kind, !.id = id, !.topic = topic, !.bound = subscribe]]
  /\ cancels' = With(cancels, id, r)
  /\ bindings' = IF subscribe THEN bindings \cup {id} ELSE bindings
  /\ reused' = (reused \/ \E q \in Requests : Running(q) /\ request[q].id = id)
  /\ UNCHANGED <<hub, connection, published, got, missed>>

Cancelled(id) ==
  IF id \in DOMAIN cancels THEN [request EXCEPT ![cancels[id]].done = TRUE] ELSE request

CancelFrame(id) ==
  /\ connection = "open"
  /\ request' = Cancelled(id) /\ cancels' = Without(cancels, id)
  /\ UNCHANGED <<hub, bindings, connection, seen>>

\* RemoveSubscription, and the request's cancellation when there was one.
UnsubscribeFrame(id) ==
  /\ connection = "open" /\ id \in bindings
  /\ bindings' = bindings \ {id}
  /\ request' = Cancelled(id) /\ cancels' = Without(cancels, id)
  /\ UNCHANGED <<hub, connection, seen>>

\* The reader returns, or a heartbeat cannot be sent: the context of the
\* connection, and with it of every request, is done.
Disconnect ==
  /\ connection = "open" /\ connection' = "leaving"
  /\ request' = [r \in Requests |-> IF Running(r) THEN [request[r] EXCEPT !.done = TRUE]
                                    ELSE request[r]]
  /\ UNCHANGED <<hub, cancels, bindings, seen>>

SessionClose ==
  /\ connection = "leaving" /\ connection' = "closed"
  /\ cancels' = [i \in {} |-> 0] /\ bindings' = {}
  /\ UNCHANGED <<hub, request, seen>>

-----------------------------------------------------------------------------
(* The goroutine of a request.                                             *)

\* The deadline a frame's timeout_ms sets ends the handler's context only.
RequestTimeout(r) ==
  /\ request[r].stage \in {"subscribe", "first", "loop"} /\ ~request[r].done
  /\ request' = [request EXCEPT ![r].done = TRUE]
  /\ UNCHANGED <<hub, cancels, bindings, connection, seen>>

Go(r, stage) == request' = [request EXCEPT ![r].stage = stage]

\* A handler with one answer, an unknown action or an acknowledgement that
\* cannot be sent: one final frame at most.
SingleAnswer(r) ==
  /\ request[r].stage = "single"
  /\ Go(r, "unbind")
  /\ UNCHANGED <<hub, cancels, bindings, connection, seen>>

\* The history is read before the subscription is made; nothing is when the
\* acknowledgement cannot be sent.
StreamSnapshot(r) ==
  /\ request[r].stage = "snapshot"
  /\ \E stage \in {"subscribe", "unbind"} : Go(r, stage)
  /\ UNCHANGED <<hub, cancels, bindings, connection, seen>>

StreamSubscribe(r) ==
  /\ request[r].stage = "subscribe"
  /\ nextID' = nextID + 1
  /\ subscribers' = subscribers \cup {r}
  /\ request' = [request EXCEPT ![r].stage = "first", ![r].from = nextID']
  /\ UNCHANGED <<history, channel, publisher, dropped, cancels, bindings, connection, seen>>

\* Sending the snapshot succeeds or fails.
StreamFirst(r) ==
  /\ request[r].stage = "first"
  /\ \E stage \in {"loop", "leave"} : Go(r, stage)
  /\ UNCHANGED <<hub, cancels, bindings, connection, seen>>

StreamDelta(r) ==
  /\ request[r].stage = "loop" /\ channel[r].ids # <<>>
  /\ channel' = [channel EXCEPT ![r].ids = Tail(@)]
  /\ \E stage \in {"loop", "leave"} : Go(r, stage)
  /\ UNCHANGED <<nextID, history, subscribers, publisher, dropped, cancels, bindings,
                 connection, seen>>

StreamDone(r) ==
  /\ request[r].stage = "loop" /\ request[r].done
  /\ Go(r, "leave")
  /\ UNCHANGED <<hub, cancels, bindings, connection, seen>>

\* Subscription.Close: out of the hub, then the channel is closed.
StreamLeave(r) ==
  /\ request[r].stage = "leave"
  /\ subscribers' = subscribers \ {r}
  /\ Go(r, "close")
  /\ UNCHANGED <<nextID, history, channel, publisher, dropped, cancels, bindings,
                 connection, seen>>

StreamClose(r) ==
  /\ request[r].stage = "close"
  /\ channel' = [channel EXCEPT ![r].closed = TRUE]
  /\ Go(r, "unbind")
  /\ UNCHANGED <<nextID, history, subscribers, publisher, dropped, cancels, bindings,
                 connection, seen>>

\* The deferred calls, by the request's id: whichever request has it now.
RequestUnbind(r) ==
  /\ request[r].stage = "unbind"
  /\ bindings' = bindings \ {request[r].id}
  /\ Go(r, "finish")
  /\ UNCHANGED <<hub, cancels, connection, seen>>

RequestFinish(r) ==
  /\ request[r].stage = "finish"
  /\ cancels' = Without(cancels, request[r].id)
  /\ request' = [request EXCEPT ![r].stage = "ended", ![r].done = TRUE]
  /\ UNCHANGED <<hub, bindings, connection, seen>>

Goroutine(r) ==
  \/ RequestTimeout(r)
  \/ SingleAnswer(r)
  \/ StreamSnapshot(r)
  \/ StreamSubscribe(r)
  \/ StreamFirst(r)
  \/ StreamDelta(r)
  \/ StreamDone(r)
  \/ StreamLeave(r)
  \/ StreamClose(r)
  \/ RequestUnbind(r)
  \/ RequestFinish(r)

GatewayNext ==
  \/ \E p \in Publishers :
       \/ \E topic \in Topics : PublishBegin(p, topic)
       \/ \E r \in Requests : PublishTo(p, r)
       \/ PublishEnd(p)
  \/ \E id \in RequestIds :
       \/ \E r \in Requests :
            \E subscribe \in BOOLEAN :
              \/ StartDispatch(r, id, "single", "none", subscribe)
              \/ \E topic \in Watched : StartDispatch(r, id, "snapshot", topic, subscribe)
       \/ CancelFrame(id)
       \/ UnsubscribeFrame(id)
  \/ Disconnect
  \/ SessionClose
  \/ \E r \in Requests : Goroutine(r)

GatewaySpec == GatewayInit /\ [][GatewayNext]_gatewayVars

(***************************************************************************)
(* An event published after a stream has subscribed, on its topic, is      *)
(* handed to its channel or counted as dropped, once: between the          *)
(* snapshot's moment and the subscription is the only time a stream may    *)
(* miss an event nobody counts.                                            *)
(***************************************************************************)
EventsAccounted ==
  /\ \A r \in Requests, t \in Topics : \A i \in DOMAIN history[t] :
       LET e == history[t][i] IN
         ( /\ r \in subscribers /\ request[r].topic \in {"all", t}
           /\ e > request[r].from
           /\ \A p \in Publishers : publisher[p].event # e \/ r \notin publisher[p].todo )
         => (e \in got[r]) # (e \in missed[r])
  /\ dropped = Cardinality({m \in Requests \X (1..nextID) : m[2] \in missed[m[1]]})

(***************************************************************************)
(* No publisher sends on a channel its stream has closed, which would end  *)
(* the process, although it copied the subscribers before the stream left. *)
(***************************************************************************)
NoSendOnClosed ==
  [][\A r \in Requests : channel[r].closed =>
       channel'[r].closed /\ Len(channel'[r].ids) <= Len(channel[r].ids)]_gatewayVars

(***************************************************************************)
(* While a client uses each id for one request at a time, every request    *)
(* that is running and not cancelled can be cancelled by its id, and every *)
(* stream a client subscribed to has its binding, so that unsubscribe      *)
(* finds it.                                                               *)
(***************************************************************************)
CancellableUnlessReused ==
  ~reused /\ connection = "open" =>
    \A r \in Requests :
      Running(r) /\ ~request[r].done =>
        /\ request[r].id \in DOMAIN cancels /\ cancels[request[r].id] = r
        /\ r \in subscribers /\ request[r].bound => request[r].id \in bindings

(***************************************************************************)
(* When the connection ends, the context of every request of it is done,   *)
(* also of those whose id a later request has taken, and a request that    *)
(* has ended leaves nothing in the hub: no stream outlives its client.     *)
(***************************************************************************)
NothingOutlives ==
  \A r \in Requests :
    /\ connection # "open" /\ Running(r) => request[r].done
    /\ request[r].stage = "ended" =>
         r \notin subscribers /\ (request[r].from > 0 => channel[r].closed)

(***************************************************************************)
(* What a client is owed: every event counted, every request cancellable,  *)
(* nothing left in the hub when it goes.                                   *)
(***************************************************************************)
StreamsSound == GatewayTypeOK /\ EventsAccounted /\ CancellableUnlessReused /\ NothingOutlives
=============================================================================
