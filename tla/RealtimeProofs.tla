--------------------------- MODULE RealtimeProofs ---------------------------
(***************************************************************************)
(* Theorems about the realtime gateway, for any number of requests, ids,   *)
(* topics and publishers and any sizes, about the frame layer below it,    *)
(* for any goroutines and any frames a client sends, and about the model   *)
(* registry, for any providers, models, callers, answers and limits.       *)
(***************************************************************************)
EXTENDS MCRealtime, SequenceTheorems, FiniteSetTheorems, WellFoundedInduction, TLAPS

-----------------------------------------------------------------------------
(* The hub and a connection's requests.                                    *)

RequestType == [stage : Stages, id : RequestIds \cup {"none"}, topic : Watched \cup {"none"},
                done : BOOLEAN, bound : BOOLEAN, from : Nat]

GatewayTypes ==
  /\ nextID \in Nat /\ dropped \in Nat /\ reused \in BOOLEAN
  /\ history \in [Topics -> Seq(Nat)] /\ \A t \in Topics : Len(history[t]) <= HistorySize
  /\ subscribers \subseteq Requests
  /\ channel \in [Requests -> [ids : Seq(Nat), closed : BOOLEAN]]
  /\ \A r \in Requests : Len(channel[r].ids) <= ChannelSize
  /\ publisher \in [Publishers -> [event : Nat, topic : Topics \cup {"none"}, todo : SUBSET Requests]]
  /\ request \in [Requests -> RequestType]
  /\ DOMAIN cancels \subseteq RequestIds /\ \A i \in DOMAIN cancels : cancels[i] \in Requests
  /\ bindings \subseteq RequestIds /\ connection \in {"open", "leaving", "closed"}
  /\ got \in [Requests -> SUBSET Nat] /\ missed \in [Requests -> SUBSET Nat]

\* A stream is in the hub from its subscription to its leaving, and its channel
\* is closed before the request ends.
StreamOf(r) ==
  /\ r \in subscribers <=> request[r].stage \in {"first", "loop", "leave"}
  /\ request[r].stage \in {"unused", "single", "snapshot", "subscribe"} => request[r].from = 0
  /\ request[r].from <= nextID
  /\ request[r].stage \in {"unbind", "finish", "ended"} /\ request[r].from > 0 => channel[r].closed
  /\ connection # "open" /\ Running(r) => request[r].done

\* A publisher still has to hand over its event to whom it has not told, and no
\* event is both handed over and refused.
PublisherOf(p) ==
  /\ publisher[p].event <= nextID
  /\ publisher[p].event = 0 => publisher[p].todo = {}
  /\ \A q \in Publishers : publisher[q].event = publisher[p].event /\ publisher[p].event # 0 => q = p
  /\ \A r \in publisher[p].todo : publisher[p].event \notin got[r] \cup missed[r]

Told(r, e) == \/ \E p \in Publishers : publisher[p].event = e /\ r \in publisher[p].todo
              \/ e \in got[r] \/ e \in missed[r]

HubInv ==
  /\ \A p \in Publishers : PublisherOf(p)
  /\ \A r \in Requests : got[r] \cap missed[r] = {} /\ got[r] \cup missed[r] \subseteq 1 .. nextID
  /\ \A t \in Topics : \A i \in 1 .. Len(history[t]) : history[t][i] \in 1 .. nextID
  /\ \A r \in subscribers, t \in Topics : \A i \in 1 .. Len(history[t]) :
       request[r].topic \in {"all", t} /\ history[t][i] > request[r].from => Told(r, history[t][i])

Misses    == {m \in Requests \X (1..nextID) : m[2] \in missed[m[1]]}
DropsCounted == IsFiniteSet(Misses) /\ dropped = Cardinality(Misses)

\* While no id is used twice at once, what the session knows of an id is the
\* request that has it.
SessionInv ==
  ~reused =>
    /\ \A q, r \in Requests : Running(q) /\ Running(r) /\ request[q].id = request[r].id => q = r
    /\ connection = "open" => \A r \in Requests : Running(r) /\ ~request[r].done =>
         /\ request[r].id \in DOMAIN cancels /\ cancels[request[r].id] = r
         /\ request[r].bound /\ request[r].stage # "finish" => request[r].id \in bindings

GatewayInv ==
  /\ GatewayTypes /\ \A r \in Requests : StreamOf(r)
  /\ HubInv /\ DropsCounted /\ SessionInv

LEMMA GatewayInvImplies == GatewayInv => StreamsSound
<1> SUFFICES ASSUME GatewayInv PROVE StreamsSound
  OBVIOUS
<1>1. GatewayTypeOK
  BY DEF GatewayInv, GatewayTypes, GatewayTypeOK, RequestType
<1>2. ASSUME NEW r \in Requests, NEW t \in Topics, NEW i \in DOMAIN history[t],
             r \in subscribers, request[r].topic \in {"all", t}, history[t][i] > request[r].from,
             \A p \in Publishers : publisher[p].event # history[t][i] \/ r \notin publisher[p].todo
      PROVE  (history[t][i] \in got[r]) # (history[t][i] \in missed[r])
  <2>1. i \in 1 .. Len(history[t])
    BY LenProperties DEF GatewayInv, GatewayTypes
  <2>2. Told(r, history[t][i])
    BY <1>2, <2>1 DEF GatewayInv, HubInv
  <2>3. history[t][i] \in got[r] \/ history[t][i] \in missed[r]
    BY <1>2, <2>2 DEF Told
  <2> QED BY <2>3 DEF GatewayInv, HubInv
<1>3. EventsAccounted
  BY <1>2 DEF EventsAccounted, GatewayInv, DropsCounted, Misses
<1>4. CancellableUnlessReused
  BY DEF CancellableUnlessReused, GatewayInv, SessionInv, StreamOf
<1>5. NothingOutlives
  BY DEF NothingOutlives, GatewayInv, StreamOf
<1> QED BY <1>1, <1>3, <1>4, <1>5 DEF StreamsSound

LEMMA InitGatewayInv == GatewayInit => GatewayInv
<1> SUFFICES ASSUME GatewayInit PROVE GatewayInv
  OBVIOUS
<1>1. Unused \in RequestType /\ Unused.stage = "unused" /\ Unused.from = 0
  BY DEF Unused, RequestType, Stages
<1>2. Resting \in [event : Nat, topic : Topics \cup {"none"}, todo : SUBSET Requests]
      /\ Resting.event = 0 /\ Resting.todo = {}
  BY DEF Resting
<1>3. GatewayTypes
  <2>1. channel \in [Requests -> [ids : Seq(Nat), closed : BOOLEAN]]
        /\ \A r \in Requests : Len(channel[r].ids) <= ChannelSize
    BY GatewayAssumption DEF GatewayInit
  <2>2. history \in [Topics -> Seq(Nat)] /\ \A t \in Topics : Len(history[t]) <= HistorySize
    BY GatewayAssumption DEF GatewayInit
  <2> QED BY <1>1, <1>2, <2>1, <2>2 DEF GatewayInit, GatewayTypes
<1>4. HubInv
  BY <1>2 DEF GatewayInit, HubInv, PublisherOf
<1>5. ASSUME NEW r \in Requests PROVE StreamOf(r) /\ ~Running(r)
  BY <1>1 DEF GatewayInit, StreamOf, Running
<1>6. Misses = {}
  BY DEF Misses, GatewayInit
<1>7. DropsCounted
  BY <1>6, FS_EmptySet DEF DropsCounted, GatewayInit
<1> QED BY <1>3, <1>4, <1>5, <1>7 DEF GatewayInv, SessionInv

\* Steps that leave the hub's events alone, and streams in it where they were.
LEMMA HubFrame ==
  ASSUME GatewayInv, UNCHANGED <<nextID, history, publisher, got, missed, dropped>>,
         subscribers' \subseteq subscribers,
         \A r \in subscribers' : request'[r].topic = request[r].topic /\ request'[r].from = request[r].from
  PROVE  HubInv' /\ DropsCounted'
<1>1. HubInv'
  BY DEF GatewayInv, HubInv, PublisherOf, Told
<1>2. Misses' = Misses
  BY DEF Misses
<1> QED BY <1>1, <1>2 DEF GatewayInv, DropsCounted

\* A step of one request's goroutine to another stage.
LEMMA GoTypes ==
  ASSUME GatewayInv, NEW r \in Requests, NEW s \in Stages, Go(r, s)
  PROVE  /\ request' \in [Requests -> RequestType] /\ request'[r].stage = s
         /\ \A q \in Requests : /\ q # r => request'[q] = request[q]
                                /\ request'[q].id = request[q].id /\ request'[q].topic = request[q].topic
                                /\ request'[q].done = request[q].done /\ request'[q].bound = request[q].bound
                                /\ request'[q].from = request[q].from
<1> DEFINE x == request[r]
           y == [x EXCEPT !.stage = s]
<1>1. x \in RequestType /\ request' = [request EXCEPT ![r] = y] /\ request \in [Requests -> RequestType]
  BY DEF GatewayInv, GatewayTypes, Go
<1>2. /\ y \in RequestType /\ y.stage = s /\ y.id = x.id /\ y.topic = x.topic /\ y.done = x.done
      /\ y.bound = x.bound /\ y.from = x.from
  BY <1>1 DEF RequestType
<1> HIDE DEF y
<1> QED BY <1>1, <1>2

LEMMA CancelledTypes ==
  ASSUME GatewayInv, NEW i \in RequestIds, request' = Cancelled(i)
  PROVE  /\ request' \in [Requests -> RequestType]
         /\ \A q \in Requests :
              /\ request'[q].stage = request[q].stage
              /\ request'[q].id = request[q].id /\ request'[q].topic = request[q].topic
              /\ request'[q].bound = request[q].bound /\ request'[q].from = request[q].from
              /\ request[q].done => request'[q].done
              /\ i \in DOMAIN cancels /\ cancels[i] = q => request'[q].done
<1>1. CASE i \in DOMAIN cancels
  <2>1. cancels[i] \in Requests /\ request' = [request EXCEPT ![cancels[i]].done = TRUE]
    BY <1>1 DEF Cancelled, GatewayInv, GatewayTypes
  <2> DEFINE r == cancels[i]
             x == request[r]
             y == [x EXCEPT !.done = TRUE]
  <2>2. x \in RequestType /\ request' = [request EXCEPT ![r] = y] /\ request \in [Requests -> RequestType]
    BY <2>1 DEF GatewayInv, GatewayTypes
  <2>3. /\ y \in RequestType /\ y.stage = x.stage /\ y.id = x.id /\ y.topic = x.topic /\ y.done
        /\ y.bound = x.bound /\ y.from = x.from
    BY <2>2 DEF RequestType
  <2> HIDE DEF y
  <2> QED BY <2>1, <2>2, <2>3
<1>2. CASE i \notin DOMAIN cancels
  BY <1>2 DEF Cancelled, GatewayInv, GatewayTypes, RequestType
<1> QED BY <1>1, <1>2

\* A goroutine's step from one stage to the next that leaves the session alone.
LEMMA GoInv ==
  ASSUME GatewayInv, NEW r \in Requests, NEW s \in Stages \ {"unused", "ended", "finish"},
         Running(r), request[r].stage # "finish", Go(r, s),
         UNCHANGED <<nextID, history, publisher, dropped, got, missed, reused>>,
         UNCHANGED <<cancels, bindings, connection>>,
         subscribers' \subseteq subscribers, subscribers \ {r} \subseteq subscribers',
         channel' \in [Requests -> [ids : Seq(Nat), closed : BOOLEAN]],
         \A q \in Requests : /\ Len(channel'[q].ids) <= ChannelSize
                             /\ channel[q].closed => channel'[q].closed,
         StreamOf(r)'
  PROVE  GatewayInv'
<1>1. /\ request' \in [Requests -> RequestType] /\ request'[r].stage = s
      /\ \A q \in Requests : /\ q # r => request'[q] = request[q]
                             /\ request'[q].id = request[q].id /\ request'[q].topic = request[q].topic
                             /\ request'[q].done = request[q].done /\ request'[q].bound = request[q].bound
                             /\ request'[q].from = request[q].from
  BY GoTypes
<1>2. GatewayTypes'
  BY <1>1 DEF GatewayInv, GatewayTypes
<1>3. \A q \in Requests : Running(q)' <=> Running(q)
  BY <1>1 DEF Running
<1>4. ASSUME NEW q \in Requests PROVE StreamOf(q)'
  <2>1. CASE q # r
    BY <1>1, <2>1 DEF GatewayInv, StreamOf, Running
  <2> QED BY <2>1
<1>5. HubInv' /\ DropsCounted'
  <2>1. \A q \in subscribers' : q \in Requests
    BY DEF GatewayInv, GatewayTypes
  <2> QED BY <1>1, <2>1, HubFrame
<1>6. SessionInv'
  <2>1. \A q \in Requests : request'[q].stage = "finish" <=> request[q].stage = "finish"
    BY <1>1
  <2> QED BY <1>1, <1>3, <2>1, SMTT(40) DEF GatewayInv, SessionInv
<1> QED BY <1>2, <1>4, <1>5, <1>6 DEF GatewayInv

LEMMA StageStepInv ==
  ASSUME GatewayInv, NEW r \in Requests,
         SingleAnswer(r) \/ StreamSnapshot(r) \/ StreamFirst(r) \/ StreamDone(r) \/ StreamDelta(r)
           \/ StreamLeave(r) \/ StreamClose(r)
  PROVE  GatewayInv'
<1>0. /\ channel \in [Requests -> [ids : Seq(Nat), closed : BOOLEAN]]
      /\ \A q \in Requests : Len(channel[q].ids) <= ChannelSize
      /\ StreamOf(r) /\ request[r] \in RequestType
  BY DEF GatewayInv, GatewayTypes
<1>1. ASSUME NEW s \in Stages, Go(r, s)
      PROVE  request'[r].stage = s /\ request'[r].from = request[r].from /\ request'[r].done = request[r].done
  BY <1>1, GoTypes
<1>2. CASE SingleAnswer(r) \/ StreamSnapshot(r) \/ StreamFirst(r) \/ StreamDone(r)
  <2>1. PICK s \in {"unbind", "subscribe", "loop", "leave"} :
          /\ Go(r, s) /\ UNCHANGED <<hub, cancels, bindings, connection, seen>>
          /\ \/ request[r].stage = "single" /\ s = "unbind"
             \/ request[r].stage = "snapshot" /\ s \in {"subscribe", "unbind"}
             \/ request[r].stage \in {"first", "loop"} /\ s \in {"loop", "leave"}
    BY <1>2 DEF SingleAnswer, StreamSnapshot, StreamFirst, StreamDone
  <2>2. s \in Stages \ {"unused", "ended", "finish"} /\ Running(r) /\ request[r].stage # "finish"
    BY <2>1 DEF Stages, Running
  <2>3. StreamOf(r)'
    BY <1>0, <1>1, <2>1, <2>2 DEF StreamOf, Running, hub, seen
  <2> QED BY <1>0, <2>1, <2>2, <2>3, GoInv DEF hub, seen
<1>3. CASE StreamDelta(r)
  <2>1. PICK s \in {"loop", "leave"} : Go(r, s)
    BY <1>3 DEF StreamDelta
  <2>2. /\ channel' = [channel EXCEPT ![r].ids = Tail(@)] /\ channel[r].ids # <<>>
        /\ UNCHANGED <<nextID, history, subscribers, publisher, dropped, cancels, bindings,
                       connection, seen>>
        /\ request[r].stage = "loop"
    BY <1>3 DEF StreamDelta
  <2>3. Tail(channel[r].ids) \in Seq(Nat) /\ Len(Tail(channel[r].ids)) = Len(channel[r].ids) - 1
        /\ Len(channel[r].ids) \in Nat /\ ChannelSize \in Nat
    BY <1>0, <2>2, HeadTailProperties, LenProperties, GatewayAssumption
  <2>4. /\ channel' \in [Requests -> [ids : Seq(Nat), closed : BOOLEAN]]
        /\ channel'[r].ids = Tail(channel[r].ids) /\ channel'[r].closed = channel[r].closed
        /\ \A q \in Requests \ {r} : channel'[q] = channel[q]
    BY <1>0, <2>2, <2>3
  <2>5. \A q \in Requests : /\ Len(channel'[q].ids) <= ChannelSize
                            /\ channel[q].closed => channel'[q].closed
    <3>1. Len(channel'[r].ids) <= ChannelSize
      BY <1>0, <2>3, <2>4
    <3> QED BY <1>0, <2>4, <3>1
  <2>6. s \in Stages \ {"unused", "ended", "finish"} /\ Running(r) /\ request[r].stage # "finish"
    BY <2>2 DEF Stages, Running
  <2>7. StreamOf(r)'
    BY <1>0, <1>1, <2>1, <2>2, <2>6 DEF StreamOf, Running, seen
  <2> QED BY <2>1, <2>2, <2>4, <2>5, <2>6, <2>7, GoInv DEF seen
<1>4. CASE StreamLeave(r)
  <2>1. "close" \in Stages \ {"unused", "ended", "finish"} /\ Running(r) /\ request[r].stage # "finish"
    BY <1>4 DEF Stages, Running, StreamLeave
  <2>2. StreamOf(r)'
    BY <1>0, <1>1, <1>4, <2>1 DEF StreamOf, Running, StreamLeave
  <2> QED BY <1>0, <1>4, <2>1, <2>2, GoInv DEF StreamLeave, seen
<1>5. CASE StreamClose(r)
  <2>1. "unbind" \in Stages \ {"unused", "ended", "finish"} /\ Running(r) /\ request[r].stage # "finish"
    BY <1>5 DEF Stages, Running, StreamClose
  <2>2. /\ channel' = [channel EXCEPT ![r].closed = TRUE] /\ Go(r, "unbind")
        /\ request[r].stage = "close"
        /\ UNCHANGED <<nextID, history, subscribers, publisher, dropped, cancels, bindings,
                       connection, seen>>
    BY <1>5 DEF StreamClose
  <2>3. /\ channel' \in [Requests -> [ids : Seq(Nat), closed : BOOLEAN]]
        /\ channel'[r].ids = channel[r].ids /\ channel'[r].closed
        /\ \A q \in Requests \ {r} : channel'[q] = channel[q]
    BY <1>0, <2>2
  <2>4. \A q \in Requests : /\ Len(channel'[q].ids) <= ChannelSize
                            /\ channel[q].closed => channel'[q].closed
    BY <1>0, <2>3
  <2>5. StreamOf(r)'
    BY <1>0, <1>1, <2>1, <2>2, <2>3 DEF StreamOf, Running, seen
  <2> QED BY <2>1, <2>2, <2>3, <2>4, <2>5, GoInv DEF seen
<1> QED BY <1>2, <1>3, <1>4, <1>5

\* A frame that cancels, a deadline and the end of the connection only set
\* contexts done; what the session forgets is of the requests it cancels.
LEMMA DoneInv ==
  ASSUME GatewayInv, UNCHANGED <<hub, seen>>,
         request' \in [Requests -> RequestType],
         \A q \in Requests :
           /\ request'[q].stage = request[q].stage
           /\ request'[q].id = request[q].id /\ request'[q].topic = request[q].topic
           /\ request'[q].bound = request[q].bound /\ request'[q].from = request[q].from
           /\ request[q].done => request'[q].done
           /\ connection' # "open" /\ Running(q) => request'[q].done,
         DOMAIN cancels' \subseteq DOMAIN cancels, \A i \in DOMAIN cancels' : cancels'[i] = cancels[i],
         bindings' \subseteq bindings,
         connection' \in {"open", "leaving", "closed"}, connection' = "open" => connection = "open",
         connection' = "open" =>
           \A q \in Requests, i \in RequestIds :
             i \in DOMAIN cancels /\ cancels[i] = q /\ request[q].id = i /\ ~request'[q].done =>
               i \in DOMAIN cancels' /\ (i \in bindings => i \in bindings')
  PROVE  GatewayInv'
<1>1. GatewayTypes'
  BY DEF GatewayInv, GatewayTypes, hub, seen
<1>2. \A q \in Requests : Running(q)' <=> Running(q)
  BY DEF Running
<1>3. \A q \in Requests : StreamOf(q)'
  BY <1>2 DEF GatewayInv, StreamOf, hub
<1>4. HubInv' /\ DropsCounted'
  <2>1. \A q \in subscribers' : q \in Requests
    BY DEF GatewayInv, GatewayTypes, hub
  <2> QED BY <2>1, HubFrame DEF hub, seen
<1>5. SessionInv'
  <2> SUFFICES ASSUME ~reused, connection' = "open", NEW q \in Requests, Running(q), ~request'[q].done
               PROVE  /\ request[q].id \in DOMAIN cancels' /\ cancels'[request[q].id] = q
                      /\ request[q].bound /\ request[q].stage # "finish" => request[q].id \in bindings'
    BY <1>2 DEF GatewayInv, SessionInv, seen
  <2>1. /\ request[q].id \in DOMAIN cancels /\ cancels[request[q].id] = q
        /\ request[q].bound /\ request[q].stage # "finish" => request[q].id \in bindings
    BY DEF GatewayInv, SessionInv
  <2>2. request[q].id \in RequestIds
    BY <2>1 DEF GatewayInv, GatewayTypes
  <2> QED BY <2>1, <2>2
<1> QED BY <1>1, <1>3, <1>4, <1>5 DEF GatewayInv

LEMMA SessionStepInv ==
  ASSUME GatewayInv,
         \/ \E id \in RequestIds : CancelFrame(id) \/ UnsubscribeFrame(id)
         \/ Disconnect \/ SessionClose \/ \E r \in Requests : RequestTimeout(r)
  PROVE  GatewayInv'
<1>0. /\ request \in [Requests -> RequestType] /\ DOMAIN cancels \subseteq RequestIds
      /\ \A q \in Requests : connection # "open" /\ Running(q) => request[q].done
      /\ connection \in {"open", "leaving", "closed"}
  BY DEF GatewayInv, GatewayTypes, StreamOf
<1>1. ASSUME NEW i \in RequestIds, connection = "open", connection' = "open",
             request' = Cancelled(i), cancels' = Without(cancels, i),
             bindings' \subseteq bindings, bindings \ {i} \subseteq bindings', UNCHANGED <<hub, seen>>
      PROVE  GatewayInv'
  <2>1. /\ request' \in [Requests -> RequestType]
        /\ \A q \in Requests :
              /\ request'[q].stage = request[q].stage
              /\ request'[q].id = request[q].id /\ request'[q].topic = request[q].topic
              /\ request'[q].bound = request[q].bound /\ request'[q].from = request[q].from
              /\ request[q].done => request'[q].done
              /\ i \in DOMAIN cancels /\ cancels[i] = q => request'[q].done
    BY <1>1, CancelledTypes
  <2>2. DOMAIN cancels' = DOMAIN cancels \ {i} /\ \A k \in DOMAIN cancels' : cancels'[k] = cancels[k]
    BY <1>1 DEF Without
  <2>3. ASSUME NEW q \in Requests, NEW k \in RequestIds,
               k \in DOMAIN cancels, cancels[k] = q, ~request'[q].done
        PROVE  k \in DOMAIN cancels' /\ (k \in bindings => k \in bindings')
    BY <1>1, <2>1, <2>2, <2>3
  <2> QED BY <1>1, <2>1, <2>2, <2>3, DoneInv
<1>2. ASSUME NEW i \in RequestIds, CancelFrame(i) PROVE GatewayInv'
  BY <1>1, <1>2 DEF CancelFrame
<1>3. ASSUME NEW i \in RequestIds, UnsubscribeFrame(i) PROVE GatewayInv'
  BY <1>1, <1>3 DEF UnsubscribeFrame
<1>4. CASE Disconnect
  <2>1. ASSUME NEW q \in Requests
        PROVE  /\ request'[q] \in RequestType
               /\ request'[q].stage = request[q].stage
               /\ request'[q].id = request[q].id /\ request'[q].topic = request[q].topic
               /\ request'[q].bound = request[q].bound /\ request'[q].from = request[q].from
               /\ request[q].done => request'[q].done
               /\ Running(q) => request'[q].done
    <3>1. request[q] \in RequestType
      BY <1>0
    <3>2. request'[q] = IF Running(q) THEN [request[q] EXCEPT !.done = TRUE] ELSE request[q]
      BY <1>4 DEF Disconnect
    <3>3. CASE Running(q)
      <4>1. request'[q] = [request[q] EXCEPT !.done = TRUE]
        BY <3>2, <3>3
      <4> QED BY <3>1, <4>1 DEF RequestType
    <3>4. CASE ~Running(q)
      BY <3>1, <3>2, <3>4
    <3> QED BY <3>3, <3>4
  <2>2. request' \in [Requests -> RequestType]
    <3>1. request' = [q \in Requests |-> request'[q]]
      BY <1>4 DEF Disconnect
    <3> QED BY <2>1, <3>1
  <2>3. UNCHANGED <<hub, cancels, bindings, seen>> /\ connection' = "leaving"
    BY <1>4 DEF Disconnect
  <2> QED BY <2>1, <2>2, <2>3, DoneInv
<1>5. CASE SessionClose
  <2>1. /\ connection' = "closed" /\ connection = "leaving" /\ UNCHANGED <<hub, request, seen>>
        /\ DOMAIN cancels' = {} /\ bindings' = {}
    BY <1>5 DEF SessionClose
  <2> QED BY <1>0, <2>1, DoneInv
<1>6. ASSUME NEW r \in Requests, RequestTimeout(r) PROVE GatewayInv'
  <2> DEFINE y == [request[r] EXCEPT !.done = TRUE]
  <2>1. /\ request' = [request EXCEPT ![r] = y] /\ request[r] \in RequestType
        /\ UNCHANGED <<hub, cancels, bindings, connection, seen>>
    BY <1>0, <1>6 DEF RequestTimeout
  <2>2. /\ y \in RequestType /\ y.stage = request[r].stage /\ y.id = request[r].id /\ y.topic = request[r].topic
        /\ y.done /\ y.bound = request[r].bound /\ y.from = request[r].from
    BY <2>1 DEF RequestType
  <2> HIDE DEF y
  <2>3. /\ request' \in [Requests -> RequestType] /\ request'[r] = y
        /\ \A q \in Requests \ {r} : request'[q] = request[q]
    BY <1>0, <2>1, <2>2
  <2>4. \A q \in Requests :
              /\ request'[q].stage = request[q].stage
              /\ request'[q].id = request[q].id /\ request'[q].topic = request[q].topic
              /\ request'[q].bound = request[q].bound /\ request'[q].from = request[q].from
              /\ request[q].done => request'[q].done
    BY <2>2, <2>3
  <2> QED BY <1>0, <2>1, <2>3, <2>4, DoneInv
<1> QED BY <1>2, <1>3, <1>4, <1>5, <1>6

\* The deferred calls of a request forget its id, which is nobody else's.
LEMMA DeferredInv ==
  ASSUME GatewayInv, NEW r \in Requests, RequestUnbind(r) \/ RequestFinish(r)
  PROVE  GatewayInv'
<1> DEFINE x == request[r]
           s == IF x.stage = "unbind" THEN "finish" ELSE "ended"
           y == [x EXCEPT !.stage = s, !.done = @ \/ s = "ended"]
<1>1. /\ x \in RequestType /\ request \in [Requests -> RequestType] /\ x.stage \in {"unbind", "finish"}
      /\ UNCHANGED <<hub, connection, seen>>
  BY DEF RequestUnbind, RequestFinish, GatewayInv, GatewayTypes
<1>2. request' = [request EXCEPT ![r] = y]
  <2>1. CASE RequestUnbind(r)
    <3>1. x.stage = "unbind" /\ request' = [request EXCEPT ![r] = [x EXCEPT !.stage = "finish"]]
      BY <2>1 DEF RequestUnbind, Go
    <3>2. y = [x EXCEPT !.stage = "finish"]
      BY <1>1, <3>1 DEF RequestType
    <3> QED BY <3>1, <3>2
  <2>2. CASE RequestFinish(r)
    <3>1. x.stage = "finish" /\ request' = [request EXCEPT ![r] = [x EXCEPT !.stage = "ended", !.done = TRUE]]
      BY <1>1, <2>2 DEF RequestFinish, RequestType
    <3>2. y = [x EXCEPT !.stage = "ended", !.done = TRUE]
      BY <1>1, <3>1 DEF RequestType
    <3> QED BY <3>1, <3>2
  <2> QED BY <2>1, <2>2
<1>3. /\ y \in RequestType /\ y.stage = s /\ y.id = x.id /\ y.topic = x.topic
      /\ y.bound = x.bound /\ y.from = x.from /\ y.done = (x.done \/ s = "ended")
  BY <1>1 DEF RequestType, Stages
<1> HIDE DEF y
<1>4. /\ request' \in [Requests -> RequestType] /\ request'[r] = y
      /\ \A q \in Requests \ {r} : request'[q] = request[q]
  BY <1>1, <1>2, <1>3
<1>5. /\ DOMAIN cancels' \subseteq DOMAIN cancels /\ bindings' \subseteq bindings
      /\ \A i \in DOMAIN cancels' : cancels'[i] = cancels[i]
      /\ \A i \in DOMAIN cancels : i # x.id => i \in DOMAIN cancels'
      /\ \A i \in bindings : i # x.id => i \in bindings'
      /\ s = "finish" => cancels' = cancels
  BY DEF RequestUnbind, RequestFinish, Without
<1>6. GatewayTypes'
  BY <1>1, <1>4, <1>5 DEF GatewayInv, GatewayTypes, hub, seen
<1>7. ASSUME NEW q \in Requests PROVE StreamOf(q)'
  <2>1. CASE q = r
    BY <1>1, <1>3, <1>4, <2>1 DEF GatewayInv, StreamOf, Running, hub
  <2>2. CASE q # r
    BY <1>1, <1>4, <2>2 DEF GatewayInv, StreamOf, Running, hub
  <2> QED BY <2>1, <2>2
<1>8. HubInv' /\ DropsCounted'
  <2>1. \A q \in subscribers' : q \in Requests /\ q # r
    BY <1>1 DEF GatewayInv, GatewayTypes, StreamOf, hub
  <2> QED BY <1>1, <1>4, <2>1, HubFrame DEF hub, seen
<1>9. SessionInv'
  <2> SUFFICES ASSUME ~reused PROVE SessionInv'
    BY <1>1 DEF SessionInv, seen
  <2>1. \A q \in Requests : Running(q)' => Running(q)
    BY <1>1, <1>3, <1>4 DEF Running
  <2>2. \A q \in Requests : request'[q].id = request[q].id
    BY <1>3, <1>4
  <2>3. Running(r)
    BY <1>1 DEF Running
  <2>4. ASSUME NEW q \in Requests, Running(q)', connection' = "open", ~request'[q].done
        PROVE  /\ request'[q].id \in DOMAIN cancels' /\ cancels'[request'[q].id] = q
               /\ request'[q].bound /\ request'[q].stage # "finish" => request'[q].id \in bindings'
    <3>1. CASE q = r
      <4>1. s = "finish" /\ ~x.done
        BY <1>3, <1>4, <2>4, <3>1 DEF Running
      <4> QED BY <1>1, <1>3, <1>4, <1>5, <2>2, <2>3, <2>4, <3>1, <4>1 DEF GatewayInv, SessionInv
    <3>2. CASE q # r
      <4>1. request'[q] = request[q] /\ request[q].id # x.id
        BY <1>4, <2>1, <2>3, <2>4, <3>2 DEF GatewayInv, SessionInv
      <4> QED BY <1>1, <1>5, <2>1, <2>4, <4>1 DEF GatewayInv, SessionInv
    <3> QED BY <3>1, <3>2
  <2>5. ASSUME NEW q \in Requests, NEW p \in Requests, Running(q)', Running(p)',
               request'[q].id = request'[p].id
        PROVE  q = p
    BY <2>1, <2>2, <2>5 DEF GatewayInv, SessionInv
  <2> QED BY <2>4, <2>5 DEF SessionInv
<1> QED BY <1>6, <1>7, <1>8, <1>9 DEF GatewayInv

LEMMA StartDispatchInv ==
  ASSUME GatewayInv, NEW r \in Requests, NEW i \in RequestIds, NEW kind \in {"single", "snapshot"},
         NEW topic \in Watched \cup {"none"}, NEW subscribe \in BOOLEAN,
         StartDispatch(r, i, kind, topic, subscribe)
  PROVE  GatewayInv'
<1> DEFINE y == [Unused EXCEPT !.stage = kind, !.id = i, !.topic = topic, !.bound = subscribe]
<1>1. /\ request' = [request EXCEPT ![r] = y] /\ request \in [Requests -> RequestType]
      /\ connection = "open" /\ request[r].stage = "unused" /\ cancels' = With(cancels, i, r)
      /\ bindings' = (IF subscribe THEN bindings \cup {i} ELSE bindings)
      /\ reused' = (reused \/ \E q \in Requests : Running(q) /\ request[q].id = i)
      /\ UNCHANGED <<hub, connection, published, got, missed>>
  BY DEF StartDispatch, GatewayInv, GatewayTypes
<1>2. /\ y \in RequestType /\ y.stage = kind /\ y.id = i /\ y.topic = topic /\ ~y.done
      /\ y.bound = subscribe /\ y.from = 0
  BY DEF RequestType, Unused, Stages
<1> HIDE DEF y
<1>3. /\ request' \in [Requests -> RequestType] /\ request'[r] = y
      /\ \A q \in Requests \ {r} : request'[q] = request[q]
  BY <1>1, <1>2
<1>4. /\ DOMAIN cancels' = DOMAIN cancels \cup {i} /\ cancels'[i] = r
      /\ \A k \in DOMAIN cancels \ {i} : cancels'[k] = cancels[k]
  BY <1>1 DEF With
<1>5. GatewayTypes'
  BY <1>1, <1>3, <1>4 DEF GatewayInv, GatewayTypes, hub
<1>6. ASSUME NEW q \in Requests PROVE StreamOf(q)'
  <2>1. CASE q = r
    BY <1>1, <1>2, <1>3, <2>1 DEF GatewayInv, GatewayTypes, StreamOf, Running, hub
  <2>2. CASE q # r
    BY <1>1, <1>3, <2>2 DEF GatewayInv, StreamOf, Running, hub
  <2> QED BY <2>1, <2>2
<1>7. HubInv' /\ DropsCounted'
  <2>1. \A q \in subscribers' : q \in Requests /\ q # r
    BY <1>1 DEF GatewayInv, GatewayTypes, StreamOf, hub
  <2> QED BY <1>1, <1>3, <2>1, HubFrame DEF hub
<1>8. SessionInv'
  <2> SUFFICES ASSUME ~reused' PROVE SessionInv'
    BY DEF SessionInv
  <2>1. ~reused /\ \A q \in Requests : Running(q) => request[q].id # i
    BY <1>1
  <2>2. \A q \in Requests \ {r} : Running(q)' <=> Running(q)
    BY <1>3 DEF Running
  <2>3. ASSUME NEW q \in Requests, NEW p \in Requests, Running(q)', Running(p)',
               request'[q].id = request'[p].id
        PROVE  q = p
    BY <1>2, <1>3, <2>1, <2>2, <2>3 DEF GatewayInv, SessionInv
  <2>4. ASSUME NEW q \in Requests, Running(q)', connection' = "open", ~request'[q].done
        PROVE  /\ request'[q].id \in DOMAIN cancels' /\ cancels'[request'[q].id] = q
               /\ request'[q].bound /\ request'[q].stage # "finish" => request'[q].id \in bindings'
    <3>1. CASE q = r
      BY <1>1, <1>2, <1>3, <1>4, <3>1
    <3>2. CASE q # r
      <4>1. request'[q] = request[q] /\ Running(q) /\ request[q].id # i
        BY <1>3, <2>1, <2>2, <2>4, <3>2
      <4> QED BY <1>1, <1>4, <2>1, <2>4, <4>1 DEF GatewayInv, SessionInv
    <3> QED BY <3>1, <3>2
  <2> QED BY <2>3, <2>4 DEF SessionInv
<1> QED BY <1>5, <1>6, <1>7, <1>8 DEF GatewayInv

\* Ids only grow: a larger range of events has no misses that were not there.
LEMMA MissesGrow ==
  ASSUME GatewayInv, nextID' = nextID + 1, UNCHANGED <<missed, dropped>>
  PROVE  DropsCounted'
<1>1. Misses' = Misses
  BY DEF Misses, GatewayInv, GatewayTypes, HubInv
<1> QED BY <1>1 DEF GatewayInv, DropsCounted

LEMMA StreamSubscribeInv ==
  ASSUME GatewayInv, NEW r \in Requests, StreamSubscribe(r)
  PROVE  GatewayInv'
<1> DEFINE x == request[r]
           y == [x EXCEPT !.stage = "first", !.from = nextID + 1]
<1>1. /\ request' = [request EXCEPT ![r] = y] /\ request \in [Requests -> RequestType] /\ x \in RequestType
      /\ x.stage = "subscribe" /\ nextID' = nextID + 1 /\ nextID \in Nat
      /\ subscribers' = subscribers \cup {r}
      /\ UNCHANGED <<history, channel, publisher, dropped, cancels, bindings, connection, seen>>
  BY DEF StreamSubscribe, GatewayInv, GatewayTypes
<1>2. /\ y \in RequestType /\ y.stage = "first" /\ y.id = x.id /\ y.topic = x.topic /\ y.done = x.done
      /\ y.bound = x.bound /\ y.from = nextID + 1
  <2> DEFINE n == nextID + 1
  <2>1. n \in Nat /\ "first" \in Stages /\ x \in RequestType
    BY <1>1 DEF Stages
  <2> HIDE DEF n
  <2>2. y = [x EXCEPT !.stage = "first", !.from = n]
    BY DEF n
  <2>3. [x EXCEPT !.stage = "first", !.from = n] \in RequestType
    BY <2>1 DEF RequestType
  <2> QED BY <2>1, <2>2, <2>3 DEF RequestType, n
<1> HIDE DEF y
<1>3. /\ request' \in [Requests -> RequestType] /\ request'[r] = y
      /\ \A q \in Requests \ {r} : request'[q] = request[q]
  BY <1>1, <1>2
<1>4. GatewayTypes'
  BY <1>1, <1>3 DEF GatewayInv, GatewayTypes, seen
<1>5. ASSUME NEW q \in Requests PROVE StreamOf(q)'
  <2>1. CASE q = r
    BY <1>1, <1>2, <1>3, <2>1 DEF GatewayInv, StreamOf, Running
  <2>2. CASE q # r
    <3>1. request[q].from \in Nat
      BY <1>1 DEF RequestType
    <3> QED BY <1>1, <1>3, <2>2, <3>1 DEF GatewayInv, StreamOf, Running
  <2> QED BY <2>1, <2>2
<1>6. HubInv'
  <2>1. \A p \in Publishers : PublisherOf(p)'
    <3>1. \A p \in Publishers : publisher[p].event \in Nat
      BY DEF GatewayInv, GatewayTypes
    <3> QED BY <1>1, <3>1 DEF GatewayInv, HubInv, PublisherOf, seen
  <2>2. /\ \A q \in Requests : got'[q] \cap missed'[q] = {} /\ got'[q] \cup missed'[q] \subseteq 1 .. nextID'
        /\ \A t \in Topics : \A i \in 1 .. Len(history'[t]) : history'[t][i] \in 1 .. nextID'
    BY <1>1 DEF GatewayInv, HubInv, seen
  <2>3. ASSUME NEW q \in subscribers', NEW t \in Topics, NEW i \in 1 .. Len(history'[t]),
               request'[q].topic \in {"all", t}, history'[t][i] > request'[q].from
        PROVE  Told(q, history[t][i])'
    <3>1. history[t][i] \in 1 .. nextID
      BY <1>1 DEF GatewayInv, HubInv
    <3>2. q # r
      BY <1>1, <1>2, <1>3, <2>3, <3>1
    <3>3. q \in Requests /\ q \in subscribers /\ request'[q] = request[q]
      BY <1>1, <1>3, <2>3, <3>2 DEF GatewayInv, GatewayTypes
    <3>4. Told(q, history[t][i])
      BY <1>1, <2>3, <3>3 DEF GatewayInv, HubInv
    <3>5. history' = history /\ publisher' = publisher /\ got' = got /\ missed' = missed
      BY <1>1 DEF seen
    <3> QED BY <3>4, <3>5 DEF Told
  <2> QED BY <2>1, <2>2, <2>3 DEF HubInv
<1>7. DropsCounted'
  BY <1>1, MissesGrow DEF seen
<1>8. SessionInv'
  <2>1. \A q \in Requests : /\ Running(q)' <=> Running(q)
                            /\ request'[q].id = request[q].id /\ request'[q].done = request[q].done
                            /\ request'[q].bound = request[q].bound
                            /\ request'[q].stage = "finish" <=> request[q].stage = "finish"
    BY <1>1, <1>2, <1>3 DEF Running
  <2> QED BY <1>1, <2>1 DEF GatewayInv, SessionInv, seen
<1> QED BY <1>4, <1>5, <1>6, <1>7, <1>8 DEF GatewayInv

\* What the history keeps was in it or is the new event.
LEMMA BoundedHistory ==
  ASSUME NEW ids \in Seq(Nat), NEW e \in Nat
  PROVE  LET kept == AppendBounded(ids, e) IN
         /\ kept \in Seq(Nat) /\ Len(kept) <= HistorySize
         /\ \A i \in 1 .. Len(kept) : kept[i] = e \/ \E k \in 1 .. Len(ids) : kept[i] = ids[k]
<1> DEFINE all == Append(ids, e)
           n == Len(ids) + 1
<1>1. /\ all \in Seq(Nat) /\ Len(all) = n /\ n \in Nat /\ HistorySize \in Nat
      /\ \A i \in 1 .. n : all[i] \in Nat /\ (all[i] = e \/ \E k \in 1 .. Len(ids) : all[i] = ids[k])
  <2>1. all \in Seq(Nat) /\ Len(all) = n /\ all[n] = e /\ \A i \in 1 .. Len(ids) : all[i] = ids[i]
    BY AppendProperties
  <2>2. Len(ids) \in Nat /\ HistorySize \in Nat /\ \A i \in 1 .. n : all[i] \in Nat
    BY <2>1, LenProperties, GatewayAssumption
  <2>3. ASSUME NEW i \in 1 .. n PROVE all[i] = e \/ \E k \in 1 .. Len(ids) : all[i] = ids[k]
    <3>1. i = n \/ i \in 1 .. Len(ids)
      BY <2>2
    <3> QED BY <2>1, <3>1
  <2> QED BY <2>1, <2>2, <2>3
<1> HIDE DEF all, n
<1>2. CASE n <= HistorySize
  BY <1>1, <1>2 DEF AppendBounded, all
<1>3. CASE ~(n <= HistorySize)
  <2> DEFINE kept == SubSeq(all, n - HistorySize + 1, n)
  <2>1. AppendBounded(ids, e) = kept
    BY <1>1, <1>3 DEF AppendBounded, all
  <2>2. \A i \in (n - HistorySize + 1) .. n : i \in 1 .. n /\ all[i] \in Nat
    BY <1>1, <1>3
  <2>3. /\ kept \in Seq(Nat)
        /\ Len(kept) = IF n - HistorySize + 1 <= n THEN n - (n - HistorySize + 1) + 1 ELSE 0
        /\ \A i \in 1 .. (n - (n - HistorySize + 1) + 1) : kept[i] = all[(n - HistorySize + 1) + i - 1]
    <3>1. n - HistorySize + 1 \in Int /\ n \in Int
      BY <1>1
    <3> QED BY <2>2, <3>1, SubSeqProperties
  <2> HIDE DEF kept
  <2>4. Len(kept) = HistorySize
    BY <1>1, <2>3
  <2>5. ASSUME NEW i \in 1 .. Len(kept)
        PROVE  kept[i] = e \/ \E k \in 1 .. Len(ids) : kept[i] = ids[k]
    <3> DEFINE j == (n - HistorySize + 1) + i - 1
    <3>1. j \in 1 .. n /\ i \in 1 .. (n - (n - HistorySize + 1) + 1)
      BY <1>1, <1>3, <2>4
    <3>2. kept[i] = all[j]
      BY <2>3, <3>1
    <3> QED BY <1>1, <3>1, <3>2
  <2>6. Len(kept) <= HistorySize
    BY <1>1, <2>4
  <2> QED BY <2>1, <2>3, <2>5, <2>6
<1> QED BY <1>2, <1>3

\* A new event: its publisher owes it to the subscribers of this moment.
LEMMA PublishBeginInv ==
  ASSUME GatewayInv, NEW p \in Publishers, NEW topic \in Topics, PublishBegin(p, topic)
  PROVE  GatewayInv'
<1> DEFINE e == nextID + 1
           todo == {r \in subscribers : request[r].topic \in {"all", topic}}
           task == [event |-> e, topic |-> topic, todo |-> todo]
           kept == AppendBounded(history[topic], e)
<1>1. /\ publisher[p] = Resting /\ nextID' = e /\ nextID \in Nat /\ e \in Nat /\ e > nextID /\ e # 0
      /\ publisher' = [publisher EXCEPT ![p] = task] /\ history' = [history EXCEPT ![topic] = kept]
      /\ UNCHANGED <<subscribers, channel, dropped, session, got, missed, reused>>
  BY DEF PublishBegin, GatewayInv, GatewayTypes
<1>2. /\ history \in [Topics -> Seq(Nat)] /\ subscribers \subseteq Requests
      /\ publisher \in [Publishers -> [event : Nat, topic : Topics \cup {"none"}, todo : SUBSET Requests]]
      /\ history[topic] \in Seq(Nat)
  BY DEF GatewayInv, GatewayTypes
<1>3. /\ task \in [event : Nat, topic : Topics \cup {"none"}, todo : SUBSET Requests]
      /\ task.event = e /\ task.todo = todo
  BY <1>1, <1>2
<1>4. /\ kept \in Seq(Nat) /\ Len(kept) <= HistorySize
      /\ \A i \in 1 .. Len(kept) :
           kept[i] = e \/ \E k \in 1 .. Len(history[topic]) : kept[i] = history[topic][k]
  BY <1>1, <1>2, BoundedHistory
<1> HIDE DEF e, task, kept
<1>5. /\ publisher' \in [Publishers -> [event : Nat, topic : Topics \cup {"none"}, todo : SUBSET Requests]]
      /\ publisher'[p].event = e /\ publisher'[p].todo = todo
      /\ \A q \in Publishers \ {p} : publisher'[q] = publisher[q]
  BY <1>1, <1>2, <1>3
<1> HIDE DEF todo
<1>6. /\ history' \in [Topics -> Seq(Nat)] /\ history'[topic] = kept
      /\ \A t \in Topics \ {topic} : history'[t] = history[t]
  BY <1>1, <1>2, <1>4
<1>7. GatewayTypes'
  <2>1. \A t \in Topics : Len(history'[t]) <= HistorySize
    BY <1>4, <1>6 DEF GatewayInv, GatewayTypes
  <2> QED BY <1>1, <1>5, <1>6, <2>1 DEF GatewayInv, GatewayTypes, session
<1>8. ASSUME NEW q \in Requests PROVE StreamOf(q)'
  <2>1. request[q].from \in Nat
    BY DEF GatewayInv, GatewayTypes, RequestType
  <2> QED BY <1>1, <2>1 DEF GatewayInv, StreamOf, Running, session
<1>9. HubInv'
  <2>1. ASSUME NEW q \in Publishers PROVE publisher[q].event \in Nat /\ publisher[q].event <= nextID
    BY <1>2 DEF GatewayInv, HubInv, PublisherOf
  <2>2. /\ \A q \in Requests : got'[q] \cap missed'[q] = {} /\ got'[q] \cup missed'[q] \subseteq 1 .. nextID'
        /\ \A q \in Requests : e \notin got[q] \cup missed[q]
    BY <1>1 DEF GatewayInv, HubInv
  <2>3. ASSUME NEW q \in Publishers PROVE PublisherOf(q)'
    <3>1. publisher'[q].event <= nextID'
      BY <1>1, <1>5, <2>1
    <3>2. publisher'[q].event = 0 => publisher'[q].todo = {}
      BY <1>1, <1>5 DEF GatewayInv, HubInv, PublisherOf
    <3>3. ASSUME NEW s \in Publishers, publisher'[s].event = publisher'[q].event, publisher'[q].event # 0
          PROVE  s = q
      <4>1. \A z \in Publishers \ {p} : publisher'[z].event = publisher[z].event /\ publisher[z].event # e
        BY <1>1, <1>5, <2>1
      <4> QED BY <1>5, <3>3, <4>1 DEF GatewayInv, HubInv, PublisherOf
    <3>4. ASSUME NEW r \in publisher'[q].todo PROVE publisher'[q].event \notin got'[r] \cup missed'[r]
      <4>1. r \in Requests
        BY <1>5
      <4>2. CASE q = p
        BY <1>1, <1>5, <2>2, <4>1, <4>2
      <4>3. CASE q # p
        BY <1>1, <1>5, <4>3 DEF GatewayInv, HubInv, PublisherOf
      <4> QED BY <4>2, <4>3
    <3> QED BY <3>1, <3>2, <3>3, <3>4 DEF PublisherOf
  <2>4. ASSUME NEW t \in Topics, NEW i \in 1 .. Len(history'[t])
        PROVE  \/ t = topic /\ history'[t][i] = e
               \/ \E k \in 1 .. Len(history[t]) : history'[t][i] = history[t][k]
    BY <1>4, <1>6, SMTT(40)
  <2>5. ASSUME NEW t \in Topics, NEW i \in 1 .. Len(history'[t]) PROVE history'[t][i] \in 1 .. nextID'
    <3>1. \A k \in 1 .. Len(history[t]) : history[t][k] \in 1 .. nextID
      BY DEF GatewayInv, HubInv
    <3>2. e \in 1 .. nextID' /\ 1 .. nextID \subseteq 1 .. nextID'
      BY <1>1
    <3> QED BY <2>4, <3>1, <3>2
  <2>6. ASSUME NEW r \in subscribers', NEW t \in Topics, NEW i \in 1 .. Len(history'[t]),
               request'[r].topic \in {"all", t}, history'[t][i] > request'[r].from
        PROVE  Told(r, history[t][i])'
    <3>1. r \in subscribers /\ request' = request /\ got' = got /\ missed' = missed
      BY <1>1 DEF session
    <3>2. CASE t = topic /\ history'[t][i] = e
      BY <1>5, <2>6, <3>1, <3>2 DEF Told, todo
    <3>3. ASSUME NEW k \in 1 .. Len(history[t]), history'[t][i] = history[t][k] PROVE Told(r, history[t][i])'
      <4>1. Told(r, history[t][k])
        BY <2>6, <3>1, <3>3 DEF GatewayInv, HubInv
      <4>2. ASSUME NEW q \in Publishers, publisher[q].event = history[t][k], r \in publisher[q].todo
            PROVE  publisher'[q].event = history[t][k] /\ r \in publisher'[q].todo
        BY <1>1, <1>5, <4>2 DEF Resting
      <4> QED BY <3>1, <3>3, <4>1, <4>2 DEF Told
    <3> QED BY <2>4, <3>2, <3>3
  <2> QED BY <2>2, <2>3, <2>5, <2>6 DEF HubInv
<1>10. DropsCounted'
  BY <1>1, MissesGrow DEF e
<1>11. SessionInv'
  BY <1>1 DEF GatewayInv, SessionInv, Running, session
<1> QED BY <1>7, <1>8, <1>9, <1>10, <1>11 DEF GatewayInv

\* A subscriber is told, or refuses and is counted.
LEMMA PublishToInv ==
  ASSUME GatewayInv, NEW p \in Publishers, NEW r \in Requests, PublishTo(p, r)
  PROVE  GatewayInv'
<1> DEFINE e == publisher[p].event
           accept == ~channel[r].closed /\ Len(channel[r].ids) < ChannelSize
           task == [publisher[p] EXCEPT !.todo = @ \ {r}]
           WorkType == [event : Nat, topic : Topics \cup {"none"}, todo : SUBSET Requests]
           ids == Append(channel[r].ids, e)
           line == [channel[r] EXCEPT !.ids = ids]
<1>0. /\ publisher \in [Publishers -> WorkType] /\ got \in [Requests -> SUBSET Nat]
      /\ missed \in [Requests -> SUBSET Nat] /\ nextID \in Nat /\ dropped \in Nat
      /\ channel \in [Requests -> [ids : Seq(Nat), closed : BOOLEAN]] /\ ChannelSize \in Nat
  BY GatewayAssumption DEF GatewayInv, GatewayTypes
<1>1. /\ r \in publisher[p].todo /\ publisher' = [publisher EXCEPT ![p] = task]
      /\ channel' = (IF accept THEN [channel EXCEPT ![r] = line] ELSE channel)
      /\ dropped' = (IF accept THEN dropped ELSE dropped + 1)
      /\ got' = (IF accept THEN [got EXCEPT ![r] = @ \cup {e}] ELSE got)
      /\ missed' = (IF accept THEN missed ELSE [missed EXCEPT ![r] = @ \cup {e}])
      /\ UNCHANGED <<nextID, history, subscribers, session, published, reused>>
  BY DEF PublishTo
<1>2. publisher[p] \in WorkType /\ PublisherOf(p)
  BY <1>0 DEF GatewayInv, HubInv
<1>3. e \in Nat /\ e # 0 /\ e <= nextID /\ e \notin got[r] /\ e \notin missed[r]
  BY <1>1, <1>2 DEF PublisherOf
<1>4. task \in WorkType /\ task.event = e /\ task.todo = publisher[p].todo \ {r}
  BY <1>2
<1>5. /\ accept => line \in [ids : Seq(Nat), closed : BOOLEAN] /\ Len(line.ids) <= ChannelSize
      /\ line.closed = channel[r].closed
  <2>1. channel[r] \in [ids : Seq(Nat), closed : BOOLEAN]
    BY <1>0
  <2>2. ids \in Seq(Nat) /\ Len(ids) = Len(channel[r].ids) + 1 /\ Len(channel[r].ids) \in Nat
    BY <1>3, <2>1, AppendProperties, LenProperties
  <2> HIDE DEF ids
  <2>3. line \in [ids : Seq(Nat), closed : BOOLEAN] /\ line.ids = ids /\ line.closed = channel[r].closed
    BY <2>1, <2>2
  <2> QED BY <1>0, <2>2, <2>3
<1> HIDE DEF e, task, line, ids
<1>6. /\ publisher' \in [Publishers -> WorkType] /\ publisher'[p].event = e
      /\ publisher'[p].todo = publisher[p].todo \ {r}
      /\ \A q \in Publishers \ {p} : publisher'[q] = publisher[q]
      /\ \A q \in Publishers : publisher'[q].event = publisher[q].event
      /\ \A q \in Publishers : publisher'[q].todo \subseteq publisher[q].todo
  <2>1. /\ publisher' \in [Publishers -> WorkType] /\ publisher'[p] = task
        /\ \A q \in Publishers \ {p} : publisher'[q] = publisher[q]
    BY <1>0, <1>1, <1>4
  <2> QED BY <1>4, <2>1 DEF e
<1>7. /\ got' \in [Requests -> SUBSET Nat] /\ missed' \in [Requests -> SUBSET Nat]
      /\ \A q \in Requests \ {r} : got'[q] = got[q] /\ missed'[q] = missed[q]
      /\ \/ accept /\ got'[r] = got[r] \cup {e} /\ missed'[r] = missed[r]
         \/ ~accept /\ got'[r] = got[r] /\ missed'[r] = missed[r] \cup {e}
  BY <1>0, <1>1, <1>3
<1>8. /\ channel' \in [Requests -> [ids : Seq(Nat), closed : BOOLEAN]]
      /\ \A q \in Requests : channel'[q].closed = channel[q].closed /\ Len(channel'[q].ids) <= ChannelSize
  <2>1. \A q \in Requests : Len(channel[q].ids) <= ChannelSize
    BY DEF GatewayInv, GatewayTypes
  <2>2. CASE accept
    <3>1. channel' = [channel EXCEPT ![r] = line]
      BY <1>1, <2>2
    <3>2. \A q \in Requests : channel'[q] = IF q = r THEN line ELSE channel[q]
      BY <1>0, <3>1
    <3> QED BY <1>0, <1>5, <2>1, <2>2, <3>1, <3>2
  <2>3. CASE ~accept
    BY <1>0, <1>1, <2>1, <2>3
  <2> QED BY <2>2, <2>3
<1> HIDE DEF accept
<1>9. GatewayTypes'
  <2>1. dropped' \in Nat
    BY <1>0, <1>1
  <2> QED BY <1>1, <1>6, <1>7, <1>8, <2>1 DEF GatewayInv, GatewayTypes, session
<1>10. ASSUME NEW q \in Requests PROVE StreamOf(q)'
  BY <1>1, <1>8 DEF GatewayInv, StreamOf, Running, session
<1>11. HubInv'
  <2>1. ASSUME NEW q \in Publishers PROVE PublisherOf(q)'
    <3>1. PublisherOf(q) /\ publisher[q].todo \subseteq Requests
      BY <1>0 DEF GatewayInv, HubInv
    <3>2. ASSUME NEW s \in publisher'[q].todo PROVE publisher'[q].event \notin got'[s] \cup missed'[s]
      <4>1. s \in Requests /\ s \in publisher[q].todo /\ publisher[q].event \notin got[s] \cup missed[s]
        BY <1>6, <3>1 DEF PublisherOf
      <4>2. CASE s = r
        <5>1. q # p
          BY <1>6, <4>2
        <5>2. publisher[q].event # e
          BY <1>2, <1>3, <5>1 DEF PublisherOf, e
        <5> QED BY <1>6, <1>7, <4>1, <4>2, <5>2
      <4>3. CASE s # r
        BY <1>6, <1>7, <4>1, <4>3
      <4> QED BY <4>2, <4>3
    <3>3. /\ publisher'[q].event <= nextID'
          /\ publisher'[q].event = 0 => publisher'[q].todo = {}
          /\ \A s \in Publishers : publisher'[s].event = publisher'[q].event /\ publisher'[q].event # 0 => s = q
      BY <1>1, <1>6, <3>1 DEF PublisherOf
    <3> QED BY <3>2, <3>3 DEF PublisherOf
  <2>2. \A q \in Requests : got'[q] \cap missed'[q] = {} /\ got'[q] \cup missed'[q] \subseteq 1 .. nextID'
    <3>1. \A q \in Requests : got[q] \cap missed[q] = {} /\ got[q] \cup missed[q] \subseteq 1 .. nextID
      BY DEF GatewayInv, HubInv
    <3>2. e \in 1 .. nextID /\ nextID' = nextID
      BY <1>0, <1>1, <1>3
    <3> QED BY <1>3, <1>7, <3>1, <3>2
  <2>3. \A t \in Topics : \A i \in 1 .. Len(history'[t]) : history'[t][i] \in 1 .. nextID'
    BY <1>1 DEF GatewayInv, HubInv
  <2>4. ASSUME NEW q \in subscribers', NEW t \in Topics, NEW i \in 1 .. Len(history'[t]),
               request'[q].topic \in {"all", t}, history'[t][i] > request'[q].from
        PROVE  Told(q, history[t][i])'
    <3>1. q \in Requests /\ q \in subscribers /\ request' = request /\ history' = history
      BY <1>1 DEF session, GatewayInv, GatewayTypes
    <3>2. Told(q, history[t][i])
      BY <2>4, <3>1 DEF GatewayInv, HubInv
    <3>3. ASSUME NEW s \in Publishers, publisher[s].event = history[t][i], q \in publisher[s].todo
          PROVE  Told(q, history[t][i])'
      <4>1. CASE s = p /\ q = r
        BY <1>7, <3>1, <3>3, <4>1 DEF Told, e
      <4>2. CASE ~(s = p /\ q = r)
        <5>1. publisher'[s].event = history[t][i] /\ q \in publisher'[s].todo
          BY <1>6, <3>3, <4>2
        <5> QED BY <3>1, <5>1 DEF Told
      <4> QED BY <4>1, <4>2
    <3>4. history[t][i] \in got[q] \/ history[t][i] \in missed[q] => Told(q, history[t][i])'
      BY <1>7, <3>1 DEF Told
    <3> QED BY <3>2, <3>3, <3>4 DEF Told
  <2> QED BY <2>1, <2>2, <2>3, <2>4 DEF HubInv
<1>12. DropsCounted'
  <2>1. CASE accept
    <3>1. Misses' = Misses
      BY <1>1, <2>1 DEF Misses
    <3> QED BY <1>1, <2>1, <3>1 DEF GatewayInv, DropsCounted
  <2>2. CASE ~accept
    <3>1. Misses' = Misses \cup {<<r, e>>}
      <4>1. e \in 1 .. nextID /\ nextID' = nextID
        BY <1>0, <1>1, <1>3
      <4>2. \A q \in Requests : missed'[q] = IF q = r THEN missed[q] \cup {e} ELSE missed[q]
        BY <1>7, <2>2
      <4> DEFINE Pairs == Requests \X (1 .. nextID)
      <4>3. ASSUME NEW q \in Requests, NEW n \in 1 .. nextID
            PROVE  <<q, n>> \in Misses' <=> <<q, n>> \in Misses \cup {<<r, e>>}
        <5>1. <<q, n>> \in Misses' <=> n \in missed'[q]
          BY <4>1 DEF Misses
        <5>2. <<q, n>> \in Misses <=> n \in missed[q]
          BY DEF Misses
        <5>3. <<q, n>> = <<r, e>> <=> q = r /\ n = e
          OBVIOUS
        <5> QED BY <4>2, <5>1, <5>2, <5>3
      <4>4. Misses' \subseteq Pairs /\ Misses \cup {<<r, e>>} \subseteq Pairs
        BY <4>1 DEF Misses
      <4>5. \A m \in Pairs : \E q \in Requests, n \in 1 .. nextID : m = <<q, n>>
        OBVIOUS
      <4> HIDE DEF Pairs
      <4>6. \A m \in Pairs : m \in Misses' <=> m \in Misses \cup {<<r, e>>}
        BY <4>3, <4>5
      <4> QED BY <4>4, <4>6
    <3>2. <<r, e>> \notin Misses
      BY <1>3 DEF Misses
    <3>3. IsFiniteSet(Misses) /\ dropped = Cardinality(Misses)
      BY DEF GatewayInv, DropsCounted
    <3>4. IsFiniteSet(Misses') /\ Cardinality(Misses') = Cardinality(Misses) + 1
      BY <3>1, <3>2, <3>3, FS_AddElement
    <3> QED BY <1>1, <2>2, <3>3, <3>4 DEF DropsCounted
  <2> QED BY <2>1, <2>2
<1>13. SessionInv'
  BY <1>1 DEF GatewayInv, SessionInv, Running, session
<1> QED BY <1>9, <1>10, <1>11, <1>12, <1>13 DEF GatewayInv

LEMMA PublishEndInv ==
  ASSUME GatewayInv, NEW p \in Publishers, PublishEnd(p)
  PROVE  GatewayInv'
<1>1. /\ publisher[p].todo = {} /\ publisher' = [publisher EXCEPT ![p] = Resting]
      /\ UNCHANGED <<nextID, history, subscribers, channel, dropped, session, seen>>
  BY DEF PublishEnd
<1>2. /\ Resting \in [event : Nat, topic : Topics \cup {"none"}, todo : SUBSET Requests]
      /\ Resting.event = 0 /\ Resting.todo = {}
  BY DEF Resting
<1>3. /\ publisher' \in [Publishers -> [event : Nat, topic : Topics \cup {"none"}, todo : SUBSET Requests]]
      /\ publisher'[p] = Resting /\ \A q \in Publishers \ {p} : publisher'[q] = publisher[q]
  BY <1>1, <1>2 DEF GatewayInv, GatewayTypes
<1>4. GatewayTypes'
  BY <1>1, <1>3 DEF GatewayInv, GatewayTypes, session, seen
<1>5. ASSUME NEW q \in Requests PROVE StreamOf(q)'
  BY <1>1 DEF GatewayInv, StreamOf, Running, session
<1>6. HubInv'
  <2>1. ASSUME NEW q \in Publishers PROVE PublisherOf(q)'
    <3>1. nextID \in Nat /\ got' = got /\ missed' = missed /\ nextID' = nextID /\ PublisherOf(q)
      BY <1>1 DEF GatewayInv, GatewayTypes, HubInv, seen
    <3>2. CASE q = p
      BY <1>2, <1>3, <3>1, <3>2 DEF PublisherOf
    <3>3. CASE q # p
      BY <1>2, <1>3, <3>1, <3>3 DEF PublisherOf
    <3> QED BY <3>2, <3>3
  <2>2. ASSUME NEW q \in subscribers', NEW t \in Topics, NEW i \in 1 .. Len(history'[t]),
               request'[q].topic \in {"all", t}, history'[t][i] > request'[q].from
        PROVE  Told(q, history[t][i])'
    <3>1. /\ q \in subscribers /\ request' = request /\ history' = history
          /\ got' = got /\ missed' = missed
      BY <1>1 DEF session, seen
    <3>2. Told(q, history[t][i])
      BY <2>2, <3>1 DEF GatewayInv, HubInv
    <3>3. ASSUME NEW s \in Publishers, publisher[s].event = history[t][i], q \in publisher[s].todo
          PROVE  publisher'[s].event = history[t][i] /\ q \in publisher'[s].todo
      BY <1>1, <1>3, <3>3
    <3> QED BY <3>1, <3>2, <3>3 DEF Told
  <2>3. /\ \A q \in Requests : got'[q] \cap missed'[q] = {} /\ got'[q] \cup missed'[q] \subseteq 1 .. nextID'
        /\ \A t \in Topics : \A i \in 1 .. Len(history'[t]) : history'[t][i] \in 1 .. nextID'
    BY <1>1 DEF GatewayInv, HubInv, seen
  <2> QED BY <2>1, <2>2, <2>3 DEF HubInv
<1>7. DropsCounted'
  BY <1>1 DEF GatewayInv, DropsCounted, Misses, seen
<1>8. SessionInv'
  BY <1>1 DEF GatewayInv, SessionInv, Running, session, seen
<1> QED BY <1>4, <1>5, <1>6, <1>7, <1>8 DEF GatewayInv

LEMMA GatewayNextInv == GatewayInv /\ [GatewayNext]_gatewayVars => GatewayInv'
<1> SUFFICES ASSUME GatewayInv, [GatewayNext]_gatewayVars PROVE GatewayInv'
  OBVIOUS
<1>1. ASSUME NEW p \in Publishers,
             \/ \E topic \in Topics : PublishBegin(p, topic)
             \/ \E r \in Requests : PublishTo(p, r)
             \/ PublishEnd(p)
      PROVE  GatewayInv'
  BY <1>1, PublishBeginInv, PublishToInv, PublishEndInv
<1>2. ASSUME NEW i \in RequestIds, NEW r \in Requests, NEW subscribe \in BOOLEAN,
             \/ StartDispatch(r, i, "single", "none", subscribe)
             \/ \E topic \in Watched : StartDispatch(r, i, "snapshot", topic, subscribe)
      PROVE  GatewayInv'
  BY <1>2, StartDispatchInv
<1>3. ASSUME NEW i \in RequestIds, CancelFrame(i) \/ UnsubscribeFrame(i) PROVE GatewayInv'
  BY <1>3, SessionStepInv
<1>4. CASE Disconnect \/ SessionClose
  BY <1>4, SessionStepInv
<1>5. ASSUME NEW r \in Requests, Goroutine(r) PROVE GatewayInv'
  <2>1. CASE RequestTimeout(r)
    BY <2>1, SessionStepInv
  <2>2. CASE StreamSubscribe(r)
    BY <2>2, StreamSubscribeInv
  <2>3. CASE RequestUnbind(r) \/ RequestFinish(r)
    BY <2>3, DeferredInv
  <2>4. CASE SingleAnswer(r) \/ StreamSnapshot(r) \/ StreamFirst(r) \/ StreamDone(r) \/ StreamDelta(r)
               \/ StreamLeave(r) \/ StreamClose(r)
    BY <2>4, StageStepInv
  <2> QED BY <1>5, <2>1, <2>2, <2>3, <2>4 DEF Goroutine
<1>6. CASE UNCHANGED gatewayVars
  <2>1. UNCHANGED <<hub, request, cancels, bindings, connection, seen>>
    BY <1>6 DEF gatewayVars, session
  <2>2. GatewayTypes' /\ \A r \in Requests : StreamOf(r)'
    BY <2>1 DEF GatewayInv, GatewayTypes, StreamOf, Running, hub, seen
  <2>3. HubInv' /\ DropsCounted'
    BY <2>1, HubFrame DEF hub, seen
  <2>4. SessionInv'
    BY <2>1 DEF GatewayInv, SessionInv, Running, seen
  <2> QED BY <2>2, <2>3, <2>4 DEF GatewayInv
<1> QED BY <1>1, <1>2, <1>3, <1>4, <1>5, <1>6 DEF GatewayNext

(***************************************************************************)
(* Every event of the hub reaches a stream's channel or is counted as      *)
(* dropped, every request is cancellable while ids are not reused, and no  *)
(* stream outlives its client, for any clients and publishers              *)
(* (Hub.Publish, Session, the stream goroutine).                           *)
(***************************************************************************)
THEOREM StreamsSoundCorrect == GatewaySpec => []StreamsSound
<1>1. GatewayInit => GatewayInv
  BY InitGatewayInv
<1>2. GatewayInv /\ [GatewayNext]_gatewayVars => GatewayInv'
  BY GatewayNextInv
<1>3. GatewayInv => StreamsSound
  BY GatewayInvImplies
<1> QED BY <1>1, <1>2, <1>3, PTL DEF GatewaySpec

(***************************************************************************)
(* No publisher sends on a channel its stream has closed: the closed flag  *)
(* subscriber.publish tests under the subscriber's lock is never reset,    *)
(* and a closed channel only empties.                                      *)
(***************************************************************************)
THEOREM NoSendOnClosedCorrect == GatewaySpec => NoSendOnClosed
<1> DEFINE Kept(r) == channel[r].closed =>
                        channel'[r].closed /\ Len(channel'[r].ids) <= Len(channel[r].ids)
<1>1. ASSUME GatewayInv, [GatewayNext]_gatewayVars, NEW r \in Requests PROVE Kept(r)
  <2>0. /\ channel \in [Requests -> [ids : Seq(Nat), closed : BOOLEAN]]
        /\ Len(channel[r].ids) \in Nat
    BY <1>1, LenProperties DEF GatewayInv, GatewayTypes
  <2>1. CASE channel' = channel
    BY <2>0, <2>1
  <2>2. CASE \E p \in Publishers, q \in Requests : PublishTo(p, q)
    <3>1. PICK p \in Publishers, q \in Requests : PublishTo(p, q)
      BY <2>2
    <3>2. CASE q # r
      <4>1. channel'[r] = channel[r]
        BY <2>0, <3>1, <3>2 DEF PublishTo
      <4> QED BY <2>0, <4>1
    <3>3. CASE q = r
      <4>1. channel[r].closed => channel' = channel
        BY <3>1, <3>3 DEF PublishTo
      <4> QED BY <2>0, <4>1
    <3> QED BY <3>2, <3>3
  <2>3. CASE \E q \in Requests : StreamDelta(q)
    <3>1. PICK q \in Requests : StreamDelta(q)
      BY <2>3
    <3>2. /\ channel[q].ids # <<>> /\ channel[q] \in [ids : Seq(Nat), closed : BOOLEAN]
          /\ channel' = [channel EXCEPT ![q] = [channel[q] EXCEPT !.ids = Tail(channel[q].ids)]]
      BY <2>0, <3>1 DEF StreamDelta
    <3>3. CASE q # r
      <4>1. channel'[r] = channel[r]
        BY <2>0, <3>2, <3>3
      <4> QED BY <2>0, <4>1
    <3>4. CASE q = r
      <4>1. Len(Tail(channel[r].ids)) = Len(channel[r].ids) - 1
        BY <3>2, <3>4, HeadTailProperties
      <4>2. channel'[r].ids = Tail(channel[r].ids) /\ channel'[r].closed = channel[r].closed
        BY <2>0, <3>2, <3>4
      <4> QED BY <2>0, <4>1, <4>2
    <3> QED BY <3>3, <3>4
  <2>4. CASE \E q \in Requests : StreamClose(q)
    <3>1. PICK q \in Requests : channel' = [channel EXCEPT ![q].closed = TRUE]
      BY <2>4 DEF StreamClose
    <3>2. channel'[r].ids = channel[r].ids /\ (channel[r].closed => channel'[r].closed)
      BY <2>0, <3>1
    <3> QED BY <2>0, <3>2
  <2>5. \/ channel' = channel
        \/ \E p \in Publishers, q \in Requests : PublishTo(p, q)
        \/ \E q \in Requests : StreamDelta(q) \/ StreamClose(q)
    BY <1>1, ZenonT(60) DEF GatewayNext, PublishBegin, PublishEnd, StartDispatch, CancelFrame, UnsubscribeFrame,
                Disconnect, SessionClose, Goroutine, RequestTimeout, SingleAnswer, StreamSnapshot,
                StreamSubscribe, StreamFirst, StreamDone, StreamLeave, RequestUnbind, RequestFinish,
                hub, gatewayVars
  <2> QED BY <2>1, <2>2, <2>3, <2>4, <2>5
<1>2. GatewayInv /\ [GatewayNext]_gatewayVars => [\A r \in Requests : Kept(r)]_gatewayVars
  BY <1>1
<1>3. GatewayInit => GatewayInv
  BY InitGatewayInv
<1>4. GatewayInv /\ [GatewayNext]_gatewayVars => GatewayInv'
  BY GatewayNextInv
<1> QED BY <1>2, <1>3, <1>4, PTL DEF GatewaySpec, NoSendOnClosed

-----------------------------------------------------------------------------
(* The frame layer.                                                        *)

PartType == [frame : Nat, end : Nat]

\* Parts put together from the frames of a: in their order, the first of kind
\* kind, none but the last final, and that one if fin; each ends where its
\* payload does.
Joined(parts, a, kind, fin) ==
  /\ \A i \in 1 .. Len(parts) :
       LET f == a[parts[i].frame] IN
       /\ parts[i].frame \in 1 .. Len(a)
       /\ f.opcode = IF i = 1 THEN kind ELSE "continuation"
       /\ f.fin = (fin /\ i = Len(parts))
       /\ parts[i].end = (IF i = 1 THEN 0 ELSE parts[i - 1].end) + f.size
  /\ \A i, j \in 1 .. Len(parts) : i < j => parts[i].frame < parts[j].frame

\* No data frame from the first of parts to the frame upto is left out.
Covers(parts, a, upto) ==
  \A j \in parts[1].frame .. upto :
    a[j].opcode \notin Control => \E i \in 1 .. Len(parts) : parts[i].frame = j

LastOf(parts) == parts[Len(parts)]

MessageInv ==
  /\ message \in Seq(PartType) /\ Joined(message, arrived, opcode, FALSE)
  /\ message = <<>> <=> opcode = "none"
  /\ size = IF message = <<>> THEN 0 ELSE LastOf(message).end
  /\ message # <<>> /\ reading # "ended" => Covers(message, arrived, Len(arrived))

DeliveredOf(parts) ==
  /\ parts \in Seq(PartType) /\ parts # <<>> /\ Joined(parts, arrived, "text", TRUE)
  /\ LastOf(parts).end <= MaxMessage /\ Covers(parts, arrived, LastOf(parts).frame)

DeliveredInv ==
  /\ delivered \in Seq(Seq(PartType))
  /\ \A k \in 1 .. Len(delivered) : DeliveredOf(delivered[k])
  /\ \A k \in 1 .. Len(delivered) : k > 1 => LastOf(delivered[k - 1]).frame < delivered[k][1].frame
  /\ message # <<>> /\ delivered # <<>> => LastOf(LastOf(delivered)).frame < message[1].frame

\* Who writes has the lock, and a header that is last on the wire is of a
\* goroutine that is about to write its payload.
WireInv ==
  /\ \A w \in Writers : writer[w] # "idle" => lock = w
  /\ wire \in Seq(Writers \X {"whole", "header", "payload", "broken"})
  /\ FramesUnmixed
  /\ wire # <<>> /\ LastOf(wire)[2] = "header" => writer[LastOf(wire)[1]] = "payload"

FramesInv ==
  /\ arrived \in Seq(Frames) /\ Len(arrived) <= MaxFrames
  /\ opcode \in {"none", "text", "binary"} /\ size \in 0 .. MaxMessage
  /\ reading \in {"frame", "pong", "closing", "ended"} /\ lock \in Writers \cup {"free"}
  /\ writer \in [Writers -> {"idle", "header", "payload"}] /\ sent \in [Writers -> 0 .. MaxSent]
  /\ MessageInv /\ DeliveredInv /\ WireInv

LEMMA FramesInvImplies == FramesInv => FramesSound
<1> SUFFICES ASSUME FramesInv PROVE FramesSound
  OBVIOUS
<1>1. FramesTypeOK
  BY DEF FramesInv, FramesTypeOK
<1>2. ASSUME NEW k \in DOMAIN delivered
      PROVE  LET parts == delivered[k]
                 first == parts[1].frame
                 last  == parts[Len(parts)]
             IN  /\ {parts[i].frame : i \in DOMAIN parts} = {i \in first..last.frame : Data(i)}
                 /\ \A i \in DOMAIN parts :
                      LET f     == arrived[parts[i].frame]
                          start == IF i = 1 THEN 0 ELSE parts[i - 1].end
                      IN  /\ i > 1 => parts[i - 1].frame < parts[i].frame
                          /\ f.opcode = IF i = 1 THEN "text" ELSE "continuation"
                          /\ f.fin = (i = Len(parts))
                          /\ parts[i].end = start + f.size
                 /\ last.end <= MaxMessage
                 /\ k > 1 => delivered[k - 1][Len(delivered[k - 1])].frame < first
  <2> DEFINE parts == delivered[k]
             n == Len(parts)
  <2>1. k \in 1 .. Len(delivered) /\ DeliveredOf(parts)
    BY LenProperties DEF FramesInv, DeliveredInv
  <2>2. /\ parts \in Seq(PartType) /\ n \in Nat /\ n >= 1 /\ DOMAIN parts = 1 .. n
        /\ \A i \in 1 .. n : parts[i] \in PartType /\ parts[i].frame \in Nat
    <3>1. parts \in Seq(PartType) /\ parts # <<>>
      BY <2>1 DEF DeliveredOf
    <3>2. n \in Nat /\ n # 0 /\ DOMAIN parts = 1 .. n /\ \A i \in 1 .. n : parts[i] \in PartType
      BY <3>1, LenProperties, EmptySeq
    <3> QED BY <3>1, <3>2 DEF PartType
  <2>3. k > 1 => LastOf(delivered[k - 1]).frame < parts[1].frame
    BY <2>1 DEF FramesInv, DeliveredInv
  <2> HIDE DEF parts, n
  <2>4. /\ Joined(parts, arrived, "text", TRUE) /\ parts[n].end <= MaxMessage
        /\ Covers(parts, arrived, parts[n].frame)
    BY <2>1 DEF DeliveredOf, LastOf, n
  <2>5. ASSUME NEW i \in 1 .. n PROVE parts[i].frame \in parts[1].frame .. parts[n].frame /\ Data(parts[i].frame)
    <3>1. \A a, b \in 1 .. n : a < b => parts[a].frame < parts[b].frame
      BY <2>4 DEF Joined, n
    <3>2. 1 \in 1 .. n /\ n \in 1 .. n
      BY <2>2
    <3>3. parts[1].frame <= parts[i].frame
      <4>1. CASE i = 1
        BY <2>2, <3>2, <4>1
      <4>2. CASE i # 1
        <5>1. parts[1].frame < parts[i].frame
          BY <3>1, <3>2, <4>2
        <5> QED BY <2>2, <3>2, <5>1
      <4> QED BY <4>1, <4>2
    <3>4. parts[i].frame <= parts[n].frame
      <4>1. CASE i = n
        BY <2>2, <3>2, <4>1
      <4>2. CASE i # n
        <5>1. parts[i].frame < parts[n].frame
          BY <2>2, <3>1, <3>2, <4>2
        <5> QED BY <2>2, <3>2, <5>1
      <4> QED BY <4>1, <4>2
    <3>5. Data(parts[i].frame)
      BY <2>4 DEF Joined, Data, Control, n
    <3> QED BY <2>2, <3>2, <3>3, <3>4, <3>5
  <2>6. {parts[i].frame : i \in DOMAIN parts} = {i \in parts[1].frame .. parts[n].frame : Data(i)}
    BY <2>2, <2>4, <2>5 DEF Covers, Data, n
  <2>7. ASSUME NEW i \in 1 .. n
        PROVE  /\ i > 1 => parts[i - 1].frame < parts[i].frame
               /\ arrived[parts[i].frame].opcode = IF i = 1 THEN "text" ELSE "continuation"
               /\ arrived[parts[i].frame].fin = (i = n)
               /\ parts[i].end = (IF i = 1 THEN 0 ELSE parts[i - 1].end) + arrived[parts[i].frame].size
    <3>1. i > 1 => i - 1 \in 1 .. n /\ i - 1 < i
      <4>1. n \in Nat /\ i \in 1 .. n
        BY <2>2
      <4> QED BY <4>1
    <3> QED BY <2>4, <3>1 DEF Joined, n
  <2> QED BY <2>2, <2>3, <2>4, <2>6, <2>7 DEF LastOf, parts, n
<1>3. MessageIsItsFrames
  BY <1>2 DEF MessageIsItsFrames
<1> QED BY <1>1, <1>3 DEF FramesSound, FramesInv, WireInv

LEMMA InitFramesInv == FramesInit => FramesInv
<1> SUFFICES ASSUME FramesInit PROVE FramesInv
  OBVIOUS
<1>1. MessageInv
  BY DEF FramesInit, MessageInv, Joined
<1>2. DeliveredInv
  BY DEF FramesInit, DeliveredInv
<1>3. WireInv
  BY DEF FramesInit, WireInv, FramesUnmixed
<1> QED BY <1>1, <1>2, <1>3, FramesAssumption DEF FramesInit, FramesInv

\* One more frame changes nothing for the parts that were put together before.
LEMMA LaterFrame ==
  ASSUME NEW a \in Seq(Frames), NEW f \in Frames, NEW parts \in Seq(PartType), NEW kind,
         NEW fin \in BOOLEAN, Joined(parts, a, kind, fin)
  PROVE  /\ Joined(parts, Append(a, f), kind, fin)
         /\ parts # <<>> => /\ LastOf(parts).frame \in 1 .. Len(a) /\ parts[1].frame \in 1 .. Len(a)
                            /\ \A n \in 1 .. Len(a) : Covers(parts, a, n) => Covers(parts, Append(a, f), n)
                            /\ f.opcode \in Control /\ Covers(parts, a, Len(a))
                                 => Covers(parts, Append(a, f), Len(a) + 1)
<1> DEFINE b == Append(a, f)
<1>1. /\ b \in Seq(Frames) /\ Len(b) = Len(a) + 1 /\ b[Len(a) + 1] = f /\ Len(a) \in Nat
      /\ \A i \in 1 .. Len(a) : b[i] = a[i] /\ i \in 1 .. Len(b)
  BY AppendProperties, LenProperties
<1> HIDE DEF b
<1>2. Joined(parts, b, kind, fin)
  BY <1>1 DEF Joined
<1>3. ASSUME parts # <<>>
      PROVE  /\ LastOf(parts).frame \in 1 .. Len(a) /\ parts[1].frame \in 1 .. Len(a)
             /\ \A n \in 1 .. Len(a) : Covers(parts, a, n) => Covers(parts, b, n)
             /\ f.opcode \in Control /\ Covers(parts, a, Len(a)) => Covers(parts, b, Len(a) + 1)
  <2>1. 1 \in 1 .. Len(parts) /\ Len(parts) \in 1 .. Len(parts)
    <3>1. Len(parts) \in Nat /\ Len(parts) # 0
      BY <1>3, LenProperties, EmptySeq
    <3> QED BY <3>1
  <2>2. LastOf(parts).frame \in 1 .. Len(a) /\ parts[1].frame \in 1 .. Len(a)
    BY <2>1 DEF Joined, LastOf
  <2>3. ASSUME NEW n \in 1 .. Len(a), Covers(parts, a, n) PROVE Covers(parts, b, n)
    <3>1. \A j \in parts[1].frame .. n : j \in 1 .. Len(a)
      BY <1>1, <2>2
    <3> QED BY <1>1, <2>3, <3>1 DEF Covers
  <2>4. ASSUME f.opcode \in Control, Covers(parts, a, Len(a)) PROVE Covers(parts, b, Len(a) + 1)
    <3>1. \A j \in parts[1].frame .. (Len(a) + 1) :
            j = Len(a) + 1 \/ (j \in 1 .. Len(a) /\ j \in parts[1].frame .. Len(a))
      BY <1>1, <2>2
    <3> QED BY <1>1, <2>4, <3>1 DEF Covers
  <2> QED BY <2>2, <2>3, <2>4
<1> QED BY <1>2, <1>3 DEF b

\* Parts of a message of len bytes and the piece the next frame f adds to them.
Continued(parts, a, kind, len, f, piece) ==
  /\ a \in Seq(Frames) /\ f \in Frames /\ parts \in Seq(PartType) /\ len \in Nat
  /\ Joined(parts, a, kind, FALSE)
  /\ parts = <<>> => len = 0 /\ f.opcode = kind
  /\ parts # <<>> => /\ len = LastOf(parts).end /\ f.opcode = "continuation"
                     /\ Covers(parts, a, Len(a))
  /\ piece \in PartType /\ piece.frame = Len(a) + 1 /\ piece.end = len + f.size

\* A data frame joins the parts of its message.
LEMMA JoinPart ==
  ASSUME NEW parts, NEW a, NEW kind, NEW len, NEW f, NEW piece,
         Continued(parts, a, kind, len, f, piece)
  PROVE  LET new == Append(parts, piece)
             b == Append(a, f)
         IN  /\ new \in Seq(PartType) /\ new # <<>> /\ Joined(new, b, kind, f.fin)
             /\ Covers(new, b, Len(a) + 1) /\ LastOf(new) = piece
             /\ parts = <<>> => new[1].frame = Len(a) + 1
             /\ parts # <<>> => new[1].frame = parts[1].frame
<1> PICK b : b = Append(a, f)
  OBVIOUS
<1> PICK new : new = Append(parts, piece)
  OBVIOUS
<1> PICK n : n = Len(a) + 1
  OBVIOUS
<1> a \in Seq(Frames) /\ f \in Frames /\ parts \in Seq(PartType) /\ len \in Nat
  BY DEF Continued
<1>a. /\ Joined(parts, a, kind, FALSE)
      /\ parts = <<>> => len = 0 /\ f.opcode = kind
      /\ parts # <<>> => len = LastOf(parts).end /\ f.opcode = "continuation" /\ Covers(parts, a, Len(a))
  BY DEF Continued
<1> DEFINE m == Len(parts)
<1>1. /\ b \in Seq(Frames) /\ Len(b) = n /\ b[n] = f /\ Len(a) \in Nat /\ n \in Nat /\ n \in 1 .. n
      /\ \A i \in 1 .. Len(a) : b[i] = a[i] /\ i \in 1 .. Len(b) /\ i < n
  <2>1. Len(a) \in Nat
    BY LenProperties
  <2>2. b \in Seq(Frames) /\ Len(b) = n /\ b[n] = f /\ \A i \in 1 .. Len(a) : b[i] = a[i]
    BY AppendProperties
  <2> QED BY <2>1, <2>2
<1>2. f.size \in Nat /\ f.fin \in BOOLEAN
  BY FramesAssumption DEF Frames
<1>3. piece \in PartType /\ piece.frame = n /\ piece.end = len + f.size
  BY DEF Continued
<1>4. /\ new \in Seq(PartType) /\ Len(new) = m + 1 /\ new[m + 1] = piece /\ m \in Nat
      /\ \A i \in 1 .. m : new[i] = parts[i]
  BY <1>3, AppendProperties, LenProperties
<1>5. (parts = <<>> <=> m = 0) /\ new # <<>>
  <2>1. parts = <<>> <=> m = 0
    BY EmptySeq
  <2>2. Len(new) # 0
    BY <1>4
  <2> QED BY <2>1, <2>2, <1>4, EmptySeq
<1> HIDE DEF m
<1>6. /\ \A i \in 1 .. m : LET g == a[parts[i].frame] IN
           /\ parts[i].frame \in 1 .. Len(a)
           /\ g.opcode = IF i = 1 THEN kind ELSE "continuation"
           /\ ~g.fin
           /\ parts[i].end = (IF i = 1 THEN 0 ELSE parts[i - 1].end) + g.size
      /\ \A i, j \in 1 .. m : i < j => parts[i].frame < parts[j].frame
  <2>1. \A g \in Frames : g.fin \in BOOLEAN
    BY DEF Frames
  <2>2. \A i \in 1 .. Len(a) : a[i] \in Frames
    BY LenProperties
  <2> QED BY <1>a, <2>1, <2>2 DEF Joined, m
<1>7. ASSUME NEW i \in 1 .. (m + 1)
      PROVE  LET g == b[new[i].frame] IN
             /\ new[i].frame \in 1 .. Len(b)
             /\ g.opcode = IF i = 1 THEN kind ELSE "continuation"
             /\ g.fin = (f.fin /\ i = m + 1)
             /\ new[i].end = (IF i = 1 THEN 0 ELSE new[i - 1].end) + g.size
  <2>1. CASE i \in 1 .. m
    <3>1. new[i] = parts[i] /\ i # m + 1 /\ (i # 1 => i - 1 \in 1 .. m)
      BY <1>4, <2>1
    <3>2. i # 1 => new[i - 1] = parts[i - 1]
      BY <1>4, <3>1
    <3>3. parts[i].frame \in 1 .. Len(a) /\ b[parts[i].frame] = a[parts[i].frame]
      BY <1>1, <1>6, <2>1
    <3>4. b[new[i].frame].fin = (f.fin /\ i = m + 1)
      <4>1. \A k \in 1 .. Len(a) : a[k] \in Frames
        BY LenProperties
      <4>2. a[parts[i].frame] \in Frames /\ ~a[parts[i].frame].fin
        BY <1>6, <2>1, <3>3, <4>1
      <4>3. a[parts[i].frame].fin \in BOOLEAN
        BY <4>2 DEF Frames
      <4> QED BY <3>1, <3>3, <4>2, <4>3
    <3> DEFINE g == a[parts[i].frame]
    <3>5. /\ g.opcode = IF i = 1 THEN kind ELSE "continuation"
          /\ parts[i].end = (IF i = 1 THEN 0 ELSE parts[i - 1].end) + g.size
      BY <1>6, <2>1
    <3>6. b[new[i].frame] = g /\ new[i].frame \in 1 .. Len(b)
      BY <1>1, <3>1, <3>3
    <3> HIDE DEF g
    <3>7. new[i].end = (IF i = 1 THEN 0 ELSE new[i - 1].end) + g.size
      BY <3>1, <3>2, <3>5
    <3> QED BY <3>4, <3>5, <3>6, <3>7
  <2>2. CASE i = m + 1
    <3>1. new[i] = piece /\ b[new[i].frame] = f /\ new[i].frame \in 1 .. Len(b)
      BY <1>1, <1>3, <1>4, <2>2
    <3>2. i = 1 <=> parts = <<>>
      BY <1>4, <1>5, <2>2
    <3>3. i # 1 => len = new[i - 1].end
      <4>1. i # 1 => new[i - 1] = parts[m] /\ len = parts[m].end
        BY <1>a, <1>4, <2>2, <3>2 DEF LastOf, m
      <4> QED BY <4>1
    <3>4. (i = 1 => len = 0 /\ f.opcode = kind) /\ (i # 1 => f.opcode = "continuation")
      BY <1>a, <3>2
    <3> QED BY <1>2, <1>3, <2>2, <3>1, <3>2, <3>3, <3>4
  <2>3. i \in 1 .. m \/ i = m + 1
    BY <1>4
  <2> QED BY <2>1, <2>2, <2>3
<1>8. ASSUME NEW i \in 1 .. (m + 1), NEW j \in 1 .. (m + 1), i < j PROVE new[i].frame < new[j].frame
  <2>1. i \in 1 .. m /\ (j \in 1 .. m \/ j = m + 1)
    BY <1>4, <1>8
  <2>2. CASE j \in 1 .. m
    BY <1>4, <1>6, <1>8, <2>1, <2>2
  <2>3. CASE j = m + 1
    <3>1. new[i].frame \in 1 .. Len(a) /\ new[j].frame = n
      BY <1>3, <1>4, <1>6, <2>1, <2>3
    <3> QED BY <1>1, <3>1
  <2> QED BY <2>1, <2>2, <2>3
<1>9. Joined(new, b, kind, f.fin)
  BY <1>4, <1>7, <1>8, SMTT(40) DEF Joined
<1>10. new[1].frame = IF parts = <<>> THEN n ELSE parts[1].frame
  BY <1>3, <1>4, <1>5
<1>11. Covers(new, b, n)
  <2> SUFFICES ASSUME NEW j \in new[1].frame .. n, b[j].opcode \notin Control
               PROVE  \E i \in 1 .. Len(new) : new[i].frame = j
    BY DEF Covers
  <2>1. CASE j = n
    BY <1>3, <1>4, <2>1
  <2>2. CASE j # n
    <3>1. parts # <<>> /\ j \in parts[1].frame .. Len(a) /\ b[j] = a[j]
      <4>1. parts # <<>>
        BY <1>1, <1>10, <2>2
      <4>2. new[1].frame = parts[1].frame /\ parts[1].frame \in 1 .. Len(a)
        BY <1>4, <1>5, <1>6, <1>10, <4>1
      <4>4. j \in parts[1].frame .. Len(a) /\ j \in 1 .. Len(a)
        BY <1>1, <2>2, <4>2
      <4> QED BY <1>1, <4>1, <4>4
    <3>2. PICK i \in 1 .. m : parts[i].frame = j
      BY <1>a, <3>1 DEF Covers, m
    <3> QED BY <1>4, <3>2
  <2> QED BY <2>1, <2>2
<1>12. LastOf(new) = piece
  BY <1>4 DEF LastOf
<1> QED BY <1>3, <1>4, <1>5, <1>9, <1>10, <1>11, <1>12

LEMMA DeliveredKept ==
  ASSUME FramesInv, NEW f \in Frames, arrived' = Append(arrived, f), NEW parts, DeliveredOf(parts)
  PROVE  DeliveredOf(parts)' /\ LastOf(parts).frame \in 1 .. Len(arrived)
<1>1. /\ arrived \in Seq(Frames) /\ parts \in Seq(PartType) /\ parts # <<>>
      /\ Joined(parts, arrived, "text", TRUE) /\ LastOf(parts).end <= MaxMessage
      /\ Covers(parts, arrived, LastOf(parts).frame)
  BY DEF FramesInv, DeliveredOf
<1>2. /\ Joined(parts, Append(arrived, f), "text", TRUE) /\ LastOf(parts).frame \in 1 .. Len(arrived)
      /\ \A n \in 1 .. Len(arrived) : Covers(parts, arrived, n) => Covers(parts, Append(arrived, f), n)
  BY <1>1, LaterFrame
<1> QED BY <1>1, <1>2 DEF DeliveredOf

LEMMA ReadFrameInv ==
  ASSUME FramesInv, NEW f \in Frames, ReadFrame(f)
  PROVE  FramesInv'
<1> DEFINE n == Len(arrived) + 1
           parts == Append(message, [frame |-> n, end |-> size + f.size])
           kind == IF StartsAnew(f) THEN f.opcode ELSE opcode
           data == Acceptable(f) /\ (StartsAnew(f) \/ ContinuesOne(f)) /\ size + f.size <= MaxMessage
<1>1. /\ reading = "frame" /\ n <= MaxFrames /\ arrived' = Append(arrived, f)
      /\ UNCHANGED <<writer, lock, wire, sent>>
  BY DEF ReadFrame
<1>2. /\ arrived \in Seq(Frames) /\ message \in Seq(PartType) /\ size \in Nat /\ size <= MaxMessage
      /\ Len(arrived) \in Nat /\ MaxMessage \in Nat /\ f.size \in Nat
  <2>1. f.size \in Nat /\ MaxMessage \in Nat
    BY FramesAssumption DEF Frames
  <2>2. arrived \in Seq(Frames) /\ message \in Seq(PartType) /\ size \in 0 .. MaxMessage
    BY DEF FramesInv, MessageInv
  <2>3. Len(arrived) \in Nat
    BY <2>2, LenProperties
  <2> QED BY <2>1, <2>2, <2>3
<1>3. arrived' \in Seq(Frames) /\ Len(arrived') = n /\ Len(arrived') <= MaxFrames
  BY <1>1, <1>2, AppendProperties
<1>4. WireInv'
  BY <1>1 DEF FramesInv, WireInv, FramesUnmixed
<1>5. \/ /\ Acceptable(f) /\ f.opcode \in {"ping", "pong", "close"}
         /\ reading' \in {"pong", "closing", "frame"} /\ UNCHANGED <<opcode, message, size, delivered>>
      \/ /\ data /\ ~f.fin /\ opcode' = kind /\ message' = parts /\ size' = size + f.size
         /\ UNCHANGED <<delivered, reading>>
      \/ /\ data /\ f.fin /\ kind = "text" /\ delivered' = Append(delivered, parts)
         /\ opcode' = "none" /\ message' = <<>> /\ size' = 0 /\ UNCHANGED reading
      \/ reading' = "ended" /\ UNCHANGED <<opcode, message, size, delivered>>
  BY DEF ReadFrame
<1>6. /\ Joined(message, arrived, opcode, FALSE) /\ (message = <<>> <=> opcode = "none")
      /\ size = (IF message = <<>> THEN 0 ELSE LastOf(message).end)
      /\ message # <<>> => Covers(message, arrived, Len(arrived))
  BY <1>1 DEF FramesInv, MessageInv
<1>7. /\ Joined(message, arrived', opcode, FALSE)
      /\ message # <<>> => /\ message[1].frame \in 1 .. Len(arrived)
                           /\ f.opcode \in Control => Covers(message, arrived', n)
  BY <1>1, <1>2, <1>6, LaterFrame
<1>8. CASE UNCHANGED <<opcode, message, size, delivered>> /\ reading' \in {"pong", "closing", "frame", "ended"}
           /\ (reading' = "ended" \/ f.opcode \in Control)
  <2>1. MessageInv'
    BY <1>3, <1>6, <1>7, <1>2, <1>8 DEF MessageInv
  <2>2. DeliveredInv'
    <3>1. ASSUME NEW k \in 1 .. Len(delivered) PROVE DeliveredOf(delivered[k])'
      <4>1. DeliveredOf(delivered[k])
        BY DEF FramesInv, DeliveredInv
      <4> QED BY <1>1, <1>8, <4>1, DeliveredKept
    <3> QED BY <1>8, <3>1 DEF FramesInv, DeliveredInv
  <2> QED BY <1>1, <1>3, <1>4, <1>8, <2>1, <2>2 DEF FramesInv
<1>9. ASSUME data
      PROVE  /\ parts \in Seq(PartType) /\ parts # <<>> /\ Joined(parts, arrived', kind, f.fin)
             /\ Covers(parts, arrived', n) /\ LastOf(parts).end = size + f.size /\ LastOf(parts).frame = n
             /\ parts[1].frame = (IF message = <<>> THEN n ELSE message[1].frame)
             /\ kind \in {"text", "binary"} /\ size + f.size \in 0 .. MaxMessage
  <2>1. /\ f.opcode = IF message = <<>> THEN kind ELSE "continuation"
        /\ message # <<>> => kind = opcode
        /\ kind \in {"text", "binary"}
    BY <1>6, <1>9 DEF StartsAnew, ContinuesOne, FramesInv
  <2>2. Joined(message, arrived, kind, FALSE)
    <3>1. CASE message = <<>>
      BY <3>1 DEF Joined
    <3> QED BY <1>6, <2>1, <3>1
  <2>3. size + f.size \in 0 .. MaxMessage
    BY <1>2, <1>9
  <2> HIDE DEF kind
  <2>4. /\ parts \in Seq(PartType) /\ parts # <<>> /\ Joined(parts, Append(arrived, f), kind, f.fin)
        /\ Covers(parts, Append(arrived, f), n) /\ LastOf(parts).end = size + f.size
        /\ LastOf(parts).frame = n
        /\ parts[1].frame = (IF message = <<>> THEN n ELSE message[1].frame)
    <3>1. /\ message = <<>> => size = 0 /\ f.opcode = kind
          /\ message # <<>> => /\ size = LastOf(message).end /\ f.opcode = "continuation"
                               /\ Covers(message, arrived, Len(arrived))
      BY <1>6, <2>1
    <3>2. arrived \in Seq(Frames) /\ message \in Seq(PartType) /\ size \in Nat
      BY <1>2
    <3> DEFINE piece == [frame |-> n, end |-> size + f.size]
    <3>3. piece \in PartType /\ piece.frame = n /\ piece.end = size + f.size
      BY <1>2 DEF PartType
    <3>4. parts = Append(message, piece)
      OBVIOUS
    <3> HIDE DEF parts, piece
    <3>5. Continued(message, arrived, kind, size, f, piece)
      BY <2>2, <3>1, <3>2, <3>3 DEF Continued
    <3> QED BY <3>3, <3>4, <3>5, JoinPart
  <2> QED BY <1>1, <2>1, <2>3, <2>4
<1> HIDE DEF parts, kind
<1>10. ASSUME NEW k \in 1 .. Len(delivered)
       PROVE  /\ delivered[k] \in Seq(PartType) /\ DeliveredOf(delivered[k])
              /\ LastOf(delivered[k]).frame \in 1 .. Len(arrived)
              /\ Joined(delivered[k], arrived', "text", TRUE)
              /\ LastOf(delivered[k]).end <= MaxMessage
              /\ Covers(delivered[k], arrived', LastOf(delivered[k]).frame) /\ delivered[k] # <<>>
  <2> DEFINE d == delivered[k]
  <2>1. /\ d \in Seq(PartType) /\ d # <<>> /\ Joined(d, arrived, "text", TRUE)
        /\ LastOf(d).end <= MaxMessage /\ Covers(d, arrived, LastOf(d).frame) /\ DeliveredOf(d)
    BY DEF FramesInv, DeliveredInv, DeliveredOf
  <2> HIDE DEF d
  <2>2. /\ Joined(d, Append(arrived, f), "text", TRUE) /\ LastOf(d).frame \in 1 .. Len(arrived)
        /\ \A m \in 1 .. Len(arrived) : Covers(d, arrived, m) => Covers(d, Append(arrived, f), m)
    BY <1>2, <2>1, LaterFrame
  <2> QED BY <1>1, <2>1, <2>2 DEF d
<1>11. CASE /\ data /\ ~f.fin /\ opcode' = kind /\ message' = parts /\ size' = size + f.size
            /\ UNCHANGED <<delivered, reading>>
  <2>1. MessageInv'
    <3>1. f.fin = FALSE
      BY <1>11 DEF Frames
    <3> QED BY <1>3, <1>9, <1>11, <3>1 DEF MessageInv
  <2>2. DeliveredInv'
    <3>1. ASSUME NEW k \in 1 .. Len(delivered') PROVE DeliveredOf(delivered[k])'
      BY <1>10, <1>11 DEF DeliveredOf
    <3>2. ASSUME delivered # <<>> PROVE LastOf(LastOf(delivered)).frame < parts[1].frame
      <4>1. Len(delivered) \in 1 .. Len(delivered)
        <5>1. Len(delivered) \in Nat /\ Len(delivered) # 0
          BY <3>2, LenProperties, EmptySeq DEF FramesInv, DeliveredInv
        <5> QED BY <5>1
      <4>2. LastOf(LastOf(delivered)).frame \in 1 .. Len(arrived)
        BY <1>10, <4>1 DEF LastOf
      <4>3. CASE message = <<>>
        BY <1>2, <1>9, <1>11, <4>2, <4>3
      <4>4. CASE message # <<>>
        BY <1>9, <1>11, <3>2, <4>4 DEF FramesInv, DeliveredInv
      <4> QED BY <4>3, <4>4
    <3> QED BY <1>11, <3>1, <3>2 DEF FramesInv, DeliveredInv
  <2> QED BY <1>1, <1>3, <1>4, <1>9, <1>11, <2>1, <2>2 DEF FramesInv
<1>12. CASE /\ data /\ f.fin /\ kind = "text" /\ delivered' = Append(delivered, parts)
            /\ opcode' = "none" /\ message' = <<>> /\ size' = 0 /\ UNCHANGED reading
  <2>1. MessageInv'
    BY <1>12 DEF MessageInv, Joined
  <2>2. DeliveredInv'
    <3> DEFINE m == Len(delivered)
               d == Append(delivered, parts)
    <3>1. /\ d \in Seq(Seq(PartType)) /\ Len(d) = m + 1 /\ d[m + 1] = parts /\ m \in Nat
          /\ \A k \in 1 .. m : d[k] = delivered[k]
      <4>1. delivered \in Seq(Seq(PartType)) /\ parts \in Seq(PartType)
        BY <1>9, <1>12 DEF FramesInv, DeliveredInv
      <4> QED BY <4>1, AppendProperties, LenProperties
    <3>2. f.fin = TRUE /\ LastOf(parts).end <= MaxMessage
      BY <1>2, <1>9, <1>12 DEF Frames
    <3>3. Joined(parts, arrived', "text", TRUE) /\ Covers(parts, arrived', LastOf(parts).frame)
      BY <1>9, <1>12, <3>2
    <3>4. delivered' = d
      BY <1>12
    <3> HIDE DEF d
    <3>5. ASSUME NEW k \in 1 .. (m + 1) PROVE DeliveredOf(delivered[k])'
      <4>1. CASE k \in 1 .. m
        <5>1. delivered'[k] = delivered[k]
          BY <3>1, <3>4, <4>1
        <5> QED BY <1>10, <4>1, <5>1 DEF DeliveredOf
      <4>2. CASE k = m + 1
        <5>1. delivered'[k] = parts
          BY <3>1, <3>4, <4>2
        <5> QED BY <1>9, <1>12, <3>2, <3>3, <5>1 DEF DeliveredOf
      <4>3. k \in 1 .. m \/ k = m + 1
        BY <3>1
      <4> QED BY <4>1, <4>2, <4>3
    <3>6. ASSUME NEW k \in 1 .. (m + 1), k > 1 PROVE LastOf(d[k - 1]).frame < d[k][1].frame
      <4>1. k - 1 \in 1 .. m /\ d[k - 1] = delivered[k - 1]
        BY <3>1, <3>6
      <4>2. CASE k \in 1 .. m
        BY <3>1, <3>6, <4>1, <4>2 DEF FramesInv, DeliveredInv
      <4>3. CASE k = m + 1
        <5>1. k - 1 = m /\ m \in 1 .. m
          BY <3>1, <4>1, <4>3
        <5>2. LastOf(delivered[m]).frame \in 1 .. Len(arrived) /\ delivered # <<>>
          <6>1. delivered # <<>>
            BY <3>1, <5>1, EmptySeq DEF FramesInv, DeliveredInv
          <6> QED BY <1>10, <5>1, <6>1
        <5>3. LastOf(delivered[m]).frame < parts[1].frame
          <6>1. CASE message = <<>>
            <7>1. parts[1].frame = n
              BY <1>9, <1>12, <6>1
            <7> QED BY <1>2, <5>2, <7>1
          <6>2. CASE message # <<>>
            <7>1. LastOf(LastOf(delivered)).frame < message[1].frame
              BY <5>2, <6>2 DEF FramesInv, DeliveredInv
            <7> QED BY <1>9, <1>12, <6>2, <7>1 DEF LastOf
          <6> QED BY <6>1, <6>2
        <5> QED BY <3>1, <4>1, <4>3, <5>1, <5>3
      <4>4. k \in 1 .. m \/ k = m + 1
        BY <3>1
      <4> QED BY <4>2, <4>3, <4>4
    <3> QED BY <1>12, <3>1, <3>4, <3>5, <3>6 DEF DeliveredInv
  <2> QED BY <1>1, <1>3, <1>4, <1>12, <2>1, <2>2, FramesAssumption DEF FramesInv
<1> QED BY <1>5, <1>8, <1>11, <1>12 DEF Control

\* A goroutine writes one more part of a frame and goes on to stage s; what it
\* holds the lock for, no other is writing.
LEMMA WirePartInv ==
  ASSUME FramesInv, NEW w \in Writers, NEW s \in {"idle", "payload"},
         NEW what \in {"whole", "header", "payload", "broken"},
         writer[w] # "idle", writer[w] = "payload" => what \in {"payload", "broken"},
         what = "header" => s = "payload",
         wire' = Append(wire, <<w, what>>), writer' = [writer EXCEPT ![w] = s],
         lock' = IF s = "idle" THEN "free" ELSE lock
  PROVE  WireInv'
<1> DEFINE n == Len(wire)
           Kinds == {"whole", "header", "payload", "broken"}
<1>1. /\ wire \in Seq(Writers \X Kinds) /\ n \in Nat /\ lock = w
      /\ writer \in [Writers -> {"idle", "header", "payload"}]
      /\ \A u \in Writers : writer[u] # "idle" => u = w
  BY LenProperties DEF FramesInv, WireInv
<1>2. /\ wire' \in Seq(Writers \X Kinds) /\ Len(wire') = n + 1 /\ wire'[n + 1] = <<w, what>>
      /\ \A i \in 1 .. n : wire'[i] = wire[i]
  BY <1>1, AppendProperties
<1>3. \A u \in Writers : writer'[u] # "idle" => lock' = u
  BY <1>1
<1>4. LastOf(wire)' = <<w, what>>
  BY <1>2 DEF LastOf
<1>5. n # 0 /\ wire[n][2] = "header" => wire[n][1] = w /\ writer[w] = "payload"
  <2> SUFFICES ASSUME n # 0, wire[n][2] = "header" PROVE wire[n][1] = w /\ writer[w] = "payload"
    OBVIOUS
  <2>1. wire # <<>> /\ wire[n] \in Writers \X Kinds
    BY <1>1, EmptySeq, LenProperties
  <2>2. writer[wire[n][1]] = "payload"
    BY <2>1 DEF FramesInv, WireInv, LastOf
  <2> QED BY <1>1, <2>1, <2>2
<1>6. FramesUnmixed'
  <2> SUFFICES ASSUME NEW i \in 1 .. (Len(wire') - 1), wire'[i][2] = "header"
               PROVE  wire'[i + 1][1] = wire'[i][1] /\ wire'[i + 1][2] \in {"payload", "broken"}
    BY DEF FramesUnmixed
  <2>1. i \in 1 .. n /\ wire'[i] = wire[i]
    BY <1>1, <1>2
  <2>2. CASE i = n
    <3>1. wire[n][1] = w /\ writer[w] = "payload"
      BY <1>5, <2>1, <2>2
    <3> QED BY <1>2, <2>1, <2>2, <3>1
  <2>3. CASE i # n
    <3>1. i + 1 \in 1 .. n /\ i \in 1 .. (Len(wire) - 1)
      BY <1>1, <2>1, <2>3
    <3>2. wire'[i + 1] = wire[i + 1]
      BY <1>2, <3>1
    <3> QED BY <2>1, <3>1, <3>2 DEF FramesInv, WireInv, FramesUnmixed
  <2> QED BY <2>2, <2>3
<1>7. what = "header" => writer'[w] = "payload"
  BY <1>1
<1> QED BY <1>2, <1>3, <1>4, <1>6, <1>7 DEF WireInv

\* What the reader has put together stays, whatever the writers do.
LEMMA WritersLeaveReads ==
  ASSUME FramesInv, UNCHANGED readVars, reading' # "ended" => reading # "ended"
  PROVE  MessageInv' /\ DeliveredInv'
<1>1. MessageInv'
  BY DEF FramesInv, MessageInv, readVars
<1>2. DeliveredInv'
  BY DEF FramesInv, DeliveredInv, DeliveredOf, readVars
<1> QED BY <1>1, <1>2

LEMMA WriteInv ==
  ASSUME FramesInv, NEW w \in Writers,
         \/ WriteLock(w) \/ WritePayload(w) \/ WriteFails(w)
         \/ \E empty \in BOOLEAN : WriteHeader(w, empty)
  PROVE  FramesInv'
<1>0. /\ UNCHANGED readVars
      /\ reading' \in {reading, "frame", "ended"} /\ (reading' # "ended" => reading # "ended")
  BY DEF WriteLock, WritePayload, WriteFails, WriteHeader, Resume
<1>1. MessageInv' /\ DeliveredInv'
  BY <1>0, WritersLeaveReads
<1>2. /\ writer \in [Writers -> {"idle", "header", "payload"}] /\ sent \in [Writers -> 0 .. MaxSent]
      /\ lock \in Writers \cup {"free"} /\ MaxSent \in Nat
  BY FramesAssumption DEF FramesInv
<1>3. /\ writer' \in [Writers -> {"idle", "header", "payload"}] /\ lock' \in Writers \cup {"free"}
  BY <1>2 DEF WriteLock, WritePayload, WriteFails, WriteHeader
<1>4. sent' \in [Writers -> 0 .. MaxSent]
  <2>1. CASE WriteLock(w)
    <3>1. sent[w] \in 0 .. MaxSent /\ sent[w] < MaxSent
      BY <1>2, <2>1 DEF WriteLock
    <3>2. sent[w] + 1 \in 0 .. MaxSent
      BY <1>2, <3>1
    <3>3. sent' = sent \/ sent' = [sent EXCEPT ![w] = sent[w] + 1]
      BY <2>1 DEF WriteLock
    <3> QED BY <1>2, <3>2, <3>3
  <2>2. CASE sent' = sent
    BY <1>2, <2>2
  <2> QED BY <2>1, <2>2 DEF WritePayload, WriteFails, WriteHeader
<1>5. WireInv'
  <2>1. CASE WriteLock(w)
    <3>1. /\ lock = "free" /\ lock' = w /\ writer' = [writer EXCEPT ![w] = "header"] /\ wire' = wire
      BY <2>1 DEF WriteLock
    <3>2. \A u \in Writers : writer[u] = "idle"
      BY <3>1, FramesAssumption DEF FramesInv, WireInv
    <3>3. \A u \in Writers : writer'[u] # "idle" => u = w
      BY <1>2, <3>1, <3>2
    <3>4. ~(wire # <<>> /\ LastOf(wire)[2] = "header")
      <4> SUFFICES ASSUME wire # <<>>, LastOf(wire)[2] = "header" PROVE FALSE
        OBVIOUS
      <4>1. wire \in Seq(Writers \X {"whole", "header", "payload", "broken"})
            /\ writer[LastOf(wire)[1]] = "payload"
        BY DEF FramesInv, WireInv
      <4>2. Len(wire) \in Nat /\ Len(wire) # 0
        BY <4>1, LenProperties, EmptySeq
      <4>3. LastOf(wire) \in Writers \X {"whole", "header", "payload", "broken"}
        BY <4>1, <4>2, LenProperties DEF LastOf
      <4> QED BY <3>2, <4>1, <4>3
    <3> QED BY <3>1, <3>3, <3>4 DEF FramesInv, WireInv, FramesUnmixed, LastOf
  <2>2. CASE WritePayload(w)
    BY <2>2, WirePartInv DEF WritePayload
  <2>3. CASE WriteFails(w)
    BY <2>3, WirePartInv DEF WriteFails
  <2>4. ASSUME NEW empty \in BOOLEAN, WriteHeader(w, empty) PROVE WireInv'
    <3>1. CASE empty
      BY <2>4, <3>1, WirePartInv DEF WriteHeader
    <3>2. CASE ~empty
      BY <2>4, <3>2, WirePartInv DEF WriteHeader
    <3> QED BY <3>1, <3>2
  <2> QED BY <2>1, <2>2, <2>3, <2>4
<1> QED BY <1>0, <1>1, <1>3, <1>4, <1>5 DEF FramesInv, readVars

(***************************************************************************)
(* Every message WSConn.ReadMessage returns is exactly the data frames of  *)
(* the client it was put together from, and no two goroutines' frames are  *)
(* mixed on the wire, for any frames, sizes and goroutines.                *)
(***************************************************************************)
THEOREM FramesSoundCorrect == FramesSpec => []FramesSound
<1>1. FramesInit => FramesInv
  BY InitFramesInv
<1>2. FramesInv /\ [FramesNext]_frameVars => FramesInv'
  <2> SUFFICES ASSUME FramesInv, [FramesNext]_frameVars PROVE FramesInv'
    OBVIOUS
  <2>1. ASSUME NEW f \in Frames, ReadFrame(f) PROVE FramesInv'
    BY <2>1, ReadFrameInv
  <2>2. ASSUME NEW w \in Writers,
               \/ WriteLock(w) \/ WritePayload(w) \/ WriteFails(w)
               \/ \E empty \in BOOLEAN : WriteHeader(w, empty)
        PROVE  FramesInv'
    BY <2>2, WriteInv
  <2>3. CASE UNCHANGED frameVars
    <3>1. MessageInv' /\ DeliveredInv'
      BY <2>3, WritersLeaveReads DEF frameVars, readVars
    <3>2. WireInv'
      BY <2>3 DEF frameVars, FramesInv, WireInv, FramesUnmixed, LastOf
    <3> QED BY <2>3, <3>1, <3>2 DEF frameVars, FramesInv
  <2> QED BY <2>1, <2>2, <2>3 DEF FramesNext
<1>3. FramesInv => FramesSound
  BY FramesInvImplies
<1> QED BY <1>1, <1>2, <1>3, PTL DEF FramesSpec
-----------------------------------------------------------------------------
(* The model registry.                                                     *)

RowMaps     == UNION {[D -> RowType] : D \in SUBSET Models}
Outcomes    == {"none", "ok", "retryable", "permanent"}
SnapStates  == {"none", "not_configured", "unavailable", "degraded", "ready", "verifying"}
SnapType    == [at : Int, status : SnapStates, models : RowMaps]
WorkType    == [stage : {"none", "start", "probe", "done"}, at : Int, rows : RowMaps,
                queue : SUBSET Models, errors : BOOLEAN, status : SnapStates]

RegistryTypes ==
  /\ now \in 0..MaxTime /\ restarts \in 0..MaxRestarts /\ refreshing \in BOOLEAN
  /\ snapshots \in [Providers -> SnapType]
  /\ work \in [Callers -> [Providers -> WorkType]]
  /\ caller \in [Callers -> {"idle", "fetch", "finish"}]
  /\ entries \in [Providers -> SUBSET Models] /\ file \in [Providers -> SUBSET Models]
  /\ probed \in [Providers -> [Models -> [at : Int, outcome : Outcomes]]]

\* A row of a snapshot fetched at a given time: an available one was confirmed
\* since, and is not due before its confirmation ends.
RowSince(row, at) ==
  row.available => /\ row.status = "ready" /\ row.inventory = "verified"
                   /\ row.success >= at /\ row.success >= 0
                   /\ row.expires = row.success + ConfirmationTTL /\ row.next = row.expires

\* The models waiting for a place have places of their own behind the probes.
PlacesKept(rows) ==
  \A m \in DOMAIN rows : rows[m].status = "registration_queued" =>
    /\ rows[m].position > ValidationLimit
    /\ QueueLimit # 0 => rows[m].position <= QueueLimit
    /\ \A n \in DOMAIN rows \ {m} :
         rows[n].status = "registration_queued" => rows[n].position # rows[m].position

\* The pause after a failure worth retrying is kept in the row.
PauseKept(probe, row) == probe.outcome = "retryable" => row.next = probe.at + RetryCooldown

\* A snapshot s, given the probes, the catalogue's entries and the time.
SnapshotInv(s, probes, listed, time) ==
  /\ s.at \in Never..time /\ PlacesKept(s.models)
  /\ \A m \in DOMAIN s.models :
       /\ RowSince(s.models[m], s.at)
       /\ s.models[m].available => /\ m \in listed
                                   /\ probes[m].outcome = "ok" \/ probes[m].at > s.at

ProbesInv(probes, time) ==
  \A m \in Models :
    /\ probes[m].at \in Never..time
    /\ probes[m].outcome # "none" => probes[m].at >= 0 /\ m \notin NotForTransport

\* Between refreshes the snapshot remembers every probe.
RestingInv(s, probes) ==
  \A m \in Models : probes[m].outcome # "none" =>
    m \in DOMAIN s.models /\ PauseKept(probes[m], s.models[m])

\* In a refresh: the models still to be probed are due, those probed have
\* their outcome in the row.
ToProbe(m, w, s, probes) ==
  /\ ~w.rows[m].available
  /\ probes[m].outcome = "retryable" => w.at >= probes[m].at + RetryCooldown
  /\ m \in DOMAIN s.models /\ s.models[m].available => w.at > s.at

InRefresh(m, w, probes, listed) ==
  /\ RowSince(w.rows[m], w.at)
  /\ w.rows[m].available => /\ probes[m].outcome = "ok"
                            /\ w.stage = "done" => m \in listed
  /\ m \notin w.queue => PauseKept(probes[m], w.rows[m])

ProbingInv(w, s, probes, listed, time) ==
  /\ w.at \in 0..time /\ w.at >= s.at /\ PlacesKept(w.rows)
  /\ w.queue \subseteq DOMAIN w.rows \ NotForTransport
  /\ \A m \in w.queue : ToProbe(m, w, s, probes)
  /\ \A m \in DOMAIN w.rows : InRefresh(m, w, probes, listed)

WorkInv(w, s, probes, listed, time) ==
  /\ w.stage \in {"none", "start"} => w.queue = {}
  /\ w.stage \in {"probe", "done"} => ProbingInv(w, s, probes, listed, time)
  /\ w.stage = "done" => w.queue = {}
  /\ ValidationLimit # 0 => Cardinality(w.queue) <= ValidationLimit

ProviderInv(p) ==
  /\ SnapshotInv(snapshots[p], probed[p], entries[p], now) /\ ProbesInv(probed[p], now)
  /\ (\A c \in Callers : work[c][p].stage \in {"none", "start"}) => RestingInv(snapshots[p], probed[p])
  /\ \A c \in Callers : /\ WorkInv(work[c][p], snapshots[p], probed[p], entries[p], now)
                        /\ work[c][p].stage = "none" <=> caller[c] # "fetch"

RegistryInv ==
  /\ RegistryTypes /\ RefreshFlagOwned
  /\ \A p \in Providers : ProviderInv(p)

\* A non-empty set of numbers has a least element.
LEMMA LeastNumber ==
  ASSUME NEW T \in SUBSET Nat, T # {}
  PROVE  \E x \in T : \A y \in T : x <= y
<1> DEFINE R == {q \in Nat \X Nat : q[1] < q[2]}
<1>1. IsWellFoundedOn(R, Nat)
  BY NatLessThanWellFounded DEF OpToRel
<1> HIDE DEF R
<1>2. \E x \in T : \A y \in T : ~(<<y, x>> \in R)
  BY <1>1, WFMin
<1>3. PICK x \in T : \A y \in T : ~(<<y, x>> \in R)
  BY <1>2
<1>4. \A y \in T : x <= y
  <2> TAKE y \in T
  <2>1. <<y, x>> \in Nat \X Nat /\ ~(<<y, x>> \in R)
    BY <1>3
  <2>2. x \in Nat /\ y \in Nat /\ ~(y < x)
    BY <2>1 DEF R
  <2> QED BY <2>2
<1> QED BY <1>4

LEMMA RowMapFacts ==
  ASSUME NEW f \in RowMaps
  PROVE  /\ DOMAIN f \subseteq Models /\ f \in [DOMAIN f -> RowType]
         /\ \A m \in DOMAIN f : f[m] \in RowType
BY DEF RowMaps

LEMMA RowMapIntro ==
  ASSUME NEW D \in SUBSET Models, NEW f \in [D -> RowType]
  PROVE  f \in RowMaps
BY DEF RowMaps

LEMMA NoRowsFacts == NoRows \in RowMaps /\ DOMAIN NoRows = {}
<1>1. DOMAIN NoRows = {} /\ NoRows \in [{} -> RowType]
  BY DEF NoRows
<1> QED BY <1>1, RowMapIntro

LEMMA EmptyRows ==
  ASSUME NEW f \in RowMaps, DOMAIN f = {}
  PROVE  f = NoRows
BY RowMapFacts DEF NoRows

LEMMA NamesFacts ==
  /\ Len(Names) \in Nat /\ Len(Names) > 0 /\ DOMAIN Names = 1 .. Len(Names)
  /\ Names[1] \in Models
  /\ \A m \in Models : \E i \in DOMAIN Names : Names[i] = m
<1>1. Names \in Seq(Models) /\ Names # <<>>
  BY RegistryAssumption
<1>2. Len(Names) \in Nat /\ DOMAIN Names = 1 .. Len(Names) /\ Len(Names) # 0
  BY <1>1, LenProperties, EmptySeq
<1>3. \A m \in Models : \E i \in DOMAIN Names : Names[i] = m
  BY DEF Models, ToSet
<1>4. Names[1] \in Models
  BY <1>2 DEF Models, ToSet
<1> QED BY <1>2, <1>3, <1>4

LEMMA ModelsFinite == IsFiniteSet(Models)
<1>1. Names \in Surjection(1 .. Len(Names), Models)
  <2>1. Names \in [1 .. Len(Names) -> Models]
    BY RegistryAssumption, NamesFacts
  <2> QED BY <2>1, NamesFacts DEF Surjection
<1>2. IsFiniteSet(1 .. Len(Names))
  BY NamesFacts, FS_Interval
<1> QED BY <1>1, <1>2, FS_Surjection

\* Every model has a rank of its own in the order of validation.
LEMMA RankFacts ==
  /\ \A m \in Models : PrioritizeModelValidation(m) \in Nat
  /\ \A m, n \in Models :
       PrioritizeModelValidation(m) = PrioritizeModelValidation(n) => m = n
<1>1. ASSUME NEW m \in Models, m # Default
      PROVE  /\ PrioritizeModelValidation(m) \in Nat \ {0}
             /\ Names[PrioritizeModelValidation(m)] = m
  <2>1. \E i \in DOMAIN Names : Names[i] = m
    BY NamesFacts
  <2>2. PrioritizeModelValidation(m) = CHOOSE i \in DOMAIN Names : Names[i] = m
    BY <1>1 DEF PrioritizeModelValidation
  <2>3. PrioritizeModelValidation(m) \in DOMAIN Names /\ Names[PrioritizeModelValidation(m)] = m
    BY <2>1, <2>2
  <2> QED BY <2>3, NamesFacts
<1>2. PrioritizeModelValidation(Default) = 0
  BY DEF PrioritizeModelValidation
<1>3. ASSUME NEW m \in Models PROVE PrioritizeModelValidation(m) \in Nat
  BY <1>1, <1>2
<1>4. ASSUME NEW m \in Models, NEW n \in Models,
             PrioritizeModelValidation(m) = PrioritizeModelValidation(n)
      PROVE  m = n
  <2>1. CASE m = Default
    BY <1>1, <1>2, <1>4, <2>1
  <2>2. CASE n = Default
    BY <1>1, <1>2, <1>4, <2>2
  <2>3. CASE m # Default /\ n # Default
    BY <1>1, <1>4, <2>3
  <2> QED BY <2>1, <2>2, <2>3
<1> QED BY <1>3, <1>4

Upto(m, due) == {n \in due : PrioritizeModelValidation(n) <= PrioritizeModelValidation(m)}

\* The places in the queue are 1, 2, ... and no two models share one.
LEMMA PlaceFacts ==
  ASSUME NEW due \in SUBSET Models
  PROVE  /\ \A m \in due : Place(m, due) \in Nat \ {0}
         /\ \A m, n \in due : Place(m, due) = Place(n, due) => m = n
<1>0. \A m \in due : Place(m, due) = Cardinality(Upto(m, due))
  BY DEF Place, Upto
<1>1. IsFiniteSet(due)
  BY ModelsFinite, FS_Subset
<1>2. ASSUME NEW m \in due
      PROVE  IsFiniteSet(Upto(m, due)) /\ m \in Upto(m, due) /\ Cardinality(Upto(m, due)) \in Nat \ {0}
  <2>1. Upto(m, due) \in SUBSET due
    BY DEF Upto
  <2>2. IsFiniteSet(Upto(m, due))
    BY <1>1, <2>1, FS_Subset
  <2>3. PrioritizeModelValidation(m) \in Nat
    BY RankFacts
  <2>4. m \in Upto(m, due)
    BY <2>3 DEF Upto
  <2>5. Cardinality(Upto(m, due)) \in Nat
    BY <2>2, FS_CardinalityType
  <2>6. Cardinality(Upto(m, due)) # 0
    BY <2>2, <2>4, FS_EmptySet
  <2> QED BY <2>2, <2>4, <2>5, <2>6
<1>3. ASSUME NEW m \in due, NEW n \in due,
             PrioritizeModelValidation(m) < PrioritizeModelValidation(n)
      PROVE  Cardinality(Upto(m, due)) # Cardinality(Upto(n, due))
  <2>1. PrioritizeModelValidation(m) \in Nat /\ PrioritizeModelValidation(n) \in Nat
        /\ \A k \in due : PrioritizeModelValidation(k) \in Nat
    BY RankFacts
  <2>2. n \notin Upto(m, due)
    BY <1>3, <2>1 DEF Upto
  <2>3. Upto(m, due) \in SUBSET Upto(n, due)
    BY <1>3, <2>1 DEF Upto
  <2>4. IsFiniteSet(Upto(n, due)) /\ n \in Upto(n, due)
    BY <1>2
  <2>5. Cardinality(Upto(n, due)) = Cardinality(Upto(m, due)) => Upto(n, due) = Upto(m, due)
    BY <2>3, <2>4, FS_Subset
  <2> QED BY <2>2, <2>4, <2>5
<1>4. ASSUME NEW m \in due, NEW n \in due, Place(m, due) = Place(n, due) PROVE m = n
  <2>1. /\ PrioritizeModelValidation(m) \in Nat /\ PrioritizeModelValidation(n) \in Nat
        /\ PrioritizeModelValidation(m) = PrioritizeModelValidation(n) => m = n
    BY RankFacts
  <2>2. Cardinality(Upto(m, due)) = Cardinality(Upto(n, due))
    BY <1>0, <1>4
  <2>3. ~(PrioritizeModelValidation(m) < PrioritizeModelValidation(n))
    BY <1>3, <2>2
  <2>4. ~(PrioritizeModelValidation(n) < PrioritizeModelValidation(m))
    BY <1>3, <2>2
  <2> QED BY <2>1, <2>3, <2>4
<1> QED BY <1>0, <1>2, <1>4

\* One refresh probes no more models than the validation limit.
LEMMA ProbesBounded ==
  ASSUME NEW due \in SUBSET Models, ValidationLimit # 0
  PROVE  Cardinality(Probes(due)) <= ValidationLimit
<1> DEFINE f == [m \in Probes(due) |-> Place(m, due)]
<1>0. ValidationLimit \in Nat
  BY RegistryAssumption
<1>1. Probes(due) \subseteq due /\ \A m \in Probes(due) : Place(m, due) <= ValidationLimit
  BY DEF Probes, Within
<1>2. \A m \in Probes(due) : Place(m, due) \in 1 .. ValidationLimit
  BY <1>0, <1>1, PlaceFacts
<1>3. \A m, n \in Probes(due) : Place(m, due) = Place(n, due) => m = n
  BY <1>1, PlaceFacts
<1>4. f \in [Probes(due) -> 1 .. ValidationLimit]
  BY <1>2
<1>5. f \in Injection(Probes(due), 1 .. ValidationLimit)
  BY <1>3, <1>4 DEF Injection, IsInjective
<1> HIDE DEF f
<1>6. IsFiniteSet(1 .. ValidationLimit) /\ Cardinality(1 .. ValidationLimit) = ValidationLimit
  BY <1>0, FS_Interval
<1>7. Cardinality(Probes(due)) <= Cardinality(1 .. ValidationLimit)
  BY <1>5, <1>6, FS_Injection
<1> QED BY <1>6, <1>7

LEMMA FirstQueuedFacts ==
  ASSUME NEW queue \in SUBSET Models, queue # {}
  PROVE  FirstQueued(queue) \in queue
<1> DEFINE T == {PrioritizeModelValidation(m) : m \in queue}
<1>1. T \in SUBSET Nat /\ T # {}
  BY RankFacts
<1>2. PICK x \in T : \A y \in T : x <= y
  <2> HIDE DEF T
  <2> QED BY <1>1, LeastNumber
<1>3. PICK m \in queue : x = PrioritizeModelValidation(m)
  BY <1>2
<1>4. \A n \in queue : PrioritizeModelValidation(m) <= PrioritizeModelValidation(n)
  BY <1>2, <1>3
<1> QED BY <1>4 DEF FirstQueued

-----------------------------------------------------------------------------
(* A fetch: its rows and its queue.                                        *)

\* A row before its validation.
Unproven(row) == ~row.available /\ row.status # "registration_queued"

LEMMA DiscoveredFacts ==
  ASSUME NEW d \in BOOLEAN
  PROVE  Discovered(d) \in RowType /\ Unproven(Discovered(d)) /\ Discovered(d).next = Never
BY DEF Discovered, RowType, Statuses, Never, Unproven

FreshRows(rows) ==
  rows \in RowMaps /\ \A m \in DOMAIN rows : Unproven(rows[m]) /\ rows[m].next = Never

LEMMA FoundRows ==
  ASSUME NEW a \in Inventories
  PROVE  FreshRows(FetchProviderModels(a.main, a.codex).rows)
         /\ FetchProviderModels(a.main, a.codex).errors \in BOOLEAN
<1> DEFINE names == a.main.listed \cup a.main.disabled \cup a.codex.listed \cup a.codex.disabled
           off(m) == m \in a.main.disabled \/ (m \notin a.main.listed /\ m \in a.codex.disabled)
           rows == [m \in names |-> Discovered(off(m))]
<1>1. FetchProviderModels(a.main, a.codex).rows = rows
  BY DEF FetchProviderModels
<1>2. FetchProviderModels(a.main, a.codex).errors \in BOOLEAN
  BY DEF FetchProviderModels
<1>3. names \subseteq Models
  BY RegistryAssumption
<1>4. \A m \in names : off(m) \in BOOLEAN
  OBVIOUS
<1> HIDE DEF names, off
<1>5. \A m \in names : rows[m] \in RowType /\ Unproven(rows[m]) /\ rows[m].next = Never
  BY <1>4, DiscoveredFacts
<1>6. rows \in [names -> RowType] /\ DOMAIN rows = names
  BY <1>5
<1>7. rows \in RowMaps
  BY <1>3, <1>6, RowMapIntro
<1> QED BY <1>1, <1>2, <1>5, <1>6, <1>7 DEF FreshRows

LEMMA WithDefaultFacts ==
  ASSUME NEW rows, FreshRows(rows)
  PROVE  FreshRows(WithDefault(rows))
<1> DEFINE new == IF rows = NoRows THEN [Discovered(FALSE) EXCEPT !.inventory = "unavailable"]
                  ELSE [Discovered(TRUE) EXCEPT !.status = "missing", !.inventory = "missing"]
           all == [m \in DOMAIN rows \cup {Default} |-> IF m \in DOMAIN rows THEN rows[m] ELSE new]
<1>0. rows \in RowMaps /\ DOMAIN rows \subseteq Models /\ \A m \in DOMAIN rows : rows[m] \in RowType
  BY RowMapFacts DEF FreshRows
<1>1. CASE Default = NoModel \/ Default \in DOMAIN rows
  BY <1>1 DEF WithDefault
<1>2. CASE ~(Default = NoModel \/ Default \in DOMAIN rows)
  <2>1. WithDefault(rows) = all
    BY <1>2 DEF WithDefault
  <2>2. Default \in Models
    BY <1>2, RegistryAssumption
  <2>3. new \in RowType /\ Unproven(new) /\ new.next = Never
    <3>1. PICK d \in RowType : d = Discovered(FALSE) /\ Unproven(d) /\ d.next = Never
      BY DiscoveredFacts
    <3>2. PICK e \in RowType : e = Discovered(TRUE) /\ Unproven(e) /\ e.next = Never
      BY DiscoveredFacts
    <3>3. CASE rows = NoRows
      BY <3>1, <3>3 DEF RowType, Statuses, Unproven
    <3>4. CASE rows # NoRows
      BY ZenonT(60), <3>2, <3>4 DEF RowType, Statuses, Unproven
    <3> QED BY <3>3, <3>4
  <2> HIDE DEF new
  <2>4. \A m \in DOMAIN all : all[m] \in RowType /\ Unproven(all[m]) /\ all[m].next = Never
    BY <1>0, <2>3 DEF FreshRows
  <2>5. DOMAIN all \in SUBSET Models /\ all \in [DOMAIN all -> RowType]
    BY <1>0, <2>2, <2>4
  <2> HIDE DEF all
  <2>6. all \in RowMaps
    BY <2>5, RowMapIntro
  <2> QED BY <2>1, <2>4, <2>6 DEF FreshRows
<1> QED BY <1>1, <1>2

\* What a fetch knows of a model's next verification.
NextOf(p, m) == IF m \in DOMAIN snapshots[p].models THEN snapshots[p].models[m].next ELSE Never

MergedRows(p, rows) ==
  rows \in RowMaps /\ \A m \in DOMAIN rows : Unproven(rows[m]) /\ rows[m].next = NextOf(p, m)

LEMMA MergedFacts ==
  ASSUME NEW p, NEW rows, FreshRows(rows), snapshots[p].models \in RowMaps
  PROVE  MergedRows(p, Merged(p, rows)) /\ DOMAIN Merged(p, rows) = DOMAIN rows
<1> DEFINE old == snapshots[p].models
           all == Merged(p, rows)
<1>0. rows \in RowMaps /\ DOMAIN rows \subseteq Models /\ \A m \in DOMAIN rows : rows[m] \in RowType
  BY RowMapFacts DEF FreshRows
<1>1. \A m \in DOMAIN old : old[m] \in RowType
  BY RowMapFacts
<1>2. DOMAIN all = DOMAIN rows
  BY DEF Merged
<1>3. ASSUME NEW m \in DOMAIN rows
      PROVE  all[m] \in RowType /\ Unproven(all[m]) /\ all[m].next = NextOf(p, m)
  <2>1. PICK row \in RowType : row = rows[m] /\ Unproven(row) /\ row.next = Never
    BY <1>0 DEF FreshRows
  <2>2. CASE m \in DOMAIN old
    <3>1. PICK prev \in RowType : prev = old[m]
      BY <1>1, <2>2
    <3>2. all[m] = MergeProviderLifecycle(row, prev)
      BY <2>1, <2>2, <3>1 DEF Merged
    <3>3. /\ MergeProviderLifecycle(row, prev) \in RowType
          /\ MergeProviderLifecycle(row, prev).next = prev.next
          /\ MergeProviderLifecycle(row, prev).available = row.available
          /\ MergeProviderLifecycle(row, prev).status = row.status
      BY DEF MergeProviderLifecycle, RowType
    <3>4. NextOf(p, m) = prev.next
      BY <2>2, <3>1 DEF NextOf
    <3> QED BY <2>1, <3>2, <3>3, <3>4 DEF Unproven
  <2>3. CASE m \notin DOMAIN old
    BY <2>1, <2>3 DEF Merged, NextOf
  <2> QED BY <2>2, <2>3
<1>4. all \in [DOMAIN rows -> RowType]
  <2>1. all = [m \in DOMAIN rows |-> all[m]]
    BY DEF Merged
  <2> HIDE DEF all
  <2> QED BY <1>3, <2>1
<1>5. all \in RowMaps
  BY <1>0, <1>4, RowMapIntro
<1> QED BY <1>2, <1>3, <1>5 DEF MergedRows

LEMMA PreparedFacts ==
  ASSUME NEW row \in RowType, NEW at \in Int, Unproven(row)
  PROVE  Prepared(row, at) \in RowType /\ Unproven(Prepared(row, at))
         /\ Prepared(row, at).next = row.next
<1>0. ConfirmationTTL \in Nat
  BY RegistryAssumption
<1>1. PICK e \in Int : e = IF row.success # Never /\ row.expires = Never
                           THEN row.success + ConfirmationTTL ELSE row.expires
  BY <1>0 DEF RowType
<1>2. PICK s \in Int : s = IF row.started = Never THEN at ELSE row.started
  BY DEF RowType
<1> DEFINE stale == row.started # Never /\ at - row.started >= PendingTTL
<1>3. PICK st \in Statuses : st = IF stale THEN "registration_stale" ELSE row.status
  BY DEF RowType, Statuses
<1>4. PICK v \in {"verifying", "unconfirmed", "stale", "confirmed", "skipped"} :
        v = IF stale \/ row.verification = "confirmed" THEN "stale" ELSE row.verification
  BY DEF RowType
<1>5. Prepared(row, at) = [row EXCEPT !.available = FALSE, !.expires = e, !.started = s,
                                      !.status = st, !.verification = v]
  BY <1>1, <1>2, <1>3, <1>4 DEF Prepared, RowType
<1>6. st # "registration_queued"
  BY <1>3 DEF Unproven
<1> QED BY <1>5, <1>6 DEF RowType, Unproven

\* The place of a row marked queued, and the pause of a row not probed.
PlacedRow(m, k, row, due) ==
  /\ k \in RowType /\ ~k.available
  /\ m \notin NotForTransport => k.next = row.next
  /\ k.status = "registration_queued" =>
       /\ m \in due /\ k.position = Place(m, due) /\ k.position > ValidationLimit
       /\ QueueLimit # 0 => k.position <= QueueLimit

LEMMA ConsideredFacts ==
  ASSUME NEW m \in Models, NEW row \in RowType, NEW at \in Int, NEW due \in SUBSET Models,
         Unproven(row)
  PROVE  PlacedRow(m, Considered(m, row, due, at), row, due)
<1>1. PICK prep \in RowType : prep = Prepared(row, at) /\ Unproven(prep) /\ prep.next = row.next
  BY PreparedFacts
<1>2. ~KeepConfirmedFresh(row, at)
  BY DEF KeepConfirmedFresh, Unproven
<1>3. m \in due => Place(m, due) \in Nat
  BY PlaceFacts
<1>4. ValidationLimit \in Nat /\ QueueLimit \in Nat
  BY RegistryAssumption
<1> DEFINE zero == 0
           never == Never
<1>z. zero \in Nat /\ never \in Int
  BY DEF Never
<1>5. CASE ~CanParticipate(row)
  BY <1>5 DEF Considered, PlacedRow, Unproven
<1>6. CASE CanParticipate(row) /\ m \in NotForTransport
  <2>1. Considered(m, row, due, at) =
          [row EXCEPT !.available = FALSE, !.next = never, !.position = zero,
                      !.status = "transport_inapplicable", !.inventory = "verified",
                      !.verification = "skipped"]
    BY <1>2, <1>6 DEF Considered
  <2>2. PICK k : k = Considered(m, row, due, at)
    OBVIOUS
  <2>3. k \in RowType /\ k.available = FALSE /\ k.status = "transport_inapplicable"
    <3> HIDE DEF zero, never
    <3> QED BY <1>z, <2>1, <2>2 DEF RowType, Statuses
  <2> QED BY <1>6, <2>2, <2>3 DEF PlacedRow
<1>7. CASE CanParticipate(row) /\ m \notin NotForTransport /\ m \notin due
  <2>1. Considered(m, row, due, at) = [prep EXCEPT !.status = "verification_cooldown", !.position = zero]
    BY <1>1, <1>2, <1>7 DEF Considered
  <2>2. PICK k : k = Considered(m, row, due, at)
    OBVIOUS
  <2>3. k \in RowType /\ k.available = prep.available /\ k.next = prep.next
        /\ k.status = "verification_cooldown"
    <3> HIDE DEF zero, never
    <3> QED BY <1>z, <2>1, <2>2 DEF RowType, Statuses
  <2> QED BY <1>1, <2>2, <2>3 DEF PlacedRow, Unproven
<1>8. CASE CanParticipate(row) /\ m \notin NotForTransport /\ m \in due
  <2>1. PICK i \in Nat : i = Place(m, due)
    BY <1>3, <1>8
  <2>2. CASE ~Within(i, QueueLimit)
    <3>1. Considered(m, row, due, at) = [prep EXCEPT !.status = "registration_overflow", !.position = zero]
      BY <1>1, <1>2, <1>8, <2>1, <2>2 DEF Considered
    <3>2. PICK k : k = Considered(m, row, due, at)
      OBVIOUS
    <3>3. k \in RowType /\ k.available = prep.available /\ k.next = prep.next
          /\ k.status = "registration_overflow"
      <4> HIDE DEF zero, never
      <4> QED BY <1>z, <3>1, <3>2 DEF RowType, Statuses
    <3> QED BY <1>1, <3>2, <3>3 DEF PlacedRow, Unproven
  <2>3. CASE Within(i, QueueLimit) /\ ~Within(i, ValidationLimit)
    <3>1. Considered(m, row, due, at) = [prep EXCEPT !.status = "registration_queued", !.position = i]
      BY <1>1, <1>2, <1>8, <2>1, <2>3 DEF Considered
    <3>2. i > ValidationLimit /\ (QueueLimit # 0 => i <= QueueLimit)
      BY <1>4, <2>3 DEF Within
    <3> QED BY ZenonT(60), <1>1, <1>8, <2>1, <3>1, <3>2 DEF PlacedRow, RowType, Statuses, Unproven
  <2>4. CASE Within(i, QueueLimit) /\ Within(i, ValidationLimit)
    <3>1. Considered(m, row, due, at) = prep
      BY <1>1, <1>2, <1>8, <2>1, <2>4 DEF Considered
    <3> QED BY <1>1, <3>1 DEF PlacedRow, Unproven
  <2> QED BY <2>2, <2>3, <2>4
<1> QED BY <1>5, <1>6, <1>7, <1>8

\* The plan of a fetch: who is probed, and what becomes of the others.
PlanOf(plan, rows, at) ==
  /\ plan.rows \in RowMaps /\ DOMAIN plan.rows = DOMAIN rows /\ PlacesKept(plan.rows)
  /\ \A m \in DOMAIN rows : /\ ~plan.rows[m].available
                            /\ m \notin NotForTransport => plan.rows[m].next = rows[m].next
  /\ plan.queue \subseteq DOMAIN rows \ NotForTransport
  /\ \A m \in plan.queue : RegistrationDue(rows[m], at)
  /\ ValidationLimit # 0 => Cardinality(plan.queue) <= ValidationLimit

LEMMA PlanFacts ==
  ASSUME NEW p, NEW rows, MergedRows(p, rows), NEW at \in Int
  PROVE  PlanOf(ValidateDiscoveredModels(rows, at), rows, at)
<1> DEFINE due == Due(rows, at)
           plan == ValidateDiscoveredModels(rows, at)
           all == [m \in DOMAIN rows |-> Considered(m, rows[m], due, at)]
<1>0. rows \in RowMaps /\ DOMAIN rows \subseteq Models /\ \A m \in DOMAIN rows : rows[m] \in RowType
  BY RowMapFacts DEF MergedRows
<1>1. plan.queue = Probes(due) /\ plan.rows = all
  BY DEF ValidateDiscoveredModels
<1>2. due \subseteq DOMAIN rows \ NotForTransport
      /\ \A m \in due : RegistrationDue(Prepared(rows[m], at), at)
  BY DEF Due
<1>3. due \in SUBSET Models
  BY <1>0, <1>2
<1> HIDE DEF due, plan
<1>4. ASSUME NEW m \in DOMAIN rows PROVE PlacedRow(m, all[m], rows[m], due)
  BY <1>0, <1>3, ConsideredFacts DEF MergedRows
<1>5. DOMAIN all = DOMAIN rows
  OBVIOUS
<1>6. all \in [DOMAIN rows -> RowType]
  BY <1>4 DEF PlacedRow
<1> HIDE DEF all
<1>7. all \in RowMaps
  BY <1>0, <1>6, RowMapIntro
<1>8. PlacesKept(all)
  <2> SUFFICES ASSUME NEW m \in DOMAIN rows, all[m].status = "registration_queued"
               PROVE  /\ all[m].position > ValidationLimit
                      /\ QueueLimit # 0 => all[m].position <= QueueLimit
                      /\ \A n \in DOMAIN rows \ {m} :
                           all[n].status = "registration_queued" => all[n].position # all[m].position
    BY <1>5 DEF PlacesKept
  <2>1. m \in due /\ all[m].position = Place(m, due) /\ all[m].position > ValidationLimit
        /\ (QueueLimit # 0 => all[m].position <= QueueLimit)
    BY <1>4 DEF PlacedRow
  <2>2. ASSUME NEW n \in DOMAIN rows \ {m}, all[n].status = "registration_queued"
        PROVE  all[n].position # all[m].position
    <3>1. n \in due /\ all[n].position = Place(n, due)
      BY <1>4, <2>2 DEF PlacedRow
    <3>2. Place(m, due) = Place(n, due) => m = n
      BY <1>3, <2>1, <3>1, PlaceFacts
    <3> QED BY <2>1, <2>2, <3>1, <3>2
  <2> QED BY <2>1, <2>2
<1>9. Probes(due) \subseteq due
  BY DEF Probes
<1>10. ASSUME NEW m \in Probes(due) PROVE RegistrationDue(rows[m], at)
  <2>1. Prepared(rows[m], at).next = rows[m].next
    BY <1>0, <1>2, <1>9, <1>10, PreparedFacts DEF MergedRows
  <2> QED BY <1>2, <1>9, <1>10, <2>1 DEF RegistrationDue
<1>11. ValidationLimit # 0 => Cardinality(Probes(due)) <= ValidationLimit
  BY <1>3, ProbesBounded
<1>12. \A m \in DOMAIN rows : ~all[m].available /\ (m \notin NotForTransport => all[m].next = rows[m].next)
  BY <1>4 DEF PlacedRow
<1> QED BY <1>1, <1>2, <1>5, <1>7, <1>8, <1>9, <1>10, <1>11, <1>12 DEF PlanOf, plan

-----------------------------------------------------------------------------
(* The steps of a refresh.                                                 *)

LEMMA RegistryFacts ==
  ASSUME RegistryInv, NEW p \in Providers, NEW c \in Callers
  PROVE  /\ work[c][p] \in WorkType /\ snapshots[p] \in SnapType
         /\ probed[p] \in [Models -> [at : Int, outcome : Outcomes]]
         /\ entries[p] \subseteq Models /\ now \in Nat /\ ProviderInv(p)
         /\ DOMAIN work = Callers /\ DOMAIN work[c] = Providers
BY RegistryAssumption DEF RegistryInv, RegistryTypes

\* A caller in its refresh takes a step for one provider.
LEMMA ProviderStep ==
  ASSUME RegistryInv, NEW c \in Callers, NEW p \in Providers, NEW k \in WorkType,
         caller[c] = "fetch", k.stage \in {"probe", "done"},
         work' = [work EXCEPT ![c][p] = k],
         UNCHANGED <<now, snapshots, refreshing, caller, restarts>>,
         probed' \in [Providers -> [Models -> [at : Int, outcome : Outcomes]]],
         entries' \in [Providers -> SUBSET Models], file' \in [Providers -> SUBSET Models],
         \A q \in Providers \ {p} : entries'[q] = entries[q] /\ probed'[q] = probed[q],
         SnapshotInv(snapshots[p], probed'[p], entries'[p], now), ProbesInv(probed'[p], now),
         WorkInv(k, snapshots[p], probed'[p], entries'[p], now)
  PROVE  RegistryInv'
<1>1. RegistryTypes'
  <2>1. work' \in [Callers -> [Providers -> WorkType]]
    BY DEF RegistryInv, RegistryTypes
  <2> QED BY <2>1 DEF RegistryInv, RegistryTypes
<1>2. RefreshFlagOwned'
  BY DEF RegistryInv, RefreshFlagOwned
<1>3. \A d \in Callers, q \in Providers : work'[d][q] = IF d = c /\ q = p THEN k ELSE work[d][q]
  BY DEF RegistryInv, RegistryTypes
<1>4. \A d \in Callers \ {c} : caller[d] # "fetch"
  BY DEF RegistryInv, RefreshFlagOwned
<1>5. ASSUME NEW q \in Providers PROVE ProviderInv(q)'
  <2>0. ProviderInv(q)
    BY DEF RegistryInv
  <2>1. CASE q # p
    <3>1. \A d \in Callers : work'[d][q] = work[d][q]
      BY <1>3, <2>1
    <3>2. entries'[q] = entries[q] /\ probed'[q] = probed[q]
      BY <2>1
    <3> QED BY <2>0, <3>1, <3>2 DEF ProviderInv
  <2>2. CASE q = p
    <3>1. work'[c][p] = k
      BY <1>3
    <3>2. ASSUME NEW d \in Callers
          PROVE  /\ WorkInv(work'[d][p], snapshots[p], probed'[p], entries'[p], now)
                 /\ (work'[d][p].stage = "none" <=> caller[d] # "fetch")
      <4>1. CASE d = c
        BY <3>1, <4>1
      <4>2. CASE d # c
        <5>1. work'[d][p] = work[d][p] /\ work[d][p].stage = "none" /\ caller[d] # "fetch"
          BY <1>3, <1>4, <2>0, <2>2, <4>2 DEF ProviderInv
        <5>2. WorkInv(work[d][p], snapshots[p], probed[p], entries[p], now)
          BY <2>0, <2>2 DEF ProviderInv
        <5> QED BY <5>1, <5>2 DEF WorkInv
      <4> QED BY <4>1, <4>2
    <3>3. ~(\A d \in Callers : work'[d][p].stage \in {"none", "start"})
      BY <3>1
    <3> QED BY <2>2, <3>2, <3>3 DEF ProviderInv
  <2> QED BY <2>1, <2>2
<1> QED BY <1>1, <1>2, <1>5 DEF RegistryInv

LEMMA NoWorkFacts ==
  /\ NoWork \in WorkType /\ NoWork.stage = "none" /\ NoWork.rows = NoRows /\ NoWork.queue = {}
  /\ [NoWork EXCEPT !.stage = "start"] \in WorkType
  /\ [NoWork EXCEPT !.stage = "start"].stage = "start"
  /\ [NoWork EXCEPT !.stage = "start"].rows = NoRows /\ [NoWork EXCEPT !.stage = "start"].queue = {}
<1>1. PICK nv \in Int : nv = Never
  BY DEF Never
<1>2. PICK nr \in RowMaps : nr = NoRows
  BY NoRowsFacts
<1>3. NoWork = [stage |-> "none", at |-> nv, rows |-> nr, queue |-> {}, errors |-> FALSE, status |-> "none"]
  BY <1>1, <1>2 DEF NoWork
<1>4. NoWork \in WorkType /\ NoWork.stage = "none" /\ NoWork.rows = NoRows /\ NoWork.queue = {}
  BY <1>2, <1>3 DEF WorkType, SnapStates
<1>5. PICK n \in WorkType : n = NoWork
  BY <1>4
<1>6. /\ [n EXCEPT !.stage = "start"] \in WorkType
      /\ [n EXCEPT !.stage = "start"].stage = "start"
      /\ [n EXCEPT !.stage = "start"].rows = n.rows /\ [n EXCEPT !.stage = "start"].queue = n.queue
  BY DEF WorkType
<1> QED BY <1>4, <1>5, <1>6

LEMMA EmptyCardinality == Cardinality({}) = 0
BY FS_EmptySet

\* A fetch that ends at once, without rows.
LEMMA EndsAtOnce ==
  ASSUME RegistryInv, NEW c \in Callers, NEW p \in Providers, NEW st \in {"not_configured", "unavailable"},
         caller[c] = "fetch",
         work' = [work EXCEPT ![c][p] = [NoWork EXCEPT !.stage = "done", !.at = now, !.status = st]],
         UNCHANGED <<now, snapshots, refreshing, caller, entries, file, restarts, probed>>
  PROVE  RegistryInv'
<1> DEFINE k == [NoWork EXCEPT !.stage = "done", !.at = now, !.status = st]
<1>0. ProviderInv(p) /\ now \in Nat /\ snapshots[p] \in SnapType
  BY RegistryFacts
<1>1. PICK n \in WorkType : n = NoWork /\ n.rows = NoRows /\ n.queue = {}
  BY NoWorkFacts
<1>2. k \in WorkType
  <2>1. PICK t \in Int : t = now
    BY <1>0
  <2>2. PICK v \in SnapStates : v = st
    BY DEF SnapStates
  <2>3. [n EXCEPT !.stage = "done", !.at = t, !.status = v] \in WorkType
    BY DEF WorkType
  <2> QED BY <1>1, <2>1, <2>2, <2>3
<1>3. snapshots[p].at \in Int /\ now >= snapshots[p].at
  BY <1>0 DEF ProviderInv, SnapshotInv, Never, SnapType
<1>4. /\ k.stage = "done" /\ k.at = now /\ k.rows = NoRows /\ k.queue = {}
  BY <1>1 DEF WorkType
<1> HIDE DEF k
<1>5. ProbingInv(k, snapshots[p], probed[p], entries[p], now)
  BY <1>0, <1>3, <1>4, NoRowsFacts DEF ProbingInv, PlacesKept
<1>6. ValidationLimit \in Nat
  BY RegistryAssumption
<1>7. WorkInv(k, snapshots[p], probed[p], entries[p], now)
  BY <1>4, <1>5, <1>6, EmptyCardinality DEF WorkInv
<1>8. probed \in [Providers -> [Models -> [at : Int, outcome : Outcomes]]]
      /\ entries \in [Providers -> SUBSET Models] /\ file \in [Providers -> SUBSET Models]
  BY DEF RegistryInv, RegistryTypes
<1>9. SnapshotInv(snapshots[p], probed[p], entries[p], now) /\ ProbesInv(probed[p], now)
  BY <1>0 DEF ProviderInv
<1>10. work' = [work EXCEPT ![c][p] = k]
  BY DEF k
<1> QED BY <1>2, <1>4, <1>7, <1>8, <1>9, <1>10, ProviderStep

LEMMA FetchUnconfiguredInv ==
  ASSUME RegistryInv, NEW c \in Callers, NEW p \in Providers, FetchUnconfigured(c, p)
  PROVE  RegistryInv'
<1>1. PICK st \in {"not_configured", "unavailable"} : st = "not_configured"
  OBVIOUS
<1> QED BY <1>1, EndsAtOnce DEF FetchUnconfigured

LEMMA FetchInventoryInv ==
  ASSUME RegistryInv, NEW c \in Callers, NEW p \in Providers, NEW a \in Inventories,
         FetchInventory(c, p, a)
  PROVE  RegistryInv'
<1>1. PICK found : found = FetchProviderModels(a.main, a.codex) /\ found.errors \in BOOLEAN
                   /\ FreshRows(found.rows)
  BY FoundRows
<1>2. PICK rows : rows = WithDefault(found.rows) /\ FreshRows(rows)
  BY <1>1, WithDefaultFacts
<1>0. ProviderInv(p) /\ now \in Nat /\ snapshots[p] \in SnapType
  BY RegistryFacts
<1>3. snapshots[p].models \in RowMaps
  BY <1>0 DEF SnapType
<1>4. PICK merged : merged = Merged(p, rows) /\ MergedRows(p, merged)
  BY <1>2, <1>3, MergedFacts
<1>5. PICK plan : plan = ValidateDiscoveredModels(merged, now) /\ PlanOf(plan, merged, now)
  BY <1>0, <1>4, PlanFacts
<1>6. /\ caller[c] = "fetch" /\ work[c][p].stage = "start"
      /\ work' = [work EXCEPT ![c][p] =
           IF rows = NoRows
           THEN [NoWork EXCEPT !.stage = "done", !.at = now, !.status = "unavailable"]
           ELSE [stage |-> "probe", at |-> now, rows |-> plan.rows, queue |-> plan.queue,
                 errors |-> found.errors, status |-> "none"]]
      /\ UNCHANGED <<now, snapshots, refreshing, caller, entries, file, restarts, probed>>
  BY <1>1, <1>2, <1>4, <1>5 DEF FetchInventory
<1>7. CASE rows = NoRows
  <2>1. PICK st \in {"not_configured", "unavailable"} : st = "unavailable"
    OBVIOUS
  <2>2. work' = [work EXCEPT ![c][p] = [NoWork EXCEPT !.stage = "done", !.at = now, !.status = st]]
    BY <1>6, <1>7, <2>1
  <2> QED BY <1>6, <2>2, EndsAtOnce
<1>8. CASE rows # NoRows
  <2> DEFINE k == [stage |-> "probe", at |-> now, rows |-> plan.rows, queue |-> plan.queue,
                   errors |-> found.errors, status |-> "none"]
  <2>1. work' = [work EXCEPT ![c][p] = k]
    BY <1>6, <1>8
  <2>2. /\ plan.rows \in RowMaps /\ DOMAIN plan.rows = DOMAIN merged /\ PlacesKept(plan.rows)
        /\ \A m \in DOMAIN merged : /\ ~plan.rows[m].available
                                    /\ m \notin NotForTransport => plan.rows[m].next = merged[m].next
        /\ plan.queue \subseteq DOMAIN merged \ NotForTransport
        /\ \A m \in plan.queue : RegistrationDue(merged[m], now)
        /\ ValidationLimit # 0 => Cardinality(plan.queue) <= ValidationLimit
    BY <1>5 DEF PlanOf
  <2>3. DOMAIN merged \subseteq Models /\ \A m \in DOMAIN merged : merged[m].next = NextOf(p, m)
    BY <1>4, RowMapFacts DEF MergedRows
  <2>4. k \in WorkType
    BY <1>0, <1>1, <2>2, <2>3 DEF WorkType, SnapStates
  <2>5. k.stage = "probe" /\ k.at = now /\ k.rows = plan.rows /\ k.queue = plan.queue
    OBVIOUS
  <2> HIDE DEF k
  <2>6. snapshots[p].at \in Int /\ now >= snapshots[p].at
    BY <1>0 DEF ProviderInv, SnapshotInv, Never, SnapType
  <2>7. RestingInv(snapshots[p], probed[p]) /\ ProbesInv(probed[p], now)
        /\ SnapshotInv(snapshots[p], probed[p], entries[p], now)
    <3>1. \A d \in Callers : work[d][p].stage \in {"none", "start"}
      BY <1>0, <1>6 DEF RegistryInv, RefreshFlagOwned, ProviderInv
    <3> QED BY <1>0, <3>1 DEF ProviderInv
  <2>8. probed[p] \in [Models -> [at : Int, outcome : Outcomes]]
    BY RegistryFacts
  <2>9. RetryCooldown \in Nat /\ ConfirmationTTL \in Nat \ {0} /\ ValidationLimit \in Nat
    BY RegistryAssumption
  \* A failure worth retrying is remembered by the row.
  <2>10. ASSUME NEW m \in DOMAIN merged, probed[p][m].outcome = "retryable"
         PROVE  /\ m \notin NotForTransport /\ merged[m].next = probed[p][m].at + RetryCooldown
                /\ probed[p][m].at \in Nat
    <3>1. m \in Models /\ probed[p][m].outcome # "none"
      BY <2>3, <2>10
    <3>2. m \in DOMAIN snapshots[p].models /\ PauseKept(probed[p][m], snapshots[p].models[m])
      BY <2>7, <3>1 DEF RestingInv
    <3>3. probed[p][m].at \in Int /\ probed[p][m].at >= 0 /\ m \notin NotForTransport
      BY <2>7, <2>8, <3>1 DEF ProbesInv
    <3> QED BY <2>3, <2>10, <3>2, <3>3 DEF PauseKept, NextOf
  <2>11. ASSUME NEW m \in plan.queue PROVE ToProbe(m, k, snapshots[p], probed[p])
    <3>1. m \in DOMAIN merged /\ ~plan.rows[m].available
      BY <2>2
    <3>2. merged[m].next = Never \/ now >= merged[m].next
      BY <2>2 DEF RegistrationDue
    <3>3. probed[p][m].outcome = "retryable" => now >= probed[p][m].at + RetryCooldown
      BY <2>9, <2>10, <3>1, <3>2 DEF Never
    <3>4. ASSUME m \in DOMAIN snapshots[p].models, snapshots[p].models[m].available
          PROVE  now > snapshots[p].at
      <4>1. merged[m].next = snapshots[p].models[m].next
        BY <2>3, <3>1, <3>4 DEF NextOf
      <4>2. RowSince(snapshots[p].models[m], snapshots[p].at)
        BY <2>7, <3>4 DEF SnapshotInv
      <4>3. snapshots[p].models[m] \in RowType
        BY <1>3, <3>4, RowMapFacts
      <4>4. PICK su \in Int : su = snapshots[p].models[m].success
        BY <4>3 DEF RowType
      <4>5. su >= snapshots[p].at /\ su >= 0 /\ merged[m].next = su + ConfirmationTTL
        BY <3>4, <4>1, <4>2, <4>4 DEF RowSince
      <4> QED BY <1>0, <2>6, <2>9, <3>2, <4>5 DEF Never
    <3> QED BY <2>5, <3>1, <3>3, <3>4 DEF ToProbe
  <2>12. ASSUME NEW m \in DOMAIN merged PROVE InRefresh(m, k, probed[p], entries[p])
    <3>1. ~plan.rows[m].available
      BY <2>2
    <3>2. PauseKept(probed[p][m], plan.rows[m])
      BY <2>2, <2>10 DEF PauseKept
    <3> QED BY <2>5, <3>1, <3>2 DEF InRefresh, RowSince
  <2>13. ProbingInv(k, snapshots[p], probed[p], entries[p], now)
    BY <1>0, <2>2, <2>5, <2>6, <2>11, <2>12 DEF ProbingInv
  <2>14. WorkInv(k, snapshots[p], probed[p], entries[p], now)
    BY <2>2, <2>5, <2>13 DEF WorkInv
  <2>15. probed \in [Providers -> [Models -> [at : Int, outcome : Outcomes]]]
         /\ entries \in [Providers -> SUBSET Models] /\ file \in [Providers -> SUBSET Models]
    BY DEF RegistryInv, RegistryTypes
  <2> QED BY <1>6, <2>1, <2>4, <2>5, <2>7, <2>14, <2>15, ProviderStep
<1> QED BY <1>7, <1>8

\* One probe: the outcome is in the row and in the record of probes.
LEMMA ProbeModelInv ==
  ASSUME RegistryInv, NEW c \in Callers, NEW p \in Providers, NEW reply \in Replies,
         ProbeModel(c, p, reply)
  PROVE  /\ RegistryInv'
         /\ \E m \in work[c][p].queue :
              /\ m \in Models
              /\ probed' = [probed EXCEPT ![p][m] = [at |-> work[c][p].at, outcome |-> Outcome(reply)]]
<1>1. PICK w \in WorkType : w = work[c][p]
  BY RegistryFacts
<1>2. PICK o \in {"ok", "retryable", "permanent"} : o = Outcome(reply)
  BY DEF Outcome
<1>3. w.queue \in SUBSET Models /\ w.rows \in RowMaps /\ w.at \in Int
  BY DEF WorkType
<1>4. caller[c] = "fetch" /\ w.stage = "probe" /\ w.queue # {}
  BY <1>1 DEF ProbeModel
<1>5. PICK m \in w.queue : m = FirstQueued(w.queue)
  BY <1>3, <1>4, FirstQueuedFacts
<1>6. m \in Models
  BY <1>3, <1>5
<1> DEFINE row == IF o = "ok" THEN MarkModelConfirmed(w.rows[m], now)
                  ELSE MarkModelFailure(w.rows[m], o, w.at)
           rows == [w.rows EXCEPT ![m] = row]
           k == [w EXCEPT !.queue = w.queue \ {m}, !.rows = rows]
           pr == [probed[p] EXCEPT ![m] = [at |-> w.at, outcome |-> o]]
<1>7. /\ work' = [work EXCEPT ![c][p] = k]
      /\ probed' = [probed EXCEPT ![p][m] = [at |-> w.at, outcome |-> o]]
      /\ UNCHANGED <<now, snapshots, refreshing, caller, entries, file, restarts>>
  BY <1>1, <1>2, <1>5 DEF ProbeModel
<1>8. /\ ProviderInv(p) /\ now \in Nat /\ snapshots[p] \in SnapType
      /\ probed[p] \in [Models -> [at : Int, outcome : Outcomes]]
  BY RegistryFacts
<1>9. /\ WorkInv(w, snapshots[p], probed[p], entries[p], now)
      /\ SnapshotInv(snapshots[p], probed[p], entries[p], now) /\ ProbesInv(probed[p], now)
  BY <1>1, <1>8 DEF ProviderInv
<1>10. ProbingInv(w, snapshots[p], probed[p], entries[p], now)
  BY <1>4, <1>9 DEF WorkInv
<1>11. /\ w.at \in 0..now /\ w.at >= snapshots[p].at /\ PlacesKept(w.rows)
       /\ w.queue \subseteq DOMAIN w.rows \ NotForTransport
       /\ \A n \in w.queue : ToProbe(n, w, snapshots[p], probed[p])
       /\ \A n \in DOMAIN w.rows : InRefresh(n, w, probed[p], entries[p])
  BY <1>10 DEF ProbingInv
<1>12. PICK old \in RowType : old = w.rows[m]
  BY <1>3, <1>5, <1>11, RowMapFacts
<1>13. RetryCooldown \in Nat /\ ConfirmationTTL \in Nat
  BY RegistryAssumption
<1>14. /\ row \in RowType /\ row.status # "registration_queued"
       /\ row.available <=> o = "ok"
       /\ RowSince(row, w.at)
       /\ o = "retryable" => row.next = w.at + RetryCooldown
  <2>1. CASE o = "ok"
    <3>1. PICK t \in Int : t = now
      BY <1>8
    <3>2. PICK e \in Int : e = now + ConfirmationTTL
      BY <1>8, <1>13
    <3>3. PICK z \in Nat : z = 0
      OBVIOUS
    <3>4. row = [old EXCEPT !.available = TRUE, !.status = "ready", !.inventory = "verified",
                            !.verification = "confirmed", !.position = z, !.success = t,
                            !.expires = e, !.next = e]
      BY <1>12, <2>1, <3>1, <3>2, <3>3 DEF MarkModelConfirmed
    <3> HIDE DEF row
    <3>5. row \in RowType /\ row.available = TRUE /\ row.status = "ready" /\ row.inventory = "verified"
          /\ row.success = t /\ row.expires = e /\ row.next = e
      <4>1. row \in RowType
        BY <3>4 DEF RowType, Statuses
      <4>2. row.available = TRUE /\ row.status = "ready" /\ row.inventory = "verified"
        BY <3>4 DEF RowType
      <4>3. row.success = t /\ row.expires = e /\ row.next = e
        BY <3>4 DEF RowType
      <4> QED BY <4>1, <4>2, <4>3
    <3>6. t >= w.at /\ t >= 0 /\ e = t + ConfirmationTTL
      BY <1>3, <1>8, <1>11, <3>1, <3>2
    <3> QED BY <2>1, <3>5, <3>6 DEF RowSince
  <2>2. CASE o = "retryable"
    <3>1. PICK e \in Int : e = w.at + RetryCooldown
      BY <1>3, <1>13
    <3>2. PICK z \in Nat : z = 0
      OBVIOUS
    <3>3. row = [old EXCEPT !.available = FALSE, !.status = "verification_cooldown",
                            !.verification = "verifying", !.position = z, !.next = e]
      BY <1>12, <2>2, <3>1, <3>2 DEF MarkModelFailure
    <3> HIDE DEF row
    <3>4. row \in RowType /\ row.available = FALSE /\ row.status = "verification_cooldown" /\ row.next = e
      BY <3>3 DEF RowType, Statuses
    <3> QED BY <2>2, <3>1, <3>4 DEF RowSince
  <2>3. CASE o = "permanent"
    <3>1. PICK e \in Int : e = Never
      BY DEF Never
    <3>2. PICK z \in Nat : z = 0
      OBVIOUS
    <3>3. row = [old EXCEPT !.available = FALSE, !.status = "validation_failed",
                            !.verification = "unconfirmed", !.position = z, !.next = e]
      BY <1>12, <2>3, <3>1, <3>2 DEF MarkModelFailure
    <3> HIDE DEF row
    <3>4. row \in RowType /\ row.available = FALSE /\ row.status = "validation_failed"
      BY <3>3 DEF RowType, Statuses
    <3> QED BY <2>3, <3>4 DEF RowSince
  <2> QED BY <2>1, <2>2, <2>3
<1> HIDE DEF row
<1>15. /\ DOMAIN rows = DOMAIN w.rows /\ rows[m] = row
       /\ \A n \in DOMAIN w.rows \ {m} : rows[n] = w.rows[n]
  BY <1>5, <1>11
<1>16. rows \in RowMaps
  <2>1. DOMAIN w.rows \in SUBSET Models /\ w.rows \in [DOMAIN w.rows -> RowType]
    BY <1>3, RowMapFacts
  <2>2. rows \in [DOMAIN w.rows -> RowType]
    BY <1>14, <2>1
  <2> HIDE DEF rows
  <2> QED BY <2>1, <2>2, RowMapIntro
<1> HIDE DEF rows
<1>17. /\ k \in WorkType /\ k.stage = "probe" /\ k.at = w.at /\ k.rows = rows
       /\ k.queue = w.queue \ {m}
  BY <1>3, <1>4, <1>16 DEF WorkType
<1> HIDE DEF k
<1>18. pr[m].at = w.at /\ pr[m].outcome = o /\ \A n \in Models \ {m} : pr[n] = probed[p][n]
  BY <1>6, <1>8
<1>19. pr \in [Models -> [at : Int, outcome : Outcomes]]
  BY <1>3, <1>8 DEF Outcomes
<1>20. /\ probed \in [Providers -> [Models -> [at : Int, outcome : Outcomes]]]
       /\ entries \in [Providers -> SUBSET Models] /\ file \in [Providers -> SUBSET Models]
  BY DEF RegistryInv, RegistryTypes
<1>21. /\ probed'[p] = pr /\ \A q \in Providers \ {p} : probed'[q] = probed[q]
       /\ probed' = [probed EXCEPT ![p] = pr]
  BY <1>7, <1>20
<1> HIDE DEF pr
<1>22. probed' \in [Providers -> [Models -> [at : Int, outcome : Outcomes]]]
  BY <1>19, <1>20, <1>21
<1>23. ProbesInv(pr, now)
  <2> SUFFICES ASSUME NEW n \in Models
               PROVE  /\ pr[n].at \in Never..now
                      /\ pr[n].outcome # "none" => pr[n].at >= 0 /\ n \notin NotForTransport
    BY DEF ProbesInv
  <2>1. CASE n = m
    BY <1>3, <1>5, <1>8, <1>11, <1>18, <2>1 DEF Never
  <2>2. CASE n # m
    BY <1>9, <1>18, <2>2 DEF ProbesInv
  <2> QED BY <2>1, <2>2
<1>24. SnapshotInv(snapshots[p], pr, entries[p], now)
  <2> DEFINE s == snapshots[p]
  <2>1. s.at \in Never..now /\ PlacesKept(s.models)
    BY <1>9 DEF SnapshotInv
  <2>2. ASSUME NEW n \in DOMAIN s.models
        PROVE  /\ RowSince(s.models[n], s.at)
               /\ s.models[n].available => /\ n \in entries[p]
                                           /\ pr[n].outcome = "ok" \/ pr[n].at > s.at
    <3>1. /\ RowSince(s.models[n], s.at)
          /\ s.models[n].available => /\ n \in entries[p]
                                      /\ probed[p][n].outcome = "ok" \/ probed[p][n].at > s.at
      BY <1>9, <2>2 DEF SnapshotInv
    <3>2. CASE n # m
      <4>1. n \in Models
        BY <1>8, <2>2, RowMapFacts DEF SnapType
      <4>2. pr[n] = probed[p][n]
        BY <1>18, <3>2, <4>1
      <4> QED BY <3>1, <4>2
    <3>3. CASE n = m
      <4>1. s.models[n].available => w.at > s.at
        BY <1>11, <2>2, <3>3 DEF ToProbe
      <4> QED BY <1>18, <3>1, <3>3, <4>1
    <3> QED BY <3>2, <3>3
  <2> HIDE DEF s
  <2>3. SnapshotInv(s, pr, entries[p], now)
    BY <2>1, <2>2 DEF SnapshotInv
  <2> QED BY <2>3 DEF s
<1>25. ProbingInv(k, snapshots[p], pr, entries[p], now)
  <2>1. PlacesKept(rows)
    BY <1>11, <1>14, <1>15 DEF PlacesKept
  <2>2. ASSUME NEW n \in w.queue \ {m} PROVE ToProbe(n, k, snapshots[p], pr)
    <3>1. n \in DOMAIN w.rows /\ n \in Models /\ ToProbe(n, w, snapshots[p], probed[p])
      BY <1>3, <1>11
    <3>2. rows[n] = w.rows[n] /\ pr[n] = probed[p][n]
      BY <1>15, <1>18, <3>1
    <3> QED BY <1>17, <3>1, <3>2 DEF ToProbe
  <2>3. ASSUME NEW n \in DOMAIN rows PROVE InRefresh(n, k, pr, entries[p])
    <3>1. CASE n = m
      <4>1. PauseKept(pr[m], row)
        BY <1>14, <1>18 DEF PauseKept
      <4> QED BY <1>14, <1>15, <1>17, <1>18, <3>1, <4>1 DEF InRefresh
    <3>2. CASE n # m
      <4>1. n \in DOMAIN w.rows /\ n \in Models /\ rows[n] = w.rows[n]
        BY <1>3, <1>15, <3>2, RowMapFacts
      <4>2. pr[n] = probed[p][n] /\ InRefresh(n, w, probed[p], entries[p])
        BY <1>11, <1>18, <3>2, <4>1
      <4> QED BY <1>4, <1>17, <3>2, <4>1, <4>2 DEF InRefresh
    <3> QED BY <3>1, <3>2
  <2>4. w.queue \ {m} \subseteq DOMAIN rows \ NotForTransport
    BY <1>11, <1>15
  <2> QED BY <1>11, <1>17, <2>1, <2>2, <2>3, <2>4 DEF ProbingInv
<1>26. ValidationLimit # 0 => Cardinality(w.queue \ {m}) <= ValidationLimit
  <2>1. IsFiniteSet(w.queue)
    BY <1>3, ModelsFinite, FS_Subset
  <2>2. IsFiniteSet(w.queue \ {m}) /\ Cardinality(w.queue \ {m}) <= Cardinality(w.queue)
    BY <2>1, FS_Subset
  <2>3. Cardinality(w.queue) \in Nat /\ Cardinality(w.queue \ {m}) \in Nat /\ ValidationLimit \in Nat
    BY <2>1, <2>2, FS_CardinalityType, RegistryAssumption
  <2>4. ValidationLimit # 0 => Cardinality(w.queue) <= ValidationLimit
    BY <1>9 DEF WorkInv
  <2> QED BY <2>2, <2>3, <2>4
<1>27. WorkInv(k, snapshots[p], pr, entries[p], now)
  BY <1>17, <1>25, <1>26 DEF WorkInv
<1>28. RegistryInv'
  BY <1>4, <1>7, <1>17, <1>20, <1>21, <1>22, <1>23, <1>24, <1>27, ProviderStep
<1> QED BY <1>1, <1>2, <1>5, <1>6, <1>7, <1>28

\* The end of a provider's fetch: the rows are filtered and the catalogue grows.
LEMMA CompleteSnapshotInv ==
  ASSUME RegistryInv, NEW c \in Callers, NEW p \in Providers, NEW written \in BOOLEAN,
         CompleteSnapshot(c, p, written)
  PROVE  RegistryInv'
<1>1. PICK w \in WorkType : w = work[c][p]
  BY RegistryFacts
<1>2. PICK rows : rows = CatalogFilter(p, w.rows)
  OBVIOUS
<1>3. w.queue \in SUBSET Models /\ w.rows \in RowMaps /\ w.at \in Int
  BY DEF WorkType
<1>4. PICK st \in SnapStates : st = SnapshotStatus(rows, w.errors)
  BY DEF SnapshotStatus, SnapStates
<1> DEFINE k == [w EXCEPT !.stage = "done", !.rows = rows, !.status = st]
           listed == entries[p] \cup CatalogAdds(rows)
<1>5. /\ caller[c] = "fetch" /\ w.stage = "probe" /\ w.queue = {}
      /\ entries' = [entries EXCEPT ![p] = listed]
      /\ file' = IF written THEN entries' ELSE file
      /\ work' = [work EXCEPT ![c][p] = k]
      /\ UNCHANGED <<now, snapshots, refreshing, caller, restarts, probed>>
  BY <1>1, <1>2, <1>4 DEF CompleteSnapshot
<1>6. /\ ProviderInv(p) /\ now \in Nat /\ entries[p] \subseteq Models
  BY RegistryFacts
<1>7. /\ DOMAIN rows \subseteq DOMAIN w.rows /\ \A m \in DOMAIN rows : rows[m] = w.rows[m]
      /\ rows \in RowMaps
  <2>0. DOMAIN w.rows \subseteq Models /\ \A m \in DOMAIN w.rows : w.rows[m] \in RowType
    BY <1>3, RowMapFacts
  <2>1. CASE entries[p] = {}
    BY <1>2, <1>3, <2>1 DEF CatalogFilter
  <2>2. CASE entries[p] # {}
    <3>1. rows = [m \in DOMAIN w.rows \cap entries[p] |-> w.rows[m]]
      BY <1>2, <2>2 DEF CatalogFilter
    <3>2. (DOMAIN w.rows \cap entries[p]) \in SUBSET Models
          /\ rows \in [DOMAIN w.rows \cap entries[p] -> RowType]
      BY <2>0, <3>1
    <3> QED BY <3>1, <3>2, RowMapIntro
  <2> QED BY <2>1, <2>2
<1>8. /\ k \in WorkType /\ k.stage = "done" /\ k.at = w.at /\ k.rows = rows /\ k.queue = {}
  BY <1>5, <1>7 DEF WorkType
<1> HIDE DEF k
<1>9. /\ probed \in [Providers -> [Models -> [at : Int, outcome : Outcomes]]]
      /\ entries \in [Providers -> SUBSET Models] /\ file \in [Providers -> SUBSET Models]
  BY DEF RegistryInv, RegistryTypes
<1>10. listed \subseteq Models
  BY <1>6, <1>7, RowMapFacts DEF CatalogAdds
<1>11. /\ entries' \in [Providers -> SUBSET Models] /\ entries'[p] = listed
       /\ \A q \in Providers \ {p} : entries'[q] = entries[q]
  BY <1>5, <1>9, <1>10
<1>12. file' \in [Providers -> SUBSET Models]
  BY <1>5, <1>9, <1>11
<1>13. /\ WorkInv(w, snapshots[p], probed[p], entries[p], now)
       /\ SnapshotInv(snapshots[p], probed[p], entries[p], now) /\ ProbesInv(probed[p], now)
  BY <1>1, <1>6 DEF ProviderInv
<1>14. ProbingInv(w, snapshots[p], probed[p], entries[p], now)
  BY <1>5, <1>13 DEF WorkInv
<1>15. /\ w.at \in 0..now /\ w.at >= snapshots[p].at /\ PlacesKept(w.rows)
       /\ \A n \in DOMAIN w.rows : InRefresh(n, w, probed[p], entries[p])
  BY <1>14 DEF ProbingInv
<1>16. SnapshotInv(snapshots[p], probed[p], listed, now)
  BY <1>13 DEF SnapshotInv
<1>17. ASSUME NEW m \in DOMAIN rows PROVE InRefresh(m, k, probed[p], listed)
  <2>1. InRefresh(m, w, probed[p], entries[p]) /\ rows[m] = w.rows[m]
    BY <1>7, <1>15
  <2>2. rows[m].available => m \in CatalogAdds(rows)
    BY <2>1 DEF InRefresh, RowSince, CatalogAdds
  <2> QED BY <1>5, <1>8, <2>1, <2>2 DEF InRefresh
<1>18. PlacesKept(rows)
  BY <1>7, <1>15 DEF PlacesKept
<1>19. ProbingInv(k, snapshots[p], probed[p], listed, now)
  BY <1>8, <1>15, <1>17, <1>18 DEF ProbingInv
<1>20. ValidationLimit \in Nat
  BY RegistryAssumption
<1>21. WorkInv(k, snapshots[p], probed[p], listed, now)
  BY <1>8, <1>19, <1>20, EmptyCardinality DEF WorkInv
<1> HIDE DEF listed
<1> QED BY <1>5, <1>8, <1>9, <1>11, <1>12, <1>13, <1>16, <1>21, ProviderStep

-----------------------------------------------------------------------------
(* The beginning and the end of a refresh, time and restarts.              *)

\* All providers of a caller at once, with nothing in their queues.
LEMMA IdleWorkInv ==
  ASSUME NEW w, NEW s, NEW probes, NEW listed, NEW time,
         w.stage \in {"none", "start"}, w.queue = {}
  PROVE  WorkInv(w, s, probes, listed, time)
<1>1. ValidationLimit \in Nat
  BY RegistryAssumption
<1> QED BY <1>1, EmptyCardinality DEF WorkInv

LEMMA BeginRefreshInv ==
  ASSUME RegistryInv, NEW c \in Callers, NEW force \in BOOLEAN, BeginRefresh(c, force)
  PROVE  RegistryInv'
<1>1. PICK n \in WorkType : n = [NoWork EXCEPT !.stage = "start"] /\ n.stage = "start" /\ n.queue = {}
  BY NoWorkFacts
<1>2. /\ caller[c] = "idle" /\ refreshing = FALSE /\ refreshing' = TRUE
      /\ caller' = [caller EXCEPT ![c] = "fetch"]
      /\ work' = [work EXCEPT ![c] = [p \in Providers |-> n]]
      /\ UNCHANGED <<now, snapshots, entries, file, restarts, probed>>
  BY <1>1 DEF BeginRefresh, RegistryInv, RegistryTypes
<1>3. \A d \in Callers : caller[d] = "idle"
  BY <1>2 DEF RegistryInv, RefreshFlagOwned, RegistryTypes
<1>4. \A d \in Callers : caller'[d] = IF d = c THEN "fetch" ELSE "idle"
  BY <1>2, <1>3 DEF RegistryInv, RegistryTypes
<1>5. RegistryTypes'
  <2>1. work' \in [Callers -> [Providers -> WorkType]]
    BY <1>2 DEF RegistryInv, RegistryTypes
  <2>2. caller' \in [Callers -> {"idle", "fetch", "finish"}]
    BY <1>2 DEF RegistryInv, RegistryTypes
  <2> QED BY <1>2, <2>1, <2>2 DEF RegistryInv, RegistryTypes
<1>6. RefreshFlagOwned'
  BY <1>2, <1>4 DEF RefreshFlagOwned
<1>7. ASSUME NEW p \in Providers PROVE ProviderInv(p)'
  <2>0. ProviderInv(p)
    BY DEF RegistryInv
  <2>1. \A d \in Callers : work'[d][p] = IF d = c THEN n ELSE work[d][p]
    BY <1>2 DEF RegistryInv, RegistryTypes
  <2>2. \A d \in Callers : work[d][p].stage = "none"
    BY <1>3, <2>0 DEF ProviderInv
  <2>3. RestingInv(snapshots[p], probed[p])
    BY <2>0, <2>2 DEF ProviderInv
  <2>4. ASSUME NEW d \in Callers
        PROVE  /\ WorkInv(work'[d][p], snapshots[p], probed[p], entries[p], now)
               /\ (work'[d][p].stage = "none" <=> caller'[d] # "fetch")
    <3>1. CASE d = c
      <4>1. work'[d][p] = n /\ caller'[d] = "fetch"
        BY <1>4, <2>1, <3>1
      <4>2. WorkInv(n, snapshots[p], probed[p], entries[p], now)
        <5>1. n.stage \in {"none", "start"} /\ n.queue = {}
          BY <1>1
        <5> QED BY <5>1, IdleWorkInv
      <4> QED BY <1>1, <4>1, <4>2
    <3>2. CASE d # c
      BY <1>4, <2>0, <2>1, <2>2, <3>2 DEF ProviderInv
    <3> QED BY <3>1, <3>2
  <2> QED BY <1>2, <2>0, <2>3, <2>4 DEF ProviderInv
<1> QED BY <1>5, <1>6, <1>7 DEF RegistryInv

LEMMA FinishRefreshInv ==
  ASSUME RegistryInv, NEW c \in Callers, FinishRefresh(c)
  PROVE  RegistryInv'
<1>1. /\ caller[c] = "finish" /\ refreshing' = FALSE
      /\ caller' = [caller EXCEPT ![c] = "idle"]
      /\ UNCHANGED <<now, snapshots, work, entries, file, restarts, probed>>
  BY DEF FinishRefresh
<1>2. \A d \in Callers : (caller[d] = "idle" \/ d = c)
  BY <1>1 DEF RegistryInv, RefreshFlagOwned
<1>3. \A d \in Callers : caller'[d] = "idle"
  BY <1>1, <1>2 DEF RegistryInv, RegistryTypes
<1>4. RegistryTypes'
  <2>1. caller' \in [Callers -> {"idle", "fetch", "finish"}]
    BY <1>1 DEF RegistryInv, RegistryTypes
  <2> QED BY <1>1, <2>1 DEF RegistryInv, RegistryTypes
<1>5. RefreshFlagOwned'
  BY <1>1, <1>3 DEF RefreshFlagOwned
<1>6. \A d \in Callers : (caller'[d] # "fetch") <=> (caller[d] # "fetch")
  BY <1>1, <1>2, <1>3
<1>7. ASSUME NEW p \in Providers PROVE ProviderInv(p)'
  <2>0. ProviderInv(p)
    BY DEF RegistryInv
  <2> QED BY <1>1, <1>6, <2>0 DEF ProviderInv
<1> QED BY <1>4, <1>5, <1>7 DEF RegistryInv

\* Publishing: the rows of the refresh become the snapshot.
LEMMA PublishSnapshotsInv ==
  ASSUME RegistryInv, NEW c \in Callers, PublishSnapshots(c)
  PROVE  RegistryInv' /\ \A p \in Providers : snapshots'[p].at >= snapshots[p].at
<1>1. PICK n \in WorkType : n = NoWork /\ n.stage = "none" /\ n.queue = {}
  BY NoWorkFacts
<1>2. /\ caller[c] = "fetch" /\ (\A p \in Providers : work[c][p].stage = "done")
      /\ snapshots' = [p \in Providers |-> [at |-> work[c][p].at, status |-> work[c][p].status,
                                            models |-> work[c][p].rows]]
      /\ probed' = [p \in Providers |-> [m \in Models |->
                      IF m \in DOMAIN work[c][p].rows THEN probed[p][m] ELSE NoProbe]]
      /\ work' = [work EXCEPT ![c] = [p \in Providers |-> n]]
      /\ caller' = [caller EXCEPT ![c] = "finish"]
      /\ UNCHANGED <<now, refreshing, entries, file, restarts>>
  BY <1>1 DEF PublishSnapshots
<1>3. \A d \in Callers \ {c} : caller[d] = "idle"
  BY <1>2 DEF RegistryInv, RefreshFlagOwned
<1>4. \A d \in Callers : caller'[d] = IF d = c THEN "finish" ELSE "idle"
  BY <1>2, <1>3 DEF RegistryInv, RegistryTypes
<1>5. \A p \in Providers : work[c][p] \in WorkType
  BY DEF RegistryInv, RegistryTypes
<1>6. \A p \in Providers :
        /\ snapshots'[p] \in SnapType /\ snapshots'[p].at = work[c][p].at
        /\ snapshots'[p].models = work[c][p].rows
  BY <1>2, <1>5 DEF WorkType, SnapType
<1>7. NoProbe \in [at : Int, outcome : Outcomes] /\ NoProbe.at = -1 /\ NoProbe.outcome = "none"
  BY DEF NoProbe, Never, Outcomes
<1>8. probed \in [Providers -> [Models -> [at : Int, outcome : Outcomes]]]
  BY DEF RegistryInv, RegistryTypes
<1>9. probed' \in [Providers -> [Models -> [at : Int, outcome : Outcomes]]]
  BY <1>2, <1>7, <1>8
<1>10. RegistryTypes'
  <2>1. work' \in [Callers -> [Providers -> WorkType]]
    BY <1>2 DEF RegistryInv, RegistryTypes
  <2>2. caller' \in [Callers -> {"idle", "fetch", "finish"}]
    BY <1>2 DEF RegistryInv, RegistryTypes
  <2>3. snapshots' \in [Providers -> SnapType]
    BY <1>2, <1>6
  <2> QED BY <1>2, <1>9, <2>1, <2>2, <2>3 DEF RegistryInv, RegistryTypes
<1>11. RefreshFlagOwned'
  <2>1. \E d \in Callers : caller[d] # "idle"
    BY <1>2
  <2>2. refreshing
    BY <2>1 DEF RegistryInv, RefreshFlagOwned
  <2> QED BY <1>2, <1>4, <2>2 DEF RefreshFlagOwned
<1>12. ASSUME NEW p \in Providers
       PROVE  ProviderInv(p)' /\ snapshots'[p].at >= snapshots[p].at
  <2> DEFINE pr == probed'[p]
  <2>0. ProviderInv(p) /\ now \in Nat
    BY RegistryFacts
  <2>1. PICK w \in WorkType : w = work[c][p]
    BY <1>5
  <2>2. WorkInv(w, snapshots[p], probed[p], entries[p], now) /\ ProbesInv(probed[p], now)
    BY <2>0, <2>1 DEF ProviderInv
  <2>3. w.stage = "done" /\ w.queue = {} /\ ProbingInv(w, snapshots[p], probed[p], entries[p], now)
    BY <1>2, <2>1, <2>2 DEF WorkInv
  <2>4. /\ w.at \in 0..now /\ w.at >= snapshots[p].at /\ PlacesKept(w.rows)
        /\ \A m \in DOMAIN w.rows : InRefresh(m, w, probed[p], entries[p])
    BY <2>3 DEF ProbingInv
  <2>5. DOMAIN w.rows \subseteq Models
    BY RowMapFacts DEF WorkType
  <2>6. \A m \in Models : pr[m] = IF m \in DOMAIN w.rows THEN probed[p][m] ELSE NoProbe
    BY <1>2, <2>1
  <2> HIDE DEF pr
  <2>7. snapshots'[p].at = w.at /\ snapshots'[p].models = w.rows
    BY <1>6, <2>1
  <2>8. SnapshotInv(snapshots'[p], pr, entries[p], now)
    <3>1. ASSUME NEW m \in DOMAIN w.rows
          PROVE  /\ RowSince(w.rows[m], w.at)
                 /\ w.rows[m].available => m \in entries[p] /\ pr[m].outcome = "ok"
      BY <2>3, <2>4, <2>5, <2>6 DEF InRefresh
    <3> QED BY <2>4, <2>7, <3>1, <2>0 DEF SnapshotInv, Never
  <2>9. ProbesInv(pr, now)
    <3> SUFFICES ASSUME NEW m \in Models
                 PROVE  /\ pr[m].at \in Never..now
                        /\ pr[m].outcome # "none" => pr[m].at >= 0 /\ m \notin NotForTransport
      BY DEF ProbesInv
    <3>1. CASE m \in DOMAIN w.rows
      BY <2>2, <2>6, <3>1 DEF ProbesInv
    <3>2. CASE m \notin DOMAIN w.rows
      <4>1. pr[m] = NoProbe
        BY <2>6, <3>2
      <4> QED BY <1>7, <2>0, <4>1 DEF Never
    <3> QED BY <3>1, <3>2
  <2>10. RestingInv(snapshots'[p], pr)
    <3> SUFFICES ASSUME NEW m \in Models, pr[m].outcome # "none"
                 PROVE  m \in DOMAIN w.rows /\ PauseKept(pr[m], w.rows[m])
      BY <2>7 DEF RestingInv
    <3>1. m \in DOMAIN w.rows /\ pr[m] = probed[p][m]
      BY <1>7, <2>6
    <3>2. InRefresh(m, w, probed[p], entries[p])
      BY <2>4, <3>1
    <3> QED BY <2>3, <3>1, <3>2 DEF InRefresh
  <2>11. ASSUME NEW d \in Callers
         PROVE  /\ work'[d][p].stage = "none"
                /\ WorkInv(work'[d][p], snapshots'[p], pr, entries[p], now)
    <3>1. CASE d = c
      <4>1. work'[d][p] = n
        BY <1>2, <3>1 DEF RegistryInv, RegistryTypes
      <4> QED BY <1>1, <4>1, IdleWorkInv
    <3>2. CASE d # c
      <4>1. work'[d][p] = work[d][p]
        BY <1>2, <3>2 DEF RegistryInv, RegistryTypes
      <4>2. work[d][p].stage = "none"
        BY <1>3, <2>0, <3>2 DEF ProviderInv
      <4>3. work[d][p].queue = {}
        BY <2>0, <4>2 DEF ProviderInv, WorkInv
      <4> QED BY <4>1, <4>2, <4>3, IdleWorkInv
    <3> QED BY <3>1, <3>2
  <2>12. \A d \in Callers : caller'[d] # "fetch"
    BY <1>4
  <2>13. ProviderInv(p)'
    BY <1>2, <2>8, <2>9, <2>10, <2>11, <2>12 DEF ProviderInv, pr
  <2> QED BY <2>4, <2>7, <2>13
<1> QED BY <1>10, <1>11, <1>12 DEF RegistryInv

LEMMA TickInv ==
  ASSUME RegistryInv, Tick
  PROVE  RegistryInv'
<1>1. now \in Nat /\ now' = now + 1 /\ now' \in 0..MaxTime
      /\ UNCHANGED <<snapshots, refreshing, work, caller, entries, file, restarts, probed>>
  BY RegistryAssumption DEF Tick, RegistryInv, RegistryTypes
<1>2. RegistryTypes' /\ RefreshFlagOwned'
  BY <1>1 DEF RegistryInv, RegistryTypes, RefreshFlagOwned
<1>3. ASSUME NEW p \in Providers PROVE ProviderInv(p)'
  <2>0. ProviderInv(p)
    BY DEF RegistryInv
  <2>1. SnapshotInv(snapshots[p], probed[p], entries[p], now')
    <3>1. snapshots[p].at \in Never..now'
      BY <1>1, <2>0 DEF ProviderInv, SnapshotInv, Never
    <3> QED BY <2>0, <3>1 DEF ProviderInv, SnapshotInv
  <2>2. ProbesInv(probed[p], now')
    <3>1. \A m \in Models : probed[p][m].at \in Never..now'
      BY <1>1, <2>0 DEF ProviderInv, ProbesInv, Never
    <3> QED BY <2>0, <3>1 DEF ProviderInv, ProbesInv
  <2>3. ASSUME NEW c \in Callers
        PROVE  WorkInv(work[c][p], snapshots[p], probed[p], entries[p], now')
    <3>1. WorkInv(work[c][p], snapshots[p], probed[p], entries[p], now)
      BY <2>0 DEF ProviderInv
    <3>2. work[c][p].at \in 0..now => work[c][p].at \in 0..now'
      BY <1>1
    <3>3. ProbingInv(work[c][p], snapshots[p], probed[p], entries[p], now)
            => ProbingInv(work[c][p], snapshots[p], probed[p], entries[p], now')
      BY <3>2 DEF ProbingInv
    <3> QED BY <3>1, <3>3 DEF WorkInv
  <2> QED BY <1>1, <2>0, <2>1, <2>2, <2>3 DEF ProviderInv
<1> QED BY <1>2, <1>3 DEF RegistryInv

NothingKnown ==
  /\ now \in 0..MaxTime /\ restarts \in 0..MaxRestarts
  /\ entries \in [Providers -> SUBSET Models] /\ file \in [Providers -> SUBSET Models]
  /\ snapshots = [p \in Providers |-> NoSnapshot] /\ refreshing = FALSE
  /\ work = [c \in Callers |-> [p \in Providers |-> NoWork]]
  /\ caller = [c \in Callers |-> "idle"]
  /\ probed = [p \in Providers |-> [m \in Models |-> NoProbe]]

\* A process that has just started, with whatever catalogue.
LEMMA StartInv == NothingKnown => RegistryInv
<1> SUFFICES ASSUME NothingKnown PROVE RegistryInv
  OBVIOUS
<1>1. NoWork \in WorkType /\ NoWork.stage = "none" /\ NoWork.queue = {}
  BY NoWorkFacts
<1>2. NoProbe \in [at : Int, outcome : Outcomes] /\ NoProbe.at = -1 /\ NoProbe.outcome = "none"
  BY DEF NoProbe, Never, Outcomes
<1>3. NoSnapshot \in SnapType /\ NoSnapshot.at = -1 /\ NoSnapshot.models = NoRows
  <2>1. PICK nr \in RowMaps : nr = NoRows
    BY NoRowsFacts
  <2>2. NoSnapshot = [at |-> -1, status |-> "none", models |-> nr]
    BY <2>1 DEF NoSnapshot, Never
  <2> QED BY <2>1, <2>2 DEF SnapType, SnapStates
<1>4. now \in Nat
  BY RegistryAssumption DEF NothingKnown
<1>5. RegistryTypes
  BY <1>1, <1>2, <1>3 DEF NothingKnown, RegistryTypes
<1>6. RefreshFlagOwned
  BY DEF NothingKnown, RefreshFlagOwned
<1>7. ASSUME NEW p \in Providers PROVE ProviderInv(p)
  <2>1. snapshots[p] = NoSnapshot /\ \A m \in Models : probed[p][m] = NoProbe
    BY DEF NothingKnown
  <2>2. SnapshotInv(snapshots[p], probed[p], entries[p], now)
    BY <1>3, <1>4, <2>1, NoRowsFacts DEF SnapshotInv, PlacesKept, Never
  <2>3. ProbesInv(probed[p], now)
    BY <1>2, <1>4, <2>1 DEF ProbesInv, Never
  <2>4. RestingInv(snapshots[p], probed[p])
    BY <1>2, <2>1 DEF RestingInv
  <2>5. ASSUME NEW c \in Callers
        PROVE  /\ WorkInv(work[c][p], snapshots[p], probed[p], entries[p], now)
               /\ work[c][p].stage = "none" /\ caller[c] # "fetch"
    <3>1. work[c][p] = NoWork /\ caller[c] = "idle"
      BY DEF NothingKnown
    <3> QED BY <1>1, <3>1, IdleWorkInv
  <2> QED BY <2>2, <2>3, <2>4, <2>5 DEF ProviderInv
<1> QED BY <1>5, <1>6, <1>7 DEF RegistryInv

LEMMA StartStep == (NothingKnown => RegistryInv)'
BY StartInv, PTL

LEMMA InitRegistryInv ==
  ASSUME Init
  PROVE  RegistryInv
<1>1. now = 0 /\ restarts = 0
  BY DEF Init
<1>2. now \in 0..MaxTime /\ restarts \in 0..MaxRestarts
  BY <1>1, RegistryAssumption
<1>3. file \in [Providers -> SUBSET Models] /\ entries = file
  BY NamesFacts DEF Init
<1>4. NothingKnown
  BY <1>2, <1>3 DEF Init, NothingKnown
<1> QED BY <1>4, StartInv

LEMMA RestartInv ==
  ASSUME RegistryInv, Restart
  PROVE  RegistryInv'
<1>1. now' = now /\ restarts' = restarts + 1 /\ restarts < MaxRestarts /\ entries' = file /\ file' = file
  BY DEF Restart
<1>2. now' \in 0..MaxTime /\ restarts' \in 0..MaxRestarts
  BY <1>1, RegistryAssumption DEF RegistryInv, RegistryTypes
<1>3. entries' \in [Providers -> SUBSET Models] /\ file' \in [Providers -> SUBSET Models]
  BY <1>1 DEF RegistryInv, RegistryTypes
<1>4. NothingKnown'
  BY <1>2, <1>3 DEF Restart, NothingKnown
<1> QED BY <1>4, StartStep

LEMMA RegistryStep ==
  ASSUME RegistryInv, [Next]_vars
  PROVE  RegistryInv'
<1>1. CASE UNCHANGED vars
  BY <1>1 DEF vars, RegistryInv, RegistryTypes, RefreshFlagOwned, ProviderInv
<1>2. ASSUME NEW c \in Callers, NEW force \in BOOLEAN, BeginRefresh(c, force) PROVE RegistryInv'
  BY <1>2, BeginRefreshInv
<1>3. ASSUME NEW c \in Callers, Step(c) PROVE RegistryInv'
  <2>1. ASSUME NEW p \in Providers, FetchUnconfigured(c, p) PROVE RegistryInv'
    BY <2>1, FetchUnconfiguredInv
  <2>2. ASSUME NEW p \in Providers, NEW a \in Inventories, FetchInventory(c, p, a) PROVE RegistryInv'
    BY <2>2, FetchInventoryInv
  <2>3. ASSUME NEW p \in Providers, NEW reply \in Replies, ProbeModel(c, p, reply) PROVE RegistryInv'
    BY <2>3, ProbeModelInv
  <2>4. ASSUME NEW p \in Providers, NEW written \in BOOLEAN, CompleteSnapshot(c, p, written)
        PROVE  RegistryInv'
    BY <2>4, CompleteSnapshotInv
  <2>5. CASE PublishSnapshots(c)
    BY <2>5, PublishSnapshotsInv
  <2>6. CASE FinishRefresh(c)
    BY <2>6, FinishRefreshInv
  <2> QED BY <1>3, <2>1, <2>2, <2>3, <2>4, <2>5, <2>6 DEF Step
<1>4. CASE Tick
  BY <1>4, TickInv
<1>5. CASE Restart
  BY <1>5, RestartInv
<1> QED BY <1>1, <1>2, <1>3, <1>4, <1>5 DEF Next

LEMMA RegistryInvImplies ==
  ASSUME RegistryInv
  PROVE  ModelsVerified
<1>1. now \in Nat /\ Interval \in Nat /\ ConfirmationTTL \in Nat
  BY RegistryAssumption DEF RegistryInv, RegistryTypes
<1>2. ASSUME NEW p \in Providers
      PROVE  /\ ProviderInv(p) /\ snapshots[p] \in SnapType /\ SnapshotInv(snapshots[p], probed[p], entries[p], now)
             /\ DOMAIN snapshots[p].models \subseteq Models
             /\ \A m \in DOMAIN snapshots[p].models : snapshots[p].models[m] \in RowType
  <2>1. snapshots[p] \in SnapType /\ ProviderInv(p)
    BY DEF RegistryInv, RegistryTypes
  <2> QED BY <2>1, RowMapFacts DEF SnapType, ProviderInv
<1>3. TypeOK
  <2>1. ASSUME NEW p \in Providers
        PROVE  /\ snapshots[p].at \in Never..now /\ RowsType(snapshots[p].models)
               /\ entries[p] \subseteq Models /\ file[p] \subseteq Models
    BY <1>2 DEF RegistryInv, RegistryTypes, SnapshotInv, RowsType
  <2>2. ASSUME NEW c \in Callers, NEW p \in Providers
        PROVE  /\ caller[c] \in {"idle", "fetch", "finish"}
               /\ work[c][p].stage \in {"none", "start", "probe", "done"}
               /\ RowsType(work[c][p].rows) /\ work[c][p].queue \subseteq Models
    <3>1. work[c][p] \in WorkType
      BY RegistryFacts
    <3>2. RowsType(work[c][p].rows)
      BY <3>1, RowMapFacts DEF WorkType, RowsType
    <3> QED BY <3>1, <3>2 DEF WorkType, RegistryInv, RegistryTypes
  <2> QED BY <2>1, <2>2 DEF TypeOK, RegistryInv, RegistryTypes
<1>4. ASSUME NEW p \in Providers, NEW m \in HealthyModels(p)
      PROVE  /\ m \in entries[p]
             /\ probed[p][m].outcome = "ok" \/ probed[p][m].at > snapshots[p].at
             /\ snapshots[p].models[m].success # Never
             /\ now <= snapshots[p].models[m].expires + 2 * Interval
  <2>1. /\ RoutingUsable(p) /\ m \in DOMAIN snapshots[p].models
        /\ snapshots[p].models[m].available
    BY <1>4 DEF HealthyModels, RoutingReady
  <2>2. PICK row \in RowType : row = snapshots[p].models[m]
    BY <1>2, <2>1
  <2>3. /\ RowSince(row, snapshots[p].at) /\ m \in entries[p]
        /\ probed[p][m].outcome = "ok" \/ probed[p][m].at > snapshots[p].at
    BY <1>2, <2>1, <2>2 DEF SnapshotInv
  <2>4. PICK at \in Int : at = snapshots[p].at
    BY <1>2 DEF SnapType
  <2>5. PICK su \in Int : su = row.success
    BY DEF RowType
  <2>6. su >= at /\ su >= 0 /\ row.expires = su + ConfirmationTTL
    BY <2>1, <2>2, <2>3, <2>4, <2>5 DEF RowSince
  <2>7. at + 2 * Interval >= now
    BY <2>1, <2>4 DEF RoutingUsable
  <2>8. now <= (su + ConfirmationTTL) + 2 * Interval
    BY <1>1, <2>6, <2>7
  <2> QED BY <2>2, <2>3, <2>5, <2>6, <2>8 DEF Never
<1>5. RoutedModelWasVerified /\ RoutedModelIsCatalogued
  BY <1>4 DEF RoutedModelWasVerified, RoutedModelIsCatalogued
<1>6. QueueWithinLimits
  <2>1. ASSUME NEW c \in Callers, NEW p \in Providers, ValidationLimit # 0
        PROVE  Cardinality(work[c][p].queue) <= ValidationLimit
    BY <1>2, <2>1 DEF ProviderInv, WorkInv
  <2>2. ASSUME NEW p \in Providers, NEW m \in DOMAIN snapshots[p].models,
               snapshots[p].models[m].status = "registration_queued"
        PROVE  /\ snapshots[p].models[m].position > ValidationLimit
               /\ QueueLimit # 0 => snapshots[p].models[m].position <= QueueLimit
               /\ \A n \in DOMAIN snapshots[p].models \ {m} :
                    snapshots[p].models[n].status = "registration_queued"
                      => snapshots[p].models[n].position # snapshots[p].models[m].position
    BY <1>2, <2>2 DEF SnapshotInv, PlacesKept
  <2> QED BY <2>1, <2>2 DEF QueueWithinLimits
<1> QED BY <1>3, <1>5, <1>6 DEF ModelsVerified, RegistryInv

(***************************************************************************)
(* What HealthyModels offers to routing was confirmed by its latest probe  *)
(* or is being probed again, is in the catalogue and is not older than its *)
(* confirmation and two intervals; one refresh at a time keeps its limits: *)
(* for any providers, models, callers, answers, limits and times.          *)
(***************************************************************************)
THEOREM ModelsVerifiedCorrect == Spec => []ModelsVerified
<1>1. Init => RegistryInv
  BY InitRegistryInv
<1>2. RegistryInv /\ [Next]_vars => RegistryInv'
  BY RegistryStep
<1>3. RegistryInv => ModelsVerified
  BY RegistryInvImplies
<1> QED BY <1>1, <1>2, <1>3, PTL DEF Spec

LEMMA SameProbes ==
  ASSUME probed' = probed
  PROVE  CooldownHonoured
BY DEF CooldownHonoured

LEMMA SameSnapshots ==
  ASSUME RegistryInv, snapshots' = snapshots
  PROVE  SnapshotsMoveForward
BY DEF SnapshotsMoveForward, RegistryInv, RegistryTypes, SnapType

LEMMA RefreshStep ==
  ASSUME RegistryInv, [Next]_vars
  PROVE  SnapshotsMoveForward /\ CooldownHonoured
<1>1. CASE UNCHANGED vars
  BY <1>1, SameProbes, SameSnapshots DEF vars
<1>2. ASSUME NEW c \in Callers, NEW force \in BOOLEAN, BeginRefresh(c, force)
      PROVE  SnapshotsMoveForward /\ CooldownHonoured
  BY <1>2, SameProbes, SameSnapshots DEF BeginRefresh
<1>3. ASSUME NEW c \in Callers, Step(c) PROVE SnapshotsMoveForward /\ CooldownHonoured
  <2>1. ASSUME NEW p \in Providers, FetchUnconfigured(c, p) PROVE SnapshotsMoveForward /\ CooldownHonoured
    BY <2>1, SameProbes, SameSnapshots DEF FetchUnconfigured
  <2>2. ASSUME NEW p \in Providers, NEW a \in Inventories, FetchInventory(c, p, a)
        PROVE  SnapshotsMoveForward /\ CooldownHonoured
    <3>1. probed' = probed /\ snapshots' = snapshots
      BY <2>2 DEF FetchInventory
    <3> QED BY <3>1, SameProbes, SameSnapshots
  <2>3. ASSUME NEW p \in Providers, NEW reply \in Replies, ProbeModel(c, p, reply)
        PROVE  SnapshotsMoveForward /\ CooldownHonoured
    <3>1. PICK w \in WorkType : w = work[c][p]
      BY RegistryFacts
    <3>2. PICK n \in w.queue :
            n \in Models /\ probed' = [probed EXCEPT ![p][n] = [at |-> w.at, outcome |-> Outcome(reply)]]
      BY <2>3, <3>1, ProbeModelInv
    <3>3. snapshots' = snapshots /\ w.stage = "probe"
      BY <2>3, <3>1 DEF ProbeModel
    <3>4. WorkInv(w, snapshots[p], probed[p], entries[p], now) /\ ProbesInv(probed[p], now)
      BY <3>1 DEF RegistryInv, ProviderInv
    <3>5. ToProbe(n, w, snapshots[p], probed[p])
      BY <3>2, <3>3, <3>4 DEF WorkInv, ProbingInv
    <3>6. probed \in [Providers -> [Models -> [at : Int, outcome : Outcomes]]]
      BY DEF RegistryInv, RegistryTypes
    <3>7. probed[p][n].at \in Int /\ w.at \in Int /\ RetryCooldown \in Nat
      BY <3>2, <3>6, RegistryAssumption DEF WorkType
    <3>8. probed[p][n].outcome = "retryable" => w.at - probed[p][n].at >= RetryCooldown
      BY <3>5, <3>7 DEF ToProbe
    <3>9. CooldownHonoured
      <4> SUFFICES ASSUME NEW q \in Providers, NEW m \in Models, probed[q][m].outcome = "retryable",
                          probed'[q][m] # probed[q][m]
                   PROVE  probed'[q][m].at - probed[q][m].at >= RetryCooldown
        BY DEF CooldownHonoured
      <4>1. q = p /\ m = n
        BY <3>2, <3>6
      <4>2. probed'[p][n].at = w.at
        BY <3>2, <3>6
      <4> QED BY <3>8, <4>1, <4>2
    <3> QED BY <3>3, <3>9, SameSnapshots
  <2>4. ASSUME NEW p \in Providers, NEW written \in BOOLEAN, CompleteSnapshot(c, p, written)
        PROVE  SnapshotsMoveForward /\ CooldownHonoured
    <3>1. probed' = probed /\ snapshots' = snapshots
      BY <2>4 DEF CompleteSnapshot
    <3> QED BY <3>1, SameProbes, SameSnapshots
  <2>5. CASE PublishSnapshots(c)
    <3>1. SnapshotsMoveForward
      BY <2>5, PublishSnapshotsInv DEF SnapshotsMoveForward
    <3>2. \A p \in Providers, m \in Models : probed'[p][m] \in {probed[p][m], NoProbe}
      BY <2>5 DEF PublishSnapshots
    <3> QED BY <3>1, <3>2 DEF CooldownHonoured
  <2>6. CASE FinishRefresh(c)
    BY <2>6, SameProbes, SameSnapshots DEF FinishRefresh
  <2> QED BY <1>3, <2>1, <2>2, <2>3, <2>4, <2>5, <2>6 DEF Step
<1>4. CASE Tick
  BY <1>4, SameProbes, SameSnapshots DEF Tick
<1>5. CASE Restart
  <2>1. restarts' # restarts
    BY <1>5 DEF Restart, RegistryInv, RegistryTypes
  <2>2. \A p \in Providers, m \in Models : probed'[p][m] \in {probed[p][m], NoProbe}
    BY <1>5 DEF Restart
  <2> QED BY <2>1, <2>2 DEF SnapshotsMoveForward, CooldownHonoured
<1> QED BY <1>1, <1>2, <1>3, <1>4, <1>5 DEF Next

(***************************************************************************)
(* However the ticker's refreshes and those of health requests interleave, *)
(* a published snapshot is never replaced by an older one, and a model     *)
(* whose probe failed in a way worth retrying rests for the cooldown.      *)
(***************************************************************************)
THEOREM RefreshesInOrderCorrect == Spec => RefreshesInOrder
<1>1. Init => RegistryInv
  BY InitRegistryInv
<1>2. RegistryInv /\ [Next]_vars => RegistryInv'
  BY RegistryStep
<1>3. RegistryInv /\ [Next]_vars => [SnapshotsMoveForward /\ CooldownHonoured]_vars
  BY RefreshStep
<1> QED BY <1>1, <1>2, <1>3, PTL DEF Spec, RefreshesInOrder

=============================================================================
