----------------------------- MODULE MCRealtime -----------------------------
(* The gateway, the frame layer below it and the registry of models, each  *)
(* on its own: "part" is the one that moves.                               *)
EXTENDS ModelRegistry, RealtimeGateway, WebSocketFrames, TLC

CONSTANTS r1, r2, i1, i2, p1, p2, m1, m2, m3, m4

VARIABLE part

FourNames == <<m1, m2, m3, m4>>

Inventory(listed, disabled, error) == [listed |-> listed, disabled |-> disabled, error |-> error]

Full == Inventory(Models, {}, "none")
Part == Inventory({m2}, {m1}, "none")
Gone == Inventory({}, {}, "not_found")
Down == Inventory({}, {}, "failed")
Both(main, codex) == [main |-> main, codex |-> codex]

\* All models, one of them disabled, the second source's only.
SomeInventories == {Both(Full, Gone), Both(Part, Down), Both(Down, Part)}

Reply(code, text) == [code |-> code, text |-> text]
SomeReplies == {Reply(200, "ok"), Reply(503, "busy"), Reply(404, "busy")}

MCInit ==
  /\ part \in {"registry", "gateway", "frames"}
  /\ Init /\ GatewayInit /\ FramesInit
  /\ part # "registry" => entries = [p \in Providers |-> {}]

\* Events are published as long as somebody may hear them.
Heard == published' # published => connection = "open" /\ subscribers # {}

MCNext ==
  \/ part = "registry" /\ Next /\ UNCHANGED <<gatewayVars, frameVars, part>>
  \/ part = "gateway" /\ GatewayNext /\ Heard /\ UNCHANGED <<vars, frameVars, part>>
  \/ part = "frames" /\ FramesNext /\ UNCHANGED <<vars, gatewayVars, part>>

MCSpec == MCInit /\ [][MCNext]_<<vars, gatewayVars, frameVars, part>>

\* Requests are alike, ids are, and the callers of the registry, which have the
\* requests' names.
Alike == Permutations({r1, r2}) \cup Permutations({i1, i2})
=============================================================================
