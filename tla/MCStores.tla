------------------------------ MODULE MCStores ------------------------------
(* The Postgres store, the file store and the local models, each on its    *)
(* own: "part" is the one that moves.                                      *)
EXTENDS PostgresStore, FileStore, LocalModels, TLC

CONSTANTS p1, p2, k1, k2

VARIABLE part

\* The same rows in both orders, one list with a blank key in it.
OneWayAndBack == {<<k1, PgBlank, k2>>, <<k2, k1>>}

\* One server, and one to fall back to.
TwoServers == <<"server", "fallback">>

mcVars == <<pgVars, fsVars, loVars, part>>

OfPostgres(A) == part = "postgres" /\ A /\ UNCHANGED <<fsVars, loVars, part>>
OfFile(A) == part = "file" /\ A /\ UNCHANGED <<pgVars, loVars, part>>
OfLocal(A) == part = "local" /\ A /\ UNCHANGED <<pgVars, fsVars, part>>

MCInit == part \in {"postgres", "file", "local"} /\ PgInit /\ FsInit /\ LoInit

MCNext ==
  \/ OfPostgres(PgNext)
  \/ OfFile(FsNext)
  \/ OfLocal(LoNext)

\* A call in progress goes on; failures and crashes owe nothing.  The clients
\* of the database stand for the callers of the local models too.
MCSpec ==
  /\ MCInit /\ [][MCNext]_mcVars
  /\ \A c \in PgClients : WF_mcVars(OfPostgres(PgStep(c)) \/ OfLocal(LoStep(c)))

\* Every call of the database's clients and of the local models ends, whatever
\* locks are held, connections taken and servers down, unless listings exhaust
\* the pool.
CallsEnd == <>[](PgAllEnded /\ \A c \in LoCallers : loCall[c].pc = "idle")
=============================================================================
