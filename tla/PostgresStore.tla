--------------------------- MODULE PostgresStore ---------------------------
(* The Postgres state store (state/postgres_store.go): clients share a     *)
(* bounded pool of connections; a session state is saved by a transaction  *)
(* that reads, locks, checks and writes one versioned row; batches of rows *)
(* are upserted in one transaction; a listing holds the connection of its  *)
(* rows while it fetches each workflow over another.  The server (row      *)
(* locks, read committed, its deadlock detector) is external and modelled  *)
(* from how the code uses it.                                              *)
EXTENDS Naturals, Sequences, FiniteSets

CONSTANTS PgClients,    \* goroutines that call the store
          PgMaxConns,   \* SetMaxOpenConns: 2 in safe mode, else 16
          PgKeys,       \* the primary keys the batches write
          PgBatches,    \* lists of rows; PgBlank stands for a blank key
          PgBlank,
          PgRowsBound,  \* bound: workflows saved
          PgMaxCalls    \* bound: calls made

\* Every batch writes the same keys, in any order: what batches of different
\* keys leave of each other says nothing about one of them.
ASSUME PgAssumption == /\ IsFiniteSet(PgClients) /\ "nobody" \notin PgClients
                       /\ PgMaxConns \in Nat \ {0}
                       /\ PgMaxCalls \in Nat /\ PgRowsBound \in Nat
                       /\ PgBlank \notin PgKeys
                       /\ PgBatches \subseteq Seq(PgKeys \cup {PgBlank})
                       /\ \A b \in PgBatches, k \in PgKeys : \E i \in DOMAIN b : b[i] = k

PgTables == {"vector_chunks", "rag_documents", "rag_memories",
             "route_memories", "vfs_artifacts", "vfs_checkpoints"}
SessionRow == <<"session_states", "row">>
PgRows == (PgTables \X PgKeys) \cup {SessionRow}
Anyone == "nobody"     \* the lock of a row no transaction has written
AnyVersion == {}       \* expectedVersion == nil; {v} expects v

VARIABLES pgClient,     \* where each client is in its call
          pgVersion,    \* committed version of the session row, 0: no row
          pgTable,      \* committed rows: the call that wrote each
          pgLock,       \* the client whose transaction holds each row
          pgWorkflows,  \* committed workflow rows
          pgCalls

pgVars == <<pgClient, pgVersion, pgTable, pgLock, pgWorkflows, pgCalls>>

PgIdle == [pc |-> "idle", table |-> "none", todo |-> <<>>, call |-> 0,
           version |-> 0, saw |-> FALSE, expect |-> AnyVersion, rows |-> 0,
           read |-> AnyVersion]

PgInit == /\ pgClient = [c \in PgClients |-> PgIdle]
          /\ pgVersion = 0
          /\ pgTable = [r \in PgTables \X PgKeys |-> 0]
          /\ pgLock = [r \in PgRows |-> Anyone]
          /\ pgWorkflows = 0
          /\ pgCalls = 0

\* Connections in use: one for every open transaction or open set of rows.
Connected == {c \in PgClients : pgClient[c].pc \notin {"idle", "begin", "query"}}
ConnFree == Cardinality(Connected) < PgMaxConns

\* A call begins.
PgCall(c, d) == /\ pgClient[c].pc = "idle"
                /\ pgCalls < PgMaxCalls
                /\ pgCalls' = pgCalls + 1
                /\ pgClient' = [pgClient EXCEPT ![c] = d]
                /\ UNCHANGED <<pgVersion, pgTable, pgLock, pgWorkflows>>

\* The rows c's transaction wrote or locked are free again, its connection
\* is back in the pool.
Unlocked(c) == [r \in PgRows |-> IF pgLock[r] = c THEN Anyone ELSE pgLock[r]]
PgReturn(c) == /\ pgLock' = Unlocked(c)
               /\ pgClient' = [pgClient EXCEPT ![c] = PgIdle]

(* ------------------------------------------------ single statements ---- *)
SaveWorkflow(c) ==
    /\ pgClient[c].pc = "idle" /\ ConnFree
    /\ pgCalls < PgMaxCalls /\ pgWorkflows < PgRowsBound
    /\ pgWorkflows' = pgWorkflows + 1
    /\ pgCalls' = pgCalls + 1
    /\ UNCHANGED <<pgClient, pgVersion, pgTable, pgLock>>

GetSessionState(c) ==
    /\ pgClient[c].pc = "idle" /\ ConnFree /\ pgCalls < PgMaxCalls
    /\ pgClient[c].read = AnyVersion
    /\ pgClient' = [pgClient EXCEPT ![c].read = {pgVersion}]
    /\ UNCHANGED <<pgVersion, pgTable, pgLock, pgWorkflows, pgCalls>>

(* ------------------------------------------------- SaveSessionState ---- *)
\* The expected version, where the caller gives one, is one it has read.
SaveSessionState(c) ==
    \E e \in {AnyVersion, pgClient[c].read} :
        PgCall(c, [PgIdle EXCEPT !.pc = "begin", !.expect = e,
                                 !.table = "session_states"])

PgBegin(c) == /\ pgClient[c].pc = "begin" /\ ConnFree
              /\ pgClient' = [pgClient EXCEPT ![c].pc =
                   IF @ = "begin" /\ pgClient[c].table = "session_states"
                   THEN "exists" ELSE "batch"]
              /\ UNCHANGED <<pgVersion, pgTable, pgLock, pgWorkflows, pgCalls>>

SelectExists(c) ==
    /\ pgClient[c].pc = "exists"
    /\ pgClient' = [pgClient EXCEPT
         ![c].saw = pgVersion # 0,
         ![c].pc = IF pgVersion # 0 THEN "lock" ELSE "check"]
    /\ UNCHANGED <<pgVersion, pgTable, pgLock, pgWorkflows, pgCalls>>

\* A plain SELECT of the version.
SelectUnlocked(c) ==
    /\ pgClient[c].pc = "lock"
    /\ pgClient' = [pgClient EXCEPT ![c].version = pgVersion, ![c].pc = "check"]
    /\ UNCHANGED <<pgVersion, pgTable, pgLock, pgWorkflows, pgCalls>>

\* SELECT version ... FOR UPDATE waits for the row and then reads what is
\* committed.
SelectForUpdate(c) ==
    /\ pgClient[c].pc = "lock"
    /\ pgLock[SessionRow] \in {Anyone, c}
    /\ pgLock' = [pgLock EXCEPT ![SessionRow] = c]
    /\ pgClient' = [pgClient EXCEPT ![c].version = pgVersion, ![c].pc = "check"]
    /\ UNCHANGED <<pgVersion, pgTable, pgWorkflows, pgCalls>>

\* "session state version conflict": the deferred rollback ends the call.
ExpectedMatches(c) == pgClient[c].expect \subseteq {pgClient[c].version}
CheckVersion(c) ==
    /\ pgClient[c].pc = "check"
    /\ IF ExpectedMatches(c)
       THEN /\ pgClient' = [pgClient EXCEPT ![c].pc = "insert"]
            /\ UNCHANGED pgLock
       ELSE PgReturn(c)
    /\ UNCHANGED <<pgVersion, pgTable, pgWorkflows, pgCalls>>

InsertOnConflict(c) ==
    /\ pgClient[c].pc = "insert"
    /\ pgLock[SessionRow] \in {Anyone, c}
    /\ pgLock' = [pgLock EXCEPT ![SessionRow] = c]
    /\ pgClient' = [pgClient EXCEPT ![c].pc = "commit"]
    /\ UNCHANGED <<pgVersion, pgTable, pgWorkflows, pgCalls>>

CommitSession(c) ==
    /\ pgClient[c].pc = "commit"
    /\ pgVersion' = pgClient[c].version + 1
    /\ PgReturn(c)
    /\ UNCHANGED <<pgTable, pgWorkflows, pgCalls>>

(* ------------------------------------------------- batches of upserts -- *)
PgBatch(c, t) == \E rows \in PgBatches :
    PgCall(c, [PgIdle EXCEPT !.pc = "begin", !.table = t,
                                  !.todo = rows, !.call = pgCalls + 1])

UpsertVectorChunks(c) == PgBatch(c, "vector_chunks")
UpsertRAGDocuments(c) == PgBatch(c, "rag_documents")
UpsertRAGMemories(c) == PgBatch(c, "rag_memories")
UpsertRouteMemories(c) == PgBatch(c, "route_memories")
UpsertVFSArtifacts(c) == PgBatch(c, "vfs_artifacts")
UpsertVFSCheckpoints(c) == PgBatch(c, "vfs_checkpoints")

NextRow(c) == <<pgClient[c].table, Head(pgClient[c].todo)>>
RowsLeft(c) == pgClient[c].pc = "batch" /\ pgClient[c].todo # <<>>
NextIsBlank(c) == RowsLeft(c) /\ Head(pgClient[c].todo) = PgBlank

SkipBlankRow(c) ==
    /\ NextIsBlank(c)
    /\ pgClient' = [pgClient EXCEPT ![c].todo = Tail(@)]
    /\ UNCHANGED <<pgVersion, pgTable, pgLock, pgWorkflows, pgCalls>>

UpsertRow(c) ==
    /\ RowsLeft(c) /\ ~NextIsBlank(c)
    /\ pgLock[NextRow(c)] \in {Anyone, c}
    /\ pgLock' = [pgLock EXCEPT ![NextRow(c)] = c]
    /\ pgClient' = [pgClient EXCEPT ![c].todo = Tail(@)]
    /\ UNCHANGED <<pgVersion, pgTable, pgWorkflows, pgCalls>>

\* Every row the transaction wrote becomes visible at once.
CommitBatch(c) ==
    /\ pgClient[c].pc = "batch" /\ pgClient[c].todo = <<>>
    /\ pgTable' = [r \in PgTables \X PgKeys |->
                     IF pgLock[r] = c THEN pgClient[c].call ELSE pgTable[r]]
    /\ PgReturn(c)
    /\ UNCHANGED <<pgVersion, pgWorkflows, pgCalls>>

(* ------------------------------------------------------ ListWorkflows -- *)
ListWorkflows(c) == PgCall(c, [PgIdle EXCEPT !.pc = "query"])

QueryIds(c) == /\ pgClient[c].pc = "query" /\ ConnFree
               /\ pgClient' = [pgClient EXCEPT ![c].pc = "rows",
                                               ![c].rows = pgWorkflows]
               /\ UNCHANGED <<pgVersion, pgTable, pgLock, pgWorkflows, pgCalls>>

\* The rows stay open, so the fetch needs a second connection.
GetWorkflow(c) == /\ pgClient[c].pc = "rows" /\ pgClient[c].rows > 0
                  /\ ConnFree
                  /\ pgClient' = [pgClient EXCEPT ![c].rows = @ - 1]
                  /\ UNCHANGED <<pgVersion, pgTable, pgLock, pgWorkflows, pgCalls>>

CloseRows(c) == /\ pgClient[c].pc = "rows" /\ pgClient[c].rows = 0
                /\ PgReturn(c)
                /\ UNCHANGED <<pgVersion, pgTable, pgWorkflows, pgCalls>>

(* ----------------------------------------------------------- failures -- *)
\* A statement fails or the caller's context ends: every path returns
\* through the deferred Rollback or Close.
PgFail(c) == /\ pgClient[c].pc # "idle"
             /\ PgReturn(c)
             /\ UNCHANGED <<pgVersion, pgTable, pgWorkflows, pgCalls>>

\* The row c's transaction waits for.
Wanted(c) == CASE pgClient[c].pc \in {"lock", "insert"} -> {SessionRow}
               [] RowsLeft(c) /\ ~NextIsBlank(c) -> {NextRow(c)}
               [] OTHER -> {}
Holder(c) == {pgLock[r] : r \in Wanted(c)} \ {Anyone, c}

\* External: the server ends one of two transactions that wait for each
\* other.
DeadlockVictim(c) ==
    /\ \E d \in Holder(c) : c \in Holder(d)
    /\ PgReturn(c)
    /\ UNCHANGED <<pgVersion, pgTable, pgWorkflows, pgCalls>>

\* What a client does once it is in a call.
PgStep(c) == \/ PgBegin(c) \/ SelectExists(c) \/ SelectForUpdate(c)
             \/ CheckVersion(c) \/ InsertOnConflict(c) \/ CommitSession(c)
             \/ SkipBlankRow(c) \/ UpsertRow(c) \/ CommitBatch(c)
             \/ QueryIds(c) \/ GetWorkflow(c) \/ CloseRows(c)
             \/ DeadlockVictim(c)

PgNext == \E c \in PgClients :
    \/ SaveWorkflow(c) \/ GetSessionState(c) \/ SaveSessionState(c)
    \/ UpsertVectorChunks(c) \/ UpsertRAGDocuments(c) \/ UpsertRAGMemories(c)
    \/ UpsertRouteMemories(c) \/ UpsertVFSArtifacts(c)
    \/ UpsertVFSCheckpoints(c) \/ ListWorkflows(c)
    \/ PgStep(c) \/ PgFail(c)

(* --------------------------------------------------------- properties -- *)
\* Types; the pool's bound; locks are held only by open transactions.
PgTypeOK ==
    /\ pgVersion \in 0 .. PgMaxCalls /\ pgCalls \in 0 .. PgMaxCalls
    /\ pgTable \in [PgTables \X PgKeys -> 0 .. PgMaxCalls]
    /\ pgLock \in [PgRows -> PgClients \cup {Anyone}]
    /\ pgWorkflows \in 0 .. PgRowsBound
    /\ \A c \in PgClients : pgClient[c].rows \in 0 .. PgRowsBound
    /\ Cardinality(Connected) <= PgMaxConns

\* Whatever way a call ends (commit, conflict, failed statement, ended
\* context, deadlock victim) it leaves no row locked behind.
PgReturnedClean == \A r \in PgRows :
    pgLock[r] # Anyone => pgLock[r] \in Connected

\* An upserted batch is all there or not at all, whichever batches of the
\* same rows run beside it and in whatever order they write their rows.
BatchesWhole == \A t \in PgTables : \A j, k \in PgKeys :
    pgTable[<<t, j>>] = pgTable[<<t, k>>]

\* No save is lost: a save that found the row replaces, when it commits, the
\* version it read, so versions count the saves.  (Two saves that both found
\* no row both write version 1.)
NoSaveLost == \A c \in PgClients :
    pgClient[c].pc = "commit" /\ pgClient[c].saw
        => pgClient[c].version = pgVersion

\* A save that expects a version the caller has read replaces exactly that
\* version, however many others save in between (a version of 0, no row, is
\* not protected: nothing is locked).
ExpectedHonoured == \A c \in PgClients :
    pgClient[c].pc = "commit" /\ pgClient[c].expect \notin {AnyVersion, {0}}
        => pgClient[c].expect = {pgVersion}

\* Every connection is held by a listing that waits for a second one.
Exhausted == /\ Cardinality(Connected) = PgMaxConns
             /\ \A c \in Connected : pgClient[c].pc = "rows" /\ pgClient[c].rows > 0

\* Calls that ended, lock waits and pool waits included, unless listings
\* exhaust the pool.
PgAllEnded == \A c \in PgClients : pgClient[c].pc = "idle" \/ Exhausted

\* Saves and batches beside each other, failing at any statement: batches are
\* whole, no save replaces a version it has not read, nothing stays locked.
SavesSound ==
    PgTypeOK /\ PgReturnedClean /\ BatchesWhole /\ NoSaveLost /\ ExpectedHonoured
=============================================================================
