----------------------------- MODULE StoreProofs -----------------------------
(***************************************************************************)
(* Theorems about the state stores and the local models: the file store,   *)
(* for any entries and any number of mutations, the Postgres store, for    *)
(* any clients, connections, tables' keys and batches, and the manager of  *)
(* local models, for any callers, models and endpoints.                    *)
(***************************************************************************)
EXTENDS FileStore, PostgresStore, LocalModels, SequenceTheorems, FiniteSetTheorems, TLAPS

-----------------------------------------------------------------------------
(* The file store.                                                         *)

FsSpec == FsInit /\ [][FsNext]_fsVars

\* No entry of a snapshot was written by a call that has not been made.
FsOfCalls(maps) ==
  /\ maps \in [item : [FsSlots -> Nat], version : Nat]
  /\ maps.version <= fsCalls
  /\ \A s \in FsSlots : maps.item[s] <= fsCalls

FsCovers(maps) ==
  /\ maps.version >= fsAcked.version
  /\ \A s \in FsSlots : maps.item[s] >= fsAcked.item[s]

\* The mutation under way has to acknowledge what is in memory, and the file
\* about to be renamed is exactly that.
FsInv ==
  /\ fsCalls \in 0 .. FsMaxCalls
  /\ fsPhase \in {"up", "persist", "rename", "down"}
  /\ FsOfCalls(fsMem) /\ FsOfCalls(fsPending) /\ FsOfCalls(fsAcked)
  /\ \E maps : FsOfCalls(maps) /\ FsCovers(maps)
               /\ (fsDisk = Whole(maps) \/ (fsDisk = NoFile /\ maps = Empty))
  /\ fsTmp.kind \in {"none", "torn", "whole"}
  /\ fsPhase # "down" => FsCovers(fsMem)
  /\ fsPhase \in {"persist", "rename"} => fsPending = fsMem
  /\ fsPhase = "rename" => fsTmp = Whole(fsMem)

\* The inductive invariant says what callers may rely on.
LEMMA FsInvImplies == FsInv => AckedSurvives
<1> SUFFICES ASSUME FsInv PROVE AckedSurvives
  OBVIOUS
<1>1. ASSUME NEW maps, FsOfCalls(maps)
      PROVE  maps \in Snapshots
  <2>1. maps = [item |-> maps.item, version |-> maps.version]
    BY <1>1 DEF FsOfCalls
  <2>2. fsCalls \in Nat /\ fsCalls <= FsMaxCalls /\ FsMaxCalls \in Nat
    BY FsAssumption DEF FsInv
  <2>3. maps.version \in 0 .. FsMaxCalls /\ maps.item \in [FsSlots -> 0 .. FsMaxCalls]
    BY <1>1, <2>2 DEF FsOfCalls
  <2> QED BY <2>1, <2>3 DEF Snapshots
<1>2. PICK maps : FsOfCalls(maps) /\ FsCovers(maps)
               /\ (fsDisk = Whole(maps) \/ (fsDisk = NoFile /\ maps = Empty))
  BY DEF FsInv
<1>3. fsDisk.maps = maps /\ fsDisk \in {NoFile} \cup {Whole(m) : m \in Snapshots}
  BY <1>1, <1>2 DEF Whole, NoFile
<1>4. FsTypeOK
  BY <1>1, <1>3 DEF FsTypeOK, FsInv
<1> QED BY <1>2, <1>3, <1>4 DEF AckedSurvives, FsInv, FsCovers

\* A mutation is numbered by its call and never takes anything back.
LEMMA FsMutateStep ==
  ASSUME FsInv, NEW mem, FsMutate(mem),
         mem \in [item : [FsSlots -> Nat], version : Nat],
         mem.version \in {fsMem.version, fsMem.version + 1},
         \A s \in FsSlots : mem.item[s] \in {fsMem.item[s], fsCalls + 1}
  PROVE  FsInv'
<1> USE DEF FsMutate
<1>0. fsCalls \in Nat /\ fsCalls' = fsCalls + 1 /\ fsCalls' \in 0 .. FsMaxCalls
  BY FsAssumption DEF FsInv
<1>1. ASSUME NEW maps, FsOfCalls(maps)
      PROVE  FsOfCalls(maps)'
  BY <1>0, <1>1 DEF FsOfCalls
<1>2. FsOfCalls(mem)'
  BY <1>0 DEF FsInv, FsOfCalls
<1>3. FsOfCalls(fsMem)' /\ FsOfCalls(fsPending)' /\ FsOfCalls(fsAcked)'
  BY <1>0, <1>1, <1>2 DEF FsInv, FsOfCalls
<1>4. FsCovers(fsMem)'
  <2>1. FsCovers(fsMem) /\ FsOfCalls(fsMem) /\ FsOfCalls(fsAcked)
    BY DEF FsInv
  <2> QED BY <1>0, <2>1 DEF FsCovers, FsOfCalls
<1>5. \E maps : FsOfCalls(maps)' /\ FsCovers(maps)'
               /\ (fsDisk' = Whole(maps) \/ (fsDisk' = NoFile /\ maps = Empty))
  BY <1>1 DEF FsInv, FsCovers
<1> QED BY <1>0, <1>3, <1>4, <1>5 DEF FsInv

\* Every step of the file store keeps the invariant.
LEMMA FsNextInv == ASSUME FsInv, [FsNext]_fsVars PROVE FsInv'
<1>0. /\ fsMem \in [item : [FsSlots -> Nat], version : Nat]
      /\ fsCalls \in Nat
  BY FsAssumption DEF FsInv, FsOfCalls
<1>1. CASE FsUpsert
  <2>1. PICK rows \in SUBSET FsSlots :
          FsMutate([fsMem EXCEPT !.item =
                      [s \in FsSlots |-> IF s \in rows THEN fsCalls + 1 ELSE @[s]]])
    BY <1>1 DEF FsUpsert
  <2> DEFINE items == [s \in FsSlots |-> IF s \in rows THEN fsCalls + 1 ELSE fsMem.item[s]]
             mem == [fsMem EXCEPT !.item = items]
  <2>2. items \in [FsSlots -> Nat]
    BY <1>0
  <2>3. mem \in [item : [FsSlots -> Nat], version : Nat] /\ mem.version = fsMem.version
        /\ mem.item = items
    BY <1>0, <2>2
  <2>4. \A s \in FsSlots : mem.item[s] \in {fsMem.item[s], fsCalls + 1}
    BY <2>3
  <2>5. FsMutate(mem)
    BY <2>1
  <2> HIDE DEF mem
  <2> QED BY <2>3, <2>4, <2>5, FsMutateStep
<1>2. CASE FsSaveSessionState
  <2> DEFINE mem == [fsMem EXCEPT !.version = fsMem.version + 1]
  <2>1. /\ mem \in [item : [FsSlots -> Nat], version : Nat]
        /\ mem.version = fsMem.version + 1 /\ mem.item = fsMem.item
    BY <1>0
  <2>2. FsMutate(mem)
    BY <1>2 DEF FsSaveSessionState
  <2> HIDE DEF mem
  <2> QED BY <2>1, <2>2, FsMutateStep
<1>3. CASE WriteTmp
  BY <1>3 DEF WriteTmp, FsInv, FsOfCalls, FsCovers, Whole
<1>4. CASE WriteTmpFails
  BY <1>4 DEF WriteTmpFails, FsInv, FsOfCalls, FsCovers, Torn
<1>5. CASE RenameTmp
  <2>1. fsDisk' = Whole(fsMem) /\ fsAcked' = fsMem /\ UNCHANGED <<fsMem, fsPending, fsCalls>>
    BY <1>5 DEF RenameTmp, FsInv
  <2>2. FsCovers(fsMem)' /\ FsOfCalls(fsMem)'
    BY <1>0, <2>1 DEF FsCovers, FsInv, FsOfCalls
  <2>3. \E maps : FsOfCalls(maps)' /\ FsCovers(maps)'
               /\ (fsDisk' = Whole(maps) \/ (fsDisk' = NoFile /\ maps = Empty))
    BY <2>1, <2>2 DEF FsCovers, FsOfCalls
  <2>4. FsOfCalls(fsAcked)' /\ FsOfCalls(fsPending)'
    BY <2>1 DEF FsInv, FsOfCalls
  <2> QED BY <1>5, <2>1, <2>2, <2>3, <2>4 DEF RenameTmp, FsInv, NoFile
<1>6. CASE RenameFails
  BY <1>6 DEF RenameFails, FsInv, FsOfCalls, FsCovers
<1>7. CASE FsCrash
  <2>1. FsOfCalls(Empty)
    BY <1>0 DEF FsOfCalls, Empty
  <2>2. fsTmp'.kind \in {"none", "torn", "whole"}
    BY <1>7 DEF FsCrash, FsInv, Torn
  <2> QED BY <1>7, <2>1, <2>2 DEF FsCrash, FsInv, FsOfCalls, FsCovers
<1>8. CASE FsLoad
  <2>1. PICK maps : FsOfCalls(maps) /\ FsCovers(maps)
               /\ (fsDisk = Whole(maps) \/ (fsDisk = NoFile /\ maps = Empty))
    BY DEF FsInv
  <2>2. fsMem' = maps
    BY <1>8, <2>1 DEF FsLoad, Whole, NoFile
  <2>3. FsCovers(fsMem)' /\ FsOfCalls(fsMem)'
    BY <1>8, <2>1, <2>2 DEF FsLoad, FsCovers, FsOfCalls
  <2> QED BY <1>8, <2>3 DEF FsLoad, FsInv, FsOfCalls, FsCovers
<1>9. CASE UNCHANGED fsVars
  BY <1>9 DEF fsVars, FsInv, FsOfCalls, FsCovers
<1> QED BY <1>1, <1>2, <1>3, <1>4, <1>5, <1>6, <1>7, <1>8, <1>9 DEF FsNext

\* Whatever writes fail and wherever the process ends, what a caller was told
\* is saved is in memory and on disk, and the file is never torn.
THEOREM AckedSurvivesCorrect == FsSpec => []AckedSurvives
<1>1. FsInit => FsInv
  <2> SUFFICES ASSUME FsInit PROVE FsInv
    OBVIOUS
  <2>1. FsOfCalls(Empty) /\ FsCovers(Empty)
    BY DEF FsInit, FsOfCalls, FsCovers, Empty
  <2> QED BY <2>1, FsAssumption DEF FsInit, FsInv, NoFile
<1>2. FsInv /\ [FsNext]_fsVars => FsInv'
  BY FsNextInv
<1> QED BY <1>1, <1>2, FsInvImplies, PTL DEF FsSpec

-----------------------------------------------------------------------------
(* The Postgres store.                                                     *)

PgSpec == PgInit /\ [][PgNext]_pgVars

PgPcs == {"idle", "begin", "exists", "lock", "check", "insert", "commit", "batch",
          "query", "rows"}
PgCallType ==
  [pc : PgPcs, table : PgTables \cup {"none", "session_states"},
   todo : Seq(PgKeys \cup {PgBlank}), call : 0 .. PgMaxCalls, version : Nat,
   saw : BOOLEAN, expect : SUBSET Nat, rows : 0 .. PgRowsBound, read : SUBSET Nat]

PgTypes ==
  /\ pgClient \in [PgClients -> PgCallType]
  /\ pgVersion \in Nat /\ pgCalls \in 0 .. PgMaxCalls
  /\ pgTable \in [PgTables \X PgKeys -> 0 .. PgMaxCalls]
  /\ pgLock \in [PgRows -> PgClients \cup {Anyone}]
  /\ pgWorkflows \in 0 .. PgRowsBound

\* What a save under way has read: with a row, the version that is there, under
\* the row's lock; without one, nothing.
SaveOf(c) ==
  LET d == pgClient[c] IN
  /\ d.pc \in {"begin", "exists"} => d.version = 0
  /\ d.pc = "lock" => d.saw
  /\ d.pc \in {"check", "insert", "commit"} =>
       IF d.saw THEN pgLock[SessionRow] = c /\ d.version = pgVersion ELSE d.version = 0
  /\ d.pc = "commit" => pgLock[SessionRow] = c
  /\ d.pc \in {"insert", "commit"} => d.expect \subseteq {d.version}

\* What a batch under way has still to write: every key it has not locked.
BatchOf(c) ==
  LET d == pgClient[c] IN
  /\ d.pc = "batch" => d.table \in PgTables
  /\ d.pc = "begin" => d.table \in PgTables \cup {"session_states"}
  /\ d.pc \in {"begin", "batch"} /\ d.table \in PgTables =>
       \A k \in PgKeys : pgLock[<<d.table, k>>] = c \/ \E i \in DOMAIN d.todo : d.todo[i] = k

\* A row is locked only by the transaction that writes it.
LocksOwned ==
  \A c \in PgClients :
    /\ pgLock[SessionRow] = c => pgClient[c].pc \in {"check", "insert", "commit"}
    /\ \A t \in PgTables, k \in PgKeys :
         pgLock[<<t, k>>] = c => pgClient[c].pc = "batch" /\ pgClient[c].table = t

PoolKept == Cardinality(Connected) <= PgMaxConns

\* Every version was made by a call that has ended.
PgBusy == {c \in PgClients : pgClient[c].pc # "idle"}
VersionsOfCalls == pgVersion + Cardinality(PgBusy) <= pgCalls

PgInv ==
  /\ PgTypes
  /\ \A c \in PgClients : SaveOf(c) /\ BatchOf(c)
  /\ LocksOwned /\ BatchesWhole /\ PoolKept /\ VersionsOfCalls

\* The rows of the tables and the session's row.
LEMMA RowsApart ==
  /\ SessionRow \in PgRows
  /\ \A t \in PgTables, k \in PgKeys : <<t, k>> \in PgRows /\ <<t, k>> # SessionRow
  /\ \A r \in PgRows : r = SessionRow \/ \E t \in PgTables, k \in PgKeys : r = <<t, k>>
<1>1. "session_states" \notin PgTables
  BY DEF PgTables
<1> QED BY <1>1 DEF PgRows, SessionRow

\* The inductive invariant says what callers may rely on.
LEMMA PgInvImplies == PgInv => SavesSound
<1> SUFFICES ASSUME PgInv PROVE SavesSound
  OBVIOUS
<1>1. PgTypeOK
  <2>1. pgVersion <= pgCalls
    <3>1. Cardinality(PgBusy) \in Nat
      BY PgAssumption, FS_Subset, FS_CardinalityType DEF PgBusy
    <3> QED BY <3>1 DEF PgInv, PgTypes, VersionsOfCalls
  <2>2. pgVersion \in 0 .. PgMaxCalls
    BY <2>1, PgAssumption DEF PgInv, PgTypes
  <2>3. \A c \in PgClients : pgClient[c].rows \in 0 .. PgRowsBound
    BY DEF PgInv, PgTypes, PgCallType
  <2> QED BY <2>2, <2>3 DEF PgTypeOK, PgInv, PgTypes, PoolKept
<1>2. PgReturnedClean
  <2> SUFFICES ASSUME NEW r \in PgRows, pgLock[r] # Anyone
               PROVE  pgLock[r] \in Connected
    BY DEF PgReturnedClean
  <2>1. pgLock[r] \in PgClients
    BY DEF PgInv, PgTypes
  <2>2. pgClient[pgLock[r]].pc \in {"check", "insert", "commit", "batch"}
    BY <2>1, RowsApart DEF PgInv, LocksOwned
  <2> QED BY <2>1, <2>2 DEF Connected
<1>3. NoSaveLost
  BY DEF NoSaveLost, PgInv, SaveOf
<1>4. ExpectedHonoured
  <2> SUFFICES ASSUME NEW c \in PgClients, pgClient[c].pc = "commit",
                      pgClient[c].expect \notin {AnyVersion, {0}}
               PROVE  pgClient[c].expect = {pgVersion}
    BY DEF ExpectedHonoured
  <2>1. pgClient[c].expect = {pgClient[c].version}
    BY DEF PgInv, SaveOf, AnyVersion
  <2>2. pgClient[c].version = pgVersion
    BY <2>1 DEF PgInv, SaveOf
  <2> QED BY <2>1, <2>2
<1> QED BY <1>1, <1>2, <1>3, <1>4 DEF SavesSound, PgInv

\* The two counts: nobody new on a connection, nobody new in a call.
LEMMA PoolFrame ==
  ASSUME PgInv, Connected' \subseteq Connected
  PROVE  PoolKept'
<1>1. IsFiniteSet(Connected)
  BY PgAssumption, FS_Subset DEF Connected
<1>2. /\ Cardinality(Connected') \in Nat /\ Cardinality(Connected) \in Nat
      /\ Cardinality(Connected') <= Cardinality(Connected)
  BY <1>1, FS_Subset, FS_CardinalityType
<1> QED BY <1>2, PgAssumption DEF PgInv, PoolKept

LEMMA PoolTake ==
  ASSUME PgInv, ConnFree, NEW c, Connected' \subseteq Connected \cup {c}
  PROVE  PoolKept'
<1>1. IsFiniteSet(Connected)
  BY PgAssumption, FS_Subset DEF Connected
<1>2. /\ IsFiniteSet(Connected \cup {c}) /\ Cardinality(Connected) \in Nat
      /\ Cardinality(Connected \cup {c}) <= Cardinality(Connected) + 1
  <2>1. Cardinality(Connected) \in Nat
    BY <1>1, FS_CardinalityType
  <2>2. /\ IsFiniteSet(Connected \cup {c})
        /\ \/ Cardinality(Connected \cup {c}) = Cardinality(Connected)
           \/ Cardinality(Connected \cup {c}) = Cardinality(Connected) + 1
    BY <1>1, FS_AddElement
  <2> QED BY <2>1, <2>2
<1>3. Cardinality(Connected') \in Nat /\ Cardinality(Connected') <= Cardinality(Connected \cup {c})
      /\ Cardinality(Connected \cup {c}) \in Nat
  BY <1>2, FS_Subset, FS_CardinalityType
<1> QED BY <1>2, <1>3, PgAssumption DEF PoolKept, ConnFree

LEMMA CountFrame ==
  ASSUME PgInv, PgBusy' \subseteq PgBusy, pgVersion' = pgVersion, pgCalls' = pgCalls
  PROVE  VersionsOfCalls'
<1>1. IsFiniteSet(PgBusy)
  BY PgAssumption, FS_Subset DEF PgBusy
<1>2. /\ Cardinality(PgBusy') \in Nat /\ Cardinality(PgBusy) \in Nat
      /\ Cardinality(PgBusy') <= Cardinality(PgBusy)
  BY <1>1, FS_Subset, FS_CardinalityType
<1> QED BY <1>2, PgAssumption DEF PgInv, PgTypes, VersionsOfCalls

\* A client that is not in a call has the idle record's fields, but for the
\* version it may have read.
LEMMA PgIdleType == PgIdle \in PgCallType
BY PgAssumption DEF PgIdle, PgCallType, PgPcs, AnyVersion

\* A call that begins locks nothing and reads nothing.
LEMMA PgCallInv ==
  ASSUME PgInv, NEW c \in PgClients, NEW d \in PgCallType, PgCall(c, d),
         d.version = 0, d.pc \in {"begin", "query"},
         d.pc = "begin" => \/ d.table = "session_states"
                           \/ d.table \in PgTables /\ d.todo \in PgBatches
  PROVE  PgInv'
<1> USE DEF PgCall
<1>1. PgTypes'
  BY PgAssumption DEF PgInv, PgTypes
<1>2. pgClient' = [pgClient EXCEPT ![c] = d] /\ pgClient \in [PgClients -> PgCallType]
      /\ UNCHANGED <<pgLock, pgVersion, pgTable>>
  BY DEF PgInv, PgTypes
<1>3. pgClient'[c] = d /\ \A b \in PgClients \ {c} : pgClient'[b] = pgClient[b]
  BY <1>2
<1>4. ASSUME NEW b \in PgClients PROVE SaveOf(b)'
  BY <1>2, <1>3 DEF PgInv, SaveOf
<1>5. ASSUME NEW b \in PgClients PROVE BatchOf(b)'
  BY <1>2, <1>3, PgAssumption DEF PgInv, BatchOf, PgTables
<1>6. LocksOwned'
  BY <1>2, <1>3 DEF PgInv, LocksOwned
<1>7. BatchesWhole'
  BY <1>2, ZenonT(60) DEF PgInv, BatchesWhole
<1>8. PoolKept'
  <2>1. Connected' \subseteq Connected
    BY <1>3 DEF Connected
  <2> QED BY <2>1, PoolFrame
<1>9. VersionsOfCalls'
  <2>1. IsFiniteSet(PgBusy)
    BY PgAssumption, FS_Subset DEF PgBusy
  <2>2. PgBusy' = PgBusy \cup {c} /\ c \notin PgBusy
    BY <1>3 DEF PgBusy
  <2>3. Cardinality(PgBusy') = Cardinality(PgBusy) + 1 /\ Cardinality(PgBusy) \in Nat
    BY <2>1, <2>2, FS_AddElement, FS_CardinalityType
  <2> QED BY <1>2, <2>3 DEF PgInv, PgTypes, VersionsOfCalls
<1> QED BY <1>1, <1>4, <1>5, <1>6, <1>7, <1>8, <1>9 DEF PgInv

\* What a return leaves behind.
LEMMA PgReturnFrees ==
  ASSUME PgInv, NEW c \in PgClients, PgReturn(c)
  PROVE  /\ pgLock' \in [PgRows -> PgClients \cup {Anyone}]
         /\ pgClient' \in [PgClients -> PgCallType]
         /\ pgClient'[c] = PgIdle /\ \A b \in PgClients \ {c} : pgClient'[b] = pgClient[b]
         /\ \A r \in PgRows : /\ pgLock'[r] # c
                              /\ pgLock[r] # c => pgLock'[r] = pgLock[r]
                              /\ pgLock'[r] # Anyone => pgLock'[r] = pgLock[r]
         /\ \A b \in PgClients \ {c} : BatchOf(b)'
         /\ BatchOf(c)' /\ SaveOf(c)' /\ LocksOwned' /\ PoolKept'
<1>1. pgLock \in [PgRows -> PgClients \cup {Anyone}] /\ c # Anyone
      /\ pgClient \in [PgClients -> PgCallType]
  BY PgAssumption DEF PgInv, PgTypes, Anyone
<1>2. pgLock' = [r \in PgRows |-> IF pgLock[r] = c THEN Anyone ELSE pgLock[r]]
  BY DEF PgReturn, Unlocked
<1>3. pgLock' \in [PgRows -> PgClients \cup {Anyone}]
  BY <1>1, <1>2
<1>4. \A r \in PgRows : /\ pgLock'[r] # c
                        /\ pgLock[r] # c => pgLock'[r] = pgLock[r]
                        /\ pgLock'[r] # Anyone => pgLock'[r] = pgLock[r]
  BY <1>1, <1>2
<1>5. /\ pgClient' \in [PgClients -> PgCallType]
      /\ pgClient'[c] = PgIdle /\ \A b \in PgClients \ {c} : pgClient'[b] = pgClient[b]
  BY <1>1, PgIdleType DEF PgReturn
<1>6. ASSUME NEW b \in PgClients \ {c} PROVE BatchOf(b)'
  BY <1>4, <1>5, RowsApart DEF PgInv, BatchOf
<1>7. BatchOf(c)' /\ SaveOf(c)'
  BY <1>5 DEF BatchOf, SaveOf, PgIdle
<1>8. LocksOwned'
  <2> SUFFICES ASSUME NEW b \in PgClients
               PROVE  /\ pgLock'[SessionRow] = b => pgClient'[b].pc \in {"check", "insert", "commit"}
                      /\ \A t \in PgTables, k \in PgKeys :
                           pgLock'[<<t, k>>] = b => pgClient'[b].pc = "batch" /\ pgClient'[b].table = t
    BY DEF LocksOwned
  <2>1. b # Anyone
    BY PgAssumption DEF Anyone
  <2> QED BY <1>4, <1>5, <2>1, RowsApart DEF PgInv, LocksOwned
<1>9. PoolKept'
  <2>1. Connected' \subseteq Connected
    BY <1>5 DEF Connected, PgIdle
  <2> QED BY <2>1, PoolFrame
<1> QED BY <1>3, <1>4, <1>5, <1>6, <1>7, <1>8, <1>9

\* A call that ends without a commit leaves nothing behind.
LEMMA PgReturnInv ==
  ASSUME PgInv, NEW c \in PgClients, PgReturn(c),
         UNCHANGED <<pgVersion, pgTable, pgWorkflows, pgCalls>>
  PROVE  PgInv'
<1>1. PgTypes'
  BY PgReturnFrees DEF PgInv, PgTypes
<1>2. ASSUME NEW b \in PgClients \ {c} PROVE SaveOf(b)'
  BY PgReturnFrees, RowsApart DEF PgInv, SaveOf
<1>3. BatchesWhole'
  BY DEF PgInv, BatchesWhole
<1>4. VersionsOfCalls'
  <2>1. PgBusy' \subseteq PgBusy
    BY PgReturnFrees DEF PgBusy, PgIdle
  <2> QED BY <2>1, CountFrame
<1> QED BY <1>1, <1>2, <1>3, <1>4, PgReturnFrees DEF PgInv

\* A step inside a call: c's record moves on, and c may have locked one row.
\* The other clients' part of the invariant cannot tell.
LEMMA PgMoveOthers ==
  ASSUME PgInv, NEW c \in PgClients, NEW b \in PgClients \ {c},
         pgClient'[b] = pgClient[b], pgVersion' = pgVersion,
         \A r \in PgRows : pgLock'[r] = pgLock[r] \/ (pgLock[r] \in {Anyone, c} /\ pgLock'[r] = c)
  PROVE  /\ SaveOf(b)' /\ BatchOf(b)'
         /\ pgLock'[SessionRow] = b => pgClient'[b].pc \in {"check", "insert", "commit"}
         /\ \A t \in PgTables, k \in PgKeys :
              pgLock'[<<t, k>>] = b => pgClient'[b].pc = "batch" /\ pgClient'[b].table = t
<1>1. b # c /\ b # Anyone
  BY PgAssumption DEF Anyone
<1>2. \A r \in PgRows : pgLock[r] = b <=> pgLock'[r] = b
  BY <1>1
<1>3. SaveOf(b)'
  BY <1>2, RowsApart DEF PgInv, SaveOf
<1>4. BatchOf(b)'
  BY <1>2, RowsApart DEF PgInv, BatchOf
<1>5. /\ pgLock'[SessionRow] = b => pgClient'[b].pc \in {"check", "insert", "commit"}
      /\ \A t \in PgTables, k \in PgKeys :
           pgLock'[<<t, k>>] = b => pgClient'[b].pc = "batch" /\ pgClient'[b].table = t
  BY <1>2, RowsApart DEF PgInv, LocksOwned
<1> QED BY <1>3, <1>4, <1>5

\* So such a step has to show the invariant for c and the pool only.
LEMMA PgMoveInv ==
  ASSUME PgInv, NEW c \in PgClients, NEW d \in PgCallType,
         pgClient' = [pgClient EXCEPT ![c] = d],
         d.pc = "idle" <=> pgClient[c].pc = "idle",
         UNCHANGED <<pgVersion, pgTable, pgCalls>>,
         pgWorkflows' \in 0 .. PgRowsBound,
         pgLock' \in [PgRows -> PgClients \cup {Anyone}],
         \A r \in PgRows : pgLock'[r] = pgLock[r] \/ (pgLock[r] \in {Anyone, c} /\ pgLock'[r] = c),
         ConnFree \/ (d.pc \in {"idle", "begin", "query"} <=>
                        pgClient[c].pc \in {"idle", "begin", "query"}),
         SaveOf(c)', BatchOf(c)',
         pgLock'[SessionRow] = c => d.pc \in {"check", "insert", "commit"},
         \A t \in PgTables, k \in PgKeys :
           pgLock'[<<t, k>>] = c => d.pc = "batch" /\ d.table = t
  PROVE  PgInv'
<1>1. /\ pgClient' \in [PgClients -> PgCallType]
      /\ pgClient'[c] = d /\ \A b \in PgClients \ {c} : pgClient'[b] = pgClient[b]
  BY DEF PgInv, PgTypes
<1>2. PgTypes'
  BY <1>1 DEF PgInv, PgTypes
<1>3. \A b \in PgClients : SaveOf(b)' /\ BatchOf(b)'
  BY <1>1, PgMoveOthers
<1>4. LocksOwned'
  BY <1>1, PgMoveOthers DEF LocksOwned
<1>5. BatchesWhole'
  BY DEF PgInv, BatchesWhole
<1>6. PoolKept'
  <2>1. CASE ConnFree
    <3>1. Connected' \subseteq Connected \cup {c}
      BY <1>1 DEF Connected
    <3> QED BY <2>1, <3>1, PoolTake
  <2>2. CASE ~ConnFree
    <3>1. Connected' \subseteq Connected
      BY <1>1, <2>2 DEF Connected
    <3> QED BY <3>1, PoolFrame
  <2> QED BY <2>1, <2>2
<1>7. VersionsOfCalls'
  <2>1. PgBusy' \subseteq PgBusy
    BY <1>1 DEF PgBusy
  <2> QED BY <2>1, CountFrame
<1> QED BY <1>2, <1>3, <1>4, <1>5, <1>6, <1>7 DEF PgInv

\* Single statements outside a transaction.
LEMMA PgSingleInv ==
  ASSUME PgInv, NEW c \in PgClients, SaveWorkflow(c) \/ GetSessionState(c)
  PROVE  PgInv'
<1>1. CASE SaveWorkflow(c)
  <2> USE <1>1 DEF SaveWorkflow
  <2>1. PgTypes'
    BY PgAssumption DEF PgInv, PgTypes
  <2>2. \A b \in PgClients : SaveOf(b)' /\ BatchOf(b)'
    BY DEF PgInv, SaveOf, BatchOf
  <2>3. LocksOwned' /\ BatchesWhole'
    BY DEF PgInv, LocksOwned, BatchesWhole
  <2>4. Connected' = Connected /\ PgBusy' = PgBusy
    BY DEF Connected, PgBusy
  <2>5. PoolKept'
    BY <2>4, PoolFrame
  <2>6. VersionsOfCalls'
    <3>1. Cardinality(PgBusy) \in Nat
      BY PgAssumption, FS_Subset, FS_CardinalityType DEF PgBusy
    <3> QED BY <2>4, <3>1 DEF PgInv, PgTypes, VersionsOfCalls
  <2> QED BY <2>1, <2>2, <2>3, <2>5, <2>6 DEF PgInv
<1>2. CASE GetSessionState(c)
  <2> DEFINE d == [pgClient[c] EXCEPT !.read = {pgVersion}]
  <2>1. pgClient[c] \in PgCallType /\ pgVersion \in Nat /\ pgClient[c].pc = "idle" /\ ConnFree
        /\ UNCHANGED <<pgVersion, pgTable, pgLock, pgWorkflows, pgCalls>>
    BY <1>2 DEF GetSessionState, PgInv, PgTypes
  <2>2. d \in PgCallType /\ d.pc = "idle"
    BY <2>1 DEF PgCallType
  <2>3. pgClient' = [pgClient EXCEPT ![c] = d]
    BY <1>2 DEF GetSessionState, PgInv, PgTypes
  <2> HIDE DEF d
  <2>4. pgClient'[c] = d
    BY <2>3 DEF PgInv, PgTypes
  <2>5. SaveOf(c)' /\ BatchOf(c)'
    BY <2>2, <2>4 DEF SaveOf, BatchOf
  <2>6. pgLock' \in [PgRows -> PgClients \cup {Anyone}] /\ pgWorkflows' \in 0 .. PgRowsBound
    BY <2>1 DEF PgInv, PgTypes
  <2>7. \A r \in PgRows : pgLock'[r] # c
    BY <2>1, RowsApart DEF PgInv, LocksOwned
  <2> QED BY <2>1, <2>2, <2>3, <2>5, <2>6, <2>7, RowsApart, PgMoveInv
<1> QED BY <1>1, <1>2

\* The steps of a save up to its commit.
LEMMA PgSaveSteps ==
  ASSUME PgInv, NEW c \in PgClients,
         SelectExists(c) \/ SelectForUpdate(c) \/ CheckVersion(c) \/ InsertOnConflict(c)
  PROVE  PgInv'
<1> DEFINE k == pgClient[c]
<1>0. /\ k \in PgCallType /\ pgVersion \in Nat /\ c # Anyone
      /\ pgLock \in [PgRows -> PgClients \cup {Anyone}] /\ pgWorkflows \in 0 .. PgRowsBound
      /\ SaveOf(c) /\ LocksOwned /\ pgClient \in [PgClients -> PgCallType]
  BY PgAssumption DEF PgInv, PgTypes, Anyone
<1>1. CASE SelectExists(c)
  <2> DEFINE d == [k EXCEPT !.saw = (pgVersion # 0),
                            !.pc = IF pgVersion # 0 THEN "lock" ELSE "check"]
  <2>1. d \in PgCallType /\ d.pc \in {"lock", "check"} /\ d.saw = (pgVersion # 0)
        /\ d.pc = (IF pgVersion # 0 THEN "lock" ELSE "check") /\ d.version = k.version
    BY <1>0 DEF PgCallType, PgPcs
  <2>2. pgClient' = [pgClient EXCEPT ![c] = d]
    BY <1>0, <1>1 DEF SelectExists
  <2>3. k.pc = "exists" /\ UNCHANGED <<pgVersion, pgTable, pgLock, pgWorkflows, pgCalls>>
    BY <1>1 DEF SelectExists
  <2> HIDE DEF d
  <2>4. pgClient'[c] = d
    BY <1>0, <2>2
  <2>5. SaveOf(c)' /\ BatchOf(c)'
    BY <1>0, <2>1, <2>3, <2>4 DEF SaveOf, BatchOf
  <2>6. \A r \in PgRows : pgLock'[r] # c
    BY <1>0, <2>3, RowsApart DEF LocksOwned
  <2> QED BY <1>0, <2>1, <2>2, <2>3, <2>5, <2>6, RowsApart, PgMoveInv
<1>2. CASE SelectForUpdate(c)
  <2> DEFINE d == [k EXCEPT !.version = pgVersion, !.pc = "check"]
  <2>1. d \in PgCallType /\ d.pc = "check" /\ d.version = pgVersion /\ d.saw = k.saw
    BY <1>0 DEF PgCallType, PgPcs
  <2>2. pgClient' = [pgClient EXCEPT ![c] = d]
    BY <1>0, <1>2 DEF SelectForUpdate
  <2>3. /\ k.pc = "lock" /\ pgLock[SessionRow] \in {Anyone, c}
        /\ pgLock' = [pgLock EXCEPT ![SessionRow] = c]
        /\ UNCHANGED <<pgVersion, pgTable, pgWorkflows, pgCalls>>
    BY <1>2 DEF SelectForUpdate
  <2> HIDE DEF d
  <2>4. pgClient'[c] = d
    BY <1>0, <2>2
  <2>5. /\ pgLock'[SessionRow] = c /\ pgLock' \in [PgRows -> PgClients \cup {Anyone}]
        /\ \A r \in PgRows : pgLock'[r] = pgLock[r] \/ (pgLock[r] \in {Anyone, c} /\ pgLock'[r] = c)
        /\ \A t \in PgTables, x \in PgKeys : pgLock'[<<t, x>>] = pgLock[<<t, x>>]
    BY <1>0, <2>3, RowsApart
  <2>6. SaveOf(c)' /\ BatchOf(c)'
    BY <1>0, <2>1, <2>3, <2>4, <2>5 DEF SaveOf, BatchOf
  <2>7. \A t \in PgTables, x \in PgKeys : pgLock[<<t, x>>] # c
    BY <1>0, <2>3 DEF LocksOwned
  <2>8. \A t \in PgTables, x \in PgKeys : pgLock'[<<t, x>>] # c
    BY <2>5, <2>7
  <2>9. /\ d.pc # "idle" /\ k.pc # "idle"
        /\ d.pc \notin {"idle", "begin", "query"} /\ k.pc \notin {"idle", "begin", "query"}
        /\ d.pc \in {"check", "insert", "commit"}
    BY <2>1, <2>3
  <2>10. UNCHANGED <<pgVersion, pgTable, pgCalls>> /\ pgWorkflows' \in 0 .. PgRowsBound
    BY <1>0, <2>3
  <2>11. d \in PgCallType
    BY <2>1
  <2> QED BY <2>2, <2>5, <2>6, <2>8, <2>9, <2>10, <2>11, PgMoveInv, ZenonT(60)
<1>3. CASE CheckVersion(c)
  <2>1. CASE ExpectedMatches(c)
    <3> DEFINE d == [k EXCEPT !.pc = "insert"]
    <3>1. d \in PgCallType /\ d.pc = "insert" /\ d.version = k.version /\ d.saw = k.saw
          /\ d.expect = k.expect
      BY <1>0 DEF PgCallType, PgPcs
    <3>2. pgClient' = [pgClient EXCEPT ![c] = d]
      BY <1>0, <1>3, <2>1 DEF CheckVersion
    <3>3. k.pc = "check" /\ UNCHANGED <<pgVersion, pgTable, pgLock, pgWorkflows, pgCalls>>
      BY <1>3, <2>1 DEF CheckVersion
    <3> HIDE DEF d
    <3>4. pgClient'[c] = d
      BY <1>0, <3>2
    <3>5. SaveOf(c)' /\ BatchOf(c)'
      BY <1>0, <2>1, <3>1, <3>3, <3>4 DEF SaveOf, BatchOf, ExpectedMatches
    <3>6. \A t \in PgTables, x \in PgKeys : pgLock'[<<t, x>>] # c
      BY <1>0, <3>3 DEF LocksOwned
    <3> QED BY <1>0, <3>1, <3>2, <3>3, <3>5, <3>6, PgMoveInv
  <2>2. CASE ~ExpectedMatches(c)
    <3>1. PgReturn(c) /\ UNCHANGED <<pgVersion, pgTable, pgWorkflows, pgCalls>>
      BY <1>3, <2>2 DEF CheckVersion
    <3> QED BY <3>1, PgReturnInv
  <2> QED BY <2>1, <2>2
<1>4. CASE InsertOnConflict(c)
  <2> DEFINE d == [k EXCEPT !.pc = "commit"]
  <2>1. d \in PgCallType /\ d.pc = "commit" /\ d.version = k.version /\ d.saw = k.saw
        /\ d.expect = k.expect
    BY <1>0 DEF PgCallType, PgPcs
  <2>2. pgClient' = [pgClient EXCEPT ![c] = d]
    BY <1>0, <1>4 DEF InsertOnConflict
  <2>3. /\ k.pc = "insert" /\ pgLock[SessionRow] \in {Anyone, c}
        /\ pgLock' = [pgLock EXCEPT ![SessionRow] = c]
        /\ UNCHANGED <<pgVersion, pgTable, pgWorkflows, pgCalls>>
    BY <1>4 DEF InsertOnConflict
  <2> HIDE DEF d
  <2>4. pgClient'[c] = d
    BY <1>0, <2>2
  <2>5. /\ pgLock'[SessionRow] = c /\ pgLock' \in [PgRows -> PgClients \cup {Anyone}]
        /\ \A r \in PgRows : pgLock'[r] = pgLock[r] \/ (pgLock[r] \in {Anyone, c} /\ pgLock'[r] = c)
        /\ \A t \in PgTables, x \in PgKeys : pgLock'[<<t, x>>] = pgLock[<<t, x>>]
    BY <1>0, <2>3, RowsApart
  <2>6. SaveOf(c)' /\ BatchOf(c)'
    BY <1>0, <2>1, <2>3, <2>4, <2>5 DEF SaveOf, BatchOf
  <2>7. \A t \in PgTables, x \in PgKeys : pgLock[<<t, x>>] # c
    BY <1>0, <2>3 DEF LocksOwned
  <2>8. \A t \in PgTables, x \in PgKeys : pgLock'[<<t, x>>] # c
    BY <2>5, <2>7
  <2>9. /\ d.pc # "idle" /\ k.pc # "idle"
        /\ d.pc \notin {"idle", "begin", "query"} /\ k.pc \notin {"idle", "begin", "query"}
        /\ d.pc \in {"check", "insert", "commit"}
    BY <2>1, <2>3
  <2>10. UNCHANGED <<pgVersion, pgTable, pgCalls>> /\ pgWorkflows' \in 0 .. PgRowsBound
    BY <1>0, <2>3
  <2>11. d \in PgCallType
    BY <2>1
  <2> QED BY <2>2, <2>5, <2>6, <2>8, <2>9, <2>10, <2>11, PgMoveInv
<1> QED BY <1>1, <1>2, <1>3, <1>4

\* A commit replaces the version it read; nobody else can be between reading
\* a version and writing the next.
LEMMA PgCommitSave ==
  ASSUME PgInv, NEW c \in PgClients, CommitSession(c)
  PROVE  PgInv'
<1>1. /\ pgClient[c].pc = "commit" /\ PgReturn(c) /\ pgVersion' = pgClient[c].version + 1
      /\ UNCHANGED <<pgTable, pgWorkflows, pgCalls>>
  BY DEF CommitSession
<1>2. pgClient[c] \in PgCallType /\ pgVersion \in Nat /\ SaveOf(c)
  BY DEF PgInv, PgTypes
<1>3. pgClient[c].version \in Nat /\ pgClient[c].version <= pgVersion /\ pgLock[SessionRow] = c
  BY <1>1, <1>2 DEF SaveOf, PgCallType
<1>4. PgTypes'
  BY <1>1, <1>3, PgReturnFrees DEF PgInv, PgTypes
<1>5. ASSUME NEW b \in PgClients \ {c} PROVE SaveOf(b)'
  <2>1. pgClient'[b] = pgClient[b] /\ pgLock[SessionRow] # b
    BY <1>1, <1>3, PgReturnFrees
  <2> QED BY <2>1 DEF PgInv, SaveOf
<1>6. BatchesWhole'
  BY <1>1 DEF PgInv, BatchesWhole
<1>7. VersionsOfCalls'
  <2>1. IsFiniteSet(PgBusy)
    BY PgAssumption, FS_Subset DEF PgBusy
  <2>2. PgBusy' = PgBusy \ {c} /\ c \in PgBusy
    BY <1>1, PgReturnFrees DEF PgBusy, PgIdle
  <2>3. Cardinality(PgBusy') = Cardinality(PgBusy) - 1 /\ Cardinality(PgBusy) \in Nat
    BY <2>1, <2>2, FS_RemoveElement, FS_CardinalityType
  <2> QED BY <1>1, <1>2, <1>3, <2>3 DEF PgInv, PgTypes, VersionsOfCalls
<1> QED BY <1>1, <1>4, <1>5, <1>6, <1>7, PgReturnFrees DEF PgInv

\* The steps of a batch and of a listing up to their ends.
LEMMA PgBatchSteps ==
  ASSUME PgInv, NEW c \in PgClients,
         PgBegin(c) \/ SkipBlankRow(c) \/ UpsertRow(c) \/ QueryIds(c) \/ GetWorkflow(c)
  PROVE  PgInv'
<1> DEFINE k == pgClient[c]
           Keys == PgKeys \cup {PgBlank}
<1>0. /\ k \in PgCallType /\ c # Anyone /\ pgClient \in [PgClients -> PgCallType]
      /\ pgLock \in [PgRows -> PgClients \cup {Anyone}] /\ pgWorkflows \in 0 .. PgRowsBound
      /\ SaveOf(c) /\ BatchOf(c) /\ LocksOwned
  BY PgAssumption DEF PgInv, PgTypes, Anyone
<1>1. CASE PgBegin(c)
  <2> DEFINE d == [k EXCEPT !.pc = IF k.table = "session_states" THEN "exists" ELSE "batch"]
  <2>1. d \in PgCallType /\ d.version = k.version /\ d.table = k.table /\ d.todo = k.todo
        /\ d.pc = (IF k.table = "session_states" THEN "exists" ELSE "batch")
    BY <1>0 DEF PgCallType, PgPcs
  <2>2. pgClient' = [pgClient EXCEPT ![c] = d]
    BY <1>0, <1>1 DEF PgBegin
  <2>3. k.pc = "begin" /\ ConnFree /\ UNCHANGED <<pgVersion, pgTable, pgLock, pgWorkflows, pgCalls>>
    BY <1>1 DEF PgBegin
  <2> HIDE DEF d
  <2>4. pgClient'[c] = d
    BY <1>0, <2>2
  <2>5. SaveOf(c)'
    BY <1>0, <2>1, <2>3, <2>4 DEF SaveOf
  <2>6. BatchOf(c)'
    BY <1>0, <2>1, <2>3, <2>4 DEF BatchOf
  <2>7. \A r \in PgRows : pgLock'[r] # c
    BY <1>0, <2>3, RowsApart DEF LocksOwned
  <2> QED BY <1>0, <2>1, <2>2, <2>3, <2>5, <2>6, <2>7, RowsApart, PgMoveInv
<1>2. CASE SkipBlankRow(c) \/ UpsertRow(c)
  <2> DEFINE h == Head(k.todo)
             d == [k EXCEPT !.todo = Tail(k.todo)]
  <2>1. k.pc = "batch" /\ k.todo # <<>> /\ k.todo \in Seq(Keys) /\ k.table \in PgTables
    BY <1>0, <1>2 DEF SkipBlankRow, UpsertRow, NextIsBlank, RowsLeft, PgCallType, BatchOf
  <2>2. Tail(k.todo) \in Seq(Keys) /\ h \in Keys
    BY <2>1, HeadTailProperties
  <2>3. d \in PgCallType /\ d.pc = "batch" /\ d.table = k.table /\ d.todo = Tail(k.todo)
    BY <1>0, <2>1, <2>2 DEF PgCallType
  <2>4. pgClient' = [pgClient EXCEPT ![c] = d]
        /\ UNCHANGED <<pgVersion, pgTable, pgWorkflows, pgCalls>>
    BY <1>0, <1>2 DEF SkipBlankRow, UpsertRow
  <2>5. \A x \in PgKeys : (\E i \in DOMAIN k.todo : k.todo[i] = x) =>
                            x = h \/ \E i \in DOMAIN d.todo : d.todo[i] = x
    <3> SUFFICES ASSUME NEW x \in PgKeys, NEW i \in DOMAIN k.todo, k.todo[i] = x, x # h
                 PROVE  \E j \in DOMAIN d.todo : d.todo[j] = x
      OBVIOUS
    <3>1. i \in 1 .. Len(k.todo) /\ Len(k.todo) \in Nat /\ h = k.todo[1]
      BY <2>1
    <3>2. i # 1
      BY <3>1
    <3>3. i - 1 \in 1 .. Len(Tail(k.todo)) /\ Tail(k.todo)[i - 1] = k.todo[i]
      BY <2>1, <3>1, <3>2
    <3>4. i - 1 \in DOMAIN d.todo /\ d.todo[i - 1] = x
      BY <2>2, <2>3, <3>3
    <3> QED BY <3>4
  <2> HIDE DEF d
  <2>6. pgClient'[c] = d
    BY <1>0, <2>4
  <2>7. /\ pgLock' \in [PgRows -> PgClients \cup {Anyone}]
        /\ \A r \in PgRows : pgLock'[r] = pgLock[r] \/ (pgLock[r] \in {Anyone, c} /\ pgLock'[r] = c)
        /\ h \in PgKeys => pgLock'[<<k.table, h>>] = c
        /\ \A r \in PgRows : pgLock'[r] = c => pgLock[r] = c \/ (h \in PgKeys /\ r = <<k.table, h>>)
    <3>1. CASE SkipBlankRow(c)
      <4>1. pgLock' = pgLock /\ h \notin PgKeys
        BY <3>1, PgAssumption DEF SkipBlankRow, NextIsBlank
      <4> QED BY <1>0, <4>1
    <3>2. CASE UpsertRow(c)
      <4>1. h \in PgKeys /\ h # PgBlank
        BY <2>2, <3>2 DEF UpsertRow, NextIsBlank
      <4>2. /\ <<k.table, h>> \in PgRows /\ pgLock[<<k.table, h>>] \in {Anyone, c}
            /\ pgLock' = [pgLock EXCEPT ![<<k.table, h>>] = c]
        BY <2>1, <3>2, <4>1, RowsApart DEF UpsertRow, NextRow
      <4> QED BY <1>0, <4>1, <4>2
    <3> QED BY <1>2, <3>1, <3>2
  <2>8. SaveOf(c)'
    BY <2>3, <2>6 DEF SaveOf
  <2>9. BatchOf(c)'
    <3> SUFFICES ASSUME NEW x \in PgKeys
                 PROVE  pgLock'[<<d.table, x>>] = c \/ \E i \in DOMAIN d.todo : d.todo[i] = x
      BY <2>1, <2>3, <2>6 DEF BatchOf
    <3>1. <<k.table, x>> \in PgRows
      BY <2>1, RowsApart
    <3>2. pgLock[<<k.table, x>>] = c \/ \E i \in DOMAIN k.todo : k.todo[i] = x
      BY <1>0, <2>1 DEF BatchOf
    <3> QED BY <2>3, <2>5, <2>7, <3>1, <3>2
  <2>10. \A t \in PgTables, x \in PgKeys : pgLock'[<<t, x>>] = c => d.pc = "batch" /\ d.table = t
    BY <1>0, <2>1, <2>3, <2>7, RowsApart DEF LocksOwned
  <2>11. pgLock'[SessionRow] # c
    BY <1>0, <2>1, <2>7, RowsApart DEF LocksOwned
  <2>12. pgWorkflows' \in 0 .. PgRowsBound
    BY <1>0, <2>4
  <2>13. d.pc \notin {"idle", "begin", "query"} /\ k.pc \notin {"idle", "begin", "query"}
    BY <2>1, <2>3
  <2> QED BY <2>3, <2>4, <2>7, <2>8, <2>9, <2>10, <2>11, <2>12, <2>13, PgMoveInv
<1>3. CASE QueryIds(c) \/ GetWorkflow(c)
  <2> DEFINE d == [k EXCEPT !.pc = "rows",
                            !.rows = IF k.pc = "query" THEN pgWorkflows ELSE k.rows - 1]
  <2>1. k.pc \in {"query", "rows"} /\ ConnFree /\ (k.pc = "rows" => k.rows > 0)
        /\ UNCHANGED <<pgVersion, pgTable, pgLock, pgWorkflows, pgCalls>>
    BY <1>3 DEF QueryIds, GetWorkflow
  <2>2. d \in PgCallType /\ d.pc = "rows"
    <3>1. k.rows \in 0 .. PgRowsBound /\ PgRowsBound \in Nat
      BY <1>0, PgAssumption DEF PgCallType
    <3>2. (IF k.pc = "query" THEN pgWorkflows ELSE k.rows - 1) \in 0 .. PgRowsBound
      BY <1>0, <2>1, <3>1
    <3> QED BY <1>0, <3>2 DEF PgCallType, PgPcs
  <2>3. pgClient' = [pgClient EXCEPT ![c] = d]
    <3>1. CASE QueryIds(c)
      BY <1>0, <3>1 DEF QueryIds, PgCallType
    <3>2. CASE GetWorkflow(c)
      BY <1>0, <3>2 DEF GetWorkflow, PgCallType
    <3> QED BY <1>3, <3>1, <3>2
  <2> HIDE DEF d
  <2>4. pgClient'[c] = d
    BY <1>0, <2>3
  <2>5. SaveOf(c)' /\ BatchOf(c)'
    BY <2>2, <2>4 DEF SaveOf, BatchOf
  <2>6. \A r \in PgRows : pgLock'[r] # c
    BY <1>0, <2>1, RowsApart DEF LocksOwned
  <2> QED BY <1>0, <2>1, <2>2, <2>3, <2>5, <2>6, RowsApart, PgMoveInv
<1> QED BY <1>1, <1>2, <1>3

\* A batch that commits has locked every key of its table.
LEMMA PgCommitBatch ==
  ASSUME PgInv, NEW c \in PgClients, CommitBatch(c)
  PROVE  PgInv'
<1>1. /\ pgClient[c].pc = "batch" /\ pgClient[c].todo = <<>> /\ PgReturn(c)
      /\ pgTable' = [r \in PgTables \X PgKeys |->
                       IF pgLock[r] = c THEN pgClient[c].call ELSE pgTable[r]]
      /\ UNCHANGED <<pgVersion, pgWorkflows, pgCalls>>
  BY DEF CommitBatch
<1>2. pgClient[c].call \in 0 .. PgMaxCalls /\ BatchOf(c) /\ LocksOwned /\ BatchesWhole
  BY DEF PgInv, PgTypes, PgCallType
<1>3. PgTypes'
  <2>1. pgTable' \in [PgTables \X PgKeys -> 0 .. PgMaxCalls]
    BY <1>1, <1>2 DEF PgInv, PgTypes
  <2> QED BY <1>1, <2>1, PgReturnFrees DEF PgInv, PgTypes
<1>4. ASSUME NEW b \in PgClients \ {c} PROVE SaveOf(b)'
  BY <1>1, PgReturnFrees, RowsApart DEF PgInv, SaveOf
<1>5. BatchesWhole'
  <2> SUFFICES ASSUME NEW t \in PgTables, NEW j \in PgKeys, NEW k \in PgKeys
               PROVE  pgTable'[<<t, j>>] = pgTable'[<<t, k>>]
    BY DEF BatchesWhole
  <2>1. CASE t = pgClient[c].table
    <3>1. pgLock[<<t, j>>] = c /\ pgLock[<<t, k>>] = c
      BY <1>1, <1>2, <2>1 DEF BatchOf
    <3> QED BY <1>1, <3>1
  <2>2. CASE t # pgClient[c].table
    <3>1. pgLock[<<t, j>>] # c /\ pgLock[<<t, k>>] # c
      BY <1>2, <2>2 DEF LocksOwned
    <3>2. pgTable[<<t, j>>] = pgTable[<<t, k>>]
      BY <1>2 DEF BatchesWhole
    <3> QED BY <1>1, <3>1, <3>2
  <2> QED BY <2>1, <2>2
<1>6. VersionsOfCalls'
  <2>1. PgBusy' \subseteq PgBusy
    BY <1>1, PgReturnFrees DEF PgBusy, PgIdle
  <2> QED BY <1>1, <2>1, CountFrame
<1> QED BY <1>1, <1>3, <1>4, <1>5, <1>6, PgReturnFrees DEF PgInv

\* The beginnings of a save, a batch and a listing.
LEMMA PgCallsBegin ==
  ASSUME PgInv, NEW c \in PgClients,
         \/ SaveSessionState(c) \/ ListWorkflows(c)
         \/ \E t \in PgTables : PgBatch(c, t)
  PROVE  PgInv'
<1>1. CASE SaveSessionState(c)
  <2>1. PICK e \in {AnyVersion, pgClient[c].read} :
          PgCall(c, [PgIdle EXCEPT !.pc = "begin", !.expect = e, !.table = "session_states"])
    BY <1>1 DEF SaveSessionState
  <2> DEFINE d == [PgIdle EXCEPT !.pc = "begin", !.expect = e, !.table = "session_states"]
  <2>2. e \in SUBSET Nat
    BY DEF PgInv, PgTypes, PgCallType, AnyVersion
  <2>3. d \in PgCallType /\ d.version = 0 /\ d.pc = "begin" /\ d.table = "session_states"
    BY <2>2, PgIdleType DEF PgIdle, PgCallType, PgPcs
  <2>4. PgCall(c, d)
    BY <2>1
  <2> HIDE DEF d
  <2> QED BY <2>3, <2>4, PgCallInv
<1>2. CASE ListWorkflows(c)
  <2> DEFINE d == [PgIdle EXCEPT !.pc = "query"]
  <2>1. d \in PgCallType /\ d.version = 0 /\ d.pc = "query"
    BY PgIdleType DEF PgIdle, PgCallType, PgPcs
  <2>2. PgCall(c, d)
    BY <1>2 DEF ListWorkflows
  <2> HIDE DEF d
  <2> QED BY <2>1, <2>2, PgCallInv
<1>3. ASSUME NEW t \in PgTables, PgBatch(c, t)
      PROVE  PgInv'
  <2>1. PICK rows \in PgBatches :
          PgCall(c, [PgIdle EXCEPT !.pc = "begin", !.table = t, !.todo = rows,
                                   !.call = pgCalls + 1])
    BY <1>3 DEF PgBatch
  <2> DEFINE d == [PgIdle EXCEPT !.pc = "begin", !.table = t, !.todo = rows,
                                 !.call = pgCalls + 1]
  <2>2. rows \in Seq(PgKeys \cup {PgBlank}) /\ pgCalls + 1 \in 0 .. PgMaxCalls
    BY <2>1, PgAssumption DEF PgCall, PgInv, PgTypes
  <2>3. d \in PgCallType /\ d.version = 0 /\ d.pc = "begin" /\ d.table = t /\ d.todo = rows
    BY <2>2, PgIdleType DEF PgIdle, PgCallType, PgPcs
  <2>4. PgCall(c, d)
    BY <2>1
  <2> HIDE DEF d
  <2> QED BY <2>3, <2>4, PgCallInv
<1> QED BY <1>1, <1>2, <1>3

\* Every step of the Postgres store keeps the invariant.
LEMMA PgNextInv == ASSUME PgInv, [PgNext]_pgVars PROVE PgInv'
<1>1. ASSUME NEW c \in PgClients, PgStep(c)
      PROVE  PgInv'
  <2>1. CASE CloseRows(c) \/ DeadlockVictim(c)
    <3>1. PgReturn(c) /\ UNCHANGED <<pgVersion, pgTable, pgWorkflows, pgCalls>>
      BY <2>1 DEF CloseRows, DeadlockVictim
    <3> QED BY <3>1, PgReturnInv
  <2> QED BY <1>1, <2>1, PgSaveSteps, PgCommitSave, PgBatchSteps, PgCommitBatch DEF PgStep
<1>2. ASSUME NEW c \in PgClients, PgFail(c)
      PROVE  PgInv'
  <2>1. PgReturn(c) /\ UNCHANGED <<pgVersion, pgTable, pgWorkflows, pgCalls>>
    BY <1>2 DEF PgFail
  <2> QED BY <2>1, PgReturnInv
<1>3. ASSUME NEW c \in PgClients,
             \/ UpsertVectorChunks(c) \/ UpsertRAGDocuments(c) \/ UpsertRAGMemories(c)
             \/ UpsertRouteMemories(c) \/ UpsertVFSArtifacts(c) \/ UpsertVFSCheckpoints(c)
      PROVE  PgInv'
  <2>1. \E t \in PgTables : PgBatch(c, t)
    BY <1>3 DEF UpsertVectorChunks, UpsertRAGDocuments, UpsertRAGMemories,
                UpsertRouteMemories, UpsertVFSArtifacts, UpsertVFSCheckpoints, PgTables
  <2> QED BY <2>1, PgCallsBegin
<1>4. CASE UNCHANGED pgVars
  BY <1>4 DEF pgVars, PgInv, PgTypes, SaveOf, BatchOf, LocksOwned, BatchesWhole, PoolKept,
              Connected, VersionsOfCalls, PgBusy
<1> QED BY <1>1, <1>2, <1>3, <1>4, PgSingleInv, PgCallsBegin DEF PgNext

\* Saves and batches of any number of clients, failing at any statement: no
\* save replaces a version it has not read, a batch is there as a whole or not
\* at all, and nothing stays locked.
THEOREM SavesSoundCorrect == PgSpec => []SavesSound
<1>1. PgInit => PgInv
  <2> SUFFICES ASSUME PgInit PROVE PgInv
    OBVIOUS
  <2>1. PgTypes
    BY PgIdleType, PgAssumption DEF PgInit, PgTypes
  <2>2. \A c \in PgClients : pgClient[c] = PgIdle /\ c # Anyone
    BY PgAssumption DEF PgInit, Anyone
  <2>3. \A c \in PgClients : SaveOf(c) /\ BatchOf(c)
    BY <2>2 DEF SaveOf, BatchOf, PgIdle
  <2>4. LocksOwned
    BY <2>2, RowsApart DEF PgInit, LocksOwned
  <2>5. BatchesWhole
    BY DEF PgInit, BatchesWhole
  <2>6. Connected = {} /\ PgBusy = {} /\ Cardinality({}) = 0
    BY <2>2, FS_EmptySet DEF Connected, PgBusy, PgIdle
  <2>7. PoolKept /\ VersionsOfCalls
    BY <2>6, PgAssumption DEF PgInit, PoolKept, VersionsOfCalls
  <2> QED BY <2>1, <2>3, <2>4, <2>5, <2>7 DEF PgInv
<1>2. PgInv /\ [PgNext]_pgVars => PgInv'
  BY PgNextInv
<1> QED BY <1>1, <1>2, PgInvImplies, PTL DEF PgSpec

-----------------------------------------------------------------------------
(* The local models.                                                       *)

LoPcs == {"idle", "pull", "warm", "unload", "list", "mark", "applyError", "apply", "finish"}
LoOps == {"none", "pull", "warm", "unload", "list"}

LoCallType ==
  [op : LoOps, model : LoModels \cup {Resting.model}, pc : LoPcs, todo : Seq(LoNodes),
   rounds : 0 .. LoAttempts, seen : SUBSET LoModels, alone : BOOLEAN]

LoRecordType == [resident : BOOLEAN, error : BOOLEAN, warmups : Nat, evictions : Nat]

LoDoneType == [warm : Nat, unload : Nat]

LoTyped ==
  /\ loUp \subseteq LoNodes /\ loActive \in LoNodes
  /\ loLoaded \in [LoNodes -> SUBSET LoModels]
  /\ loRecord \in [LoModels -> LoRecordType]
  /\ loDone \in [LoModels -> LoDoneType]
  /\ loCall \in [LoCallers -> LoCallType]

\* Which steps an operation x goes through.
LoInStep(x) ==
  /\ Len(x.todo) <= Len(LoEndpoints)
  /\ x.pc # "idle" => x.model \in LoModels /\ x.op # "none"
  /\ x.pc = "pull" => x.op = "pull"
  /\ x.pc = "warm" => x.op \in {"pull", "warm"}
  /\ x.pc = "unload" => x.op = "unload"
  /\ x.pc = "finish" => x.op \in {"pull", "warm", "unload"}

\* The server that listings ask first has what the operation told it.
LoThere(x) ==
  x.op \in {"pull", "warm", "unload"} =>
    (x.model \in loLoaded[loActive] <=> x.op # "unload")

\* While nobody disturbs the operation, its listing goes to the server that did
\* the change, and what it brings is what that server has.
LoTold(x) ==
  x.alone =>
    /\ x.pc \in {"list", "apply", "finish"} => LoThere(x)
    /\ x.pc = "list" /\ x.todo # <<>> => Head(x.todo) = loActive
    /\ x.pc = "apply" => x.seen = loLoaded[loActive]
    /\ x.pc = "finish" =>
         \A m \in LoModels : (loRecord[m].resident <=> m \in loLoaded[loActive])

\* The operations that a server has done for m and no record counts yet.
LoOwes(x, m, ops) == x.model = m /\ x.op \in ops /\ x.pc \in {"list", "apply", "finish"}
LoOwing(m, ops) == {c \in LoCallers : LoOwes(loCall[c], m, ops)}

LoCounted ==
  \A m \in LoModels :
    /\ loRecord[m].warmups + Cardinality(LoOwing(m, {"pull", "warm"})) <= loDone[m].warm
    /\ loRecord[m].evictions + Cardinality(LoOwing(m, {"unload"})) <= loDone[m].unload

LoInv ==
  /\ LoTyped
  /\ \A c \in LoCallers : LoInStep(loCall[c]) /\ LoTold(loCall[c])
  /\ LoCounted


LEMMA LoOwingFinite ==
  ASSUME NEW m, NEW ops
  PROVE IsFiniteSet(LoOwing(m, ops)) /\ Cardinality(LoOwing(m, ops)) \in Nat
<1>1. LoOwing(m, ops) \subseteq LoCallers
  BY DEF LoOwing
<1>2. IsFiniteSet(LoOwing(m, ops))
  BY <1>1, LocalAssumption, FS_Subset
<1> QED
  BY <1>2, FS_CardinalityType


LEMMA LoInvImplies == LoInv => LocalSound
<1> SUFFICES ASSUME LoInv PROVE LocalSound
  OBVIOUS
<1>1. LoTypeOK
  BY DEF LoInv, LoTyped, LoInStep, LoTypeOK, LoCallType, LoPcs
<1>2. DoneAsTold
  <2> SUFFICES ASSUME NEW c \in LoCallers, loCall[c].pc = "finish", loCall[c].alone
               PROVE /\ \A m \in LoModels : loRecord[m].resident = (m \in loLoaded[loActive])
                     /\ loRecord[loCall[c].model].resident = (loCall[c].op # "unload")
    BY DEF DoneAsTold
  <2>1. LoInStep(loCall[c]) /\ LoTold(loCall[c])
    BY DEF LoInv
  <2>2. /\ loCall[c].model \in LoModels /\ loCall[c].op \in {"pull", "warm", "unload"}
        /\ (loCall[c].model \in loLoaded[loActive] <=> loCall[c].op # "unload")
        /\ \A m \in LoModels : (loRecord[m].resident <=> m \in loLoaded[loActive])
    BY <2>1 DEF LoInStep, LoTold, LoThere
  <2>3. \A m \in LoModels : loRecord[m].resident \in BOOLEAN
    BY DEF LoInv, LoTyped, LoRecordType
  <2>4. \A m \in LoModels : loRecord[m].resident = (m \in loLoaded[loActive])
    <3> SUFFICES ASSUME NEW m \in LoModels PROVE loRecord[m].resident = (m \in loLoaded[loActive])
      OBVIOUS
    <3>1. loRecord[m].resident \in BOOLEAN /\ (loRecord[m].resident <=> m \in loLoaded[loActive])
      BY <2>2, <2>3
    <3>2. PICK b \in BOOLEAN : b = loRecord[m].resident
      BY <3>1
    <3>3. b = (m \in loLoaded[loActive])
      BY <3>1, <3>2
    <3> QED
      BY <3>2, <3>3, Zenon
  <2>5. loRecord[loCall[c].model].resident = (loCall[c].op # "unload")
    BY <2>2, <2>3, Zenon
  <2> QED
    BY <2>4, <2>5
<1>3. CountsHonest
  <2> SUFFICES ASSUME NEW m \in LoModels
               PROVE loRecord[m].warmups <= loDone[m].warm /\ loRecord[m].evictions <= loDone[m].unload
    BY DEF CountsHonest
  <2>1. /\ loRecord[m].warmups \in Nat /\ loRecord[m].evictions \in Nat
        /\ loDone[m].warm \in Nat /\ loDone[m].unload \in Nat
    BY DEF LoInv, LoTyped, LoRecordType, LoDoneType
  <2>2. \A ops : Cardinality(LoOwing(m, ops)) \in Nat
    BY LoOwingFinite
  <2>3. /\ loRecord[m].warmups + Cardinality(LoOwing(m, {"pull", "warm"})) <= loDone[m].warm
        /\ loRecord[m].evictions + Cardinality(LoOwing(m, {"unload"})) <= loDone[m].unload
    BY DEF LoInv, LoCounted
  <2> QED
    BY <2>1, <2>2, <2>3
<1> QED
  BY <1>1, <1>2, <1>3 DEF LocalSound


\* The records that the steps leave behind.
LEMMA LoAsk ==
  ASSUME NEW y \in LoCallType, NEW pc \in LoPcs
  PROVE /\ Ask(y, pc) \in LoCallType
        /\ Ask(y, pc).pc = pc /\ Ask(y, pc).op = y.op /\ Ask(y, pc).model = y.model
        /\ Ask(y, pc).todo = <<>> /\ Ask(y, pc).alone = y.alone
<1>1. LoAttempts \in 0 .. LoAttempts
  BY LocalAssumption
<1>2. <<>> \in Seq(LoNodes)
  OBVIOUS
<1> QED
  BY <1>1, <1>2 DEF Ask, LoCallType

LEMMA LoGivenUp ==
  ASSUME NEW y \in LoCallType
  PROVE /\ GivenUp(y) \in LoCallType
        /\ GivenUp(y).pc \in {"mark", "applyError"}
        /\ GivenUp(y).op = y.op /\ GivenUp(y).model = y.model /\ GivenUp(y).todo = y.todo
  BY DEF GivenUp, LoCallType, LoPcs

LEMMA LoAfter ==
  ASSUME NEW y \in LoCallType, y.todo # <<>>, Len(y.todo) <= Len(LoEndpoints)
  PROVE LET z == [y EXCEPT !.todo = Tail(@), !.alone = @ /\ y.pc # "list"]
        IN /\ z \in LoCallType /\ z.pc = y.pc /\ z.op = y.op /\ z.model = y.model
           /\ Len(z.todo) <= Len(LoEndpoints)
           /\ z.alone => z.pc # "list"
<1>1. (y.alone /\ y.pc # "list") \in BOOLEAN
  OBVIOUS
<1>2. PICK b \in BOOLEAN : b <=> (y.alone /\ y.pc # "list")
  BY <1>1
<1>3. b = (y.alone /\ y.pc # "list")
  BY <1>2, Zenon
<1>4. PICK t : t = Tail(y.todo)
  OBVIOUS
<1>5. y.todo \in Seq(LoNodes)
  BY DEF LoCallType
<1>6. t \in Seq(LoNodes) /\ Len(t) <= Len(LoEndpoints)
  BY <1>4, <1>5, LocalAssumption
<1>7. [y EXCEPT !.todo = t, !.alone = b] = [y EXCEPT !.todo = Tail(@), !.alone = @ /\ y.pc # "list"]
  BY <1>3, <1>4, Zenon
<1> DEFINE w == [y EXCEPT !.todo = t, !.alone = b]
<1>8. /\ w \in LoCallType /\ w.pc = y.pc /\ w.op = y.op /\ w.model = y.model
      /\ Len(w.todo) <= Len(LoEndpoints)
  BY <1>6 DEF LoCallType
<1>9. w.alone => w.pc # "list"
  BY <1>2 DEF LoCallType
<1> HIDE DEF w
<1> QED
  BY <1>7, <1>8, <1>9 DEF w

LEMMA LoEndpointOrder ==
  ASSUME LoTyped
  PROVE /\ EndpointOrder \in Seq(LoNodes) /\ EndpointOrder # <<>>
        /\ Head(EndpointOrder) = loActive
        /\ Len(EndpointOrder) <= Len(LoEndpoints)
<1> DEFINE i == CHOOSE i \in DOMAIN LoEndpoints : LoEndpoints[i] = loActive
<1>1. i \in DOMAIN LoEndpoints /\ LoEndpoints \in Seq(LoNodes) /\ loActive \in LoNodes
  BY LocalAssumption DEF LoTyped, LoNodes
<1>2. EndpointOrder = <<loActive>> \o SubSeq(LoEndpoints, 1, i - 1)
                        \o SubSeq(LoEndpoints, i + 1, Len(LoEndpoints))
  BY DEF EndpointOrder
<1> HIDE DEF i
<1>3. i \in 1 .. Len(LoEndpoints) /\ Len(LoEndpoints) \in Nat
  BY <1>1
<1>4. PICK a : a = SubSeq(LoEndpoints, 1, i - 1)
  OBVIOUS
<1>5. PICK b : b = SubSeq(LoEndpoints, i + 1, Len(LoEndpoints))
  OBVIOUS
<1>6. a \in Seq(LoNodes) /\ Len(a) = i - 1
  BY <1>1, <1>3, <1>4, SubSeqProperties
<1>7. b \in Seq(LoNodes) /\ Len(b) = Len(LoEndpoints) - i
  BY <1>1, <1>3, <1>5, SubSeqProperties
<1>8. EndpointOrder = <<loActive>> \o a \o b
  BY <1>2, <1>4, <1>5
<1>9. PICK h : h = <<loActive>> \o a
  OBVIOUS
<1>10. h \in Seq(LoNodes) /\ Len(h) = i /\ h[1] = loActive
  BY <1>1, <1>3, <1>6, <1>9
<1>11. PICK k : k = h \o b
  OBVIOUS
<1>12. k \in Seq(LoNodes) /\ Len(k) = Len(LoEndpoints) /\ k[1] = loActive
  <2>1. k \in Seq(LoNodes) /\ Len(k) = Len(h) + Len(b)
    BY <1>7, <1>10, <1>11, ConcatProperties
  <2>2. Len(k) = Len(LoEndpoints)
    BY <1>3, <1>7, <1>10, <2>1
  <2>3. 1 \in 1 .. Len(h) + Len(b) /\ 1 <= Len(h)
    BY <1>3, <1>7, <1>10
  <2>4. k[1] = h[1]
    BY <1>7, <1>10, <1>11, <2>3, ConcatProperties
  <2> QED
    BY <1>10, <2>1, <2>2, <2>4
<1>13. EndpointOrder = k
  BY <1>8, <1>9, <1>11
<1> QED
  BY <1>3, <1>12, <1>13


\* What a step leaves of the calls: the caller's is x, and nobody else is alone.
LEMMA LoCalls ==
  ASSUME LoInv, NEW c \in LoCallers, NEW x \in LoCallType, Step(c, x), LoInStep(x)
  PROVE /\ loCall' \in [LoCallers -> LoCallType] /\ loCall'[c] = x
        /\ \A d \in LoCallers : LoInStep(loCall'[d]) /\ (d # c => ~loCall'[d].alone)
        /\ \A d \in LoCallers : \A m, ops :
             d # c => (LoOwes(loCall'[d], m, ops) <=> LoOwes(loCall[d], m, ops))
<1> DEFINE Other(d) == [loCall[d] EXCEPT !.alone = FALSE]
<1>1. loCall' = [d \in LoCallers |-> IF d = c THEN x ELSE Other(d)]
  BY DEF Step
<1>2. \A d \in LoCallers : loCall[d] \in LoCallType /\ LoInStep(loCall[d])
  BY DEF LoInv, LoTyped
<1>3. \A d \in LoCallers :
        /\ Other(d) \in LoCallType /\ ~Other(d).alone
        /\ Other(d).pc = loCall[d].pc /\ Other(d).op = loCall[d].op
        /\ Other(d).model = loCall[d].model /\ Other(d).todo = loCall[d].todo
  BY <1>2 DEF LoCallType
<1> HIDE DEF Other
<1>4. \A d \in LoCallers : d # c => loCall'[d] = Other(d)
  BY <1>1
<1>5. loCall' \in [LoCallers -> LoCallType] /\ loCall'[c] = x
  BY <1>1, <1>3
<1>6. \A d \in LoCallers : LoInStep(loCall'[d]) /\ (d # c => ~loCall'[d].alone)
  BY <1>2, <1>3, <1>4, <1>5 DEF LoInStep
<1>7. \A d \in LoCallers : \A m, ops :
        d # c => (LoOwes(loCall'[d], m, ops) <=> LoOwes(loCall[d], m, ops))
  BY <1>3, <1>4 DEF LoOwes
<1> QED
  BY <1>5, <1>6, <1>7

LoOwed(x, m, ops) == IF LoOwes(x, m, ops) THEN 1 ELSE 0

LEMMA LoOwingStep ==
  ASSUME LoInv, NEW c \in LoCallers, NEW x \in LoCallType, Step(c, x), LoInStep(x),
         NEW m, NEW ops
  PROVE Cardinality(LoOwing(m, ops)') =
          Cardinality(LoOwing(m, ops)) + LoOwed(x, m, ops) - LoOwed(loCall[c], m, ops)
<1>1. PICK S : S = LoOwing(m, ops)
  OBVIOUS
<1>2. PICK T : T = LoOwing(m, ops)'
  OBVIOUS
<1>3. IsFiniteSet(S) /\ Cardinality(S) \in Nat
  BY <1>1, LoOwingFinite
<1>4. c \in S <=> LoOwes(loCall[c], m, ops)
  BY <1>1 DEF LoOwing
<1>5. loCall'[c] = x
  BY LoCalls
<1>6. c \in T <=> LoOwes(x, m, ops)
  BY <1>2, <1>5 DEF LoOwing, LoOwes
<1>7. \A d \in LoCallers : d # c => (LoOwes(loCall'[d], m, ops) <=> LoOwes(loCall[d], m, ops))
  BY LoCalls
<1>8. \A d \in LoCallers : d # c => (d \in T <=> d \in S)
  BY <1>1, <1>2, <1>7 DEF LoOwing, LoOwes
<1>9. S \subseteq LoCallers /\ T \subseteq LoCallers
  BY <1>1, <1>2 DEF LoOwing
<1>10. CASE (c \in S <=> c \in T)
  <2>1. S = T
    BY <1>8, <1>9, <1>10
  <2> QED
    BY <1>1, <1>2, <1>3, <1>4, <1>6, <1>10, <2>1 DEF LoOwed
<1>11. CASE c \in S /\ c \notin T
  <2>1. T = S \ {c}
    BY <1>8, <1>9, <1>11
  <2>2. Cardinality(T) = Cardinality(S) - 1
    BY <1>3, <1>11, <2>1, FS_RemoveElement
  <2> QED
    BY <1>1, <1>2, <1>3, <1>4, <1>6, <1>11, <2>2 DEF LoOwed
<1>12. CASE c \notin S /\ c \in T
  <2>1. T = S \cup {c}
    BY <1>8, <1>9, <1>12
  <2>2. Cardinality(T) = Cardinality(S) + 1
    BY <1>3, <1>12, <2>1, FS_AddElement
  <2> QED
    BY <1>1, <1>2, <1>3, <1>4, <1>6, <1>12, <2>2 DEF LoOwed
<1> QED
  BY <1>10, <1>11, <1>12

\* What is counted for m, and what is owed, grows no more than what is done.
LoPays(y, x, m) ==
  /\ loRecord'[m].warmups + LoOwed(x, m, {"pull", "warm"}) - LoOwed(y, m, {"pull", "warm"})
       <= loRecord[m].warmups + loDone'[m].warm - loDone[m].warm
  /\ loRecord'[m].evictions + LoOwed(x, m, {"unload"}) - LoOwed(y, m, {"unload"})
       <= loRecord[m].evictions + loDone'[m].unload - loDone[m].unload

LEMMA LoStepHolds ==
  ASSUME LoInv, NEW c \in LoCallers, NEW x \in LoCallType, Step(c, x), LoInStep(x),
         loUp' = loUp, loActive' \in LoNodes,
         loLoaded' \in [LoNodes -> SUBSET LoModels],
         loRecord' \in [LoModels -> LoRecordType],
         loDone' \in [LoModels -> LoDoneType],
         LoTold(loCall[c])',
         \A m \in LoModels : LoPays(loCall[c], x, m)
  PROVE LoInv'
<1>1. LoTyped'
  <2>1. loCall' \in [LoCallers -> LoCallType]
    BY LoCalls
  <2> QED
    BY <2>1 DEF LoInv, LoTyped
<1>2. \A d \in LoCallers : LoInStep(loCall'[d]) /\ (d # c => ~loCall'[d].alone)
  BY LoCalls
<1>3. \A d \in LoCallers : LoInStep(loCall[d])'
  BY <1>2 DEF LoInStep
<1>4. \A d \in LoCallers : LoTold(loCall[d])'
  <2> SUFFICES ASSUME NEW d \in LoCallers, d # c PROVE LoTold(loCall[d])'
    OBVIOUS
  <2>1. ~loCall'[d].alone
    BY <1>2
  <2> QED
    BY <2>1 DEF LoTold
<1>5. LoCounted'
  <2> SUFFICES ASSUME NEW m \in LoModels
               PROVE /\ loRecord'[m].warmups + Cardinality(LoOwing(m, {"pull", "warm"})') <= loDone'[m].warm
                     /\ loRecord'[m].evictions + Cardinality(LoOwing(m, {"unload"})') <= loDone'[m].unload
    BY DEF LoCounted
  <2>1. /\ loRecord[m].warmups \in Nat /\ loRecord[m].evictions \in Nat
        /\ loDone[m].warm \in Nat /\ loDone[m].unload \in Nat
        /\ loRecord'[m].warmups \in Nat /\ loRecord'[m].evictions \in Nat
        /\ loDone'[m].warm \in Nat /\ loDone'[m].unload \in Nat
    BY DEF LoInv, LoTyped, LoRecordType, LoDoneType
  <2>2. \A ops : Cardinality(LoOwing(m, ops)) \in Nat
    BY LoOwingFinite
  <2>3. \A ops, z : LoOwed(z, m, ops) \in {0, 1}
    BY DEF LoOwed
  <2>4. /\ loRecord[m].warmups + Cardinality(LoOwing(m, {"pull", "warm"})) <= loDone[m].warm
        /\ loRecord[m].evictions + Cardinality(LoOwing(m, {"unload"})) <= loDone[m].unload
    BY DEF LoInv, LoCounted
  <2>5. \A ops : Cardinality(LoOwing(m, ops)') =
                   Cardinality(LoOwing(m, ops)) + LoOwed(x, m, ops) - LoOwed(loCall[c], m, ops)
    BY LoOwingStep
  <2>6. LoPays(loCall[c], x, m)
    OBVIOUS
  <2>7. loRecord'[m].warmups + Cardinality(LoOwing(m, {"pull", "warm"})') <= loDone'[m].warm
    BY <2>1, <2>2, <2>3, <2>4, <2>5, <2>6 DEF LoPays
  <2>8. loRecord'[m].evictions + Cardinality(LoOwing(m, {"unload"})') <= loDone'[m].unload
    BY <2>1, <2>2, <2>3, <2>4, <2>5, <2>6 DEF LoPays
  <2> QED
    BY <2>7, <2>8
<1> QED
  BY <1>1, <1>3, <1>4, <1>5 DEF LoInv


\* Records and requests done stay, and the caller owes as much: nothing is due.
LEMMA LoNothingDue ==
  ASSUME LoInv, NEW c \in LoCallers, NEW x, loRecord' = loRecord, loDone' = loDone,
         \A m, ops : LoOwes(x, m, ops) => LoOwes(loCall[c], m, ops) \/ "list" \in ops
  PROVE \A m \in LoModels : LoPays(loCall[c], x, m)
<1> SUFFICES ASSUME NEW m \in LoModels PROVE LoPays(loCall[c], x, m)
  OBVIOUS
<1>1. /\ loRecord[m].warmups \in Nat /\ loRecord[m].evictions \in Nat
      /\ loDone[m].warm \in Nat /\ loDone[m].unload \in Nat
  BY DEF LoInv, LoTyped, LoRecordType, LoDoneType
<1>2. \A ops : "list" \notin ops => LoOwed(x, m, ops) <= LoOwed(loCall[c], m, ops)
  BY DEF LoOwed
<1>3. \A ops, z : LoOwed(z, m, ops) \in {0, 1}
  BY DEF LoOwed
<1>4. "list" \notin {"pull", "warm"} /\ "list" \notin {"unload"}
  OBVIOUS
<1> QED
  BY <1>1, <1>2, <1>3, <1>4 DEF LoPays

LEMMA LoResting ==
  /\ Resting \in LoCallType
  /\ Resting.pc = "idle" /\ Resting.op = "none" /\ ~Resting.alone /\ Resting.todo = <<>>
  /\ LoInStep(Resting)
<1>1. /\ Resting \in LoCallType /\ Resting.pc = "idle" /\ Resting.op = "none"
      /\ ~Resting.alone /\ Resting.todo = <<>>
  BY LocalAssumption DEF Resting, LoCallType, LoPcs, LoOps
<1>2. Len(<<>>) = 0 /\ 0 <= Len(LoEndpoints)
  BY LocalAssumption
<1> QED
  BY <1>1, <1>2 DEF LoInStep

LEMMA LoInitHolds == LoInit => LoInv
<1> SUFFICES ASSUME LoInit PROVE LoInv
  OBVIOUS
<1> USE DEF LoInit
<1>1. Resting \in LoCallType /\ Resting.pc = "idle" /\ ~Resting.alone /\ LoInStep(Resting)
  BY LoResting
<1>2. LoEndpoints[1] \in LoNodes
  BY LocalAssumption
<1>3. LoTyped
  BY <1>1, <1>2 DEF LoTyped, LoRecordType, LoDoneType
<1>4. \A c \in LoCallers : LoInStep(loCall[c]) /\ LoTold(loCall[c])
  BY <1>1 DEF LoTold
<1>5. LoCounted
  <2>1. \A m, ops : LoOwing(m, ops) = {}
    BY <1>1 DEF LoOwing, LoOwes
  <2>2. Cardinality({}) = 0
    BY FS_EmptySet
  <2>3. \A m \in LoModels : /\ loRecord[m].warmups = 0 /\ loRecord[m].evictions = 0
                            /\ loDone[m].warm = 0 /\ loDone[m].unload = 0
    OBVIOUS
  <2>4. \A m, ops : Cardinality(LoOwing(m, ops)) = 0
    BY <2>1, <2>2, Zenon
  <2>5. 0 + 0 <= 0
    OBVIOUS
  <2> QED
    BY <2>3, <2>4, <2>5 DEF LoCounted
<1> QED
  BY <1>3, <1>4, <1>5 DEF LoInv

LEMMA LoCallHolds ==
  ASSUME LoInv, NEW c \in LoCallers, Call(c)
  PROVE LoInv'
<1>1. PICK m \in LoModels, first \in {"pull", "warm", "unload", "list"} :
        Step(c, Ask([Resting EXCEPT !.op = first, !.model = m,
                       !.alone = \A d \in LoCallers : loCall[d].pc = "idle"], first))
  BY DEF Call
<1>2. (\A d \in LoCallers : loCall[d].pc = "idle") \in BOOLEAN
  OBVIOUS
<1>3. PICK a \in BOOLEAN : a = (\A d \in LoCallers : loCall[d].pc = "idle")
  BY <1>2
<1>4. PICK y : y = [Resting EXCEPT !.op = first, !.model = m, !.alone = a]
  OBVIOUS
<1>5. y \in LoCallType /\ y.op = first /\ y.model = m
  <2>1. Resting \in LoCallType
    BY LoResting
  <2> QED
    BY <1>4, <2>1 DEF LoCallType, LoOps
<1>6. PICK x : x = Ask(y, first)
  OBVIOUS
<1>7. Step(c, x)
  BY <1>1, <1>3, <1>4, <1>6
<1>8. first \in LoPcs
  BY DEF LoPcs
<1>9. x \in LoCallType /\ x.pc = first /\ x.op = first /\ x.model = m /\ x.todo = <<>>
  BY <1>5, <1>6, <1>8, LoAsk
<1>10. LoInStep(x)
  BY <1>9, LocalAssumption DEF LoInStep
<1>11. /\ loUp' = loUp /\ loActive' = loActive /\ loLoaded' = loLoaded
       /\ loRecord' = loRecord /\ loDone' = loDone
  BY DEF Call
<1>12. LoTyped
  BY DEF LoInv
<1>13. loCall'[c] = x
  BY <1>7, <1>9, <1>10, LoCalls
<1>14. LoTold(loCall[c])'
  BY <1>9, <1>13 DEF LoTold, LoThere
<1>15. \A n, ops : LoOwes(x, n, ops) => LoOwes(loCall[c], n, ops) \/ "list" \in ops
  BY <1>9 DEF LoOwes
<1>16. \A n \in LoModels : LoPays(loCall[c], x, n)
  BY <1>11, <1>15, LoNothingDue
<1> QED
  BY <1>7, <1>9, <1>10, <1>11, <1>12, <1>14, <1>16, LoStepHolds, SMTT(40) DEF LoTyped

LEMMA LoRoundHolds ==
  ASSUME LoInv, NEW c \in LoCallers, Round(c)
  PROVE LoInv'
<1>1. LoTyped
  BY DEF LoInv
<1>2. PICK t : t = EndpointOrder
  OBVIOUS
<1>3. t \in Seq(LoNodes) /\ Head(t) = loActive /\ Len(t) <= Len(LoEndpoints)
  BY <1>1, <1>2, LoEndpointOrder
<1>4. PICK y \in LoCallType : y = loCall[c]
  BY <1>1 DEF LoTyped
<1>5. PICK x : x = [y EXCEPT !.todo = t, !.rounds = @ - 1]
  OBVIOUS
<1>6. Step(c, x) /\ y.rounds > 0
  BY <1>2, <1>4, <1>5 DEF Round
<1>7. y.rounds - 1 \in 0 .. LoAttempts
  BY <1>6, LocalAssumption DEF LoCallType
<1>8. /\ x \in LoCallType /\ x.pc = y.pc /\ x.op = y.op /\ x.model = y.model
      /\ x.todo = t /\ x.alone = y.alone
  BY <1>3, <1>5, <1>7 DEF LoCallType
<1>9. LoInStep(y) /\ LoTold(y)
  BY <1>4 DEF LoInv
<1>10. LoInStep(x)
  BY <1>3, <1>8, <1>9 DEF LoInStep
<1>11. /\ loUp' = loUp /\ loActive' = loActive /\ loLoaded' = loLoaded
       /\ loRecord' = loRecord /\ loDone' = loDone
       /\ y.pc \in {"pull", "warm", "unload", "list"}
  BY <1>4 DEF Round, Requesting
<1>12. loCall'[c] = x
  BY <1>6, <1>8, <1>10, LoCalls
<1>13. LoTold(x)
  BY <1>3, <1>8, <1>9, <1>11 DEF LoTold, LoThere
<1>14. LoTold(loCall[c])'
  BY <1>11, <1>12, <1>13 DEF LoTold, LoThere
<1>15. \A m, ops : LoOwes(x, m, ops) => LoOwes(loCall[c], m, ops) \/ "list" \in ops
  BY <1>4, <1>8 DEF LoOwes
<1>16. \A m \in LoModels : LoPays(loCall[c], x, m)
  BY <1>11, <1>15, LoNothingDue
<1> QED
  BY <1>1, <1>6, <1>8, <1>10, <1>11, <1>14, <1>16, LoStepHolds DEF LoTyped


\* What a server does with a request.
LEMMA LoEffect ==
  ASSUME LoInv, NEW y \in LoCallType, y.model \in LoModels, NEW e \in LoNodes, Effect(y, e)
  PROVE /\ loLoaded' \in [LoNodes -> SUBSET LoModels] /\ loDone' \in [LoModels -> LoDoneType]
        /\ \A m \in LoModels : /\ loDone'[m].warm >= loDone[m].warm
                               /\ loDone'[m].unload >= loDone[m].unload
        /\ y.pc = "warm" => /\ y.model \in loLoaded'[e]
                            /\ loDone'[y.model].warm = loDone[y.model].warm + 1
        /\ y.pc = "unload" => /\ y.model \notin loLoaded'[e]
                              /\ loDone'[y.model].unload = loDone[y.model].unload + 1
        /\ y.pc \notin {"warm", "unload"} => loLoaded' = loLoaded /\ loDone' = loDone
<1>1. /\ loLoaded \in [LoNodes -> SUBSET LoModels] /\ loDone \in [LoModels -> LoDoneType]
  BY DEF LoInv, LoTyped
<1>2. CASE y.pc = "warm"
  <2>1. loLoaded' = [loLoaded EXCEPT ![e] = @ \cup {y.model}]
    BY <1>2 DEF Effect
  <2>2. loDone' = [loDone EXCEPT ![y.model] = [loDone[y.model] EXCEPT !.warm = loDone[y.model].warm + 1]]
    BY <1>2 DEF Effect
  <2>3. \A d \in LoDoneType : /\ [d EXCEPT !.warm = d.warm + 1] \in LoDoneType
                              /\ [d EXCEPT !.warm = d.warm + 1].warm = d.warm + 1
                              /\ [d EXCEPT !.warm = d.warm + 1].unload = d.unload
                              /\ d.warm \in Nat /\ d.unload \in Nat
    BY DEF LoDoneType
  <2>4. loLoaded' \in [LoNodes -> SUBSET LoModels] /\ y.model \in loLoaded'[e]
    BY <1>1, <2>1
  <2>5. /\ loDone' \in [LoModels -> LoDoneType]
        /\ loDone'[y.model].warm = loDone[y.model].warm + 1
        /\ loDone'[y.model].unload = loDone[y.model].unload
        /\ \A m \in LoModels : m # y.model => loDone'[m] = loDone[m]
    BY <1>1, <2>2, <2>3
  <2>6. \A m \in LoModels : /\ loDone'[m].warm >= loDone[m].warm
                            /\ loDone'[m].unload >= loDone[m].unload
    <3> SUFFICES ASSUME NEW m \in LoModels
                 PROVE loDone'[m].warm >= loDone[m].warm /\ loDone'[m].unload >= loDone[m].unload
      OBVIOUS
    <3>1. loDone[m].warm \in Nat /\ loDone[m].unload \in Nat
      BY <1>1 DEF LoDoneType
    <3> QED
      BY <2>5, <3>1
  <2> QED
    BY <1>2, <2>4, <2>5, <2>6
<1>3. CASE y.pc = "unload"
  <2>1. loLoaded' = [loLoaded EXCEPT ![e] = @ \ {y.model}]
    BY <1>3 DEF Effect
  <2>2. loDone' = [loDone EXCEPT ![y.model] = [loDone[y.model] EXCEPT !.unload = loDone[y.model].unload + 1]]
    BY <1>3 DEF Effect
  <2>3. \A d \in LoDoneType : /\ [d EXCEPT !.unload = d.unload + 1] \in LoDoneType
                              /\ [d EXCEPT !.unload = d.unload + 1].unload = d.unload + 1
                              /\ [d EXCEPT !.unload = d.unload + 1].warm = d.warm
                              /\ d.warm \in Nat /\ d.unload \in Nat
    BY DEF LoDoneType
  <2>4. loLoaded' \in [LoNodes -> SUBSET LoModels] /\ y.model \notin loLoaded'[e]
    BY <1>1, <2>1
  <2>5. /\ loDone' \in [LoModels -> LoDoneType]
        /\ loDone'[y.model].unload = loDone[y.model].unload + 1
        /\ loDone'[y.model].warm = loDone[y.model].warm
        /\ \A m \in LoModels : m # y.model => loDone'[m] = loDone[m]
    BY <1>1, <2>2, <2>3
  <2>6. \A m \in LoModels : /\ loDone'[m].warm >= loDone[m].warm
                            /\ loDone'[m].unload >= loDone[m].unload
    <3> SUFFICES ASSUME NEW m \in LoModels
                 PROVE loDone'[m].warm >= loDone[m].warm /\ loDone'[m].unload >= loDone[m].unload
      OBVIOUS
    <3>1. loDone[m].warm \in Nat /\ loDone[m].unload \in Nat
      BY <1>1 DEF LoDoneType
    <3> QED
      BY <2>5, <3>1
  <2> QED
    BY <1>3, <2>4, <2>5, <2>6
<1>4. CASE y.pc \notin {"warm", "unload"}
  <2>1. loDone' = loDone /\ loLoaded' = [loLoaded EXCEPT ![e] = @]
    BY <1>4 DEF Effect
  <2>2. loLoaded' = loLoaded
    BY <1>1, <2>1
  <2>3. \A m \in LoModels : loDone[m].warm \in Nat /\ loDone[m].unload \in Nat
    BY <1>1 DEF LoDoneType
  <2> QED
    BY <1>1, <1>4, <2>1, <2>2, <2>3
<1> QED
  BY <1>2, <1>3, <1>4

\* What the caller comes to owe, a server has done in the same step.
LoEarns(y, x, m) ==
  /\ loDone'[m].warm >= loDone[m].warm /\ loDone'[m].unload >= loDone[m].unload
  /\ LoOwes(x, m, {"pull", "warm"}) =>
       LoOwes(y, m, {"pull", "warm"}) \/ loDone'[m].warm = loDone[m].warm + 1
  /\ LoOwes(x, m, {"unload"}) =>
       LoOwes(y, m, {"unload"}) \/ loDone'[m].unload = loDone[m].unload + 1

LEMMA LoEarned ==
  ASSUME LoInv, NEW y, NEW x, loRecord' = loRecord, loDone' \in [LoModels -> LoDoneType],
         \A m \in LoModels : LoEarns(y, x, m)
  PROVE \A m \in LoModels : LoPays(y, x, m)
<1> SUFFICES ASSUME NEW m \in LoModels PROVE LoPays(y, x, m)
  OBVIOUS
<1>1. /\ loRecord[m].warmups \in Nat /\ loRecord[m].evictions \in Nat
      /\ loDone[m].warm \in Nat /\ loDone[m].unload \in Nat
      /\ loDone'[m].warm \in Nat /\ loDone'[m].unload \in Nat
  BY DEF LoInv, LoTyped, LoRecordType, LoDoneType
<1>2. LoEarns(y, x, m)
  OBVIOUS
<1> QED
  BY <1>1, <1>2 DEF LoPays, LoEarns, LoOwed


\* The request that c makes, and where.
LEMMA LoRequest ==
  ASSUME LoInv, NEW c \in LoCallers, Requesting(c)
  PROVE /\ loCall[c] \in LoCallType /\ LoInStep(loCall[c]) /\ LoTold(loCall[c])
        /\ loCall[c].pc \in {"pull", "warm", "unload", "list"} /\ loCall[c].model \in LoModels
        /\ loCall[c].todo # <<>> => Head(loCall[c].todo) \in LoNodes
<1>1. loCall[c] \in LoCallType /\ LoInStep(loCall[c]) /\ LoTold(loCall[c])
  BY DEF LoInv, LoTyped
<1>2. loCall[c].pc \in {"pull", "warm", "unload", "list"}
  BY DEF Requesting
<1>3. loCall[c].model \in LoModels
  BY <1>1, <1>2 DEF LoInStep
<1>4. loCall[c].todo \in Seq(LoNodes)
  BY <1>1 DEF LoCallType
<1>5. loCall[c].todo # <<>> => Head(loCall[c].todo) \in LoNodes
  BY <1>4
<1> QED
  BY <1>1, <1>2, <1>3, <1>5

LEMMA LoAnsweredHolds ==
  ASSUME LoInv, NEW c \in LoCallers, Answered(c)
  PROVE LoInv'
<1>1. PICK y : y = loCall[c]
  OBVIOUS
<1>2. PICK e : e = Head(y.todo)
  OBVIOUS
<1>3. Requesting(c) /\ y.todo # <<>>
  BY <1>1 DEF Answered
<1>4. /\ y \in LoCallType /\ LoInStep(y) /\ LoTold(y)
      /\ y.pc \in {"pull", "warm", "unload", "list"} /\ y.model \in LoModels /\ e \in LoNodes
  BY <1>1, <1>2, <1>3, LoRequest
<1>5. /\ Effect(y, e) /\ loActive' = e /\ loUp' = loUp /\ loRecord' = loRecord
      /\ Step(c, CASE y.pc = "pull" -> Ask(y, "warm")
                   [] y.pc = "list" -> [y EXCEPT !.pc = "apply", !.seen = loLoaded[e]]
                   [] OTHER -> Ask(y, "list"))
  BY <1>1, <1>2 DEF Answered
<1>6. /\ loLoaded' \in [LoNodes -> SUBSET LoModels] /\ loDone' \in [LoModels -> LoDoneType]
      /\ \A m \in LoModels : /\ loDone'[m].warm >= loDone[m].warm
                             /\ loDone'[m].unload >= loDone[m].unload
      /\ y.pc = "warm" => /\ y.model \in loLoaded'[e]
                          /\ loDone'[y.model].warm = loDone[y.model].warm + 1
      /\ y.pc = "unload" => /\ y.model \notin loLoaded'[e]
                            /\ loDone'[y.model].unload = loDone[y.model].unload + 1
      /\ y.pc \notin {"warm", "unload"} => loLoaded' = loLoaded /\ loDone' = loDone
  BY <1>4, <1>5, LoEffect
<1>7. LoTyped
  BY DEF LoInv
<1>8. ASSUME NEW x \in LoCallType, Step(c, x), LoInStep(x), LoTold(loCall[c])',
             \A m \in LoModels : LoEarns(y, x, m)
      PROVE LoInv'
  <2>1. \A m \in LoModels : LoPays(loCall[c], x, m)
    BY <1>1, <1>5, <1>6, <1>8, LoEarned
  <2> QED
    BY <1>4, <1>5, <1>6, <1>7, <1>8, <2>1, LoStepHolds DEF LoTyped
<1>9. 0 <= Len(LoEndpoints) /\ Len(<<>>) = 0
  BY LocalAssumption
<1>10. CASE y.pc = "pull"
  <2>1. PICK pc : pc = "warm"
    OBVIOUS
  <2>2. PICK x : x = Ask(y, pc)
    OBVIOUS
  <2>3. Step(c, x)
    BY <1>5, <1>10, <2>1, <2>2
  <2>4. pc \in LoPcs
    BY <2>1 DEF LoPcs
  <2>5. x \in LoCallType /\ x.pc = pc /\ x.op = y.op /\ x.model = y.model /\ x.todo = <<>>
    BY <1>4, <2>2, <2>4, LoAsk
  <2>6. LoInStep(x)
    BY <1>4, <1>9, <1>10, <2>1, <2>5 DEF LoInStep
  <2>7. loCall'[c] = x
    BY <2>3, <2>5, <2>6, LoCalls
  <2>8. LoTold(loCall[c])'
    BY <2>1, <2>5, <2>7 DEF LoTold
  <2>9. \A m \in LoModels : LoEarns(y, x, m)
    BY <1>6, <2>1, <2>5 DEF LoEarns, LoOwes
  <2> QED
    BY <1>8, <2>3, <2>5, <2>6, <2>8, <2>9
<1>11. CASE y.pc = "list"
  <2>1. PICK s \in SUBSET LoModels : s = loLoaded[e]
    BY <1>4, <1>7 DEF LoTyped
  <2>2. PICK x : x = [y EXCEPT !.pc = "apply", !.seen = s]
    OBVIOUS
  <2>3. Step(c, x)
    BY <1>5, <1>11, <2>1, <2>2
  <2>4. /\ x \in LoCallType /\ x.pc = "apply" /\ x.op = y.op /\ x.model = y.model
        /\ x.todo = y.todo /\ x.seen = s /\ x.alone = y.alone
    BY <1>4, <2>2 DEF LoCallType, LoPcs
  <2>5. LoInStep(x)
    BY <1>4, <1>11, <2>4 DEF LoInStep
  <2>6. loCall'[c] = x
    BY <2>3, <2>4, <2>5, LoCalls
  <2>7. loLoaded' = loLoaded /\ loDone' = loDone /\ loActive' = e
    BY <1>5, <1>6, <1>11
  <2>8. y.alone => e = loActive /\ LoThere(y)
    BY <1>2, <1>3, <1>4, <1>11 DEF LoTold
  <2>9. LoTold(loCall[c])'
    BY <2>1, <2>4, <2>6, <2>7, <2>8 DEF LoTold, LoThere
  <2>10. \A m \in LoModels : LoEarns(y, x, m)
    BY <1>6, <1>11, <2>4 DEF LoEarns, LoOwes
  <2> QED
    BY <1>8, <2>3, <2>4, <2>5, <2>9, <2>10
<1>12. CASE y.pc \in {"warm", "unload"}
  <2>1. PICK pc : pc = "list"
    OBVIOUS
  <2>2. PICK x : x = Ask(y, pc)
    OBVIOUS
  <2>3. Step(c, x)
    BY <1>5, <1>12, <2>1, <2>2
  <2>4. pc \in LoPcs
    BY <2>1 DEF LoPcs
  <2>5. /\ x \in LoCallType /\ x.pc = pc /\ x.op = y.op /\ x.model = y.model
        /\ x.todo = <<>> /\ x.alone = y.alone
    BY <1>4, <2>2, <2>4, LoAsk
  <2>6. LoInStep(x)
    BY <1>4, <1>9, <1>12, <2>1, <2>5 DEF LoInStep
  <2>7. loCall'[c] = x
    BY <2>3, <2>5, <2>6, LoCalls
  <2>8. x.model \in loLoaded'[e] <=> x.op # "unload"
    BY <1>4, <1>6, <1>12, <2>5 DEF LoInStep
  <2>9. LoTold(loCall[c])'
    BY <1>5, <2>1, <2>5, <2>7, <2>8 DEF LoTold, LoThere
  <2>10. \A m \in LoModels : LoEarns(y, x, m)
    BY <1>4, <1>6, <1>12, <2>5 DEF LoEarns, LoOwes, LoInStep
  <2> QED
    BY <1>8, <2>3, <2>5, <2>6, <2>9, <2>10
<1> QED
  BY <1>4, <1>10, <1>11, <1>12


\* A call that goes on asking or is given up owes what it owed before.
LEMMA LoUnansweredHolds ==
  ASSUME LoInv, NEW c \in LoCallers, Unanswered(c)
  PROVE LoInv'
<1>1. PICK y : y = loCall[c]
  OBVIOUS
<1>2. PICK e : e = Head(y.todo)
  OBVIOUS
<1>3. Requesting(c) /\ y.todo # <<>>
  BY <1>1 DEF Unanswered
<1>4. /\ y \in LoCallType /\ LoInStep(y)
      /\ y.pc \in {"pull", "warm", "unload", "list"} /\ y.model \in LoModels /\ e \in LoNodes
  BY <1>1, <1>2, <1>3, LoRequest
<1>5. /\ Effect(y, e) \/ UNCHANGED <<loLoaded, loDone>>
      /\ Step(c, After(y)) \/ Step(c, GivenUp(y))
      /\ loActive' = loActive /\ loUp' = loUp /\ loRecord' = loRecord
  BY <1>1, <1>2 DEF Unanswered
<1>6. LoTyped
  BY DEF LoInv
<1>7. /\ loLoaded' \in [LoNodes -> SUBSET LoModels] /\ loDone' \in [LoModels -> LoDoneType]
      /\ \A m \in LoModels : /\ loDone'[m].warm >= loDone[m].warm
                             /\ loDone'[m].unload >= loDone[m].unload
  <2>1. CASE Effect(y, e)
    BY <1>4, <2>1, LoEffect
  <2>2. CASE UNCHANGED <<loLoaded, loDone>>
    BY <1>6, <2>2 DEF LoTyped, LoDoneType
  <2> QED
    BY <1>5, <2>1, <2>2
<1>8. PICK x \in LoCallType :
        /\ Step(c, x) /\ x.op = y.op /\ x.model = y.model /\ Len(x.todo) <= Len(LoEndpoints)
        /\ \/ x.pc \in {"mark", "applyError"}
           \/ x.pc = y.pc /\ (x.alone => x.pc # "list")
  <2> DEFINE z == [y EXCEPT !.todo = Tail(@), !.alone = @ /\ y.pc # "list"]
  <2>1. Len(y.todo) <= Len(LoEndpoints)
    BY <1>4 DEF LoInStep
  <2>2. /\ GivenUp(y) \in LoCallType /\ GivenUp(y).pc \in {"mark", "applyError"}
        /\ GivenUp(y).op = y.op /\ GivenUp(y).model = y.model /\ GivenUp(y).todo = y.todo
    BY <1>4, LoGivenUp
  <2>3. /\ z \in LoCallType /\ z.pc = y.pc /\ z.op = y.op /\ z.model = y.model
        /\ Len(z.todo) <= Len(LoEndpoints) /\ (z.alone => z.pc # "list")
    BY <1>3, <1>4, <2>1, LoAfter
  <2>4. After(y) = GivenUp(y) \/ After(y) = z
    BY DEF After
  <2> HIDE DEF z
  <2>5. Step(c, GivenUp(y)) \/ Step(c, z)
    BY <1>5, <2>4
  <2> QED
    BY <2>1, <2>2, <2>3, <2>5
<1>9. LoInStep(x)
  BY <1>4, <1>8 DEF LoInStep
<1>10. loCall'[c] = x
  BY <1>8, <1>9, LoCalls
<1>11. LoTold(loCall[c])'
  BY <1>4, <1>8, <1>10 DEF LoTold
<1>12. \A m \in LoModels : LoEarns(y, x, m)
  BY <1>7, <1>8 DEF LoEarns, LoOwes
<1>13. \A m \in LoModels : LoPays(loCall[c], x, m)
  BY <1>1, <1>5, <1>7, <1>12, LoEarned
<1> QED
  BY <1>5, <1>6, <1>7, <1>8, <1>9, <1>11, <1>13, LoStepHolds DEF LoTyped

LEMMA LoRefusedHolds ==
  ASSUME LoInv, NEW c \in LoCallers, Refused(c)
  PROVE LoInv'
<1>1. PICK y : y = loCall[c]
  OBVIOUS
<1>2. Requesting(c)
  BY DEF Refused
<1>3. /\ y \in LoCallType /\ LoInStep(y) /\ y.pc \in {"pull", "warm", "unload", "list"}
  BY <1>1, <1>2, LoRequest
<1>4. PICK x : x = GivenUp(y)
  OBVIOUS
<1>5. /\ x \in LoCallType /\ x.pc \in {"mark", "applyError"}
      /\ x.op = y.op /\ x.model = y.model /\ x.todo = y.todo
  BY <1>3, <1>4, LoGivenUp
<1>6. /\ Step(c, x) /\ loUp' = loUp /\ loActive' = loActive /\ loLoaded' = loLoaded
      /\ loRecord' = loRecord /\ loDone' = loDone
  BY <1>1, <1>4 DEF Refused
<1>7. LoInStep(x)
  BY <1>3, <1>5 DEF LoInStep
<1>8. loCall'[c] = x
  BY <1>5, <1>6, <1>7, LoCalls
<1>9. LoTold(loCall[c])'
  BY <1>5, <1>8 DEF LoTold
<1>10. \A m, ops : LoOwes(x, m, ops) => LoOwes(loCall[c], m, ops) \/ "list" \in ops
  BY <1>5 DEF LoOwes
<1>11. \A m \in LoModels : LoPays(loCall[c], x, m)
  BY <1>6, <1>10, LoNothingDue
<1>12. LoTyped
  BY DEF LoInv
<1> QED
  BY <1>5, <1>6, <1>7, <1>9, <1>11, <1>12, LoStepHolds DEF LoTyped

\* A step of c that changes records but no counts.
LEMMA LoRecorded ==
  ASSUME LoInv, NEW c \in LoCallers, NEW x \in LoCallType, Step(c, x), LoInStep(x),
         loUp' = loUp, loActive' = loActive, loLoaded' = loLoaded, loDone' = loDone,
         loRecord' \in [LoModels -> LoRecordType],
         \A m \in LoModels : /\ loRecord'[m].warmups = loRecord[m].warmups
                             /\ loRecord'[m].evictions = loRecord[m].evictions,
         \A m, ops : LoOwes(x, m, ops) => LoOwes(loCall[c], m, ops),
         LoTold(loCall[c])'
  PROVE LoInv'
<1>1. \A m \in LoModels : LoPays(loCall[c], x, m)
  <2> SUFFICES ASSUME NEW m \in LoModels PROVE LoPays(loCall[c], x, m)
    OBVIOUS
  <2>1. /\ loRecord[m].warmups \in Nat /\ loRecord[m].evictions \in Nat
        /\ loDone[m].warm \in Nat /\ loDone[m].unload \in Nat
    BY DEF LoInv, LoTyped, LoRecordType, LoDoneType
  <2>2. \A ops : LoOwed(x, m, ops) <= LoOwed(loCall[c], m, ops)
    BY DEF LoOwed
  <2>3. \A ops, z : LoOwed(z, m, ops) \in {0, 1}
    BY DEF LoOwed
  <2> QED
    BY <2>1, <2>2, <2>3 DEF LoPays
<1>2. LoTyped
  BY DEF LoInv
<1> QED
  BY <1>1, <1>2, LoStepHolds DEF LoTyped


\* The call is over: nothing is owed and nothing told.
LEMMA LoRests ==
  ASSUME LoInv, NEW c \in LoCallers, Step(c, Resting)
  PROVE /\ LoTold(loCall[c])' /\ \A m, ops : ~LoOwes(Resting, m, ops)
<1>1. PICK x : x = Resting
  OBVIOUS
<1>2. x \in LoCallType /\ LoInStep(x) /\ x.pc = "idle" /\ ~x.alone
  BY <1>1, LoResting
<1>3. Step(c, x)
  BY <1>1
<1>4. loCall'[c] = x
  BY <1>2, <1>3, LoCalls
<1>5. LoTold(loCall[c])'
  BY <1>2, <1>4 DEF LoTold
<1>6. \A m, ops : ~LoOwes(x, m, ops)
  BY <1>2 DEF LoOwes
<1> QED
  BY <1>1, <1>5, <1>6

LEMMA LoMarkFailureHolds ==
  ASSUME LoInv, NEW c \in LoCallers, MarkFailure(c)
  PROVE LoInv'
<1>1. /\ Step(c, Resting) /\ loUp' = loUp /\ loActive' = loActive /\ loLoaded' = loLoaded
      /\ loDone' = loDone /\ loCall[c].pc = "mark"
      /\ loRecord' = [loRecord EXCEPT ![loCall[c].model].error = TRUE]
  BY DEF MarkFailure
<1>2. loRecord \in [LoModels -> LoRecordType] /\ LoInStep(loCall[c])
  BY DEF LoInv, LoTyped
<1>3. loCall[c].model \in LoModels
  BY <1>1, <1>2 DEF LoInStep
<1>4. \A r \in LoRecordType : /\ [r EXCEPT !.error = TRUE] \in LoRecordType
                              /\ [r EXCEPT !.error = TRUE].warmups = r.warmups
                              /\ [r EXCEPT !.error = TRUE].evictions = r.evictions
  BY DEF LoRecordType
<1>5. /\ loRecord' \in [LoModels -> LoRecordType]
      /\ \A m \in LoModels : /\ loRecord'[m].warmups = loRecord[m].warmups
                             /\ loRecord'[m].evictions = loRecord[m].evictions
  BY <1>1, <1>2, <1>3, <1>4
<1>6. LoTold(loCall[c])' /\ \A m, ops : ~LoOwes(Resting, m, ops)
  BY <1>1, LoRests
<1>7. Resting \in LoCallType /\ LoInStep(Resting)
  BY LoResting
<1> QED
  BY <1>1, <1>5, <1>6, <1>7, LoRecorded

LEMMA LoApplyErrorHolds ==
  ASSUME LoInv, NEW c \in LoCallers, ApplyError(c)
  PROVE LoInv'
<1>1. /\ Step(c, Resting) /\ loUp' = loUp /\ loActive' = loActive /\ loLoaded' = loLoaded
      /\ loDone' = loDone
      /\ loRecord' = [m \in LoModels |-> [loRecord[m] EXCEPT !.resident = FALSE, !.error = TRUE]]
  BY DEF ApplyError
<1>2. loRecord \in [LoModels -> LoRecordType]
  BY DEF LoInv, LoTyped
<1>3. \A r \in LoRecordType : /\ [r EXCEPT !.resident = FALSE, !.error = TRUE] \in LoRecordType
                              /\ [r EXCEPT !.resident = FALSE, !.error = TRUE].warmups = r.warmups
                              /\ [r EXCEPT !.resident = FALSE, !.error = TRUE].evictions = r.evictions
  BY DEF LoRecordType
<1>4. /\ loRecord' \in [LoModels -> LoRecordType]
      /\ \A m \in LoModels : /\ loRecord'[m].warmups = loRecord[m].warmups
                             /\ loRecord'[m].evictions = loRecord[m].evictions
  BY <1>1, <1>2, <1>3
<1>5. LoTold(loCall[c])' /\ \A m, ops : ~LoOwes(Resting, m, ops)
  BY <1>1, LoRests
<1>6. Resting \in LoCallType /\ LoInStep(Resting)
  BY LoResting
<1> QED
  BY <1>1, <1>4, <1>5, <1>6, LoRecorded

LEMMA LoApplyHolds ==
  ASSUME LoInv, NEW c \in LoCallers, Apply(c)
  PROVE LoInv'
<1>1. PICK y : y = loCall[c]
  OBVIOUS
<1>2. y \in LoCallType /\ LoInStep(y) /\ LoTold(y) /\ loRecord \in [LoModels -> LoRecordType]
  BY <1>1 DEF LoInv, LoTyped
<1>3. /\ loUp' = loUp /\ loActive' = loActive /\ loLoaded' = loLoaded /\ loDone' = loDone
      /\ y.pc = "apply"
      /\ loRecord' = [m \in LoModels |->
           IF m \in y.seen THEN [loRecord[m] EXCEPT !.resident = TRUE, !.error = FALSE]
           ELSE [loRecord[m] EXCEPT !.resident = FALSE]]
      /\ Step(c, IF y.op = "list" THEN Resting ELSE [y EXCEPT !.pc = "finish"])
  BY <1>1 DEF Apply
<1>4. \A r \in LoRecordType :
        /\ [r EXCEPT !.resident = TRUE, !.error = FALSE] \in LoRecordType
        /\ [r EXCEPT !.resident = TRUE, !.error = FALSE].resident
        /\ [r EXCEPT !.resident = TRUE, !.error = FALSE].warmups = r.warmups
        /\ [r EXCEPT !.resident = TRUE, !.error = FALSE].evictions = r.evictions
        /\ [r EXCEPT !.resident = FALSE] \in LoRecordType
        /\ ~[r EXCEPT !.resident = FALSE].resident
        /\ [r EXCEPT !.resident = FALSE].warmups = r.warmups
        /\ [r EXCEPT !.resident = FALSE].evictions = r.evictions
  BY DEF LoRecordType
<1>5. \A m \in LoModels :
        loRecord'[m] = IF m \in y.seen THEN [loRecord[m] EXCEPT !.resident = TRUE, !.error = FALSE]
                       ELSE [loRecord[m] EXCEPT !.resident = FALSE]
  BY <1>3
<1>6. \A m \in LoModels : /\ loRecord'[m] \in LoRecordType
                          /\ loRecord'[m].warmups = loRecord[m].warmups
                          /\ loRecord'[m].evictions = loRecord[m].evictions
                          /\ (loRecord'[m].resident <=> m \in y.seen)
  <2> TAKE m \in LoModels
  <2>1. PICK r \in LoRecordType : r = loRecord[m]
    BY <1>2
  <2>2. CASE m \in y.seen
    <3>1. loRecord'[m] = [r EXCEPT !.resident = TRUE, !.error = FALSE]
      BY <1>5, <2>1, <2>2
    <3> QED
      BY <1>4, <2>1, <2>2, <3>1
  <2>3. CASE m \notin y.seen
    <3>1. loRecord'[m] = [r EXCEPT !.resident = FALSE]
      BY <1>5, <2>1, <2>3
    <3> QED
      BY <1>4, <2>1, <2>3, <3>1
  <2> QED
    BY <2>2, <2>3
<1>7. loRecord' \in [LoModels -> LoRecordType]
  BY <1>3, <1>6
<1>8. CASE y.op = "list"
  <2>1. Step(c, Resting)
    BY <1>3, <1>8
  <2>2. LoTold(loCall[c])' /\ \A m, ops : ~LoOwes(Resting, m, ops)
    BY <2>1, LoRests
  <2>3. Resting \in LoCallType /\ LoInStep(Resting)
    BY LoResting
  <2> QED
    BY <1>3, <1>6, <1>7, <2>1, <2>2, <2>3, LoRecorded
<1>9. CASE y.op # "list"
  <2>1. PICK x : x = [y EXCEPT !.pc = "finish"]
    OBVIOUS
  <2>2. Step(c, x)
    BY <1>3, <1>9, <2>1
  <2>3. /\ x \in LoCallType /\ x.pc = "finish" /\ x.op = y.op /\ x.model = y.model
        /\ x.todo = y.todo /\ x.alone = y.alone
    BY <1>2, <2>1 DEF LoCallType, LoPcs
  <2>4. LoInStep(x)
    BY <1>2, <1>3, <1>9, <2>3 DEF LoInStep, LoCallType, LoOps
  <2>5. loCall'[c] = x
    BY <2>2, <2>3, <2>4, LoCalls
  <2>6. y.alone => LoThere(y) /\ y.seen = loLoaded[loActive]
    BY <1>2, <1>3 DEF LoTold
  <2>7. LoTold(loCall[c])'
    BY <1>3, <1>6, <2>3, <2>5, <2>6 DEF LoTold, LoThere
  <2>8. \A m, ops : LoOwes(x, m, ops) => LoOwes(loCall[c], m, ops)
    BY <1>1, <1>3, <2>3 DEF LoOwes
  <2> QED
    BY <1>3, <1>6, <1>7, <2>2, <2>3, <2>4, <2>7, <2>8, LoRecorded
<1> QED
  BY <1>8, <1>9


LEMMA LoFinishHolds ==
  ASSUME LoInv, NEW c \in LoCallers, Finish(c)
  PROVE LoInv'
<1>1. PICK y : y = loCall[c]
  OBVIOUS
<1>2. y \in LoCallType /\ LoInStep(y) /\ loRecord \in [LoModels -> LoRecordType] /\ LoTyped
  BY <1>1 DEF LoInv, LoTyped
<1>3. y.pc = "finish" /\ Step(c, Resting) /\ loUp' = loUp /\ loActive' = loActive
      /\ loLoaded' = loLoaded /\ loDone' = loDone
  BY <1>1 DEF Finish
<1>4. y.model \in LoModels /\ y.op \in {"pull", "warm", "unload"}
  BY <1>2, <1>3 DEF LoInStep
<1>5. PICK r \in LoRecordType : r = loRecord[y.model]
  BY <1>2, <1>4
<1>6. PICK k \in LoRecordType :
        /\ loRecord' = [loRecord EXCEPT ![y.model] = k]
        /\ y.op = "unload" => k.evictions = r.evictions + 1 /\ k.warmups = r.warmups
        /\ y.op # "unload" => k.warmups = r.warmups + 1 /\ k.evictions = r.evictions
  <2>1. CASE y.op = "unload"
    <3>1. PICK n : n = [r EXCEPT !.evictions = r.evictions + 1]
      OBVIOUS
    <3>2. PICK k : k = [n EXCEPT !.error = FALSE]
      OBVIOUS
    <3>3. n \in LoRecordType /\ n.evictions = r.evictions + 1 /\ n.warmups = r.warmups
      BY <3>1 DEF LoRecordType
    <3>4. k \in LoRecordType /\ k.evictions = n.evictions /\ k.warmups = n.warmups
      BY <3>2, <3>3 DEF LoRecordType
    <3>5. loRecord' = [loRecord EXCEPT ![y.model] = k]
      BY <1>1, <1>5, <2>1, <3>1, <3>2 DEF Finish
    <3> QED
      BY <2>1, <3>3, <3>4, <3>5
  <2>2. CASE y.op # "unload"
    <3>1. PICK n : n = [r EXCEPT !.warmups = r.warmups + 1]
      OBVIOUS
    <3>2. PICK k : k = [n EXCEPT !.error = FALSE]
      OBVIOUS
    <3>3. n \in LoRecordType /\ n.warmups = r.warmups + 1 /\ n.evictions = r.evictions
      BY <3>1 DEF LoRecordType
    <3>4. k \in LoRecordType /\ k.evictions = n.evictions /\ k.warmups = n.warmups
      BY <3>2, <3>3 DEF LoRecordType
    <3>5. loRecord' = [loRecord EXCEPT ![y.model] = k]
      BY <1>1, <1>5, <2>2, <3>1, <3>2 DEF Finish
    <3> QED
      BY <2>2, <3>3, <3>4, <3>5
  <2> QED
    BY <2>1, <2>2
<1>7. /\ loRecord' \in [LoModels -> LoRecordType] /\ loRecord'[y.model] = k
      /\ \A m \in LoModels : m # y.model => loRecord'[m] = loRecord[m]
  BY <1>2, <1>4, <1>6
<1>8. LoTold(loCall[c])' /\ \A m, ops : ~LoOwes(Resting, m, ops)
  BY <1>3, LoRests
<1>9. \A m \in LoModels : LoPays(loCall[c], Resting, m)
  <2> SUFFICES ASSUME NEW m \in LoModels PROVE LoPays(y, Resting, m)
    BY <1>1
  <2>1. /\ loRecord[m].warmups \in Nat /\ loRecord[m].evictions \in Nat
        /\ loDone[m].warm \in Nat /\ loDone[m].unload \in Nat
    BY <1>2 DEF LoTyped, LoRecordType, LoDoneType
  <2>2. \A ops : LoOwed(Resting, m, ops) = 0
    BY <1>8 DEF LoOwed
  <2>3. \A ops : LoOwed(y, m, ops) \in {0, 1}
    BY DEF LoOwed
  <2>4. CASE m = y.model
    <3>1. y.op = "unload" => LoOwed(y, m, {"unload"}) = 1
      BY <1>3, <2>4 DEF LoOwed, LoOwes
    <3>2. y.op # "unload" => LoOwed(y, m, {"pull", "warm"}) = 1
      BY <1>3, <1>4, <2>4 DEF LoOwed, LoOwes
    <3> QED
      BY <1>3, <1>5, <1>6, <1>7, <2>1, <2>2, <2>3, <2>4, <3>1, <3>2 DEF LoPays
  <2>5. CASE m # y.model
    BY <1>3, <1>7, <2>1, <2>2, <2>3, <2>5 DEF LoPays
  <2> QED
    BY <2>4, <2>5
<1>10. Resting \in LoCallType /\ LoInStep(Resting)
  BY LoResting
<1> QED
  BY <1>2, <1>3, <1>7, <1>8, <1>9, <1>10, LoStepHolds DEF LoTyped

LEMMA LoDisturbHolds ==
  ASSUME LoInv, Disturb
  PROVE LoInv'
<1> DEFINE Other(d) == [loCall[d] EXCEPT !.alone = FALSE]
<1>1. /\ loCall' = [d \in LoCallers |-> Other(d)]
      /\ loActive' = loActive /\ loRecord' = loRecord /\ loDone' = loDone
  BY DEF Disturb
<1>2. LoTyped /\ \A d \in LoCallers : loCall[d] \in LoCallType /\ LoInStep(loCall[d])
  BY DEF LoInv, LoTyped
<1>3. \A d \in LoCallers :
        /\ Other(d) \in LoCallType /\ ~Other(d).alone
        /\ Other(d).pc = loCall[d].pc /\ Other(d).op = loCall[d].op
        /\ Other(d).model = loCall[d].model /\ Other(d).todo = loCall[d].todo
  BY <1>2 DEF LoCallType
<1> HIDE DEF Other
<1>4. \A d \in LoCallers : loCall'[d] = Other(d)
  BY <1>1
<1>5. loUp' \subseteq LoNodes /\ loLoaded' \in [LoNodes -> SUBSET LoModels]
  BY <1>2 DEF Disturb, LoTyped
<1>6. LoTyped'
  BY <1>1, <1>2, <1>3, <1>5 DEF LoTyped
<1>7. \A d \in LoCallers : LoInStep(loCall[d])' /\ LoTold(loCall[d])'
  BY <1>2, <1>3, <1>4 DEF LoInStep, LoTold
<1>8. \A m, ops : LoOwing(m, ops)' = LoOwing(m, ops)
  BY <1>3, <1>4 DEF LoOwing, LoOwes
<1>9. LoCounted
  BY DEF LoInv
<1>10. LoCounted'
  BY <1>1, <1>8, <1>9 DEF LoCounted
<1> QED
  BY <1>6, <1>7, <1>10 DEF LoInv

\* The records of the local models are true of their servers: an operation
\* that nobody disturbs shows as done, whatever endpoint it fell back to and
\* however many answers were lost, and no warming or eviction is counted that
\* no server did, for any callers, models, endpoints and retries.
THEOREM LocalSoundCorrect == LoSpec => []LocalSound
<1>1. LoInit => LoInv
  BY LoInitHolds
<1>2. LoInv /\ [LoNext]_loVars => LoInv'
  <2> SUFFICES ASSUME LoInv, [LoNext]_loVars PROVE LoInv'
    OBVIOUS
  <2>1. ASSUME NEW c \in LoCallers, LoStep(c) PROVE LoInv'
    BY <2>1, LoRoundHolds, LoAnsweredHolds, LoUnansweredHolds, LoRefusedHolds,
       LoMarkFailureHolds, LoApplyErrorHolds, LoApplyHolds, LoFinishHolds DEF LoStep
  <2>2. ASSUME NEW c \in LoCallers, Call(c) PROVE LoInv'
    BY <2>2, LoCallHolds
  <2>3. CASE Disturb
    BY <2>3, LoDisturbHolds
  <2>4. CASE UNCHANGED loVars
    BY <2>4 DEF loVars, LoInv, LoTyped, LoInStep, LoTold, LoThere, LoCounted, LoOwing, LoOwes
  <2> QED
    BY <2>1, <2>2, <2>3, <2>4 DEF LoNext
<1>3. LoInv => LocalSound
  BY LoInvImplies
<1> QED
  BY <1>1, <1>2, <1>3, PTL DEF LoSpec

=============================================================================
