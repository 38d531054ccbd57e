----------------------------- MODULE FileStore -----------------------------
(* The file-backed state store (state/file_store.go): maps in memory under *)
(* one lock; every mutation writes the whole store to a temporary file and *)
(* renames it over the old one before the lock is released.  The process   *)
(* may end at any step and is started again from the file.                 *)
EXTENDS Naturals

CONSTANTS FsSlots,     \* entries of the maps: a workflow, a chunk, ...
          FsMaxCalls   \* bound: mutations

ASSUME FsAssumption == FsMaxCalls \in Nat

VARIABLES fsMem,       \* the maps: entry -> the call that wrote it; version
          fsDisk,      \* the file: a snapshot of the maps, torn or missing
          fsTmp,       \* the temporary file
          fsPhase,     \* up, persist, rename: a mutation in progress; down
          fsPending,   \* what the mutation in progress has to acknowledge
          fsAcked,     \* what callers were told is saved
          fsCalls

fsVars == <<fsMem, fsDisk, fsTmp, fsPhase, fsPending, fsAcked, fsCalls>>

Empty == [item |-> [s \in FsSlots |-> 0], version |-> 0]

\* A file that is not there, one cut off in the middle of a write, a whole one.
NoFile == [kind |-> "none", maps |-> Empty]
Torn == [kind |-> "torn", maps |-> Empty]
Whole(maps) == [kind |-> "whole", maps |-> maps]

FsInit == /\ fsMem = Empty
          /\ fsDisk = NoFile /\ fsTmp = NoFile
          /\ fsPhase = "up"
          /\ fsPending = Empty /\ fsAcked = Empty
          /\ fsCalls = 0

\* Under the lock: the map changes first, persistLocked follows.
FsMutate(mem) == /\ fsPhase = "up" /\ fsCalls < FsMaxCalls
                 /\ fsMem' = mem
                 /\ fsPending' = mem
                 /\ fsPhase' = "persist"
                 /\ fsCalls' = fsCalls + 1
                 /\ UNCHANGED <<fsDisk, fsTmp, fsAcked>>

\* SaveWorkflow and the single-row upserts; a batch writes several entries
\* before it persists once.
FsUpsert == \E rows \in SUBSET FsSlots :
    FsMutate([fsMem EXCEPT !.item =
                [s \in FsSlots |-> IF s \in rows THEN fsCalls + 1 ELSE @[s]]])

\* No expected version, or the one the map holds: a version conflict
\* returns under the lock before anything changes.
FsSaveSessionState == FsMutate([fsMem EXCEPT !.version = @ + 1])

\* The caller is answered before the rename.
WriteTmpAnswers == /\ fsPhase = "persist"
                   /\ fsTmp' = Whole(fsMem)
                   /\ fsAcked' = fsPending
                   /\ fsPhase' = "rename"
                   /\ UNCHANGED <<fsMem, fsDisk, fsPending, fsCalls>>

\* persistLocked, first half: os.WriteFile of the temporary file.
WriteTmp == /\ fsPhase = "persist"
            /\ fsTmp' = Whole(fsMem)
            /\ fsPhase' = "rename"
            /\ UNCHANGED <<fsMem, fsDisk, fsPending, fsAcked, fsCalls>>

\* A failed write leaves part of the temporary file; the call returns the
\* error and the map keeps the change.
WriteTmpFails == /\ fsPhase = "persist"
                 /\ fsTmp' = Torn
                 /\ fsPhase' = "up"
                 /\ UNCHANGED <<fsMem, fsDisk, fsPending, fsAcked, fsCalls>>

\* persistLocked, second half, and the answer to the caller.
RenameTmp == /\ fsPhase = "rename"
             /\ fsDisk' = fsTmp /\ fsTmp' = NoFile
             /\ fsAcked' = fsPending
             /\ fsPhase' = "up"
             /\ UNCHANGED <<fsMem, fsPending, fsCalls>>

RenameFails == /\ fsPhase = "rename"
               /\ fsPhase' = "up"
               /\ UNCHANGED <<fsMem, fsDisk, fsTmp, fsPending, fsAcked, fsCalls>>

\* The process ends, in the middle of a write too.
FsCrash == /\ fsPhase # "down"
           /\ fsTmp' = IF fsPhase = "persist" THEN Torn ELSE fsTmp
           /\ fsPhase' = "down"
           /\ fsMem' = Empty /\ fsPending' = Empty
           /\ UNCHANGED <<fsDisk, fsAcked, fsCalls>>

\* NewFileStore and load: a missing file is an empty store, a torn one is
\* an error and the process does not start.
FsLoad == /\ fsPhase = "down" /\ fsDisk # Torn
          /\ fsMem' = fsDisk.maps
          /\ fsPhase' = "up"
          /\ UNCHANGED <<fsDisk, fsTmp, fsPending, fsAcked, fsCalls>>

FsNext == \/ FsUpsert \/ FsSaveSessionState
          \/ WriteTmp \/ WriteTmpFails \/ RenameTmp \/ RenameFails
          \/ FsCrash \/ FsLoad

(* --------------------------------------------------------- properties -- *)
Snapshots == [item : [FsSlots -> 0 .. FsMaxCalls], version : 0 .. FsMaxCalls]

\* Types; the file is always a whole snapshot, whatever write was cut off.
FsTypeOK == /\ fsMem \in Snapshots /\ fsPending \in Snapshots
            /\ fsAcked \in Snapshots
            /\ fsDisk \in {NoFile} \cup {Whole(maps) : maps \in Snapshots}
            /\ fsTmp.kind \in {"none", "torn", "whole"}
            /\ fsPhase \in {"up", "persist", "rename", "down"}
            /\ fsCalls \in 0 .. FsMaxCalls

\* Whatever a caller was told is saved is in memory while the process is
\* up, and a restart would find it, after failed saves and crashes at any
\* step too; what is on disk is always a whole store.
AckedSurvives ==
    /\ FsTypeOK
    /\ fsPhase \in {"up", "persist", "rename"} =>
         /\ fsMem.version >= fsAcked.version
         /\ \A s \in FsSlots : fsMem.item[s] >= fsAcked.item[s]
    /\ fsDisk.maps.version >= fsAcked.version
    /\ \A s \in FsSlots : fsDisk.maps.item[s] >= fsAcked.item[s]
=============================================================================
