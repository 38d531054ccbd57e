---------------------------- MODULE MemoryRecords ----------------------------
(***************************************************************************)
(* What the memory manager keeps for later tasks and what a retrieval      *)
(* finds of it.  Remember and IngestDocument write a record and then the   *)
(* chunks of its text, the exchanges of tasks and peers are chunks only;   *)
(* any write can fail.  A retrieval lists the chunks of its session on its *)
(* branch, where they are few those of all sessions and branches, the      *)
(* memories and the documents one after another, of each the most recent   *)
(* up to a limit, while writers go on; then the prompt it was for is       *)
(* stored as well.                                                         *)
(*                                                                         *)
(* Every embedding comes from the provider or, when a call to it fails,    *)
(* from a local hash of another size; what has an embedding of another     *)
(* size than the query is passed over.  An item is a memory, a document or *)
(* an exchange with its owner, branch and scope; its texts are numbered,   *)
(* each is one chunk, and every text matches the query.  Times are left    *)
(* out: which ones of too many are the most recent is left open.           *)
(***************************************************************************)
EXTENDS Integers, FiniteSets

CONSTANTS
  MeItems,    \* records [kind, owner, branch, deep]: what may be remembered
  MeTexts,    \* texts an item may have
  MeWriters,  \* callers that write
  MeSession,  \* the session that retrieves
  MeBranch,   \* the branch it works on
  MeLimits,   \* CandidateLimit of the policies its tasks have
  MeTopK,     \* fewer chunks than this in the session and all sessions are listed
  MeMaxWrites \* bound: writes begun

ASSUME MemoryAssumption ==
  MeTopK \in Nat /\ MeMaxWrites \in Nat /\ MeLimits \subseteq Nat /\ IsFiniteSet(MeItems)

VARIABLES
  meRecord,   \* per item: its record's text and the size of its embedding
  meChunks,   \* the chunks stored
  meWriter,   \* per writer: the write under way
  meReader,   \* the retrieval
  meWrites,   \* bound's counter
  meAcked,    \* history: writes acknowledged whose item no other write overlapped or followed
  meFailed    \* history: writes that ended with an error

meVars == <<meRecord, meChunks, meWriter, meReader, meWrites, meAcked, meFailed>>

Sizes == {"provider", "local"}

\* The reader at rest; "known" is what was acknowledged when it began and not
\* written again since.
Unread == [pc |-> "idle", deep |-> FALSE, size |-> "local", limit |-> 0, hits |-> {},
           known |-> {}, cut |-> FALSE, gaps |-> FALSE]

MeInit ==
  /\ meRecord = [i \in MeItems |-> {}]
  /\ meChunks = {}
  /\ meWriter = [w \in MeWriters |-> {}]
  /\ meReader = Unread
  /\ meWrites = 0
  /\ meAcked = {} /\ meFailed = {}

\* What is remembered of an execution, of a degraded suite, of an adaptive
\* decision: memories of the session's own scope.
ReasoningTrace(session, branch) ==
  [kind |-> "memory", owner |-> session, branch |-> branch, deep |-> FALSE]
DegradationTrace(session, branch) ==
  [kind |-> "memory", owner |-> session, branch |-> branch, deep |-> FALSE]
AdaptiveDecision(session, branch) ==
  [kind |-> "memory", owner |-> session, branch |-> branch, deep |-> FALSE]

\* What passed between orchestrator and agent, or between peers: chunks of the
\* session without a record.  The branch of peers is their context's scope.
TaskExchange(session, branch) ==
  [kind |-> "exchange", owner |-> session, branch |-> branch, deep |-> FALSE]
PeerExchange(session, branch) ==
  [kind |-> "exchange", owner |-> session, branch |-> branch, deep |-> FALSE]

\* The prompt of the task that retrieves.
Prompt == [kind |-> "prompt", owner |-> MeSession, branch |-> MeBranch, deep |-> FALSE]

Write(w) == CHOOSE x \in meWriter[w] : TRUE
Writing(w, pc) == meWriter[w] # {} /\ Write(w).pc = pc
Pair(x) == [item |-> x.item, text |-> x.text]
OfOthers(i, t) == {c \in meChunks : Pair(c) # [item |-> i, text |-> t]}
OfItem(i, S) == {x \in S : x.item = i}

-----------------------------------------------------------------------------
(* Writing.                                                                *)

\* Remember or IngestDocument is called, its record is about to be written, or
\* RecordTaskExchange or RecordPeerExchange, which begin with the chunks.
\* "alone": no other write of the item has been under way at the same time.
WriteBegin(w) ==
  /\ meWriter[w] = {} /\ meWrites < MeMaxWrites
  /\ meWrites' = meWrites + 1
  /\ \E i \in MeItems, t \in MeTexts :
       LET others == {v \in MeWriters : meWriter[v] # {} /\ Write(v).item = i} IN
       /\ meWriter' = [v \in MeWriters |->
            IF v = w THEN {[pc |-> IF i.kind = "exchange" THEN "chunks" ELSE "record",
                             item |-> i, text |-> t, alone |-> others = {}]}
            ELSE IF v \in others THEN {[Write(v) EXCEPT !.alone = FALSE]}
            ELSE meWriter[v]]
       /\ meAcked' = meAcked \ OfItem(i, meAcked)
       /\ meReader' = [meReader EXCEPT !.known = @ \ OfItem(i, @)]
  /\ UNCHANGED <<meRecord, meChunks, meFailed>>

\* UpsertRAGMemories or UpsertRAGDocuments: the record replaces the one before.
\* A memory's record is embedded, a document's is not.
UpsertRecord(w) ==
  LET x == Write(w)
  IN /\ Writing(w, "record")
     /\ \E size \in IF x.item.kind = "memory" THEN Sizes ELSE {"none"} :
          meRecord' = [meRecord EXCEPT ![x.item] = {[text |-> x.text, size |-> size]}]
     /\ meWriter' = [meWriter EXCEPT ![w] = {[x EXCEPT !.pc = "chunks"]}]
     /\ UNCHANGED <<meChunks, meReader, meWrites, meAcked, meFailed>>

\* IngestText: a chunk's id is made of its owner, source and text, so that the
\* same text is stored once and another text beside it.  The write is answered.
IngestText(w) ==
  LET x == Write(w)
  IN /\ Writing(w, "chunks")
     /\ \E size \in Sizes :
          meChunks' = OfOthers(x.item, x.text)
                        \cup {[item |-> x.item, text |-> x.text, size |-> size]}
     /\ meWriter' = [meWriter EXCEPT ![w] = {}]
     /\ meAcked' = IF x.alone THEN meAcked \cup {Pair(x)} ELSE meAcked
     /\ UNCHANGED <<meRecord, meReader, meWrites, meFailed>>

\* Either write fails and the caller has an error; what was written stays.
WriteFails(w) ==
  /\ meWriter[w] # {}
  /\ meWriter' = [meWriter EXCEPT ![w] = {}]
  /\ meFailed' = meFailed \cup {Pair(Write(w))}
  /\ UNCHANGED <<meRecord, meChunks, meReader, meWrites, meAcked>>

-----------------------------------------------------------------------------
(* Retrieving.                                                             *)

\* LoadMemoryContext retrieves for the prompt of a task, unless its cache policy
\* is write_only.  Research and plan tasks look for memories and documents of the
\* scope deep-history only, other tasks (of session scope) for those of any.
Retrieve ==
  /\ meReader.pc = "idle"
  /\ \E deep \in BOOLEAN, size \in Sizes, limit \in MeLimits :
       meReader' = [Unread EXCEPT !.pc = "chunks", !.deep = deep, !.size = size,
                                  !.limit = limit, !.known = meAcked]
  /\ UNCHANGED <<meRecord, meChunks, meWriter, meWrites, meAcked, meFailed>>

\* rankVectorChunks passes over embeddings of another size; a chunk without one
\* is ranked by its terms.
Comparable(size) == size \in {"none", meReader.size}
Hits(S) == {Pair(x) : x \in {y \in S : Comparable(y.size)}}

\* What a listing of S may bring: all of it, or as many as the limit allows.
Fits(S) == Cardinality(S) <= meReader.limit
Recent(S) == {T \in SUBSET S : IF Fits(S) THEN T = S ELSE Cardinality(T) = meReader.limit}

\* ListVectorChunks of the session and branch; an error ends the retrieval.
ListChunks ==
  LET own == {c \in meChunks : c.item.owner = MeSession /\ c.item.branch = MeBranch}
  IN /\ meReader.pc = "chunks"
     /\ \/ \E T \in Recent(own) :
             meReader' = [meReader EXCEPT
                            !.pc = IF Cardinality(T) < MeTopK THEN "global" ELSE "memories",
                            !.hits = Hits(T), !.cut = ~Fits(own)]
        \/ meReader' = Unread
     /\ UNCHANGED <<meRecord, meChunks, meWriter, meWrites, meAcked, meFailed>>

\* ListVectorChunks of all sessions and branches; here and below an error is
\* ignored.
ListGlobal ==
  /\ meReader.pc = "global"
  /\ \/ \E T \in Recent(meChunks) :
          meReader' = [meReader EXCEPT !.pc = "memories", !.hits = @ \cup Hits(T)]
     \/ meReader' = [meReader EXCEPT !.pc = "memories"]
  /\ UNCHANGED <<meRecord, meChunks, meWriter, meWrites, meAcked, meFailed>>

\* The records of a kind that the task's scope admits.
InScope(kind) ==
  UNION {{[item |-> i, text |-> r.text, size |-> r.size] : r \in meRecord[i]} :
           i \in {j \in MeItems : j.kind = kind /\ (meReader.deep => j.deep)}}

\* Mutant: documents are matched by embeddings alone.
ListDocumentsEmbedded ==
  /\ meReader.pc = "documents"
  /\ meReader' = [meReader EXCEPT !.pc = "done"]
  /\ UNCHANGED <<meRecord, meChunks, meWriter, meWrites, meAcked, meFailed>>

ListMemories ==
  /\ meReader.pc = "memories"
  /\ \/ \E T \in Recent(InScope("memory")) :
          meReader' = [meReader EXCEPT !.pc = "documents", !.hits = @ \cup Hits(T)]
     \/ meReader' = [meReader EXCEPT !.pc = "documents"]
  /\ UNCHANGED <<meRecord, meChunks, meWriter, meWrites, meAcked, meFailed>>

\* "gaps": the listing failed or was cut short.
ListDocuments ==
  /\ meReader.pc = "documents"
  /\ \/ \E T \in Recent(InScope("document")) :
          meReader' = [meReader EXCEPT !.pc = "done", !.hits = @ \cup Hits(T),
                                       !.gaps = ~Fits(InScope("document"))]
     \/ meReader' = [meReader EXCEPT !.pc = "done", !.gaps = TRUE]
  /\ UNCHANGED <<meRecord, meChunks, meWriter, meWrites, meAcked, meFailed>>

\* RecordPromptInput at the end of LoadMemoryContext; its error is ignored.
RecordPrompt ==
  /\ meReader.pc = "done"
  /\ \/ \E size \in Sizes :
          meChunks' = OfOthers(Prompt, 1) \cup {[item |-> Prompt, text |-> 1, size |-> size]}
     \/ UNCHANGED meChunks
  /\ meReader' = Unread
  /\ UNCHANGED <<meRecord, meWriter, meWrites, meAcked, meFailed>>

MeNext ==
  \/ \E w \in MeWriters : WriteBegin(w) \/ UpsertRecord(w) \/ IngestText(w) \/ WriteFails(w)
  \/ RecordPrompt \/ Retrieve \/ ListChunks \/ ListGlobal \/ ListMemories \/ ListDocuments

MeSpec == MeInit /\ [][MeNext]_meVars

-----------------------------------------------------------------------------
(* Properties.                                                             *)

MeTypeOK ==
  /\ \A i \in MeItems : Cardinality(meRecord[i]) <= 1
  /\ \A c \in meChunks : c.item \in MeItems \cup {Prompt} /\ c.text \in MeTexts \cup {1} /\ c.size \in Sizes
  /\ \A w \in MeWriters : meWriter[w] # {} => Write(w).pc \in {"record", "chunks"}
  /\ meReader.pc \in {"idle", "chunks", "global", "memories", "documents", "done"}

Stored(p) == \E c \in meChunks : Pair(c) = p

\* What was acknowledged is there whole: the record with that text and its
\* chunks, whatever other writes fail.
AckedWhole ==
  \A p \in meAcked :
    Stored(p) /\ (p.item.kind # "exchange" => \E r \in meRecord[p.item] : r.text = p.text)

\* A record whose text is in no chunk is of a write still under way, or of one
\* its caller was told had failed.
HalfOnlyByFailure ==
  \A i \in MeItems : \A r \in meRecord[i] :
    LET p == [item |-> i, text |-> r.text]
    IN  \/ Stored(p) \/ p \in meFailed
        \/ \E w \in MeWriters : Writing(w, "chunks") /\ Pair(Write(w)) = p

Found(p) == p \in meReader.hits

\* A retrieval finds what its own session had stored before on its branch,
\* through the chunk if nothing else: listings that fail and records out of
\* scope do not hide it.  Only a chunk embedded elsewhere than the query can be
\* missed, or one that is not among the most recent up to the limit.
OwnMemoryFound ==
  meReader.pc = "done" /\ ~meReader.cut =>
    \A p \in meReader.known :
      /\ p.item.owner = MeSession /\ p.item.branch = MeBranch
      /\ \E c \in meChunks : Pair(c) = p /\ c.size = meReader.size
      => Found(p)

\* Documents are found by ordinary tasks wherever the embeddings came from, as
\* long as they are not more than the limit.
DocumentsFound ==
  meReader.pc = "done" /\ ~meReader.deep /\ ~meReader.gaps =>
    \A p \in meReader.known : p.item.kind = "document" => Found(p)

\* What was acknowledged is whole and is found by who may see it, whatever
\* writes and listings fail while others go on.
RecordsFound == MeTypeOK /\ AckedWhole /\ HalfOnlyByFailure /\ OwnMemoryFound /\ DocumentsFound
=============================================================================
