----------------------------- MODULE MemoryIndex -----------------------------
(***************************************************************************)
(* The embedding of one record of Memory.  An update commits its content   *)
(* first and the embedding of it in a second transaction, after a call of  *)
(* the provider, without asking for the version again; deletions, other    *)
(* updates and the reindexer come in between.                              *)
(***************************************************************************)
EXTENDS Naturals, FiniteSets

CONSTANTS Text,      \* contents
          Updater,   \* update_memory calls at a time
          NoVector   \* PENDING or FAILED: no embedding

IndexAssumption == NoVector \notin Text

VARIABLES
    content, deleted, \* the record
    vector,           \* the content its embedding was made of
    embedding,        \* embedding[u]: what update u is having embedded
    overlap           \* history: an update was overtaken between its commits

indexVars == <<content, deleted, vector, embedding, overlap>>

IndexTypeOK ==
    /\ content \in Text /\ vector \in Text \cup {NoVector}
    /\ deleted \in BOOLEAN /\ overlap \in BOOLEAN
    /\ embedding \in [Updater -> Text \cup {NoVector}]

\* A new record is indexed in its own transaction; the provider may fail.
IndexInit ==
    /\ content \in Text /\ vector \in {content, NoVector}
    /\ deleted = FALSE /\ overlap = FALSE
    /\ embedding = [u \in Updater |-> NoVector]

InFlight == {u \in Updater : embedding[u] # NoVector}

\* Mutant: the vector of the old content stays until there is a new one.
KeptVector == vector

\* What an update leaves of the vector in its first commit.
DroppedVector == NoVector

\* update_memory, up to its first commit.
UpdateContent(u, x) ==
    /\ embedding[u] = NoVector /\ ~deleted
    /\ content' = x /\ vector' = DroppedVector
    /\ embedding' = [embedding EXCEPT ![u] = x]
    /\ overlap' = (overlap \/ InFlight # {})
    /\ UNCHANGED deleted

\* MemoryRecordStore.index and the second commit.
UpdateVector(u) ==
    /\ embedding[u] # NoVector
    /\ \E v \in {embedding[u], NoVector} : vector' = v
    /\ embedding' = [embedding EXCEPT ![u] = NoVector]
    /\ UNCHANGED <<content, deleted, overlap>>

\* The process ends between the two commits.
UpdaterCrash(u) ==
    /\ embedding[u] # NoVector
    /\ embedding' = [embedding EXCEPT ![u] = NoVector]
    /\ UNCHANGED <<content, deleted, vector, overlap>>

\* delete_memory
DeleteRecord ==
    /\ ~deleted /\ deleted' = TRUE
    /\ vector' = NoVector
    /\ overlap' = (overlap \/ InFlight # {})
    /\ UNCHANGED <<content, embedding>>

\* MemoryReindexer.run: the row is locked while it is embedded.
Reindex ==
    /\ ~deleted /\ vector = NoVector
    /\ vector' = content
    /\ UNCHANGED <<content, deleted, embedding, overlap>>

IndexNext ==
    \/ \E u \in Updater : UpdateVector(u) \/ UpdaterCrash(u) \/ \E x \in Text : UpdateContent(u, x)
    \/ DeleteRecord \/ Reindex

IndexSpec == IndexInit /\ [][IndexNext]_indexVars

\* The index shows what the record says, and nothing of a deleted one, while
\* no update was overtaken; a crash between its commits and a provider that
\* fails leave a record that the reindexer will find.  (An update that was
\* overtaken leaves the vector of an old content in a record that counts as
\* READY, or puts one into a deleted record: retrieval goes by the record.)
StaleOnlyWhenOvertaken ==
    ~overlap => vector \in {content, NoVector} /\ (deleted => vector = NoVector)

\* The inductive invariant: what is being embedded is what the record says, and
\* of one update only, unless one was overtaken.
IndexInv ==
    /\ IndexTypeOK
    /\ StaleOnlyWhenOvertaken
    /\ ~overlap => \A u, v \in InFlight : u = v /\ embedding[u] = content /\ ~deleted
=============================================================================
