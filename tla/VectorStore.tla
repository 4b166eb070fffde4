---------------------------- MODULE VectorStore ----------------------------
(***************************************************************************)
(* What a retrieval store promises (retrieval/store.py, service.py): each  *)
(* ingest_documents takes effect at once and as a whole.  This is also how *)
(* InMemoryRetrievalStore works, in one thread.  A store never learns that *)
(* a document has become shorter or has gone.                              *)
(***************************************************************************)
EXTENDS Retrieval

CONSTANT Feeds    \* the document lists that are ingested

VARIABLES
  records,        \* the stored chunks
  latest          \* history: the last ingested document of each source

vars == <<records, latest>>

\* The document a feed says last of a source, if any.
LastOf(docs, source) ==
  {docs[i] : i \in {j \in 1..Len(docs) :
     Source(docs[j]) = source /\ \A k \in 1..Len(docs) : k > j => Source(docs[k]) # source}}

Sources == {Source(d) : d \in Document}

TypeOK ==
  /\ records \subseteq Chunk
  /\ latest \in [Sources -> SUBSET Document]
  /\ \A s \in Sources : \A d \in latest[s] : Source(d) = s

Init ==
  /\ records = {}
  /\ latest = [s \in Sources |-> {}]

Remember(docs) ==
  latest' = [s \in Sources |->
    IF \E i \in 1..Len(docs) : Source(docs[i]) = s THEN LastOf(docs, s) ELSE latest[s]]

\* ingest_documents: chunk everything, embed everything, upsert everything.
IngestDocuments(docs) ==
  /\ records' = Upserted(records, docs)
  /\ Remember(docs)

Next == \E docs \in Feeds : IngestDocuments(docs)

Spec == Init /\ [][Next]_vars

-----------------------------------------------------------------------------
\* Of every source the store holds all chunks of its last document, and of older ones nothing
\* but chunks past its end, which nothing deletes: an answer can be out of date only through
\* the tail of a document that has become shorter.  (upsert_chunks works by key)
OnlyTailsAreStale ==
  \A s \in Sources : \A d \in latest[s] :
    /\ Chunks(<<d>>) \subseteq records
    /\ \A c \in records : SourceOf(c) = s =>
         c \in Chunks(<<d>>) \/ c.chunk_index >= Len(d.texts)
=============================================================================
