----------------------------- MODULE Retrieval -----------------------------
(***************************************************************************)
(* The retrieval package (packages/retrieval) and the document search tool *)
(* on top of it, as operators on the set of stored chunks: what the        *)
(* documents of a feed are cut into, what an upsert leaves in a store,     *)
(* what a query may answer and what search_docs makes of the answer.       *)
(***************************************************************************)
EXTENDS Integers, Sequences, FiniteSets, FiniteSetsExt, Functions

CONSTANTS
  Document,       \* the documents a docs.json may hold
  Similarity,     \* Similarity[query][content]: cosine similarity, in some unit
  None            \* a filter that is not given

\* A document's texts are the slices the chunker cuts it into (module Chunker): at least one.
\* Document ids are numbers, in the order of their names.
ASSUME DocumentAssumption ==
  \A d \in Document :
    /\ DOMAIN d = {"tenant_id", "source_type", "doc_id", "category", "tags", "texts"}
    /\ d.doc_id \in Nat
    /\ d.texts \in Seq(DOMAIN Similarity[CHOOSE q \in DOMAIN Similarity : TRUE])
    /\ d.texts # << >>

\* Every query has a similarity with every text.
ASSUME SimilarityAssumption ==
  \A p, q \in DOMAIN Similarity : Similarity[p] \in [DOMAIN Similarity[q] -> Int]

\* What is not given is no source type.
ASSUME NoneAssumption == None # "support_doc"

-----------------------------------------------------------------------------
(* Chunks *)

\* One place of a feed: a document of it and a slice of the document.
Positions(docs) == UNION {{<<i, n>> : n \in 1..Len(docs[i].texts)} : i \in 1..Len(docs)}

Before(p, q) == p[1] < q[1] \/ (p[1] = q[1] /\ p[2] < q[2])

\* chunk_document: the chunk of a slice.  object_id is source_id; title goes with category.
ChunkAt(docs, p) ==
  LET d == docs[p[1]]
  IN [tenant_id |-> d.tenant_id, source_type |-> d.source_type, source_id |-> d.doc_id,
      chunk_index |-> p[2] - 1, content |-> d.texts[p[2]],
      category |-> d.category, tags |-> d.tags]

Chunks(docs) == {ChunkAt(docs, p) : p \in Positions(docs)}
Chunk == UNION {Chunks(<<d>>) : d \in Document}

\* The columns of uq_document_chunks_source_chunk; a document is what its first three name.
Key(c) == <<c.tenant_id, c.source_type, c.source_id, c.chunk_index>>
SourceOf(c) == <<c.tenant_id, c.source_type, c.source_id>>
Source(d) == <<d.tenant_id, d.source_type, d.doc_id>>

\* upsert_chunks of the in-memory store, chunk by chunk: a chunk replaces the one of its key,
\* an earlier one of the same feed included.
Upserted(chunks, docs) ==
  {c \in chunks : \A p \in Positions(docs) : Key(ChunkAt(docs, p)) # Key(c)}
    \cup {ChunkAt(docs, p) : p \in {q \in Positions(docs) :
            \A r \in Positions(docs) : Before(q, r) => Key(ChunkAt(docs, r)) # Key(ChunkAt(docs, q))}}

-----------------------------------------------------------------------------
(* Queries *)

\* matches_filter.
Matches(c, filter) ==
  /\ c.tenant_id = filter.tenant_id
  /\ filter.source_type = None \/ c.source_type = filter.source_type
  /\ filter.source_id = None \/ c.source_id = filter.source_id
  /\ filter.object_id = None \/ c.source_id = filter.object_id

Filter(tenant, source_type, top_k) ==
  [tenant_id |-> tenant, source_type |-> source_type, source_id |-> None, object_id |-> None,
   top_k |-> top_k]

Score(query, c) == Max({0, Similarity[query][c.content]})

\* query: the top_k most similar of the matching chunks, best first.  Among equals Python sorts
\* by source and index and PostgreSQL as it likes: an answer is one of these sequences.
Answers(chunks, query, filter) ==
  LET matching == {c \in chunks : Matches(c, filter)}
      Sim(c) == Similarity[query][c.content]
  IN {answer \in [1..Min({filter.top_k, Cardinality(matching)}) -> matching] :
        /\ IsInjective(answer)
        /\ \A i, j \in DOMAIN answer : i < j => Sim(answer[i]) >= Sim(answer[j])
        /\ \A c \in matching \ Range(answer), i \in DOMAIN answer : Sim(answer[i]) >= Sim(c)}

-----------------------------------------------------------------------------
(* search_docs *)

\* _matches_filters of the tool, on a chunk's metadata.
MatchesMetadata(c, filters) ==
  /\ filters.category = None \/ c.category = filters.category
  /\ filters.tags \subseteq c.tags

\* Mutant: a later chunk of the document replaces an earlier one.
BestOf_Last(query, chunks, hits) ==
  {i \in hits : \A j \in hits : chunks[j].source_id = chunks[i].source_id => j <= i}

\* results_by_doc: of each document the hit of the best score, the earlier one of equals.
BestOf(query, chunks, hits) ==
  {i \in hits : \A j \in hits : chunks[j].source_id = chunks[i].source_id =>
     \/ Score(query, chunks[i]) > Score(query, chunks[j])
     \/ Score(query, chunks[i]) = Score(query, chunks[j]) /\ i <= j}

\* The sort key of the results.
RanksBefore(query, c, d) ==
  \/ Score(query, c) > Score(query, d)
  \/ Score(query, c) = Score(query, d) /\ c.source_id < d.source_id

\* RetrievalDocumentSearch.search on the store's answer: a result is the chunk it shows.
DocumentSearch(query, answer, filters) ==
  LET hits == {i \in DOMAIN answer : MatchesMetadata(answer[i], filters)}
      results == {answer[i] : i \in BestOf(query, answer, hits)}
  IN CHOOSE ranked \in [1..Cardinality(results) -> results] :
       \A i, j \in DOMAIN ranked : i < j => RanksBefore(query, ranked[i], ranked[j])
=============================================================================
