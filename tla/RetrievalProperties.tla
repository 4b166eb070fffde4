------------------------ MODULE RetrievalProperties ------------------------
(***************************************************************************)
(* What search and the answers built on it must keep true, whatever a      *)
(* sequence of ingests has left in the store.                              *)
(***************************************************************************)
EXTENDS PgVectorStore, Tools

Tenants == {d.tenant_id : d \in Document}
Filters ==
  [category: {d.category : d \in Document} \cup {None},
   tags: {{}} \cup {{t} : t \in UNION {d.tags : d \in Document}}]

\* search_docs shows a tenant's documents once each, by their best matching chunk and in the
\* order of its score; a document with a matching chunk is left out only if that many chunks
\* of the tenant are at least as similar that the query's limit cuts it off.  (The tool's
\* filters apply after the limit, and which of equal chunks comes first is the store's choice.)
SearchFindsDocuments ==
  \A tenant \in Tenants, query \in DOMAIN Similarity, filters \in Filters :
    LET candidates == {c \in rows : c.tenant_id = tenant /\ c.source_type = "support_doc"}
        Sim(c) == Similarity[query][c.content]
    IN \A answer \in Answers(rows, query, Filter(tenant, "support_doc", SearchTopK)) :
         LET results == DocumentSearch(query, answer, filters)
         IN /\ Range(results) \subseteq candidates
            /\ \A i, j \in DOMAIN results : i < j =>
                 /\ results[i].source_id # results[j].source_id
                 /\ Score(query, results[i]) >= Score(query, results[j])
            /\ \A c \in candidates : MatchesMetadata(c, filters) =>
                 \/ \E r \in Range(results) :
                      r.source_id = c.source_id /\ Score(query, r) >= Score(query, c)
                 \/ Cardinality({d \in candidates \ {c} : Sim(d) >= Sim(c)}) >= SearchTopK

\* A client is shown nothing that belongs to another tenant: neither by a tool whose ids come
\* from the client's text or are fixed, nor by the context its answer is grounded on, nor by a
\* search of its own.
AnswersStayInTenant ==
  \A r \in Request :
    LET searched == {result.shown : result \in Execute(rows, SearchCall(r.tenant_id, r.query))}
    IN \A shown \in AnswerShows(rows, r) \cup searched : \A x \in shown :
         x.tenant_id = r.tenant_id
=============================================================================
