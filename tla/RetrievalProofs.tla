-------------------------- MODULE RetrievalProofs --------------------------
(***************************************************************************)
(* Lemmas about places in a feed, chunks and their keys, about sequences   *)
(* in an order, and about what a query answers and search_docs makes of    *)
(* the answer.                                                             *)
(***************************************************************************)
EXTENDS Retrieval, FiniteSetTheorems, TLAPS

\* What a place is.  (the two loops of ingest_documents and chunk_document)
LEMMA PlaceType ==
  ASSUME NEW docs, NEW p \in Positions(docs)
  PROVE  /\ p[1] \in 1..Len(docs)
         /\ p[2] \in 1..Len(docs[p[1]].texts)
         /\ p = <<p[1], p[2]>>
  BY DEF Positions

LEMMA PlaceExists ==
  ASSUME NEW docs, NEW i \in 1..Len(docs), NEW n \in 1..Len(docs[i].texts)
  PROVE  <<i, n>> \in Positions(docs)
  BY DEF Positions

LEMMA DocumentType ==
  ASSUME NEW d \in Document
  PROVE  Len(d.texts) \in Nat /\ Len(d.texts) >= 1
<1>1. PICK X : d.texts \in Seq(X) /\ d.texts # << >>
  BY DocumentAssumption
<1> QED
  BY <1>1

\* The key of a chunk is its source and its index.
LEMMA KeyParts ==
  ASSUME NEW c, NEW d
  PROVE  Key(c) = Key(d) <=> SourceOf(c) = SourceOf(d) /\ c.chunk_index = d.chunk_index
  BY DEF Key, SourceOf

\* A chunk is named by its document's source and its place, and is one of its document alone.
LEMMA ChunkOfPlace ==
  ASSUME NEW docs \in Seq(Document), NEW p \in Positions(docs)
  PROVE  /\ docs[p[1]] \in Document
         /\ SourceOf(ChunkAt(docs, p)) = Source(docs[p[1]])
         /\ ChunkAt(docs, p).chunk_index = p[2] - 1
         /\ ChunkAt(docs, p) \in Chunks(<<docs[p[1]]>>)
         /\ ChunkAt(docs, p) \in Chunk
<1> DEFINE d == docs[p[1]]
<1>1. d \in Document
  BY PlaceType
<1>2. <<1, p[2]>> \in Positions(<<d>>)
  BY PlaceType, PlaceExists
<1>3. ChunkAt(<<d>>, <<1, p[2]>>) = ChunkAt(docs, p)
  BY DEF ChunkAt
<1>4. ChunkAt(docs, p) \in Chunks(<<d>>)
  BY <1>2, <1>3 DEF Chunks
<1> QED
  BY <1>1, <1>4 DEF ChunkAt, SourceOf, Source, Chunk

\* The chunks of a document, one for each of its slices.
LEMMA ChunksOfDocument ==
  ASSUME NEW d \in Document
  PROVE  /\ \A c \in Chunks(<<d>>) :
              /\ SourceOf(c) = Source(d)
              /\ c.chunk_index + 1 \in 1..Len(d.texts)
              /\ c = ChunkAt(<<d>>, <<1, c.chunk_index + 1>>)
         /\ Chunks(<<d>>) \subseteq Chunk
<1>1. ASSUME NEW c \in Chunks(<<d>>)
      PROVE  /\ SourceOf(c) = Source(d)
             /\ c.chunk_index + 1 \in 1..Len(d.texts)
             /\ c = ChunkAt(<<d>>, <<1, c.chunk_index + 1>>)
  <2>1. PICK p \in Positions(<<d>>) : c = ChunkAt(<<d>>, p)
    BY DEF Chunks
  <2>2. p[1] = 1 /\ p[2] \in 1..Len(d.texts) /\ p = <<p[1], p[2]>>
    BY PlaceType
  <2>3. <<d>> \in Seq(Document) /\ <<d>>[p[1]] = d
    BY <2>2
  <2>4. c.chunk_index = p[2] - 1 /\ SourceOf(c) = Source(d)
    BY <2>1, <2>3, ChunkOfPlace
  <2> QED
    BY <2>1, <2>2, <2>4, DocumentType
<1> QED
  BY <1>1 DEF Chunk

\* The same chunk, found in its feed.
LEMMA SamePlace ==
  ASSUME NEW docs \in Seq(Document), NEW i \in 1..Len(docs), NEW n
  PROVE  ChunkAt(<<docs[i]>>, <<1, n>>) = ChunkAt(docs, <<i, n>>)
  BY DEF ChunkAt

LEMMA ChunkIndexType ==
  ASSUME NEW c \in Chunk
  PROVE  c.chunk_index \in Nat
<1>1. PICK d \in Document : c \in Chunks(<<d>>)
  BY DEF Chunk
<1>2. PICK p \in Positions(<<d>>) : c = ChunkAt(<<d>>, p)
  BY <1>1 DEF Chunks
<1> QED
  BY <1>2, PlaceType, DocumentType, ChunkOfPlace

\* Of an upsert's chunks none has the key of a chunk it left in place.
LEMMA UpsertedType ==
  ASSUME NEW chunks \in SUBSET Chunk, NEW docs \in Seq(Document)
  PROVE  Upserted(chunks, docs) \subseteq Chunk
  BY ChunkOfPlace DEF Upserted

-----------------------------------------------------------------------------
(* Sequences in an order *)

\* As many distinct elements of a finite set as it has are all of them.
LEMMA ListsAll ==
  ASSUME NEW S, IsFiniteSet(S), NEW f \in [1..Cardinality(S) -> S], IsInjective(f)
  PROVE  \A x \in S : \E i \in 1..Cardinality(S) : f[i] = x
<1> DEFINE n == Cardinality(S)
<1>1. n \in Nat
  BY FS_CardinalityType
<1>2. Cardinality(1..n) = IF 1 > n THEN 0 ELSE n - 1 + 1
  BY <1>1, FS_Interval
<1>3. Cardinality(1..n) = n
  BY <1>1, <1>2
<1>4. f \in Injection(1..n, S)
  BY DEF Injection
<1>5. f \in Surjection(1..n, S)
  BY <1>3, <1>4, FS_Injection
<1> QED
  BY <1>5 DEF Surjection

\* A finite set in a strict linear order is a sequence of its elements: of each, the place is
\* one more than the number of those before it.
LEMMA SortedSequence ==
  ASSUME NEW S, IsFiniteSet(S), NEW R,
         \A x \in S : <<x, x>> \notin R,
         \A x, y, z \in S : <<x, y>> \in R /\ <<y, z>> \in R => <<x, z>> \in R,
         \A x, y \in S : x # y => <<x, y>> \in R \/ <<y, x>> \in R
  PROVE  \E f \in [1..Cardinality(S) -> S] :
           \A i, j \in 1..Cardinality(S) : i < j => <<f[i], f[j]>> \in R
<1> DEFINE n == Cardinality(S)
           Below(x) == {y \in S : <<y, x>> \in R}
           place == [x \in S |-> Cardinality(Below(x)) + 1]
<1>1. n \in Nat
  BY FS_CardinalityType
<1>2. ASSUME NEW x \in S
      PROVE  IsFiniteSet(Below(x)) /\ place[x] \in 1..n
  <2>1. Below(x) \in SUBSET (S \ {x})
    OBVIOUS
  <2>2. IsFiniteSet(S \ {x}) /\ Cardinality(S \ {x}) = n - 1
    BY FS_RemoveElement
  <2>3. IsFiniteSet(Below(x)) /\ Cardinality(Below(x)) <= Cardinality(S \ {x})
    BY ONLY <2>1, <2>2, FS_Subset
  <2>4. Cardinality(Below(x)) \in Nat
    BY <2>3, FS_CardinalityType
  <2> QED
    BY <1>1, <2>2, <2>3, <2>4
<1>3. ASSUME NEW x \in S, NEW y \in S, <<x, y>> \in R
      PROVE  place[x] < place[y]
  <2>1. Below(x) \in SUBSET Below(y) /\ x \in Below(y) /\ x \notin Below(x)
    BY <1>3
  <2>2. Cardinality(Below(x)) <= Cardinality(Below(y))
        /\ Cardinality(Below(x)) # Cardinality(Below(y))
    BY <1>2, <2>1, FS_Subset
  <2>3. Cardinality(Below(x)) \in Nat /\ Cardinality(Below(y)) \in Nat
    BY <1>2, FS_CardinalityType
  <2> QED
    BY <2>2, <2>3
<1>4. place \in [S -> 1..n]
  BY <1>2
<1> HIDE DEF place
<1>5. ASSUME NEW x \in S, NEW y \in S, place[x] = place[y]
      PROVE  x = y
  <2>1. place[x] \in Int /\ place[y] \in Int
    BY <1>1, <1>4
  <2>2. <<x, y>> \notin R
    BY <1>3, <1>5, <2>1
  <2>3. <<y, x>> \notin R
    BY <1>3, <1>5, <2>1
  <2> QED
    BY <2>2, <2>3
<1>6. place \in Injection(S, 1..n)
  BY <1>4, <1>5 DEF Injection, IsInjective
<1>7. Cardinality(1..n) = IF 1 > n THEN 0 ELSE n - 1 + 1
  BY <1>1, FS_Interval
<1>8. IsFiniteSet(1..n) /\ Cardinality(1..n) = n
  BY <1>1, <1>7, FS_Interval
<1>9. place \in Surjection(S, 1..n)
  BY <1>6, <1>8, FS_Injection
<1>10. \A i \in 1..n : \E x \in S : place[x] = i
  BY <1>9 DEF Surjection
<1> DEFINE f == [i \in 1..n |-> CHOOSE x \in S : place[x] = i]
<1>11. \A i \in 1..n : f[i] \in S /\ place[f[i]] = i
  BY <1>10
<1>12. f \in [1..n -> S]
  BY <1>11
<1> HIDE DEF f
<1>13. ASSUME NEW i \in 1..n, NEW j \in 1..n, i < j
       PROVE  <<f[i], f[j]>> \in R
  <2>1. f[i] # f[j] /\ f[i] \in S /\ f[j] \in S
    BY <1>1, <1>11, <1>13
  <2>2. <<f[j], f[i]>> \notin R
    BY <1>1, <1>3, <1>11, <1>13, <2>1
  <2> QED
    BY <2>1, <2>2
<1> QED
  BY <1>12, <1>13

\* A sequence in a strict order has no element twice.
LEMMA SortedIsInjective ==
  ASSUME NEW n \in Nat, NEW S, NEW f \in [1..n -> S], NEW R,
         \A x \in S : <<x, x>> \notin R,
         \A i, j \in 1..n : i < j => <<f[i], f[j]>> \in R
  PROVE  IsInjective(f)
<1>1. ASSUME NEW i \in 1..n, NEW j \in 1..n, f[i] = f[j], i < j
      PROVE  FALSE
  BY <1>1
<1>2. \A i, j \in 1..n : i = j \/ i < j \/ j < i
  OBVIOUS
<1> QED
  BY <1>1, <1>2 DEF IsInjective

-----------------------------------------------------------------------------
(* Queries and search_docs *)

\* Similarities are numbers; a score is never negative and follows the similarity.
LEMMA ScoreType ==
  ASSUME NEW query \in DOMAIN Similarity, NEW c \in Chunk
  PROVE  /\ Similarity[query][c.content] \in Int
         /\ Score(query, c) = IF Similarity[query][c.content] < 0 THEN 0
                              ELSE Similarity[query][c.content]
         /\ Score(query, c) \in Int
         /\ c.source_id \in Int
<1>1. PICK d \in Document : c \in Chunks(<<d>>)
  BY DEF Chunk
<1>2. c = ChunkAt(<<d>>, <<1, c.chunk_index + 1>>) /\ c.chunk_index + 1 \in 1..Len(d.texts)
  BY <1>1, ChunksOfDocument
<1>3. c.content = d.texts[c.chunk_index + 1] /\ c.source_id = d.doc_id
  BY <1>2 DEF ChunkAt
<1> DEFINE some == CHOOSE q \in DOMAIN Similarity : TRUE
           sim == Similarity[query][c.content]
<1>4. some \in DOMAIN Similarity
  OBVIOUS
<1> HIDE DEF some
<1>5. c.content \in DOMAIN Similarity[some]
  <2>1. d.texts \in Seq(DOMAIN Similarity[some]) /\ d.doc_id \in Nat
    BY DocumentAssumption DEF some
  <2> QED
    BY <1>2, <1>3, <2>1
<1>6. Similarity[query] \in [DOMAIN Similarity[some] -> Int]
  BY <1>4, SimilarityAssumption
<1>7. sim \in Int
  BY <1>5, <1>6
<1>8. c.source_id \in Int
  <2>1. d.doc_id \in Nat
    BY DocumentAssumption
  <2> QED
    BY <1>3, <2>1
<1>9. Score(query, c) = Max({0, sim})
  BY DEF Score
<1> HIDE DEF sim
<1>10. Max({0, sim}) = IF sim < 0 THEN 0 ELSE sim
  BY <1>7 DEF Max
<1> QED
  BY <1>7, <1>8, <1>9, <1>10 DEF sim

\* The order of the results is a strict order, and linear on chunks of different sources.
LEMMA RanksOrder ==
  ASSUME NEW query \in DOMAIN Similarity
  PROVE  /\ \A c \in Chunk : ~RanksBefore(query, c, c)
         /\ \A c, d, e \in Chunk :
              RanksBefore(query, c, d) /\ RanksBefore(query, d, e) => RanksBefore(query, c, e)
         /\ \A c, d \in Chunk :
              c.source_id # d.source_id => RanksBefore(query, c, d) \/ RanksBefore(query, d, c)
         /\ \A c, d \in Chunk :
              RanksBefore(query, c, d) => Score(query, c) >= Score(query, d)
<1>1. \A c \in Chunk : Score(query, c) \in Int /\ c.source_id \in Int
  BY ScoreType
<1> QED
  BY <1>1 DEF RanksBefore

LEMMA FilterFields ==
  ASSUME NEW tenant, NEW source_type, NEW top_k
  PROVE  /\ Filter(tenant, source_type, top_k).tenant_id = tenant
         /\ Filter(tenant, source_type, top_k).source_type = source_type
         /\ Filter(tenant, source_type, top_k).source_id = None
         /\ Filter(tenant, source_type, top_k).object_id = None
         /\ Filter(tenant, source_type, top_k).top_k = top_k
  BY DEF Filter

\* A filter by tenant and source type asks for these two and nothing else.
LEMMA MatchesFilter ==
  ASSUME NEW c, NEW tenant, NEW top_k
  PROVE  Matches(c, Filter(tenant, "support_doc", top_k))
           <=> c.tenant_id = tenant /\ c.source_type = "support_doc"
  BY FilterFields, NoneAssumption DEF Matches

\* What a query answers: distinct matching chunks, best first; one that is left out is no
\* better than any of them, and then there are top_k.
LEMMA AnswerFacts ==
  ASSUME NEW chunks \in SUBSET Chunk, IsFiniteSet(chunks), NEW query \in DOMAIN Similarity,
         NEW filter, filter.top_k \in Nat, NEW answer \in Answers(chunks, query, filter)
  PROVE  /\ Len(answer) \in Nat
         /\ answer \in [1..Len(answer) -> {c \in chunks : Matches(c, filter)}]
         /\ DOMAIN answer = 1..Len(answer)
         /\ IsInjective(answer)
         /\ \A c \in chunks : Matches(c, filter) =>
              \/ \E i \in 1..Len(answer) : answer[i] = c
              \/ /\ Len(answer) = filter.top_k
                 /\ \A i \in 1..Len(answer) :
                      Similarity[query][answer[i].content] >= Similarity[query][c.content]
<1> DEFINE matching == {c \in chunks : Matches(c, filter)}
           m == Cardinality(matching)
           k == filter.top_k
           n == Min({k, m})
<1>1. IsFiniteSet(matching) /\ m \in Nat
  BY FS_Subset, FS_CardinalityType
<1>2. /\ answer \in [1..n -> matching]
      /\ IsInjective(answer)
      /\ \A c \in matching \ Range(answer), i \in DOMAIN answer :
           Similarity[query][answer[i].content] >= Similarity[query][c.content]
  BY DEF Answers
<1> HIDE DEF m, k, matching
<1>3. n = IF k < m THEN k ELSE m
  BY <1>1 DEF Min, k
<1> HIDE DEF n
<1>4. n \in Nat
  BY <1>1, <1>3 DEF k
<1>5. Len(answer) = n
  BY <1>2, <1>4
<1>6. ASSUME n # k
      PROVE  \A c \in matching : \E i \in 1..n : answer[i] = c
  <2>1. n = m
    BY <1>3, <1>6
  <2> QED
    BY <1>1, <1>2, <2>1, ListsAll DEF m
<1>7. \A c \in matching \ Range(answer) : n = k
  BY <1>2, <1>6 DEF Range
<1>8. \A c \in matching : c \in Range(answer) => \E i \in 1..n : answer[i] = c
  BY <1>2 DEF Range
<1>9. /\ Len(answer) \in Nat
      /\ answer \in [1..Len(answer) -> matching]
      /\ DOMAIN answer = 1..Len(answer)
      /\ IsInjective(answer)
      /\ \A c \in matching :
           \/ \E i \in 1..Len(answer) : answer[i] = c
           \/ /\ Len(answer) = k
              /\ \A i \in 1..Len(answer) :
                   Similarity[query][answer[i].content] >= Similarity[query][c.content]
  BY <1>2, <1>4, <1>5, <1>7, <1>8
<1> QED
  BY <1>9 DEF matching, k

\* The hits of an answer and the chunks that stand for their documents, as in DocumentSearch.
Hits(answer, filters) == {i \in DOMAIN answer : MatchesMetadata(answer[i], filters)}
Results(query, answer, filters) ==
  {answer[i] : i \in BestOf(query, answer, Hits(answer, filters))}

\* Every hit's document has a best hit.  (results_by_doc)
LEMMA BestHit ==
  ASSUME NEW query \in DOMAIN Similarity, NEW n \in Nat, NEW answer \in [1..n -> Chunk],
         NEW hits \in SUBSET (1..n), NEW i \in hits
  PROVE  \E b \in BestOf(query, answer, hits) :
           /\ answer[b].source_id = answer[i].source_id
           /\ Score(query, answer[b]) >= Score(query, answer[i])
<1> DEFINE sc == [j \in hits |-> Score(query, answer[j])]
           same == {j \in hits : answer[j].source_id = answer[i].source_id}
           better == {p \in same \X same :
                        \/ sc[p[1]] > sc[p[2]]
                        \/ sc[p[1]] = sc[p[2]] /\ p[1] < p[2]}
<1>1. \A j \in hits : sc[j] \in Int /\ j \in Int
  BY ScoreType
<1>2. \A j \in hits : sc[j] = Score(query, answer[j])
  OBVIOUS
<1>3. IsFiniteSet(same)
  <2>1. IsFiniteSet(1..n)
    BY FS_Interval
  <2> QED
    BY <2>1, FS_Subset
<1>4. i \in same /\ same \subseteq hits
  OBVIOUS
<1> HIDE DEF sc
<1>5. \A j, k \in same : <<j, k>> \in better <=> sc[j] > sc[k] \/ (sc[j] = sc[k] /\ j < k)
  OBVIOUS
<1> HIDE DEF better
<1> DEFINE m == Cardinality(same)
<1>6. PICK f \in [1..m -> same] : \A j, k \in 1..m : j < k => <<f[j], f[k]>> \in better
  <2>1. \A x \in same : <<x, x>> \notin better
    BY <1>1, <1>4, <1>5
  <2>2. \A x, y, z \in same : <<x, y>> \in better /\ <<y, z>> \in better => <<x, z>> \in better
    BY <1>1, <1>4, <1>5
  <2>3. \A x, y \in same : x # y => <<x, y>> \in better \/ <<y, x>> \in better
    BY <1>1, <1>4, <1>5
  <2> HIDE DEF same
  <2> QED
    BY <1>3, <2>1, <2>2, <2>3, SortedSequence
<1>7. m \in Nat
  BY <1>3, FS_CardinalityType
<1>8. IsInjective(f)
  <2>1. \A x \in same : <<x, x>> \notin better
    BY <1>1, <1>4, <1>5
  <2> HIDE DEF same, m
  <2> QED
    BY <1>6, <1>7, <2>1, SortedIsInjective
<1>9. \A j \in same : \E k \in 1..m : f[k] = j
  <2> HIDE DEF same
  <2> QED
    BY <1>3, <1>6, <1>8, ListsAll
<1>10. 1 \in 1..m
  BY <1>4, <1>7, <1>9
<1> DEFINE b == f[1]
<1>11. b \in same
  BY <1>10
<1>12. \A j \in same : j = b \/ <<b, j>> \in better
  BY <1>6, <1>7, <1>9, <1>10
<1>13. ASSUME NEW j \in same
       PROVE  \/ sc[b] > sc[j]
              \/ sc[b] = sc[j] /\ b <= j
  <2>1. b = j \/ <<b, j>> \in better
    BY <1>12
  <2> HIDE DEF b, same
  <2>2. sc[b] \in Int /\ b \in Int
    BY <1>1, <1>4, <1>11
  <2>3. <<b, j>> \in better => sc[b] > sc[j] \/ (sc[b] = sc[j] /\ b < j)
    BY <1>5, <1>11
  <2>4. b = j => sc[b] = sc[j] /\ b <= j
    BY <2>2
  <2>5. j \in Int
    BY <1>1, <1>4
  <2> QED
    BY ONLY <2>1, <2>2, <2>3, <2>4, <2>5
<1>14. b \in BestOf(query, answer, hits)
  <2>1. b \in hits /\ answer[b].source_id = answer[i].source_id
    BY <1>11
  <2>2. ASSUME NEW j \in hits, answer[j].source_id = answer[b].source_id
        PROVE  \/ Score(query, answer[b]) > Score(query, answer[j])
               \/ Score(query, answer[b]) = Score(query, answer[j]) /\ b <= j
    <3>1. j \in same
      BY <2>1, <2>2
    <3> HIDE DEF b
    <3> QED
      BY <1>2, <1>13, <2>1, <3>1
  <2> HIDE DEF b
  <2> QED
    BY <2>1, <2>2 DEF BestOf
<1>15. Score(query, answer[b]) >= Score(query, answer[i])
  <2> HIDE DEF b
  <2> QED
    BY <1>1, <1>2, <1>4, <1>11, <1>13
<1> QED
  BY <1>11, <1>14, <1>15

\* The best hits of two documents, and no two of one.
LEMMA BestAreApart ==
  ASSUME NEW query \in DOMAIN Similarity, NEW n \in Nat, NEW answer \in [1..n -> Chunk],
         NEW hits \in SUBSET (1..n),
         NEW a \in BestOf(query, answer, hits), NEW b \in BestOf(query, answer, hits),
         answer[a].source_id = answer[b].source_id
  PROVE  a = b
<1>1. a \in hits /\ b \in hits
  BY DEF BestOf
<1>2. Score(query, answer[a]) \in Int /\ Score(query, answer[b]) \in Int
  BY <1>1, ScoreType
<1>3. /\ \/ Score(query, answer[a]) > Score(query, answer[b])
         \/ Score(query, answer[a]) = Score(query, answer[b]) /\ a <= b
      /\ \/ Score(query, answer[b]) > Score(query, answer[a])
         \/ Score(query, answer[b]) = Score(query, answer[a]) /\ b <= a
  BY <1>1 DEF BestOf
<1> QED
  BY <1>1, <1>2, <1>3

\* What search_docs returns: the best hits of their documents, each document once, in the
\* order of their scores.
LEMMA SearchResults ==
  ASSUME NEW query \in DOMAIN Similarity, NEW n \in Nat, NEW answer \in [1..n -> Chunk],
         NEW filters
  PROVE  LET found == DocumentSearch(query, answer, filters)
         IN /\ Range(found) = Results(query, answer, filters)
            /\ \A i, j \in DOMAIN found : i < j =>
                 /\ found[i].source_id # found[j].source_id
                 /\ Score(query, found[i]) >= Score(query, found[j])
<1> DEFINE hits == Hits(answer, filters)
           results == Results(query, answer, filters)
           m == Cardinality(results)
           order == {p \in results \X results : RanksBefore(query, p[1], p[2])}
           found == DocumentSearch(query, answer, filters)
<1>1. hits \in SUBSET (1..n)
  BY DEF Hits
<1>2. BestOf(query, answer, hits) \subseteq 1..n
  BY <1>1 DEF BestOf
<1>3. results \subseteq Chunk
  BY <1>2 DEF Results
<1>4. \A x, y \in results : x # y => x.source_id # y.source_id
  <2>1. \A a, b \in BestOf(query, answer, hits) :
          answer[a].source_id = answer[b].source_id => a = b
    BY <1>1, BestAreApart
  <2> QED
    BY <2>1 DEF Results
<1>5. IsFiniteSet(results)
  <2>1. IsFiniteSet(1..n)
    BY FS_Interval
  <2>2. IsFiniteSet(BestOf(query, answer, hits))
    BY <1>2, <2>1, FS_Subset
  <2> DEFINE best == BestOf(query, answer, hits)
             f == [i \in best |-> answer[i]]
  <2>3. results = {f[i] : i \in best}
    BY DEF Results
  <2> HIDE DEF f, best
  <2>4. f \in Surjection(best, {f[i] : i \in best})
    BY DEF f, Surjection
  <2>5. IsFiniteSet({f[i] : i \in best})
    BY <2>2, <2>4, FS_Surjection DEF best
  <2> QED
    BY <2>3, <2>5
<1>6. \A x, y \in results : <<x, y>> \in order <=> RanksBefore(query, x, y)
  OBVIOUS
<1> HIDE DEF results, order
<1>7. \A x \in results : <<x, x>> \notin order
  BY <1>3, <1>6, RanksOrder
<1>8. \A x, y, z \in results : <<x, y>> \in order /\ <<y, z>> \in order => <<x, z>> \in order
  BY <1>3, <1>6, RanksOrder
<1>9. \A x, y \in results : x # y => <<x, y>> \in order \/ <<y, x>> \in order
  BY <1>3, <1>4, <1>6, RanksOrder
<1>10. \E f \in [1..m -> results] : \A i, j \in 1..m : i < j => <<f[i], f[j]>> \in order
  BY <1>5, <1>7, <1>8, <1>9, SortedSequence
<1>11. \E f \in [1..m -> results] :
         \A i, j \in DOMAIN f : i < j => RanksBefore(query, f[i], f[j])
  <2>1. PICK f \in [1..m -> results] : \A i, j \in 1..m : i < j => <<f[i], f[j]>> \in order
    BY <1>10
  <2>2. \A i, j \in DOMAIN f : i < j => RanksBefore(query, f[i], f[j])
    BY <1>6, <2>1
  <2> QED
    BY <2>2
<1>12. found = CHOOSE f \in [1..m -> results] :
                 \A i, j \in DOMAIN f : i < j => RanksBefore(query, f[i], f[j])
  BY DEF DocumentSearch, results, Results, Hits
<1> HIDE DEF found
<1>13. /\ found \in [1..m -> results]
       /\ \A i, j \in DOMAIN found : i < j => RanksBefore(query, found[i], found[j])
  BY <1>11, <1>12
<1>14. m \in Nat
  BY <1>5, FS_CardinalityType
<1> HIDE DEF m
<1>15. \A i, j \in 1..m : i < j => <<found[i], found[j]>> \in order
  BY <1>6, <1>13
<1>16. IsInjective(found)
  BY <1>7, <1>13, <1>14, <1>15, SortedIsInjective
<1>17. \A x \in results : \E i \in 1..m : found[i] = x
  BY <1>5, <1>13, <1>16, ListsAll DEF m
<1>18. Range(found) = results
  BY <1>13, <1>17 DEF Range
<1>19. ASSUME NEW i \in 1..m, NEW j \in 1..m, i < j
       PROVE  /\ found[i].source_id # found[j].source_id
              /\ Score(query, found[i]) >= Score(query, found[j])
  <2>1. found[i] \in results /\ found[j] \in results /\ RanksBefore(query, found[i], found[j])
    BY <1>13, <1>19
  <2>2. found[i] # found[j]
    BY <1>3, <2>1, RanksOrder
  <2> QED
    BY <1>3, <1>4, <2>1, <2>2, RanksOrder
<1>20. DOMAIN found = 1..m
  BY <1>13
<1> QED
  BY <1>18, <1>19, <1>20 DEF found, results
=============================================================================
