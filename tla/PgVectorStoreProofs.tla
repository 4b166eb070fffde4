------------------------ MODULE PgVectorStoreProofs ------------------------
(***************************************************************************)
(* The lock invariant of PgVectorStore, that it implements VectorStore,    *)
(* and that VectorStore, so PgVectorStore, has stale chunks only in tails. *)
(* Then what search and the tools answer from its rows.                    *)
(***************************************************************************)
EXTENDS RetrievalProperties, RetrievalProofs

-----------------------------------------------------------------------------
(* The abstract store *)

\* The abstract store's operators on documents and chunks are those of Retrieval.
LEMMA SameRetrieval ==
  /\ Store!Chunk = Chunk
  /\ Store!Sources = {Source(d) : d \in Document}
  /\ \A d : Store!Source(d) = Source(d)
  /\ \A c : Store!SourceOf(c) = SourceOf(c)
  /\ \A docs : Store!Chunks(docs) = Chunks(docs)
  /\ \A chunks, docs : Store!Upserted(chunks, docs) = Upserted(chunks, docs)
<1>1. \A d : Store!Source(d) = Source(d)
  BY DEF Store!Source, Source
<1>2. \A c : Store!SourceOf(c) = SourceOf(c) /\ Store!Key(c) = Key(c)
  BY DEF Store!SourceOf, SourceOf, Store!Key, Key
<1>3. \A docs, p : Store!ChunkAt(docs, p) = ChunkAt(docs, p)
  BY DEF Store!ChunkAt, ChunkAt
<1>4. \A docs : Store!Positions(docs) = Positions(docs)
  BY DEF Store!Positions, Positions
<1>5. \A p, q : Store!Before(p, q) <=> Before(p, q)
  BY DEF Store!Before, Before
<1>6. \A docs : Store!Chunks(docs) = Chunks(docs)
  BY <1>3, <1>4 DEF Store!Chunks, Chunks
<1>7. \A chunks, docs : Store!Upserted(chunks, docs) = Upserted(chunks, docs)
  BY <1>2, <1>3, <1>4, <1>5 DEF Store!Upserted, Upserted
<1>8. Store!Chunk = Chunk
  BY <1>6 DEF Store!Chunk, Chunk
<1>9. Store!Sources = {Source(d) : d \in Document}
  BY <1>1 DEF Store!Sources
<1> QED
  BY <1>1, <1>2, <1>6, <1>7, <1>8, <1>9

LEMMA StoreTypeStep ==
  ASSUME Store!TypeOK, NEW docs \in Feeds, Store!IngestDocuments(docs)
  PROVE  Store!TypeOK'
<1>1. docs \in Seq(Document)
  BY FeedsAssumption
<1>2. rows' \subseteq Chunk
  BY <1>1, UpsertedType, SameRetrieval DEF Store!IngestDocuments, Store!TypeOK
<1>3. latest' \in [Store!Sources -> SUBSET Document]
  BY <1>1 DEF Store!IngestDocuments, Store!Remember, Store!TypeOK, Store!LastOf
<1>4. \A s \in Store!Sources : \A d \in latest'[s] : Source(d) = s
  BY SameRetrieval DEF Store!IngestDocuments, Store!Remember, Store!TypeOK, Store!LastOf
<1> QED
  BY <1>2, <1>3, <1>4, SameRetrieval DEF Store!TypeOK

\* An ingest leaves of an earlier version what lies past the end of the new one.
LEMMA OnlyTailsStep ==
  ASSUME Store!TypeOK, Store!OnlyTailsAreStale, NEW docs \in Feeds, Store!IngestDocuments(docs)
  PROVE  Store!OnlyTailsAreStale'
<1>1. docs \in Seq(Document) /\ rows' = Upserted(rows, docs)
  BY FeedsAssumption, SameRetrieval DEF Store!IngestDocuments
<1> SUFFICES ASSUME NEW s \in Store!Sources, NEW d \in latest'[s]
             PROVE  /\ Chunks(<<d>>) \subseteq rows'
                    /\ \A c \in rows' : SourceOf(c) = s =>
                         c \in Chunks(<<d>>) \/ c.chunk_index >= Len(d.texts)
  BY SameRetrieval DEF Store!OnlyTailsAreStale
<1>2. CASE \E i \in 1..Len(docs) : Source(docs[i]) = s
  <2>1. d \in Store!LastOf(docs, s)
    BY <1>2, SameRetrieval DEF Store!IngestDocuments, Store!Remember
  <2>2. PICK m \in 1..Len(docs) :
           /\ d = docs[m] /\ Source(d) = s
           /\ \A k \in 1..Len(docs) : k > m => Source(docs[k]) # s
    BY <2>1, SameRetrieval DEF Store!LastOf
  <2>3. d \in Document
    BY <1>1, <2>2
  <2>4. ASSUME NEW c \in Chunks(<<d>>)
        PROVE  c \in rows'
    <3> DEFINE q == <<m, c.chunk_index + 1>>
    <3>0. /\ c.chunk_index + 1 \in 1..Len(docs[m].texts)
          /\ c = ChunkAt(<<docs[m]>>, <<1, c.chunk_index + 1>>)
      BY <2>2, <2>3, ChunksOfDocument
    <3>1. q \in Positions(docs) /\ c = ChunkAt(docs, q)
      BY <1>1, <3>0, SamePlace, PlaceExists
    <3>2. ASSUME NEW r \in Positions(docs), Before(q, r), Key(ChunkAt(docs, r)) = Key(ChunkAt(docs, q))
          PROVE  FALSE
      <4>1. /\ Source(docs[r[1]]) = Source(docs[q[1]])
            /\ r[2] - 1 = q[2] - 1
        BY <1>1, <3>1, <3>2, KeyParts, ChunkOfPlace
      <4>2. r[1] \in 1..Len(docs) /\ r[1] <= m
        BY <2>2, <4>1, PlaceType
      <4>3. r[1] = m /\ r[2] > q[2]
        BY <3>2, <4>2 DEF Before
      <4>4. r[2] \in Nat /\ q[2] \in Nat
        BY <3>1, <4>3, <2>2, <2>3, PlaceType, DocumentType
      <4> QED
        BY <4>1, <4>3, <4>4
    <3> QED
      BY <1>1, <3>1, <3>2 DEF Upserted
  <2>5. ASSUME NEW c \in rows', SourceOf(c) = s, c.chunk_index < Len(d.texts)
        PROVE  c \in Chunks(<<d>>)
    <3>1. c \in Chunk /\ c.chunk_index \in Nat
      BY <1>1, UpsertedType, ChunkIndexType, SameRetrieval DEF Store!TypeOK
    <3> DEFINE q == <<m, c.chunk_index + 1>>
    <3>2. q \in Positions(docs)
      BY <2>2, <2>3, <2>5, <3>1, DocumentType, PlaceExists
    <3>3. Key(ChunkAt(docs, q)) = Key(c)
      <4>1. /\ SourceOf(ChunkAt(docs, q)) = Source(docs[q[1]])
            /\ ChunkAt(docs, q).chunk_index = q[2] - 1
        BY <1>1, <3>2, ChunkOfPlace
      <4>2. Source(docs[q[1]]) = s /\ q[2] - 1 = c.chunk_index
        BY <2>2, <3>1
      <4> QED
        BY <2>5, <4>1, <4>2, KeyParts
    <3>4. PICK p \in Positions(docs) :
             /\ c = ChunkAt(docs, p)
             /\ \A r \in Positions(docs) : Before(p, r) => Key(ChunkAt(docs, r)) # Key(ChunkAt(docs, p))
      BY <1>1, <3>2, <3>3 DEF Upserted
    <3>5. p[1] \in 1..Len(docs) /\ ~Before(p, q) /\ Source(docs[p[1]]) = s
      BY <1>1, <2>5, <3>2, <3>3, <3>4, ChunkOfPlace, PlaceType
    <3>6. p[1] = m
      BY <2>2, <3>5 DEF Before
    <3> QED
      BY <1>1, <2>2, <3>4, <3>6, ChunkOfPlace
  <2>6. \A c \in rows' : c.chunk_index \in Nat
    BY <1>1, UpsertedType, ChunkIndexType, SameRetrieval DEF Store!TypeOK
  <2> QED
    BY <2>3, <2>4, <2>5, <2>6, DocumentType
<1>3. CASE ~ \E i \in 1..Len(docs) : Source(docs[i]) = s
  <2>1. d \in latest[s] /\ d \in Document /\ Source(d) = s
    BY <1>3, SameRetrieval DEF Store!IngestDocuments, Store!Remember, Store!TypeOK
  <2>2. ASSUME NEW p \in Positions(docs), NEW c, SourceOf(c) = s
        PROVE  Key(ChunkAt(docs, p)) # Key(c) /\ ChunkAt(docs, p) # c
    BY <1>1, <1>3, <2>2, PlaceType, ChunkOfPlace, KeyParts
  <2>3. \A c : SourceOf(c) = s => (c \in rows' <=> c \in rows)
    BY <1>1, <2>2 DEF Upserted
  <2>4. ASSUME NEW c \in Chunks(<<d>>)
        PROVE  c \in rows'
    <3>1. c \in rows
      BY <2>1, SameRetrieval DEF Store!OnlyTailsAreStale
    <3> QED
      BY <2>1, <2>3, <3>1, ChunksOfDocument
  <2> QED
    BY <2>1, <2>3, <2>4, SameRetrieval DEF Store!OnlyTailsAreStale
<1> QED
  BY <1>2, <1>3

\* The promise of the abstract store: only the tails of documents that have become shorter
\* are stale.  (upsert_chunks)
THEOREM StaleTails == Store!Spec => []Store!OnlyTailsAreStale
<1> DEFINE Inv == Store!TypeOK /\ Store!OnlyTailsAreStale
<1>1. Store!Init => Inv
  BY DEF Store!Init, Store!TypeOK, Store!OnlyTailsAreStale
<1>2. Inv /\ [Store!Next]_(Store!vars) => Inv'
  <2> SUFFICES ASSUME Inv, [Store!Next]_(Store!vars)
               PROVE  Inv'
    OBVIOUS
  <2>1. CASE Store!Next
    BY <2>1, StoreTypeStep, OnlyTailsStep DEF Store!Next
  <2>2. CASE UNCHANGED Store!vars
    BY <2>2 DEF Store!vars, Store!TypeOK, Store!OnlyTailsAreStale
  <2> QED
    BY <2>1, <2>2
<1> QED
  BY <1>1, <1>2, PTL DEF Store!Spec

-----------------------------------------------------------------------------
(* Where a session is in its feed *)

LEMMA FirstPlace ==
  ASSUME NEW docs \in Seq(Document), docs # << >>
  PROVE  /\ <<1, 1>> \in Positions(docs)
         /\ \A p \in Positions(docs) : ~Before(p, <<1, 1>>)
<1>1. 1 \in 1..Len(docs) /\ docs[1] \in Document
  OBVIOUS
<1>2. <<1, 1>> \in Positions(docs)
  BY <1>1, DocumentType, PlaceExists
<1>3. ASSUME NEW p \in Positions(docs)
      PROVE  ~Before(p, <<1, 1>>)
  <2>1. p[1] \in 1..Len(docs) /\ p[2] \in 1..Len(docs[p[1]].texts)
    BY PlaceType
  <2>2. Len(docs[p[1]].texts) \in Nat
    BY <2>1, DocumentType
  <2> QED
    BY <2>1, <2>2 DEF Before
<1> QED
  BY <1>2, <1>3

\* The place that follows one is the next in the order, and the last has none.
LEMMA NextPlace ==
  ASSUME NEW docs \in Seq(Document), NEW p \in Positions(docs)
  PROVE  /\ Following(docs, p) # << >> =>
              /\ Following(docs, p) \in Positions(docs)
              /\ \A q \in Positions(docs) :
                   Before(q, Following(docs, p)) <=> Before(q, p) \/ q = p
         /\ Following(docs, p) = << >> => \A q \in Positions(docs) : Before(q, p) \/ q = p
         /\ ~Before(p, p)
         /\ \A q \in Positions(docs) : Before(p, q) => ~Before(q, p)
<1>1. /\ p[1] \in 1..Len(docs) /\ p[2] \in 1..Len(docs[p[1]].texts)
      /\ p = <<p[1], p[2]>>
  BY PlaceType
<1>2. \A i \in 1..Len(docs) : Len(docs[i].texts) \in Nat /\ Len(docs[i].texts) >= 1
  BY DocumentType
<1>3. \A q \in Positions(docs) :
        /\ q[1] \in 1..Len(docs) /\ q[2] \in 1..Len(docs[q[1]].texts)
        /\ q = <<q[1], q[2]>>
        /\ q[1] \in Nat /\ q[2] \in Nat
  BY PlaceType, <1>2
<1>4. ~Before(p, p) /\ \A q \in Positions(docs) : Before(p, q) => ~Before(q, p)
  BY <1>3 DEF Before
<1>5. CASE p[2] < Len(docs[p[1]].texts)
  <2>1. Following(docs, p) = <<p[1], p[2] + 1>>
    BY <1>5 DEF Following
  <2>2. <<p[1], p[2] + 1>> \in Positions(docs)
    BY <1>1, <1>2, <1>5, PlaceExists
  <2>3. ASSUME NEW q \in Positions(docs)
        PROVE  Before(q, <<p[1], p[2] + 1>>) <=> Before(q, p) \/ q = p
    <3>1. q = p <=> q[1] = p[1] /\ q[2] = p[2]
      BY <1>1, <1>3
    <3>2. q[2] < p[2] + 1 <=> q[2] < p[2] \/ q[2] = p[2]
      BY <1>1, <1>3
    <3> QED
      BY <3>1, <3>2 DEF Before
  <2> QED
    BY <1>4, <2>1, <2>2, <2>3
<1>6. CASE p[2] = Len(docs[p[1]].texts) /\ p[1] < Len(docs)
  <2>1. Following(docs, p) = <<p[1] + 1, 1>>
    BY <1>1, <1>2, <1>6 DEF Following
  <2>2. <<p[1] + 1, 1>> \in Positions(docs)
    <3>1. p[1] + 1 \in 1..Len(docs)
      BY <1>1, <1>6
    <3>2. 1 \in 1..Len(docs[p[1] + 1].texts)
      BY <1>2, <3>1
    <3> QED
      BY <3>1, <3>2, PlaceExists
  <2>3. ASSUME NEW q \in Positions(docs)
        PROVE  Before(q, <<p[1] + 1, 1>>) <=> Before(q, p) \/ q = p
    <3>1. q[1] = p[1] => q[2] <= p[2]
      BY <1>3, <1>6
    <3> QED
      BY <1>1, <1>3, <3>1 DEF Before
  <2> QED
    BY <1>4, <2>1, <2>2, <2>3
<1>7. CASE p[2] = Len(docs[p[1]].texts) /\ p[1] = Len(docs)
  <2>1. Following(docs, p) = << >>
    BY <1>1, <1>2, <1>7 DEF Following
  <2>2. ASSUME NEW q \in Positions(docs)
        PROVE  Before(q, p) \/ q = p
    <3>1. q[1] = p[1] => q[2] <= p[2]
      BY <1>3, <1>7
    <3> QED
      BY <1>1, <1>3, <1>7, <3>1 DEF Before
  <2> QED
    BY <1>4, <2>1, <2>2
<1>8. p[2] \in Nat /\ p[1] \in Nat /\ Len(docs) \in Nat /\ Len(docs[p[1]].texts) \in Nat
  BY <1>1, <1>2, <1>3
<1> QED
  BY <1>1, <1>5, <1>6, <1>7, <1>8

-----------------------------------------------------------------------------
(* The sessions *)

LEMMA UpdateSession ==
  ASSUME TypeOK, NEW s \in Session, NEW w, Update(s, w)
  PROVE  /\ session'[s] = w
         /\ \A o \in Session : o # s => session'[o] = session[o]
  BY DEF Update, TypeOK

\* A session that moves alone: it has to fit the rows and to stay apart from the others.
LEMMA OneSession ==
  ASSUME StoreInv, UNCHANGED <<rows, latest>>, NEW s \in Session, NEW w, Update(s, w),
         w \in Work,
         Fits(w),
         \A o \in Others(s) : Apart(session[o], w) /\ Apart(w, session[o])
  PROVE  StoreInv'
<1>1. /\ session'[s] = w
      /\ \A o \in Session : o # s => session'[o] = session[o]
  BY UpdateSession DEF StoreInv
<1>2. TypeOK'
  <2>1. Store!TypeOK'
    BY DEF StoreInv, TypeOK, Store!TypeOK
  <2>2. session' \in [Session -> Work]
    BY DEF StoreInv, TypeOK, Update
  <2> QED
    BY <2>1, <2>2 DEF TypeOK, Work
<1>3. ASSUME NEW t \in Session
      PROVE  Fits(session[t])'
  <2>1. Fits(session'[t]) => Fits(session[t])'
    BY DEF Fits, Done
  <2> QED
    BY <1>1, <2>1 DEF StoreInv
<1>4. ASSUME NEW t \in Session, NEW o \in Session, o # t
      PROVE  Apart(session'[t], session'[o])
  BY <1>1, <1>4 DEF StoreInv, Others
<1> QED
  BY <1>2, <1>3, <1>4 DEF StoreInv, Others, Apart

\* Where a session that has done one more chunk is.
LEMMA Advanced ==
  ASSUME NEW w, w.docs \in Seq(Document), w.at \in Positions(w.docs),
         w \in Work,
         NEW next_pc \in {"inserting", "inserted"}
  PROVE  LET a == Advance(w, next_pc)
         IN /\ a \in Work
            /\ a.docs = w.docs /\ a.seen = w.seen
            /\ a.deleted = w.deleted /\ a.inserted = w.inserted
            /\ a.at \in Positions(w.docs)
            /\ \/ a.pc = w.pc /\ \A q \in Positions(w.docs) : Before(q, a.at) <=> Before(q, w.at) \/ q = w.at
               \/ a.pc = next_pc /\ a.at = <<1, 1>> /\ \A q \in Positions(w.docs) : Before(q, w.at) \/ q = w.at
<1>1. w.docs # << >>
  BY DEF Positions
<1>2. \A p \in Positions(w.docs) : p \in Nat \X Nat
  <2> TAKE p \in Positions(w.docs)
  <2>1. p[1] \in 1..Len(w.docs) /\ p[2] \in 1..Len(w.docs[p[1]].texts) /\ p = <<p[1], p[2]>>
    BY PlaceType
  <2>2. Len(w.docs[p[1]].texts) \in Nat
    BY <2>1, DocumentType
  <2> QED
    BY <2>1, <2>2
<1>3. CASE Following(w.docs, w.at) = << >>
  <2>1. Advance(w, next_pc) = [w EXCEPT !.pc = next_pc, !.at = <<1, 1>>]
    BY <1>3 DEF Advance
  <2>2. <<1, 1>> \in Positions(w.docs)
    BY <1>1, FirstPlace
  <2>3. \A q \in Positions(w.docs) : Before(q, w.at) \/ q = w.at
    BY <1>3, NextPlace
  <2> QED
    BY <1>2, <2>1, <2>2, <2>3 DEF Work
<1>4. CASE Following(w.docs, w.at) # << >>
  <2> DEFINE f == Following(w.docs, w.at)
  <2>1. Advance(w, next_pc) = [w EXCEPT !.at = f]
    BY <1>4 DEF Advance
  <2>2. /\ f \in Positions(w.docs)
        /\ \A q \in Positions(w.docs) : Before(q, f) <=> Before(q, w.at) \/ q = w.at
    BY <1>4, NextPlace
  <2> HIDE DEF f
  <2> QED
    BY <1>2, <2>1, <2>2 DEF Work
<1> QED
  BY <1>3, <1>4

LEMMA SessionFacts ==
  ASSUME StoreInv, NEW s \in Session
  PROVE  /\ session[s] \in Work /\ Fits(session[s])
         /\ session[s].docs \in Seq(Document)
         /\ session[s].deleted \subseteq rows /\ rows \subseteq Chunk
         /\ session[s].pc # "idle" => Current(s) \in Chunk
<1>1. session[s] \in Work /\ Fits(session[s])
  BY DEF StoreInv, TypeOK
<1>2. session[s].docs \in Seq(Document)
  <2>1. session[s].docs \in Feeds \cup {<< >>}
    BY <1>1 DEF Work
  <2>2. << >> \in Seq(Document)
    OBVIOUS
  <2>3. CASE session[s].docs \in Feeds
    BY <2>3, FeedsAssumption
  <2> QED
    BY <2>1, <2>2, <2>3
<1>3. rows \subseteq Chunk
  BY SameRetrieval DEF StoreInv, TypeOK, Store!TypeOK
<1>4. session[s].pc # "idle" => Current(s) \in Chunk
  BY <1>1, <1>2, ChunkOfPlace DEF Fits, Current
<1> QED
  BY <1>1, <1>2, <1>3, <1>4 DEF Fits

LEMMA IdleFits == Idle \in Work /\ Fits(Idle) /\ \A w : Apart(w, Idle) /\ Apart(Idle, w)
  BY DEF Idle, Work, Fits, Done, Apart

LEMMA IngestStep ==
  ASSUME StoreInv, NEW s \in Session, IngestDocuments(s)
  PROVE  StoreInv'
<1>1. PICK docs \in Feeds \ {<< >>} : Update(s, [Idle EXCEPT !.pc = "deleting", !.docs = docs])
  BY DEF IngestDocuments
<1> DEFINE w == [Idle EXCEPT !.pc = "deleting", !.docs = docs]
<1>2. <<1, 1>> \in Positions(docs)
  BY FirstPlace, FeedsAssumption
<1>3. w \in Work
  BY DEF Idle, Work
<1>4. Fits(w) /\ \A o \in Others(s) : Apart(session[o], w) /\ Apart(w, session[o])
  BY <1>2 DEF Idle, Fits, Done, Apart
<1> HIDE DEF w
<1> QED
  BY <1>1, <1>3, <1>4, OneSession DEF IngestDocuments, w

\* What both kinds of DELETE do: rows with the current key go that no other session has deleted.
LEMMA DeleteStep ==
  ASSUME StoreInv, NEW s \in Session, session[s].pc \in {"deleting", "waiting"},
         NEW gone \in SUBSET rows, gone \cap DeletedByOthers(s) = {},
         \A r \in gone : Key(r) = Key(Current(s)),
         Update(s, Advance([session[s] EXCEPT !.pc = "deleting", !.seen = {},
                                              !.deleted = @ \cup gone], "inserting")),
         UNCHANGED <<rows, latest>>
  PROVE  StoreInv'
<1> DEFINE v == [session[s] EXCEPT !.pc = "deleting", !.seen = {}, !.deleted = @ \cup gone]
           w == Advance(v, "inserting")
<1>1. /\ session[s] \in Work /\ Fits(session[s]) /\ session[s].docs \in Seq(Document)
      /\ session[s].at \in Positions(session[s].docs)
      /\ rows \subseteq Chunk
  BY SessionFacts DEF Fits
<1>2. /\ v \in Work /\ v.docs = session[s].docs /\ v.at = session[s].at /\ v.pc = "deleting"
      /\ v.seen = {} /\ v.inserted = session[s].inserted
      /\ v.deleted = session[s].deleted \cup gone
  BY <1>1 DEF Work
<1>3. session[s].inserted = {}
  BY <1>1 DEF Fits, Done
<1> HIDE DEF v
<1>4. /\ w \in Work /\ w.docs = session[s].docs /\ w.seen = {} /\ w.inserted = {}
      /\ w.deleted = session[s].deleted \cup gone
      /\ w.at \in Positions(w.docs)
      /\ w.pc = "deleting" \/ (w.pc = "inserting" /\ w.at = <<1, 1>>)
  BY <1>1, <1>2, <1>3, Advanced
<1> HIDE DEF w
<1>5. Done(w) = {}
  <2>1. w.docs # << >>
    BY <1>4 DEF Positions
  <2> QED
    BY <1>1, <1>4, <2>1, FirstPlace DEF Done
<1>6. Fits(w)
  <2>1. \A r \in w.deleted : \E p \in Positions(w.docs) : Key(r) = Key(ChunkAt(w.docs, p))
    BY <1>1, <1>4 DEF Fits, Current
  <2> QED
    BY <1>1, <1>4, <1>5, <2>1 DEF Fits
<1>7. ASSUME NEW o \in Others(s)
      PROVE  Apart(session[o], w) /\ Apart(w, session[o])
  <2>1. Apart(session[o], session[s]) /\ Apart(session[s], session[o]) /\ Fits(session[o])
    BY <1>7 DEF StoreInv, Others
  <2>2. \A r \in gone : r \notin session[o].deleted
    BY <1>7 DEF DeletedByOthers
  <2>3. \A c \in session[o].inserted, r \in gone : Key(c) # Key(r)
    BY <2>1, <2>2 DEF Fits
  <2> QED
    BY <1>3, <1>4, <2>1, <2>2, <2>3 DEF Apart
<1> QED
  BY <1>4, <1>6, <1>7, OneSession DEF v, w

LEMMA DeleteChunkStep ==
  ASSUME StoreInv, NEW s \in Session, DeleteChunk(s)
  PROVE  StoreInv'
<1>1. session[s] \in Work /\ session[s].seen = {} /\ session[s].pc = "deleting"
  BY SessionFacts DEF DeleteChunk, Fits
<1>2. [session[s] EXCEPT !.deleted = @ \cup Found(s)]
        = [session[s] EXCEPT !.pc = "deleting", !.seen = {}, !.deleted = @ \cup Found(s)]
  BY <1>1 DEF Work
<1>3. Found(s) \in SUBSET rows /\ \A r \in Found(s) : Key(r) = Key(Current(s))
  BY DEF Found
<1> QED
  BY <1>1, <1>2, <1>3, DeleteStep DEF DeleteChunk

LEMMA DeleteResumesStep ==
  ASSUME StoreInv, NEW s \in Session, DeleteResumes(s)
  PROVE  StoreInv'
<1>1. session[s] \in Work /\ Fits(session[s])
  BY SessionFacts
<1> DEFINE gone == session[s].seen
<1>2. /\ gone \in SUBSET rows /\ gone \cap DeletedByOthers(s) = {}
      /\ \A r \in gone : Key(r) = Key(Current(s))
  BY <1>1 DEF Fits, DeleteResumes, Current
<1>3. /\ session[s].pc = "waiting"
      /\ Update(s, Advance([session[s] EXCEPT !.pc = "deleting", !.seen = {},
                                              !.deleted = @ \cup gone], "inserting"))
      /\ UNCHANGED <<rows, latest>>
  BY DEF DeleteResumes
<1> HIDE DEF gone
<1> QED
  BY <1>2, <1>3, DeleteStep

LEMMA DeleteWaitsStep ==
  ASSUME StoreInv, NEW s \in Session, DeleteWaits(s)
  PROVE  StoreInv'
<1> DEFINE w == [session[s] EXCEPT !.pc = "waiting", !.seen = Found(s)]
<1>1. session[s] \in Work /\ Fits(session[s]) /\ rows \subseteq Chunk
  BY SessionFacts
<1>2. /\ w \in Work /\ w.pc = "waiting" /\ w.docs = session[s].docs /\ w.at = session[s].at
      /\ w.seen = Found(s) /\ w.deleted = session[s].deleted /\ w.inserted = session[s].inserted
      /\ Done(w) = Done(session[s])
  BY <1>1 DEF Work, Found, DeleteWaits, Done
<1> HIDE DEF w
<1>3. Fits(w)
  BY <1>1, <1>2 DEF Fits, Found, Current, DeleteWaits
<1>4. \A o \in Others(s) : Apart(session[o], w) /\ Apart(w, session[o])
  BY <1>2 DEF StoreInv, Apart, Others
<1> QED
  BY <1>2, <1>3, <1>4, OneSession DEF DeleteWaits, w

LEMMA InsertChunkStep ==
  ASSUME StoreInv, NEW s \in Session, InsertChunk(s)
  PROVE  StoreInv'
<1> DEFINE c == Current(s)
           v == [session[s] EXCEPT !.inserted = @ \cup {c}]
           w == Advance(v, "inserted")
           docs == session[s].docs
           at == session[s].at
<1>1. /\ session[s] \in Work /\ Fits(session[s]) /\ docs \in Seq(Document)
      /\ at \in Positions(docs) /\ session[s].pc = "inserting" /\ session[s].seen = {}
      /\ rows \subseteq Chunk /\ c \in Chunk
  BY SessionFacts DEF Fits, InsertChunk
<1>2. /\ v \in Work /\ v.docs = docs /\ v.at = at /\ v.pc = "inserting"
      /\ v.seen = {} /\ v.deleted = session[s].deleted
      /\ v.inserted = session[s].inserted \cup {c}
  BY <1>1 DEF Work
<1> HIDE DEF v
<1>3. /\ w \in Work /\ w.docs = docs /\ w.seen = {} /\ w.inserted = session[s].inserted \cup {c}
      /\ w.deleted = session[s].deleted
      /\ w.at \in Positions(docs)
      /\ \/ w.pc = "inserting" /\ \A q \in Positions(docs) : Before(q, w.at) <=> Before(q, at) \/ q = at
         \/ w.pc = "inserted" /\ \A q \in Positions(docs) : Before(q, at) \/ q = at
  <2>1. v.docs \in Seq(Document) /\ v.at \in Positions(v.docs)
    BY <1>1, <1>2
  <2> HIDE DEF docs, at, c
  <2> QED
    BY <1>2, <2>1, Advanced
<1> HIDE DEF w
<1>4. Done(session[s]) = {p \in Positions(docs) : Before(p, at)}
  BY <1>1 DEF Done
<1>5. Done(w) = Done(session[s]) \cup {at}
  BY <1>1, <1>3, <1>4 DEF Done
<1>6. session[s].inserted = {ChunkAt(docs, p) : p \in Done(session[s])} /\ c = ChunkAt(docs, at)
  BY <1>1 DEF Fits, Current
<1>7. /\ \A p \in Done(session[s]) : Key(ChunkAt(docs, p)) # Key(c)
      /\ \A r \in rows : Key(r) = Key(c) => r \in session[s].deleted
  BY <1>6 DEF InsertChunk, Taken
<1>8. Fits(w)
  <2>1. w.inserted = {ChunkAt(docs, p) : p \in Done(w)}
    BY <1>3, <1>5, <1>6
  <2>2. ASSUME NEW p \in Done(w), NEW q \in Done(w), Before(p, q)
        PROVE  Key(ChunkAt(docs, p)) # Key(ChunkAt(docs, q))
    <3>1. CASE q = at
      <4>1. p # at
        BY <1>1, <2>2, <3>1, NextPlace
      <4> QED
        BY <1>5, <1>6, <1>7, <3>1, <4>1
    <3>2. CASE q # at
      <4>1. q \in Done(session[s])
        BY <1>5, <3>2
      <4>2. p # at
        BY <1>1, <1>4, <2>2, <4>1, NextPlace
      <4>3. p \in Done(session[s])
        BY <1>5, <4>2
      <4> QED
        BY <1>1, <2>2, <4>1, <4>3 DEF Fits
    <3> QED
      BY <3>1, <3>2
  <2>3. \A d \in w.inserted, r \in rows : Key(d) = Key(r) => r \in w.deleted
    BY <1>1, <1>3, <1>7 DEF Fits
  <2>4. /\ w.deleted \subseteq rows
        /\ \A r \in w.deleted : \E p \in Positions(w.docs) : Key(r) = Key(ChunkAt(w.docs, p))
    BY <1>1, <1>3 DEF Fits
  <2> QED
    BY <1>3, <2>1, <2>2, <2>3, <2>4 DEF Fits
<1>9. ASSUME NEW o \in Others(s)
      PROVE  Apart(session[o], w) /\ Apart(w, session[o])
  <2>1. Apart(session[o], session[s]) /\ Apart(session[s], session[o])
    BY <1>9 DEF StoreInv, Others
  <2>2. \A d \in session[o].deleted \cup session[o].inserted : Key(d) # Key(c)
    BY <1>9 DEF InsertChunk, Held, DeletedByOthers, InsertedByOthers
  <2> QED
    BY <1>3, <2>1, <2>2 DEF Apart
<1> QED
  BY <1>3, <1>8, <1>9, OneSession DEF InsertChunk, v, w

\* A session that ends without a commit leaves no trace.
LEMMA RollbackStep ==
  ASSUME StoreInv, NEW s \in Session, Update(s, Idle), UNCHANGED <<rows, latest>>
  PROVE  StoreInv'
  BY IdleFits, OneSession

\* A commit is one ingest of the abstract store: what the session deleted are the rows whose
\* keys its feed has, what it inserted are the feed's chunks, each key once.
LEMMA CommitImplements ==
  ASSUME StoreInv, NEW s \in Session, Commit(s)
  PROVE  session[s].docs \in Feeds /\ Store!IngestDocuments(session[s].docs)
<1> DEFINE docs == session[s].docs
<1>1. /\ session[s] \in Work /\ Fits(session[s]) /\ docs \in Seq(Document)
      /\ session[s].pc = "inserted" /\ session[s].at \in Positions(docs)
  BY SessionFacts DEF Commit, Fits
<1>2. docs \in Feeds
  <2>1. docs # << >>
    BY <1>1 DEF Positions
  <2> QED
    BY <1>1, <2>1 DEF Work
<1>3. Done(session[s]) = Positions(docs)
  BY <1>1 DEF Done
<1>4. session[s].inserted =
        {ChunkAt(docs, p) : p \in {q \in Positions(docs) :
           \A r \in Positions(docs) : Before(q, r) => Key(ChunkAt(docs, r)) # Key(ChunkAt(docs, q))}}
  BY <1>1, <1>3 DEF Fits
<1>5. rows \ session[s].deleted =
        {c \in rows : \A p \in Positions(docs) : Key(ChunkAt(docs, p)) # Key(c)}
  <2>1. \A r \in session[s].deleted : \E p \in Positions(docs) : Key(r) = Key(ChunkAt(docs, p))
    BY <1>1 DEF Fits
  <2>2. ASSUME NEW r \in rows, NEW p \in Positions(docs), Key(ChunkAt(docs, p)) = Key(r)
        PROVE  r \in session[s].deleted
    BY <1>1, <1>3, <2>2 DEF Fits
  <2> QED
    BY <2>1, <2>2
<1>6. rows' = Upserted(rows, docs)
  BY <1>4, <1>5 DEF Commit, Upserted
<1> QED
  BY <1>2, <1>6, SameRetrieval DEF Commit, Store!IngestDocuments

LEMMA CommitStep ==
  ASSUME StoreInv, NEW s \in Session, Commit(s)
  PROVE  StoreInv'
<1>0. TypeOK
  BY DEF StoreInv
<1> DEFINE now(o) == [session[o] EXCEPT !.seen = @ \ session[s].deleted]
<1>1. /\ session'[s] = Idle
      /\ \A o \in Session : o # s => session'[o] = now(o)
  BY DEF Commit
<1>2. ASSUME NEW o \in Session
      PROVE  /\ now(o) \in Work /\ Done(now(o)) = Done(session[o])
             /\ now(o).pc = session[o].pc /\ now(o).docs = session[o].docs
             /\ now(o).at = session[o].at /\ now(o).seen = session[o].seen \ session[s].deleted
             /\ now(o).deleted = session[o].deleted /\ now(o).inserted = session[o].inserted
  BY <1>0 DEF TypeOK, Work, Done
<1>3. rows' = (rows \ session[s].deleted) \cup session[s].inserted
  BY DEF Commit
<1>4. TypeOK'
  <2>1. Store!TypeOK'
    BY <1>0, CommitImplements, StoreTypeStep DEF TypeOK
  <2>2. session' \in [Session -> Work]
    BY <1>2, IdleFits DEF Commit
  <2> QED
    BY <2>1, <2>2 DEF TypeOK, Work
<1>5. ASSUME NEW o \in Session
      PROVE  Fits(session[o])'
  <2>1. CASE o = s
    BY <1>1, <2>1 DEF Fits, Done, Idle
  <2>2. CASE o # s
    <3>1. /\ Fits(session[o])
          /\ Apart(session[o], session[s]) /\ Apart(session[s], session[o])
      BY <2>2 DEF StoreInv, Others
    <3>2. session[o].deleted \subseteq rows'
      BY <1>3, <3>1 DEF Fits, Apart
    <3>3. \A c \in session[o].inserted, r \in rows' : Key(c) = Key(r) => r \in session[o].deleted
      BY <1>3, <3>1 DEF Fits, Apart
    <3>4. now(o).seen \subseteq rows'
      BY <1>3, <1>2, <3>1 DEF Fits
    <3> HIDE DEF now
    <3>5. /\ now(o).pc # "idle" => now(o).at \in Positions(now(o).docs)
          /\ now(o).pc # "waiting" => now(o).seen = {}
          /\ \A r \in now(o).seen : Key(r) = Key(ChunkAt(now(o).docs, now(o).at))
          /\ now(o).inserted = {ChunkAt(now(o).docs, p) : p \in Done(now(o))}
          /\ \A p, q \in Done(now(o)) :
               Before(p, q) => Key(ChunkAt(now(o).docs, p)) # Key(ChunkAt(now(o).docs, q))
          /\ \A r \in now(o).deleted :
               \E p \in Positions(now(o).docs) : Key(r) = Key(ChunkAt(now(o).docs, p))
      BY <1>2, <3>1 DEF Fits
    <3>6. now(o).deleted \subseteq rows'
          /\ \A c \in now(o).inserted, r \in rows' : Key(c) = Key(r) => r \in now(o).deleted
      BY <1>2, <3>2, <3>3
    <3>7. session'[o] = now(o) /\ Done(session[o])' = Done(now(o))
      BY <1>1, <2>2 DEF Done
    <3> QED
      BY <3>4, <3>5, <3>6, <3>7 DEF Fits
  <2> QED
    BY <2>1, <2>2
<1>6. ASSUME NEW t \in Session, NEW o \in Session, o # t
      PROVE  Apart(session'[t], session'[o])
  <2>1. CASE t = s \/ o = s
    BY <1>1, <2>1, IdleFits
  <2>2. CASE t # s /\ o # s
    <3>1. Apart(session[t], session[o])
      BY <1>6 DEF StoreInv, Others
    <3> QED
      BY <1>1, <1>2, <2>2, <3>1 DEF Apart
  <2> QED
    BY <2>1, <2>2
<1> QED
  BY <1>4, <1>5, <1>6 DEF StoreInv, Others, Apart

LEMMA InitStoreInv == Init => StoreInv
<1> SUFFICES ASSUME Init
             PROVE  StoreInv
  OBVIOUS
<1>1. \A s \in Session : session[s] = Idle
  BY DEF Init
<1>2. TypeOK
  BY IdleFits DEF Init, TypeOK, Store!Init, Store!TypeOK
<1> QED
  BY <1>1, <1>2, IdleFits DEF StoreInv, Others

LEMMA NextStoreInv == StoreInv /\ [Next]_vars => StoreInv'
<1> SUFFICES ASSUME StoreInv, [Next]_vars
             PROVE  StoreInv'
  OBVIOUS
<1>1. ASSUME NEW s \in Session, IngestDocuments(s)
      PROVE  StoreInv'
  BY <1>1, IngestStep
<1>2. ASSUME NEW s \in Session, DeleteChunk(s)
      PROVE  StoreInv'
  BY <1>2, DeleteChunkStep
<1>3. ASSUME NEW s \in Session, DeleteWaits(s)
      PROVE  StoreInv'
  BY <1>3, DeleteWaitsStep
<1>4. ASSUME NEW s \in Session, DeleteResumes(s)
      PROVE  StoreInv'
  BY <1>4, DeleteResumesStep
<1>5. ASSUME NEW s \in Session, InsertChunk(s)
      PROVE  StoreInv'
  BY <1>5, InsertChunkStep
<1>6. ASSUME NEW s \in Session, InsertFails(s)
      PROVE  StoreInv'
  BY <1>6, RollbackStep DEF InsertFails
<1>7. ASSUME NEW s \in Session, Commit(s)
      PROVE  StoreInv'
  BY <1>7, CommitStep
<1>8. ASSUME NEW s \in Session, Killed(s)
      PROVE  StoreInv'
  BY <1>8, RollbackStep DEF Killed
<1>9. CASE UNCHANGED vars
  <2>1. TypeOK'
    BY <1>9 DEF vars, StoreInv, TypeOK, Store!TypeOK
  <2>2. \A s \in Session : Fits(session[s])'
    BY <1>9 DEF vars, StoreInv, Fits, Done
  <2>3. \A s \in Session : \A o \in Others(s) : Apart(session[s], session[o])'
    BY <1>9 DEF vars, StoreInv, Apart, Others
  <2> QED
    BY <2>1, <2>2, <2>3 DEF StoreInv
<1> QED
  BY <1>1, <1>2, <1>3, <1>4, <1>5, <1>6, <1>7, <1>8, <1>9 DEF Next

\* Concurrent scripts keep out of each other's way.  (upsert_chunks on PostgreSQL)
THEOREM StoreSafe == Spec => []StoreInv
<1> QED
  BY InitStoreInv, NextStoreInv, PTL DEF Spec

\* Every script takes effect as a whole at its commit or not at all, as one ingest of the
\* abstract store.  (upsert_chunks on PostgreSQL against the in-memory store)
THEOREM StoreRefinement == Spec => ImplementsVectorStore
<1>1. Init => Store!Init
  BY DEF Init
<1>2. StoreInv /\ [Next]_vars => [Store!Next]_(Store!vars)
  <2> SUFFICES ASSUME StoreInv, [Next]_vars
               PROVE  [Store!Next]_(Store!vars)
    OBVIOUS
  <2>1. ASSUME NEW s \in Session, Commit(s)
        PROVE  Store!Next
    BY <2>1, CommitImplements DEF Store!Next
  <2>2. ASSUME UNCHANGED <<rows, latest>>
        PROVE  UNCHANGED Store!vars
    BY <2>2 DEF Store!vars
  <2>3. CASE UNCHANGED vars
    BY <2>2, <2>3 DEF vars
  <2> QED
    BY <2>1, <2>2, <2>3 DEF Next, IngestDocuments, DeleteChunk, DeleteWaits, DeleteResumes,
       InsertChunk, InsertFails, Killed
<1> QED
  BY <1>1, <1>2, StoreSafe, PTL DEF Spec, Store!Spec, ImplementsVectorStore

\* Whatever scripts are run, in whatever order their steps come, only the tails of documents
\* that have become shorter are stale.  (upsert_chunks on PostgreSQL)
THEOREM RowsStaleTails == Spec => []OnlyTailsAreStale
  BY StaleTails, StoreRefinement DEF OnlyTailsAreStale, ImplementsVectorStore

-----------------------------------------------------------------------------
(* What the rows answer *)

\* Queries are asked of finitely many chunks.
RowsInv == rows \subseteq Chunk /\ IsFiniteSet(rows)

\* A feed has finitely many chunks.
LEMMA FiniteFeed ==
  ASSUME NEW docs \in Seq(Document)
  PROVE  IsFiniteSet({ChunkAt(docs, p) : p \in Positions(docs)})
<1> DEFINE places(i) == {<<i, n>> : n \in 1..Len(docs[i].texts)}
           D == 1..Len(docs)
           all == {places(i) : i \in D}
<1>1. ASSUME NEW i \in D
      PROVE  IsFiniteSet(places(i))
  <2> DEFINE f == [n \in 1..Len(docs[i].texts) |-> <<i, n>>]
  <2>1. IsFiniteSet(1..Len(docs[i].texts))
    <3> DEFINE m == Len(docs[i].texts)
    <3>1. docs[i] \in Document
      OBVIOUS
    <3>2. m \in Int
      BY <3>1, DocumentType
    <3> HIDE DEF m
    <3>3. IsFiniteSet(1..m)
      BY <3>2, FS_Interval
    <3> QED
      BY <3>3 DEF m
  <2>2. f \in Surjection(1..Len(docs[i].texts), places(i))
    BY DEF Surjection
  <2> HIDE DEF f
  <2> QED
    BY <2>1, <2>2, FS_Surjection
<1>2. IsFiniteSet(all)
  <2> DEFINE f == [i \in D |-> places(i)]
  <2>1. IsFiniteSet(D)
    BY FS_Interval
  <2>2. f \in Surjection(D, all)
    BY DEF Surjection
  <2> HIDE DEF f, D, all
  <2> QED
    BY <2>1, <2>2, FS_Surjection
<1>3. IsFiniteSet(UNION all)
  <2>1. \A T \in all : IsFiniteSet(T)
    BY <1>1
  <2> HIDE DEF all
  <2> QED
    BY <1>2, <2>1, FS_UNION
<1>4. Positions(docs) = UNION all
  BY DEF Positions
<1> DEFINE g == [p \in Positions(docs) |-> ChunkAt(docs, p)]
           chunks == {ChunkAt(docs, p) : p \in Positions(docs)}
<1>5. g \in Surjection(Positions(docs), chunks)
  BY DEF Surjection
<1> HIDE DEF g, chunks, all
<1>6. IsFiniteSet(chunks)
  BY <1>3, <1>4, <1>5, FS_Surjection
<1> QED
  BY <1>6 DEF chunks

\* Only a commit changes the rows, and it adds what a feed holds.
LEMMA RowsStep ==
  ASSUME StoreInv, RowsInv, [Next]_vars
  PROVE  RowsInv'
<1>1. rows' \subseteq Chunk
  <2>1. StoreInv'
    BY NextStoreInv
  <2> QED
    BY <2>1, SameRetrieval DEF StoreInv, TypeOK, Store!TypeOK
<1>2. CASE rows' = rows
  BY <1>1, <1>2 DEF RowsInv
<1>3. ASSUME NEW s \in Session, Commit(s)
      PROVE  IsFiniteSet(rows')
  <2> DEFINE w == session[s]
  <2>1. w.docs \in Seq(Document)
    <3>1. w.docs \in Feeds \cup {<< >>}
      BY DEF StoreInv, TypeOK, Work
    <3>2. << >> \in Seq(Document)
      OBVIOUS
    <3> HIDE DEF w
    <3> QED
      BY <3>1, <3>2, FeedsAssumption
  <2>2. Fits(w) /\ w.pc = "inserted"
    BY <1>3 DEF StoreInv, Commit
  <2>3. w.inserted = {ChunkAt(w.docs, p) : p \in Positions(w.docs)}
    BY <2>2 DEF Fits, Done
  <2>4. IsFiniteSet(w.inserted)
    BY <2>1, <2>3, FiniteFeed
  <2>5. IsFiniteSet(rows \ w.deleted)
    BY FS_Difference DEF RowsInv
  <2>6. rows' = (rows \ w.deleted) \cup w.inserted
    BY <1>3 DEF Commit
  <2> QED
    BY <2>4, <2>5, <2>6, FS_Union
<1>4. \/ rows' = rows
      \/ \E s \in Session : Commit(s)
  BY DEF Next, vars, IngestDocuments, DeleteChunk, DeleteWaits, DeleteResumes, InsertChunk,
         InsertFails, Killed
<1> QED
  BY <1>1, <1>2, <1>3, <1>4 DEF RowsInv

\* The rows are finitely many chunks of the feeds' documents, for any documents.
THEOREM RowsAreFinite == Spec => []RowsInv
<1>1. Init => RowsInv
  BY FS_EmptySet DEF Init, Store!Init, RowsInv
<1> QED
  BY <1>1, RowsStep, StoreSafe, PTL DEF Spec

\* What search_docs makes of any answer to any query, for any tenant and any filters.
LEMMA AnswerIsComplete ==
  ASSUME RowsInv, NEW tenant, NEW query \in DOMAIN Similarity, NEW filters,
         NEW answer \in Answers(rows, query, Filter(tenant, "support_doc", SearchTopK))
  PROVE  LET results == DocumentSearch(query, answer, filters)
             candidates == {c \in rows : c.tenant_id = tenant /\ c.source_type = "support_doc"}
             Sim(c) == Similarity[query][c.content]
         IN /\ Range(results) \subseteq candidates
            /\ \A i, j \in DOMAIN results : i < j =>
                 /\ results[i].source_id # results[j].source_id
                 /\ Score(query, results[i]) >= Score(query, results[j])
            /\ \A c \in candidates : MatchesMetadata(c, filters) =>
                 \/ \E r \in Range(results) :
                      r.source_id = c.source_id /\ Score(query, r) >= Score(query, c)
                 \/ Cardinality({d \in candidates \ {c} : Sim(d) >= Sim(c)}) >= SearchTopK
<1> DEFINE filter == Filter(tenant, "support_doc", SearchTopK)
           candidates == {c \in rows : c.tenant_id = tenant /\ c.source_type = "support_doc"}
           Sim(c) == Similarity[query][c.content]
           results == DocumentSearch(query, answer, filters)
           n == Len(answer)
           hits == Hits(answer, filters)
<1>1. filter.top_k \in Nat /\ filter.top_k = SearchTopK
  BY TopKAssumption, FilterFields
<1>2. {c \in rows : Matches(c, filter)} = candidates
  BY MatchesFilter
<1> HIDE DEF filter
<1>3. /\ n \in Nat
      /\ answer \in [1..n -> candidates]
      /\ DOMAIN answer = 1..n
      /\ IsInjective(answer)
      /\ \A c \in rows : Matches(c, filter) =>
           \/ \E i \in 1..n : answer[i] = c
           \/ /\ n = filter.top_k
              /\ \A i \in 1..n : Sim(answer[i]) >= Sim(c)
  BY <1>1, <1>2, AnswerFacts DEF filter, RowsInv
<1>4. candidates \subseteq Chunk /\ answer \in [1..n -> Chunk]
  BY <1>3 DEF RowsInv
<1>5. /\ Range(results) = Results(query, answer, filters)
      /\ \A i, j \in DOMAIN results : i < j =>
           /\ results[i].source_id # results[j].source_id
           /\ Score(query, results[i]) >= Score(query, results[j])
  BY <1>3, <1>4, SearchResults
<1>6. hits \in SUBSET (1..n)
  BY <1>3 DEF Hits
<1> HIDE DEF results
<1>7. Range(results) \subseteq candidates
  BY <1>3, <1>5, <1>6 DEF Results, BestOf
<1>8. ASSUME NEW c \in candidates, MatchesMetadata(c, filters), NEW i \in 1..n, answer[i] = c
      PROVE  \E r \in Range(results) :
               r.source_id = c.source_id /\ Score(query, r) >= Score(query, c)
  <2>1. i \in hits
    BY <1>3, <1>8 DEF Hits
  <2>2. PICK b \in BestOf(query, answer, hits) :
               /\ answer[b].source_id = answer[i].source_id
               /\ Score(query, answer[b]) >= Score(query, answer[i])
    BY <1>3, <1>4, <1>6, <2>1, BestHit
  <2>3. answer[b] \in Range(results)
    BY <1>5 DEF Results
  <2> QED
    BY <1>8, <2>2, <2>3
<1>9. ASSUME NEW c \in candidates, ~\E i \in 1..n : answer[i] = c
      PROVE  Cardinality({d \in candidates \ {c} : Sim(d) >= Sim(c)}) >= SearchTopK
  <2> DEFINE better == {d \in candidates \ {c} : Sim(d) >= Sim(c)}
  <2>1. n = SearchTopK /\ \A i \in 1..n : Sim(answer[i]) >= Sim(c)
    BY <1>1, <1>2, <1>3, <1>9
  <2>2. answer \in [1..n -> better]
    BY <1>3, <1>9, <2>1
  <2>3. IsFiniteSet(better)
    BY FS_Subset DEF RowsInv
  <2> HIDE DEF better
  <2>4. answer \in Injection(1..n, better)
    BY <1>3, <2>2 DEF Injection
  <2>5. Cardinality(1..n) <= Cardinality(better)
    BY <2>3, <2>4, FS_Injection
  <2>6. Cardinality(1..n) = IF 1 > n THEN 0 ELSE n - 1 + 1
    BY <1>3, FS_Interval
  <2>7. Cardinality(better) \in Nat
    BY <2>3, FS_CardinalityType
  <2>8. Cardinality(better) >= SearchTopK
    BY <1>3, <2>1, <2>5, <2>6, <2>7
  <2> QED
    BY <2>8 DEF better
<1> QED
  BY <1>5, <1>7, <1>8, <1>9 DEF results

\* For any documents, feeds, scripts, similarities and limit: search_docs shows each document
\* of the tenant once, by its best matching chunk and in the order of its score, and leaves
\* out only what the limit cuts off.
THEOREM SearchIsComplete == Spec => []SearchFindsDocuments
<1>1. RowsInv => SearchFindsDocuments
  BY AnswerIsComplete DEF SearchFindsDocuments
<1> QED
  BY <1>1, RowsAreFinite, PTL

\* The handlers that find records by id return those of the tenant that asks, or an error.
LEMMA LookupStays ==
  ASSUME NEW tenant, NEW records, NEW result,
         result.shown \subseteq UNION Range(records)
  PROVE  \A x \in Lookup(tenant, records, result).shown : x.tenant_id = tenant
  BY DEF Lookup, Error

LEMMA GetRecordStays ==
  ASSUME NEW collection, NEW args
  PROVE  \A x \in GetRecord(collection, args).shown : x.tenant_id = args.tenant_id
<1> DEFINE found == FindRecord(collection, args.id)
           records == <<found>>
<1>1. UNION Range(records) = found
  BY DEF Range
<1>2. Output(found).shown = found
  BY DEF Output
<1> HIDE DEF found, records
<1>3. GetRecord(collection, args) = Lookup(args.tenant_id, records, Output(found))
  BY DEF GetRecord, found, records
<1>4. \A x \in Lookup(args.tenant_id, records, Output(found)).shown : x.tenant_id = args.tenant_id
  BY <1>1, <1>2, LookupStays
<1> QED
  BY <1>3, <1>4

LEMMA RefundStays ==
  ASSUME NEW args
  PROVE  \A x \in DraftRefundRequest(args).shown : x.tenant_id = args.tenant_id
<1> DEFINE customer == FindRecord(Customers, args.customer_id)
           ticket == FindRecord(Tickets, args.ticket_id)
           records == <<customer, ticket>>
<1>1. UNION Range(records) = customer \cup ticket
  BY DEF Range
<1>2. Preview(customer \cup ticket).shown = customer \cup ticket
  BY DEF Preview
<1>3. DraftRefundRequest(args) = Lookup(args.tenant_id, records, Preview(customer \cup ticket))
  BY DEF DraftRefundRequest
<1> HIDE DEF customer, ticket, records
<1>4. \A x \in Lookup(args.tenant_id, records, Preview(customer \cup ticket)).shown :
        x.tenant_id = args.tenant_id
  BY <1>1, <1>2, LookupStays
<1> QED
  BY <1>3, <1>4

\* So does search_docs.
LEMMA SearchStays ==
  ASSUME RowsInv, NEW args, args.query \in DOMAIN Similarity, NEW result \in SearchDocs(rows, args)
  PROVE  \A x \in result.shown : x.tenant_id = args.tenant_id
<1>1. PICK answer \in Answers(rows, args.query, Filter(args.tenant_id, "support_doc", SearchTopK)) :
        result = Output(Range(DocumentSearch(args.query, answer, args.optional_filters)))
  BY DEF SearchDocs
<1>2. Range(DocumentSearch(args.query, answer, args.optional_filters))
        \subseteq {c \in rows : c.tenant_id = args.tenant_id /\ c.source_type = "support_doc"}
  BY AnswerIsComplete
<1>3. result.shown = Range(DocumentSearch(args.query, answer, args.optional_filters))
  BY <1>1 DEF Output
<1> QED
  BY <1>2, <1>3

\* Every call that plan_tools makes is of a handler that stays in the tenant.
LEMMA PlannedCallsStay ==
  ASSUME NEW r \in Request, NEW call \in Range(PlanTools(r)), NEW result \in Execute(rows, call)
  PROVE  \A x \in result.shown : x.tenant_id = r.tenant_id
<1>1. /\ call.arguments.tenant_id = r.tenant_id
      /\ call.name \in {"get_ticket", "get_incident", "get_customer", "draft_refund_request"}
  BY DEF PlanTools, GetCall, Range
<1> DEFINE args == call.arguments
<1>2. \/ result = GetRecord(Tickets, args)
      \/ result = GetRecord(Incidents, args)
      \/ result = GetRecord(Customers, args)
      \/ result = DraftRefundRequest(args)
  BY <1>1 DEF Execute
<1> HIDE DEF args
<1>3. \A x \in result.shown : x.tenant_id = args.tenant_id
  BY <1>2, GetRecordStays, RefundStays
<1> QED
  BY <1>1, <1>3 DEF args

\* The context is the tenant's.
LEMMA GroundingStays ==
  ASSUME RowsInv, NEW r \in Request, NEW shown \in Grounding(rows, r)
  PROVE  \A x \in shown : x.tenant_id = r.tenant_id
<1> DEFINE filter == Filter(r.tenant_id, "support_doc", ContextTopK)
<1>1. PICK context \in Answers(rows, r.query, filter) :
        shown = {context[i] : i \in DOMAIN context \cap {1}}
  BY DEF Grounding, Retrieve
<1>2. filter.top_k \in Nat /\ filter.tenant_id = r.tenant_id
  BY TopKAssumption, FilterFields
<1>3. r.query \in DOMAIN Similarity
  BY RequestAssumption
<1> HIDE DEF filter
<1>4. /\ context \in [1..Len(context) -> {c \in rows : Matches(c, filter)}]
      /\ DOMAIN context = 1..Len(context)
  BY <1>2, <1>3, AnswerFacts DEF RowsInv
<1>5. \A i \in DOMAIN context : context[i].tenant_id = r.tenant_id
  BY <1>2, <1>4 DEF Matches
<1> QED
  BY <1>1, <1>5

\* For any documents, feeds, records and requests, and whatever the scripts are doing: what a
\* run's tools, its context and the client's own searches show is the client's tenant's.
THEOREM TenantsAreApart == Spec => []AnswersStayInTenant
<1>1. ASSUME RowsInv, NEW r \in Request,
             NEW shown \in AnswerShows(rows, r)
                  \cup {result.shown : result \in Execute(rows, SearchCall(r.tenant_id, r.query))}
      PROVE  \A x \in shown : x.tenant_id = r.tenant_id
  <2> DEFINE call == SearchCall(r.tenant_id, r.query)
  <2>1. ASSUME NEW result \in Execute(rows, call), shown = result.shown
        PROVE  \A x \in shown : x.tenant_id = r.tenant_id
    <3>1. /\ call.name = "search_docs"
          /\ call.arguments.tenant_id = r.tenant_id
          /\ call.arguments.query = r.query
      BY DEF SearchCall
    <3> HIDE DEF call
    <3>2. result \in SearchDocs(rows, call.arguments)
      BY <2>1, <3>1 DEF Execute
    <3>3. r.query \in DOMAIN Similarity
      BY RequestAssumption
    <3> DEFINE args == call.arguments
    <3>4. args.query \in DOMAIN Similarity /\ result \in SearchDocs(rows, args)
      BY <3>1, <3>2, <3>3
    <3> HIDE DEF args
    <3>5. \A x \in result.shown : x.tenant_id = args.tenant_id
      BY <1>1, <3>4, SearchStays
    <3> QED
      BY <2>1, <3>1, <3>5 DEF args
  <2>2. ASSUME shown \in Shown(rows, r)
        PROVE  \A x \in shown : x.tenant_id = r.tenant_id
    <3>1. PICK c \in Range(PlanTools(r)) : \E result \in Execute(rows, c) : shown = result.shown
      BY <2>2 DEF Shown
    <3>2. PICK result \in Execute(rows, c) : shown = result.shown
      BY <3>1
    <3> QED
      BY <3>2, PlannedCallsStay
  <2>3. \/ \E result \in Execute(rows, call) : shown = result.shown
        \/ shown \in Shown(rows, r)
        \/ shown \in Grounding(rows, r)
    BY DEF AnswerShows
  <2> QED
    BY <1>1, <2>1, <2>2, <2>3, GroundingStays
<1>2. RowsInv => AnswersStayInTenant
  BY <1>1 DEF AnswersStayInTenant
<1> QED
  BY <1>2, RowsAreFinite, PTL
=============================================================================
