--------------------------- MODULE PgVectorStore ---------------------------
(***************************************************************************)
(* PgVectorRetrievalStore.upsert_chunks (retrieval/store.py) as            *)
(* scripts/seed_data.py calls it: one session, one DELETE statement per    *)
(* chunk, all inserts in the flush at the end, one commit.  Several        *)
(* scripts may run against the same database.                              *)
(*                                                                         *)
(* PostgreSQL at READ COMMITTED: a statement sees what is committed when   *)
(* it starts and what its session did.  A DELETE that finds a row another  *)
(* open session has deleted waits for it, and then deletes the row if that *)
(* session was rolled back; what was inserted meanwhile, be it the same    *)
(* chunk again, it does not see.  An INSERT waits for any open session     *)
(* that has deleted or inserted its key, and fails when the key is there   *)
(* afterwards.                                                             *)
(***************************************************************************)
EXTENDS Retrieval

CONSTANTS
  Feeds,          \* the document lists that scripts may find in docs.json
  Session         \* the scripts that may run at once

ASSUME FeedsAssumption == Feeds \subseteq Seq(Document)

VARIABLES
  rows,           \* the committed rows of document_chunks
  latest,         \* history, as in VectorStore
  session         \* session[s]: what script s is doing

vars == <<rows, latest, session>>

Store == INSTANCE VectorStore WITH records <- rows

\* at: the place in docs of the chunk to delete or to insert.  seen: of the row that a waiting
\* DELETE has found, what is left.  deleted, inserted: what the session did.
Idle == [pc |-> "idle", docs |-> << >>, at |-> <<1, 1>>, seen |-> {}, deleted |-> {},
         inserted |-> {}]

Work ==
  [pc: {"idle", "deleting", "waiting", "inserting", "inserted"}, docs: Feeds \cup {<< >>},
   at: Nat \X Nat, seen: SUBSET Chunk, deleted: SUBSET Chunk, inserted: SUBSET Chunk]

TypeOK ==
  /\ Store!TypeOK
  /\ session \in [Session -> Work]

Init ==
  /\ Store!Init
  /\ session = [s \in Session |-> Idle]

-----------------------------------------------------------------------------
Current(s) == ChunkAt(session[s].docs, session[s].at)

Others(s) == Session \ {s}
DeletedByOthers(s) == UNION {session[o].deleted : o \in Others(s)}
InsertedByOthers(s) == UNION {session[o].inserted : o \in Others(s)}

\* The chunk after the one at p, << >> when that was the last.
Following(docs, p) ==
  IF p[2] < Len(docs[p[1]].texts) THEN <<p[1], p[2] + 1>>
  ELSE IF p[1] < Len(docs) THEN <<p[1] + 1, 1>> ELSE << >>

\* The session goes on to the next chunk, or from the loop's end to next_pc.
Advance(w, next_pc) ==
  LET p == Following(w.docs, w.at)
  IN IF p = << >> THEN [w EXCEPT !.pc = next_pc, !.at = <<1, 1>>] ELSE [w EXCEPT !.at = p]

Update(s, w) == session' = [session EXCEPT ![s] = w]

\* main: docs.json is read, chunked and embedded.  An empty list upserts nothing.
IngestDocuments(s) ==
  /\ session[s].pc = "idle"
  /\ \E docs \in Feeds \ {<< >>} : Update(s, [Idle EXCEPT !.pc = "deleting", !.docs = docs])
  /\ UNCHANGED <<rows, latest>>

\* The rows a DELETE for the current chunk finds.
Found(s) == {r \in rows \ session[s].deleted : Key(r) = Key(Current(s))}

DeleteChunk(s) ==
  /\ session[s].pc = "deleting"
  /\ Found(s) \cap DeletedByOthers(s) = {}
  /\ Update(s, Advance([session[s] EXCEPT !.deleted = @ \cup Found(s)], "inserting"))
  /\ UNCHANGED <<rows, latest>>

DeleteWaits(s) ==
  /\ session[s].pc = "deleting"
  /\ Found(s) \cap DeletedByOthers(s) # {}
  /\ Update(s, [session[s] EXCEPT !.pc = "waiting", !.seen = Found(s)])
  /\ UNCHANGED <<rows, latest>>

DeleteResumes(s) ==
  /\ session[s].pc = "waiting"
  /\ session[s].seen \cap DeletedByOthers(s) = {}
  /\ Update(s, Advance([session[s] EXCEPT !.pc = "deleting", !.seen = {},
                                          !.deleted = @ \cup session[s].seen], "inserting"))
  /\ UNCHANGED <<rows, latest>>

\* Another open session has deleted or inserted the key.
Held(s) == \E c \in DeletedByOthers(s) \cup InsertedByOthers(s) : Key(c) = Key(Current(s))

\* The key is taken, by a committed row or by an earlier chunk of the same feed.
Taken(s) ==
  \E c \in (rows \ session[s].deleted) \cup session[s].inserted : Key(c) = Key(Current(s))

\* Mutant: there is no unique constraint.
InsertChunk_Duplicates(s) ==
  /\ session[s].pc = "inserting"
  /\ ~Held(s)
  /\ Update(s, Advance([session[s] EXCEPT !.inserted = @ \cup {Current(s)}], "inserted"))
  /\ UNCHANGED <<rows, latest>>

\* Mutant: the unique constraint looks at committed rows only.
InsertChunk_DoesNotWait(s) ==
  /\ session[s].pc = "inserting"
  /\ ~Taken(s)
  /\ Update(s, Advance([session[s] EXCEPT !.inserted = @ \cup {Current(s)}], "inserted"))
  /\ UNCHANGED <<rows, latest>>

\* session.flush, row by row.
InsertChunk(s) ==
  /\ session[s].pc = "inserting"
  /\ ~Held(s)
  /\ ~Taken(s)
  /\ Update(s, Advance([session[s] EXCEPT !.inserted = @ \cup {Current(s)}], "inserted"))
  /\ UNCHANGED <<rows, latest>>

\* Mutant: what the session did until then is committed.
InsertFails_KeepsRows(s) ==
  /\ session[s].pc = "inserting"
  /\ ~Held(s)
  /\ Taken(s)
  /\ rows' = (rows \ session[s].deleted) \cup session[s].inserted
  /\ Update(s, Idle)
  /\ UNCHANGED latest

\* IntegrityError: the script ends, its session is rolled back.
InsertFails(s) ==
  /\ session[s].pc = "inserting"
  /\ ~Held(s)
  /\ Taken(s)
  /\ Update(s, Idle)
  /\ UNCHANGED <<rows, latest>>

\* The rows that the session has deleted are gone, also for a DELETE that waits for them.
Commit(s) ==
  /\ session[s].pc = "inserted"
  /\ rows' = (rows \ session[s].deleted) \cup session[s].inserted
  /\ Store!Remember(session[s].docs)
  /\ session' = [o \in Session |->
                   IF o = s THEN Idle ELSE [session[o] EXCEPT !.seen = @ \ session[s].deleted]]

\* The script is killed, or PostgreSQL ends it to resolve a deadlock.
Killed(s) ==
  /\ session[s].pc # "idle"
  /\ Update(s, Idle)
  /\ UNCHANGED <<rows, latest>>

Next == \E s \in Session :
  \/ IngestDocuments(s)
  \/ DeleteChunk(s)
  \/ DeleteWaits(s)
  \/ DeleteResumes(s)
  \/ InsertChunk(s)
  \/ InsertFails(s)
  \/ Commit(s)
  \/ Killed(s)

Spec == Init /\ [][Next]_vars

-----------------------------------------------------------------------------
(* Properties *)

\* The places of a session's feed whose chunks it has inserted.
Done(w) ==
  CASE w.pc = "inserting" -> {p \in Positions(w.docs) : Before(p, w.at)}
    [] w.pc = "inserted" -> Positions(w.docs)
    [] OTHER -> {}

\* What a session has done is what its feed says up to where it is, and every committed row
\* with a key it has inserted is one it has deleted.
Fits(w) ==
  /\ w.pc # "idle" => w.at \in Positions(w.docs)
  /\ w.pc # "waiting" => w.seen = {}
  /\ w.seen \subseteq rows
  /\ \A r \in w.seen : Key(r) = Key(ChunkAt(w.docs, w.at))
  /\ w.inserted = {ChunkAt(w.docs, p) : p \in Done(w)}
  /\ \A p, q \in Done(w) :
       Before(p, q) => Key(ChunkAt(w.docs, p)) # Key(ChunkAt(w.docs, q))
  /\ w.deleted \subseteq rows
  /\ \A r \in w.deleted : \E p \in Positions(w.docs) : Key(r) = Key(ChunkAt(w.docs, p))
  /\ \A c \in w.inserted, r \in rows : Key(c) = Key(r) => r \in w.deleted

\* Two sessions have not deleted one row, and what one has inserted has no key the other holds.
Apart(v, w) ==
  /\ v.deleted \cap w.deleted = {}
  /\ \A c \in v.inserted, d \in w.deleted \cup w.inserted : Key(c) # Key(d)

\* Open sessions keep out of each other's way, whatever the order of their documents.  (The
\* waits of the database together with the two passes of upsert_chunks)
StoreInv ==
  /\ TypeOK
  /\ \A s \in Session : Fits(session[s])
  /\ \A s \in Session : \A o \in Others(s) : Apart(session[s], session[o])

\* Scripts that run at once, in whatever order their documents come, do not mix: each takes
\* effect as a whole when it commits, as if it had run alone, or not at all.  (upsert_chunks
\* deletes and inserts in two passes, seed_data.py commits once)
ImplementsVectorStore == Store!Spec

\* The promise of the abstract store on what can be stale, for the rows.  (upsert_chunks)
OnlyTailsAreStale == Store!OnlyTailsAreStale
=============================================================================
