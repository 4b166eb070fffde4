# Governed Agent Platform: TLA+ models, checks and proofs

This directory specifies the core of the platform in TLA+: the run state machine with its
approval checkpoint, the transactions and failures around it, the guarded tool executor, the
tools themselves, the model gateway, the offline evals, and retrieval from the chunker to the answer. Each module is translated from the Python source; `PROJECT.json` names
the source lines behind every definition. TLC checks the models on small instances, and TLAPS
proves the most important results for every value of the constants.

    tlc -workers 2 -config platform_faults.cfg MCPlatform     # a run
    tlapm PlatformInvariantProofs.tla                         # a proof module

## 1. The system

| Part | State | Operations | Talks to |
|---|---|---|---|
| API handlers (`apps/api/app/main.py`, `demo.py`) | a database session per request | `POST /runs`, `POST /approvals/{id}/approve` and `/reject`, reads, `POST /evals/run` | engine, repositories, runtime controller |
| Orchestrator engine (`packages/orchestrator`) | a `RunContext` per run: state, step, planned tools, records, response, approval | `start_run`, `resume_after_approval`, the step loop `_execute`, pause, cancel, fail | run and approval stores, gateway, retrieval, tools, trace recorder, runtime hooks |
| Runtime controller (`packages/runtime`) | two dictionaries: waiting contexts, approval to run | store, waiting, resumed, completed, getters | called by the engine, read by the API |
| Repositories (`packages/db`) | rows `runs`, `run_events`, `approval_requests` | create, update status, append event, create and resolve approval | PostgreSQL through SQLAlchemy |
| Tracing (`packages/tracing`) | none of its own | record an event, build a timeline | run repository |
| Tool executor (`packages/tools`) | one call: attempts, a thread pool per attempt | `execute`, `_run_with_timeout` | handlers on worker threads |
| Tools (`tools/registry.py`, `implementations/`) | seed records, read once | five handlers: look up, draft a refund, search documents | permissions, retrieval |
| Retrieval (`packages/retrieval`, `scripts/seed_data.py`) | the stored chunks: a list in memory, or rows of `document_chunks` | chunk, upsert, query, search | seed data, pgvector |
| Gateway (`packages/gateway`) | configuration, registered adapters | route, generate, fall back | provider adapters |
| Provider adapters (`gateway/providers`) | the mock's call count | generate | HTTP services |
| Evals (`packages/evals`, `scripts/run_evals.py`) | eval runs, cases and results, a session | run, score, compare with the latest run | tool executor, eval repository |
| Console, migrations, scripts | none | | |

A request handler is an `async` function whose body never awaits, and the server runs one
event loop (`Makefile`, `uvicorn` without workers): one handler runs at a time, from request to
response. What is hard about the platform is not parallelism between handlers but that **one
handler touches four kinds of state that fail apart**: the rows its session sees, the rows
that are committed, the `RunContext` objects, and the controller's dictionaries. A session is
rolled back when a handler raises; contexts and dictionaries are not. A restart keeps the
rows and loses everything else. An approval handler commits twice. Inside the tool executor
there is real parallelism: the calling thread and the workers of its thread pools. Evals can be
run by the server and by a script at once, and meet in the database; so can two requests to the
server, because a failed request's session is closed by a generator (`get_session`) whose end the
event loop awaits, and another handler may start in between. Scripts that feed documents meet in
the database too.

**Foreign keys.** The row of an approval request names a tool invocation, by a foreign key
(`approval_request.py:30-33`). The id it is given is a fresh uuid of the demo adapter
(`demo.py:160`), and nothing but tests ever inserts into `tool_invocations`. PostgreSQL, which the
platform ships with, therefore refuses every approval request and no run can wait for
approval; SQLite as the API's tests use it does not enforce foreign keys and lets it pass. That is a finding
(section 4). All that the engine, the controller and the API have for approvals is reachable
only on the second kind of database, so the model has a constant, `ForeignKeys`, for which of the two it is: the runs
`platform` and `platform_faults` are about databases that do not enforce them, `platform_postgres`
about one that does, and the theorems about both. Of what follows, the statements about waiting,
decided and resumed runs hold on PostgreSQL because there are none, and will have their content there as soon as
the row is inserted.

What makes each part correct:

* engine and API: nothing is answered between a tool's demand for approval and the operator's
  APPROVED; statuses, approvals and traces of the committed database agree, whatever fails;
  the events of a trace keep their numbers, which have no gap; every request is answered; every
  decided run is settled, while nothing fails.
* runtime controller: exactly the waiting runs can be resumed.
* tool executor: handlers of a call never overlap or outlive it; an attempt is repeated only
  for a reason; the result tells what the last attempt did.
* gateway: a second provider is asked only for a reason and by consent, never a third and never
  the same twice; risky work keeps to strong models; what is recorded, asked and reported agree.
* evals: what is committed is complete, whoever else runs and whatever fails; a report and its
  rows agree; no sessions wait for each other in a circle, and nobody waits for ever but in one
  state, which is named.
* reads: what a client is told after a request and what it reads later agree, and neither shows an
  outcome that the approval does not allow.
* retrieval stores: scripts that run at once take effect one after the other, each as a whole or
  not at all; of a changed document only a tail can be out of date.
* search and tools: a matching document is found by its best chunk unless the limit cuts it off;
  nobody is shown another tenant's data.
* chunker: chunks fit, nothing is lost, slicing ends.

`PROJECT.json` lists the hazards at their lines, with the properties that cover them.

## 2. Modules

| Module | What it is |
|---|---|
| `StateMachine` | the transition table and the step order (`state_machine.py`, `models.py`) |
| `Store` | a *view*: the value of the database as a session reads it, and one operator per repository method that maps a view to the next one |
| `RuntimeController` | the two dictionaries and one operator per hook |
| `Engine` | `tx` (the session's view), `ctx` (the contexts), `memory` (the controller). One action per iteration of the step loop, and one per way `resume_after_approval` can go. EXTENDS `Store`, INSTANCEs `RuntimeController` |
| `Platform` | EXTENDS `Engine` with `db` (committed rows), `handler` (which handler runs and where) and `used` (ids handed out). Composes engine steps with sessions, commits, rollbacks and crashes |
| `RunLifecycle` | the abstract specification: what a client that reads committed rows may see of a run |
| `PlatformProperties` | properties of `Platform`, and the refinement mapping to `RunLifecycle` |
| `PlatformInvariant` | the inductive invariants, of rows and of traces |
| `PlatformProofs`, `PlatformInvariantProofs` | theorems about `Platform` |
| `ToolExecutor`, `ToolExecutorProofs` | one guarded tool call with its threads |
| `Gateway`, `GatewayProofs` | `AIGateway.generate` with its policies and adapters |
| `Evals`, `EvalsProofs` | `OfflineEvalRunner.run` in several processes on one database |
| `Chunker`, `ChunkerProofs` | `_slice_text` |
| `Retrieval` | operators on sets of chunks: what a document is cut into, what an upsert leaves, what a query may answer, what `search_docs` makes of it |
| `VectorStore` | the abstract specification: a store that ingests a feed at once, which is also what the in-memory store does |
| `PgVectorStore` | scripts that feed PostgreSQL statement by statement, and the refinement mapping to `VectorStore` |
| `Tools` | the registered handlers and the demo adapters that plan calls and make answers. EXTENDS `Retrieval` |
| `RetrievalProperties` | what searches and answers keep true in every state of the store |
| `RetrievalProofs`, `PgVectorStoreProofs` | lemmas about places, chunks and keys; theorems about both stores |
| `MCPlatform`, `MCGateway`, `MCEvals`, `MCChunker`, `MCRetrieval` | constants for TLC |

### Engine and Platform

A handler runs through `pc`:

    POST /runs           idle -StartRun-> engine -EngineStep*-> returned -CommitRun-> idle
    POST .../approve     idle -ResolveApproval-> decided -CommitDecision-> lookup
                              -Resume-> engine -EngineStep*-> returned -CommitRun-> idle
                         (reject goes from lookup to returned; no context: NothingToResume)

An action of `Engine` is a whole iteration of the loop, with every event, status write and
hook it performs: `RequestApproval` is the EXECUTE_TOOLS iteration that finds a tool in need of
approval, from TOOL_CALLED to `on_waiting_for_approval`. An exception in such an iteration is
`CollaboratorFails` when a collaborator raises (`_fail_run` records it) and `HandlerAborts` when
a store call raises: the SQLAlchemy session is then unusable, `_fail_run`'s own writes raise
too, the exception leaves the handler and the session is closed without a commit.
So it goes with the row of an approval request where foreign keys are enforced
(`ApprovalRequestRaises`), whether or not anything else fails (`MayEscape`). A session that raises
is closed, so its events are never committed; those of a trace are numbered by `NextSequence` from the rows
the session reads. `InterruptedStates` is what `_transition_state` may have left in a context that the controller
still holds. Reads change nothing and are operators on a view: `GetRun` is `get_run`, with the text of
the context at hand after `POST /runs` and without it for `GET /runs/{id}`, and `ResumeResult` is
what a decision is answered with. A request that is answered 404 or 409 changes nothing, so `ResolveApproval` has the
opposite of those conditions as its guard.

Abstracted data: an event is its type, what it is about (a tool, an approval, a response)
and what it says (a status or decision); texts are classes of texts (`Response`); the plan is
any of the sequences in the constant `Plans`; a tool may fail or do what its risk allows
(`StatusesOf`). `last_error` is NULL or not.

Code no run can reach, and left out: the REQUEST_APPROVAL_IF_NEEDED branch of the loop
(`engine.py:169-173`; the loop enters that step only together with the pause),
`_derive_tool_records` (the adapter always returns records unless no tool was planned),
`record_resolution_event=True` (the API passes False), the final return of `execute`
(`executor.py:145-159`), and the expiry of approvals (nothing sets EXPIRED, and the API decides APPROVED or REJECTED only; the
type has the value, but no state of the model).

### RunLifecycle

A run shows up finished, failed, or waiting with one pending decision (`Finish`, `Pause`); the
operator decides once (`Decide`); the run then completes or fails if approved and is canceled
if rejected (`Settle`). The mapping reads `db` only: each commit is one step of
`RunLifecycle` and everything else stutters, so an intermediate status such as IN_PROGRESS never
becomes visible.

### ToolExecutor

`caller` is the point of `execute` and `_run_with_timeout` the calling thread is at, and
`worker[k]` the future of attempt `k`. `Begin` and `End` are the worker thread (library and
handler: external). The timeout may expire at any moment before the future ends, before and
after the handler begins. `LeavePool` is the exit of the `with` block, which joins the thread.

### Gateway

`phase` is the point `generate` is at; `Route`, `AskPrimary` and `AskFallback` are its calls, and the
adapters' outcomes are actions of the environment: `HttpTimesOut` (a timeout or a broken
connection), `HttpRefuses` (a status), `HttpGarbled` (a reply the adapter cannot decode, whose
exception no clause catches), `HttpDelivers`, and the mock's counted failures. Requests come one after the
other, because the gateway is synchronous and keeps no state but the mock's count. The
configuration, the registered adapters and the mock's behaviour are chosen at the start. A model
is a provider's model of a tier, or the one the request prefers. Left out as unreachable: the
adapters' own check for an API key and `_get_adapter`'s errors (routing has checked both). A provider
may have an adapter and be missing in `config.providers`, where routing looks up its models:
`RouteUnknownProvider` is that KeyError.
Two things the code does and the model shows: when the primary provider is not
configured the fallback is not considered, and a garbled reply is not retried. The application
does not call this gateway yet; `DemoGateway` stands in for it.

### Evals

A process is idle or somewhere in `run` (`work[p].pc`), with its own session: the eval run it added,
the cases it inserted and the results so far. `db` is what is committed. The statements of
`get_or_create_eval_case` are separate actions, since another process may act between its
SELECT (`FindCase`) and what follows: the INSERT of a new case (`InsertCase`, `InsertConflict`), or the
UPDATE of one that is there (`UpdateCase`). The update overwrites the case's columns with what the
file says. The flush sends it if they differ, so whether there is an update is a choice; the columns are
written and never read, so what they hold is left out, but not the lock. Both statements wait while another open
session has written the key (`WaitsFor`, `Blocked`). `RunCase` is the rest of one iteration: nothing in it can be
seen by another process. Rows are kept in the order of `created_at`, which the client sets per row;
all processes are taken to read the same case files. The processes in `Server` are requests to one
server: a handler keeps the event loop to its end (`LoopIsFree`), except that a failed one leaves it
before its session is closed (`Rollback`). While it is in that state another request may start and
write a case that the open session has written; it then waits inside the database driver, on the
event loop, and the session is never closed. `Wedged` is that state. A crash of the server ends all
its requests (`Crash`). A tool fails (`"tool"` in `Faults`) as the
executor reports it, without output; a case is slow (`"slow"`) when it exceeds its latency limit.
`LoadBaseline` raises whenever there is a baseline, because `runner.py` does not import
`ScoreCard`, so `compare_reports` is never reached and is left out. Scores are the sets of
dimensions scored 1.0; all eight are 0 or 1. An observation: a `draft_refund_request` that fails
loses only the approval dimension, so its case still passes with seven of eight.

### Chunker

After `" ".join(text.split())` a text is its length and the set of positions of its spaces.
The last slice is kept, not the list: nothing reads the list before the end. All properties
are about consecutive slices. The empty text is one empty slice, which `chunk_document` cannot make
a `ChunkRecord` of (`types.py:18`); it is the only one, as `ChunksFit` says.

### Retrieval, stores and tools

A document is what `docs.json` says of it, with the slices of its text instead of the text; a
chunk is its columns without hash, and an embedding is abstracted to `Similarity`, a table of how
similar a query and a slice are. Title and category go together, `object_id` is `source_id`, and a
citation is the chunk it is made from. Since PostgreSQL orders by distance alone and Python sorts
by source and index too, `Answers` is the set of what a store may answer.

In `PgVectorStore` a session deletes, chunk by chunk, what has the chunk's key (`DeleteChunk`), and
inserts all chunks in the flush (`InsertChunk`; the session does not autoflush), then commits. What
PostgreSQL does at READ COMMITTED is modelled from the statements the code issues: a DELETE waits
for the session that has deleted the row it found (`DeleteWaits`). If that session commits the row is gone,
and the DELETE does not see what was inserted in its place, be it the same chunk (`Commit` takes
the row out of `seen`); if it ends otherwise the row is deleted (`DeleteResumes`). An INSERT
waits for open sessions with its key (`Held`) and fails when it is taken (`InsertFails`), which ends
the script and rolls its session back. Deadlocks are possible, since two feeds may name documents in different
orders; `Killed` is also the end that PostgreSQL gives one of the two. `latest` is a history variable: the last
document of each source that a committed feed had.

In `Tools` the handlers are operators from arguments to an output, a preview or an error, reduced to
the seed records and chunks they show. `PlanTools` has the order of `plan_tools`' conditions; which words
and ids a text holds is an input (`Request`). `AnswerShows` is what an answer can show: the preview or record of the
tool, or else the best chunk of the context.

Observations that the model makes plain:

* A refund request of the demo always names customer C-100 and ticket T-100, which belong to one
  tenant: everybody else's fails with a permission error, and the run is answered with a
  document instead.
* The API never reads `document_chunks`: each request builds an in-memory store from `docs.json`.
* `find_record` takes the first record with an id whosever it is; ids shared by two tenants would
  make the second tenant's record unreachable, not readable by the first.
* `search_docs` filters by category and tags after the store's limit of ten chunks, so a
  matching document may be missing; `SearchFindsDocuments` says exactly when.
* The eval runner cites every document as its chunk 0 (`runner.py:194`), whichever chunk was found.

## 3. Runs

Constants of the `platform` runs: two runs, two approval ids, two tools (`lookup`, and `refund`
that needs approval), and four plans, the demo adapter's and one with two tools. Two runs are
enough for every interaction the code has: a handler names one run, and the others matter
only as what it must not touch. No symmetry is used in them, because the liveness properties would
make it unsound.

| Run | Result | Question |
|---|---|---|
| `platform` | pass, 8,423 states | no foreign keys enforced, and no failures: exactly the waiting runs are resumable, and every decided run is settled (`ImplementsFairLifecycle`) |
| `platform_faults` | pass, 18,779 states | no foreign keys enforced; a crash or an aborted handler at any step: the safety properties, the inductive invariant, numbering without gaps, `ImplementsLifecycle`, and every request is answered |
| `platform_postgres` | violation of `StartedRunsAreRecorded` | foreign keys enforced, no other failure: is a run whose tool needs approval there after the request? |
| `tool_executor` | pass, 4,900 states | `retry_count` up to 2, every definition, every ending and every race of timeout and answer |
| `tool_executor_approval` | violation of `RiskyHandlersWaitForApproval` | does the handler of a risky tool wait for an approval? |
| `tool_executor_timeout` | violation of `TimeoutEndsTheCall` | does a timeout end a call whose handler hangs? |
| `gateway` | pass, 347,252 states | every configuration, with the models of all providers or of one, every registration of adapters, a request for each way through the policies, five statuses: fallbacks, tiers, the record and the metadata |
| `evals` | pass, 103,056 states | two requests to the server and a script, two cases that are inserted and updated, failing tools and crashes: what is committed, reports and waiting |
| `evals_regression` | violation of `RegressionIsReported` | does a comparison with an earlier run work? |
| `chunker` | pass, 5,326 states | the empty text and every text of up to five words of 1, 12, 24 or 28 characters, windows of 50, overlap of 20 |
| `chunker_long_word` | violation of `SlicingEnds` | a word longer than the window |
| `retrieval` | pass, 15,559 states | two scripts, four feeds, two tenants: the store's invariant, the refinement, stale tails, and in each state every search and every request |

Bounds: `Run` and `Approval` bound how many runs and approvals there ever are, `Plans` the plans, and
`MaxRetries` the `retry_count` of a definition (the registered tools all have zero, which is
among the definitions of the run; three attempts give a first, a middle and a last one). The gateway's `Configs` are all there are but for `providers`, which are all or one, its `Requests` hold each value that a policy distinguishes,
`StatusCodes` both sides of each comparison, and `MaxMockCalls` = 3 reaches past the mock's failures.
`MaxRuns` = 3 eval runs let two processes meet on the cases that a third has committed;
two cases are what a circle of waits takes, and one of them can fail after the other. For the chunker 50 is the smallest
`max_chars` allowed; word lengths stay under `max_chars - overlap_chars` in the passing run, where windows
break at spaces in every position, and exceed `max_chars` in the other. `evals_regression`, where one process runs and nothing
interleaves, has a case of each kind and slow cases, which would only multiply the scores of the three processes of `evals`. The documents
of `retrieval` hold two versions of one source, the later one shorter and in another category, one of a type
that is not searched and one of another tenant; its feeds have the two orders in which scripts
can wait for each other, and one names a source twice. Two sessions are what a wait takes. Sessions are
interchangeable there and no property is about liveness, so the run uses symmetry. `SearchTopK` = 2 is smaller than
the number of a tenant's chunks, so the limit cuts.

Deadlock checking is off in all runs: a platform without requests, a returned call and a sliced text
rest for good.

Fairness: `Platform!FairSpec` is weak fairness of `HandlerStep`, because a handler's body is
synchronous code on the event loop; nothing says that requests come, that operators decide
or that anything fails. `ToolExecutor!FairSpec` says that both threads are scheduled;
`TerminatingSpec` adds that handlers end, which the registered ones (lookups in seed data) do,
and which `TimeoutEndsTheCall` is about not assuming. `Evals!FairSpec` is strong fairness of each process,
because its steps wait: PostgreSQL queues an insert or an update on the session it waits for and
wakes it at that session's end, and the event loop takes its tasks in turn, the ends of failed requests among them;
when a handler holds the loop for ever, such an end is not enabled. Requests need not come and crashes need not happen. The chunker's loop runs. The gateway has no liveness
property: nothing in it loops or waits but a provider, and the HTTP client's timeout ends that.

Every property of a passing run has a mutant in its module (an operator named
`<definition>_<change>`): a plausible bug under which TLC finds the property violated.

## 4. Findings

* **No run can wait for approval on PostgreSQL** (`platform_postgres`; `engine.py:227`,
  `demo.py:160`). The approval request's foreign key refers to a tool invocation that is never
  inserted. The flush raises, `_fail_run`'s writes raise on the broken session, POST /runs answers 500 and
  the run is rolled back. The API's tests pass because their SQLite does not enforce foreign keys;
  `test_approval_flow.py:42` inserts the row itself. `NothingWaitsUnderForeignKeys` proves that this is
  so for all runs, tools and plans.
* **Risky handlers run before approval** (`tool_executor_approval`; `executor.py:60`). The
  approval check guards the result. The only registered risky handler drafts a preview, so
  the demo is safe by its handler, not by its executor.
* **A timeout does not end a call** (`tool_executor_timeout`; `executor.py:163`). The
  exception is held back by the `with` block until the handler ends.
* **Comparing eval runs raises** (`evals_regression`; `runner.py:118`). `ScoreCard` is not imported: the
  first comparison that has something to compare with ends in NameError.
* **Slicing may not end** (`chunker_long_word`; `chunking.py:81`).

Behind the first finding lies an observation for databases without foreign keys: waiting runs do not survive a restart, because
their contexts live in the controller's dictionaries only (`runtime/engine.py:14`). An approval can be decided
afterwards, with status 200, but its run stays in WAITING_FOR_APPROVAL, and a second decision is refused
with 409. `ImplementsFairLifecycle` is therefore checked without crashes. What the rows promise
(`ApprovalGatesOutcome`, `ImplementsLifecycle`) is kept all the same.

## 5. Proofs

Assumptions: only those on constants (`NoRunAssumption`, `ForeignKeysAssumption`, `NoApprovalAssumption`,
`ToolAssumption`, `FaultsAssumption`, `MaxRetriesAssumption`, `GatewayAssumption`,
`EvalsAssumption`, `ConfigAssumption`, `TextsAssumption`, `DocumentAssumption`, `SimilarityAssumption`,
`NoneAssumption`, `FeedsAssumption`, `TopKAssumption`, `RequestAssumption`); TLC evaluates them in the runs of their
modules. Some theorems assume more, as marked.

| Theorem | States, for all constants |
|---|---|
| `TypeCorrect` | `Spec => []TypeOK` for Platform, for any runs, approvals, tools, plans and faults, with foreign keys enforced or not, as in the next lines |
| `PlatformInvariant` | `Spec => []PlatformInv` |
| `TracesGrowWithoutGaps` | `Spec => TraceGrowsWithoutGaps` |
| `TraceInvariant`, `ApprovalPrecedesResponse`, `TracesExplainStatus` | `Spec => []TraceInv`; `NoResponseBeforeApproval` and `TraceExplainsStatus` follow |
| `ApprovalGatesEveryOutcome` | `Spec => []ApprovalGatesOutcome` |
| `ApprovalInvariant`, `DecisionsAreRecordedOnce` | `Spec => []ApprovalInv`; `OneResolutionPerDecision` follows |
| `ToolInvariant`, `ResultsFollowCalls` | `Spec => []ToolInv`; `ToolResultsFollowCalls` follows |
| `TextInvariant`, `AnswersMatchDecisions` | `Spec => []TextInv`; `AnswerMatchesDecision` follows |
| `MemoryInvariant`, `WaitingRunsCanBeResumed`, `MemoryIsNotLeaked` | if `"abort" \notin Faults`: `Spec => []MemoryInv`, and `MemoryHoldsOnlyWaitingRuns` follows; if `Faults = {}`, so does `WaitingRunsAreResumable` |
| `LifecycleImplemented` | `Spec => ImplementsLifecycle`: Platform implements RunLifecycle |
| `NothingWaitsUnderForeignKeys` | if foreign keys are enforced, no committed run is WAITING_FOR_APPROVAL or CANCELED |
| `ExecutorTypeCorrect`, `AttemptsAreSequential`, `RepeatsAreJustified`, `ResultIsHonest` | the executor's type invariant and its three safety properties, for every bound on retries |
| `GatewayTypeCorrect`, `FallbackNeedsAReason`, `StrongWorkStaysStrong`, `RecordPrecedesAsks`, `FailuresAreNeeded`, `ResponsesTellTheirRoute` | `TypeOK`, `FallbackIsJustified`, `StrongTierIsKept`, `AsksFollowTheRecord`, `NoNeedlessFailure`, `ResponseTellsItsRoute`, for all configurations, requests and statuses |
| `EvalsTypeCorrect`, `RunsAreComplete`, `ReportsMatchRows`, `PassedAreGrounded`, `WaitsAreNotCircular` | `TypeOK`, `CommittedRunsAreComplete`, `ReportMatchesRows`, `PassedCasesAreGrounded`, `NoCircularWait`, for any number of processes, any catalogue without duplicate keys and any faults |
| `StoreSafe`, `StoreRefinement`, `RowsStaleTails` | `StoreInv`, `ImplementsVectorStore`, `OnlyTailsAreStale`, for any documents, feeds and number of scripts |
| `RowsAreFinite`, `SearchIsComplete`, `TenantsAreApart` | `SearchFindsDocuments` and `AnswersStayInTenant`, for any documents, feeds, scripts, similarities, limits, seed records and requests |
| `EveryChunkFits`, `ChunksCoverTheText` | `ChunksFit` and `NothingLost`, for every text and configuration |
| `SlicingAdvances` | `StartAdvances`, when spaces are far enough apart (`SpacesBeyondOverlap`) |
| `LargeOverlapNeverEnds` | if `OverlapChars >= MaxChars`, which `ChunkingConfig` accepts, no text longer than `MaxChars` is ever sliced to its end |

**The inductive invariant of Platform.** `ApprovalGatesOutcome` speaks of `db` only, but the next
commit writes `tx`, and what `tx` holds was decided by contexts and the controller. So
`PlatformInv` says, for each value of `handler.pc`, how these agree:

* `CommittedRuns`: a committed run has at most one approval, and one of the three legal
  combinations of status and decision;
* `Ownership`: whoever knows the run of an approval (`db`, `tx`, the controller) knows the
  same one;
* `KeptContexts`: a context kept for a resume is that of an unsettled run, even of one whose
  rows were rolled back, and knows the approval it is reached by;
* `HandlerInv`: between requests and before a resume `tx = db`; inside the engine only the
  handler's run differs; a new run has no approval unless it waits (`NewRun`); a resumed run's
  approval is decided and its step is past the tools (`ResumedRun`).

The last part is what keeps a resumed run from asking for a second approval, and
`KeptContexts` is what keeps a context that an aborted handler left behind from being resumed
into a settled run. Each action has a lemma; `LoopEffect` first reduces the nine engine
actions to the few facts the invariant needs. The refinement follows from the invariant:
`CommitRun` is `Finish` or `Pause` for a new run and `Settle` for a resumed one,
`CommitDecision` is `Decide`, all else stutters.

**Traces of Platform.** That committed events keep their numbers needs no more than that a session's traces extend
the committed ones (`SessionExtendsTraces`): a commit makes them the committed ones and a rollback
drops them. That the numbers have no gap is because each session starts from rows without one, and the number it
reads is then the number of rows plus one. For what traces say, `TraceInv` is inductive beside `PlatformInv`. Of the rows nobody
works on (`Recorded`) it says that status and error are what the trace tells, that whatever a
tool asked was approved before the next answer (`Gated`), and that an approved run has no open
question (`Cleared`): that is what a resume relies on, which looks at the decision and never at the trace. Of the run
inside the engine (`UnderWay`), that its trace is open, gated and cleared, and has no question at
all until the tools have run. Only `RequestApproval` leaves a trace uncleared, and `PlatformInv` says
that its decision is then pending. `TraceInv` is not listed among the runs' properties: its two
consequences are, and the proof does not depend on TLC.

Three more invariants read traces, each inductive beside `PlatformInv` (`ToolInv` beside `TraceInv` too). `ApprovalInv` says for each run and approval,
of the committed rows and of the session's view, that the trace tells what the row says of the approval, once, and nothing else
(`Accounts`). A decision is recorded where it is made and nowhere else: `ResolveApproval` appends the only
APPROVAL_RESOLVED, and needs a pending approval, of which the trace has told no resolution. `ToolInv` gives the trace's tool events a shape:
`Block(t, p, n, m)` are `n` calls after `p` other events and the results of the first `m` of them, and nowhere else is
there a call or a result. An iteration of EXECUTE_TOOLS appends a whole block to a trace that has none (`NoTools`, kept by
every step before the tools); what comes later adds no tool events; and `m < n` only beside a request for approval or
a failure, which no later event takes back. `TextInv` follows the text of an answer from the context to the
trace and the client: what a finished trace ends with fits the run's approval (`SaysHowItEnded`), a context in the engine
has a text in its last step only, and the one its approval lets it (`Answering`), and a context that a handler returns
has the text its trace ends with (`Answered`). With `TraceInv`, which says what may
come last in a trace, `AnswerMatchesDecision` follows.

**Memory of Platform.** `MemoryInv` ties the controller's two dictionaries and the kept contexts to the committed rows in both
directions: a run that waits is remembered with its context (`Kept`), and of every other there is no trace (`Forgotten`,
`NoContext`). The run of a handler that has returned and not yet committed is the exception: there the context says
which of the two holds, and until it has returned neither need hold. After a crash the other exception is a run that waits
in the database and is forgotten (`Gone`), so `WaitingRunsAreResumable` is proved for `Faults = {}`, as the run `platform`
checks it. `MemoryHoldsOnlyWaitingRuns` survives a crash, which forgets everything: its theorem assumes only that no handler
aborts, which leaves a run behind that does not wait.

**ToolExecutor.** `ExecutorInv` ties `verdict`, `worker` and `attempts` together for attempts past,
present and future. **Gateway.** The decision of the request in hand is the one the policy
computes from it, and `asked` is what the phase says of the decision. `OutcomeInv` adds that a request under
way has no outcome and remembers an error exactly once the fallback is taken. **Evals.** What is committed was
put together in a session, so `WorkOK` says of each session what a commit needs: its rows are those
of its results, one for each case so far and in order, and the key of every such case is
committed or inserted by the session itself. Other sessions only add keys (`WorkOKMonotone`), so
no interleaving disturbs it; `RowRoundTrip` and `RebuiltReport` carry the report through the rows. A crash of the server empties
sessions only, so it disturbs nothing. For `NoCircularWait`, `HeldInOrder` says that a
session holds no key beyond the case it is at, since all take the cases in the order that `load_eval_cases`
sorts them in. A session that waits is then at an earlier case than one that waits and whose key it waits for (`WaitersAreBehind`); of any sessions
that wait, the one with the fewest cases left (`LeastNumber`) waits for none of the others. `PassedCasesAreGrounded` needs `GroundedInv`, which says the same of what is scored and not yet
committed; the core is about one scorecard (`ScoreIsGrounded`): without the citation the text is not a snippet, so a third
dimension is lost with the two, and five of eight are too few (`FiveDoNotPass`). Trying to prove it for every catalogue
showed where it fails: six of eight pass, so a case that expects two citations and gets one, or
one that expects a citation and words that an uncited text has, may pass without. No shipped case is of these kinds;
`ExpectsCitation` says which cases the property is about. **Stores.** `StoreInv` says what the database's waits come to. Of one session
(`Fits`): what it has inserted are the chunks of its feed up to where it is, all of different keys;
what it has deleted are committed rows with keys of its feed; and every committed row with a key it has inserted is one it has
deleted. Of two (`Apart`): they have not deleted the same row, and what one has inserted has no
key that the other holds. The last conjunct of `Fits` is what makes a commit an upsert of the whole feed
(`CommitImplements`): a row with a key of the feed that it does not delete would stay beside the new one. It
survives the commits of others because what they insert has none of this session's keys. The
refinement follows: `Commit` is `IngestDocuments`, all else stutters. `StaleTails` is proved of the abstract store
alone, by induction over feeds, and carried to the rows by the refinement. **Search.** Both
properties are about the operators of `Retrieval` and `Tools` on the rows, of which the proofs need only that they are finitely many
chunks (`RowsInv`). `DocumentSearch` chooses a sequence of its results in an order, so it must be shown that
there is one: `SortedSequence` puts each element of a finite, linearly ordered set where the number of those before it says, and
serves the best hit of a document (`BestHit`) as well as the order of results (`SearchResults`). `AnswerFacts` says
what an answer leaves out: `ListsAll` makes an answer shorter than the limit hold every matching chunk, and one as long as the limit is an injection into the chunks at least as
similar as any it leaves out. Tenants are kept apart by the filter in one half and by `Lookup` in the other (`LookupStays`). **Chunker.** `Progress` says that only spaces lie between the last slice
and the next start.

Only model-checked: the liveness properties (`ImplementsFairLifecycle`, `HandlerReturns`, `CallReturns`,
`SlicingEnds`, `RequestsAreAnswered`), which are beyond the prover. Every safety invariant and action property of the passing
runs is a theorem; `WaitingRunsAreResumable` and `MemoryHoldsOnlyWaitingRuns` without faults, as they are checked, and
`StartAdvances` when spaces are far enough apart.

## 6. Not modelled

Several server processes on one database: the check-then-update of an approval and
`max(sequence) + 1` would race, but the shipped start command runs one process, whose handlers do
not await between the read and the write. Commits whose outcome the client of the database does not
learn. `GET /runs/{id}/trace` and the approval lists, which render rows that `Store` has. How
embeddings are computed. What is sent to providers; texts, tokens and costs. The console, which is a
client of the API, and the migrations, which run before it.

## 7. Plan

1. The step invariants of `ImplementsFairLifecycle` that do not need fairness: which step of a handler comes next.
2. What a chunk of the shipped splitting means for search: `Chunker` composed with `Retrieval`.
3. Several server processes, if the platform is ever started with more than one worker.
