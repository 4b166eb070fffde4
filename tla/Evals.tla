------------------------------- MODULE Evals -------------------------------
(***************************************************************************)
(* Offline evals (evals/runner.py, scoring.py, reports.py) on the rows of  *)
(* EvalRepository.  A run executes every case of the catalogue, scores it  *)
(* and stores a result, all in one session that is committed at the end.   *)
(*                                                                         *)
(* Several can do so at once on the same database: requests to the API     *)
(* server (POST /evals/run), whose handlers share one event loop, and      *)
(* scripts/run_evals.py.  Sessions are isolated as PostgreSQL does by      *)
(* default: a statement sees what is committed and what its own session    *)
(* wrote; an insert or an update of a key that another open session has    *)
(* inserted or updated waits for that session to end.                      *)
(***************************************************************************)
EXTENDS Naturals, Sequences, FiniteSets

CONSTANTS
  Process,       \* what runs evals: requests to the API server, and scripts
  Server,        \* those of them that are requests to the API server
  Name,          \* names of eval runs
  Catalogue,     \* the cases load_eval_cases returns
  Faults,        \* which of "tool", "slow" and "crash" may happen
  MaxRuns        \* bound on committed runs and runs under way

VARIABLES
  db,            \* the committed rows
  work,          \* work[p]: the request p is working on, with its session
  answer         \* answer[p]: what p's last request was answered

vars == <<db, work, answer>>

-----------------------------------------------------------------------------
(* Types *)

ToolName == {"search_docs", "get_ticket", "get_incident", "get_customer", "draft_refund_request"}
Text == {"snippet", "no_documentation", "record", "approval_notice"}
Dimension == {"groundedness", "tool_choice", "approval_trigger", "response_usefulness",
              "format_correctness", "citation_presence", "latency_signal", "cost_signal"}

\* What a case asks is the words select_tool looks for and the keys of its context.  Of its
\* expectation, response_contains is the texts that contain the expected tokens.  The cases
\* expect paragraphs at no cost, which every text is.
EvalCase ==
  [key: STRING, words: SUBSET STRING, context: SUBSET STRING, tool_name: ToolName,
   requires_approval: BOOLEAN, min_citations: Nat, response_contains: SUBSET Text]

Cases == {Catalogue[i] : i \in 1..Len(Catalogue)}
Keys == {c.key : c \in Cases}

\* An EvalResult as the runner keeps it, and as a row: details holds the scorecard.
EvalResult == [case_key: Keys, passed: BOOLEAN, scorecard: SUBSET Dimension]
ResultRow == [case_key: Keys, status: {"PASSED", "FAILED"}, scorecard: SUBSET Dimension]
EvalRun ==
  [name: Name, status: {"IN_PROGRESS", "COMPLETED", "FAILED"}, results: Seq(ResultRow)]
NoRun == [name |-> "", status |-> "", results |-> <<>>]

\* dimension_averages and average_score are kept as counts of ones.
Report ==
  [run_name: Name, total_cases: Nat, passed_cases: Nat, dimensions: [Dimension -> Nat],
   results: Seq(EvalResult)]
NoReport ==
  [run_name |-> "", total_cases |-> 0, passed_cases |-> 0,
   dimensions |-> [d \in Dimension |-> 0], results |-> <<>>]

\* run is the session's eval run, cases the keys whose rows it has inserted or updated;
\* compared tells that a comparison was asked for and there was a run to compare with.
Work ==
  [pc: {"idle", "baseline", "create", "case", "insert", "update", "execute", "commit",
        "raising"},
   name: Name \cup {""}, compare: BOOLEAN, compared: BOOLEAN, run: EvalRun \cup {NoRun},
   cases: SUBSET Keys, results: Seq(EvalResult)]
Idle ==
  [pc |-> "idle", name |-> "", compare |-> FALSE, compared |-> FALSE, run |-> NoRun,
   cases |-> {}, results |-> <<>>]

\* row is the eval run that a report is about.
Answer ==
  [kind: {"none", "report", "error"}, row: Nat, report: Report \cup {NoReport},
   compared: BOOLEAN, regression: BOOLEAN]
NoAnswer ==
  [kind |-> "none", row |-> 0, report |-> NoReport, compared |-> FALSE, regression |-> FALSE]

\* No two cases of the shipped catalogue have the same key and version.
ASSUME EvalsAssumption ==
  /\ Catalogue \in Seq(EvalCase)
  /\ Catalogue # <<>>
  /\ \A i, j \in 1..Len(Catalogue) : Catalogue[i].key = Catalogue[j].key => i = j
  /\ Faults \subseteq {"tool", "slow", "crash"}
  /\ MaxRuns \in Nat
  /\ Server \subseteq Process
  /\ "" \notin Name

TypeOK ==
  /\ db \in [cases: SUBSET Keys, runs: Seq(EvalRun)]
  /\ work \in [Process -> Work]
  /\ answer \in [Process -> Answer]

Init ==
  /\ db = [cases |-> {}, runs |-> <<>>]
  /\ work = [p \in Process |-> Idle]
  /\ answer = [p \in Process |-> NoAnswer]

-----------------------------------------------------------------------------
(* Executing and scoring a case *)

\* _select_tool.
SelectTool(c) ==
  CASE "refund" \in c.words /\ c.words \cap {"draft", "submit", "approve"} # {}
         -> "draft_refund_request"
    [] "incident" \in c.words /\ "incident_id" \in c.context -> "get_incident"
    [] {"customer", "profile"} \subseteq c.words /\ "customer_id" \in c.context -> "get_customer"
    [] "ticket" \in c.words /\ "ticket_id" \in c.context -> "get_ticket"
    [] OTHER -> "search_docs"

\* _build_response raises KeyError for the missing output of a failed get_* tool.
HasResponse(c, delivered) ==
  delivered \/ SelectTool(c) \in {"search_docs", "draft_refund_request"}

\* _build_response.
ResponseText(c, delivered) ==
  CASE SelectTool(c) = "draft_refund_request" -> "approval_notice"
    [] SelectTool(c) = "search_docs" -> IF delivered THEN "snippet" ELSE "no_documentation"
    [] OTHER -> "record"

\* _execute_case: a failed tool has neither output nor preview and asks for no approval.
ExecuteCase(c, delivered, slow) ==
  [response_text |-> ResponseText(c, delivered),
   tool_name |-> SelectTool(c),
   requires_approval |-> delivered /\ SelectTool(c) = "draft_refund_request",
   citations |-> IF ResponseText(c, delivered) = "snippet" THEN 1 ELSE 0,
   slow |-> slow]

\* score_case: the dimensions scored 1.0.
ScoreCase(c, output) ==
  {"format_correctness", "cost_signal"}
    \cup {d \in {"groundedness", "citation_presence"} : output.citations >= c.min_citations}
    \cup {d \in {"tool_choice"} : output.tool_name = c.tool_name}
    \cup {d \in {"approval_trigger"} : output.requires_approval = c.requires_approval}
    \cup {d \in {"response_usefulness"} : output.response_text \in c.response_contains}
    \cup {d \in {"latency_signal"} : ~output.slow}

\* The scorecards that executing c may end in: its tool delivers or, at a fault, fails.
Scorecards[c \in Cases] ==
  {ScoreCase(c, ExecuteCase(c, delivered, slow)) :
     delivered \in {d \in {TRUE} \cup {FALSE : f \in Faults \cap {"tool"}} : HasResponse(c, d)},
     slow \in {FALSE} \cup {TRUE : f \in Faults \cap {"slow"}}}

\* Mutant: total_score >= 0.6.
Passed_Generous(scorecard) == 5 * Cardinality(scorecard) >= 3 * Cardinality(Dimension)

\* total_score >= 0.75.
Passed(scorecard) == 4 * Cardinality(scorecard) >= 3 * Cardinality(Dimension)

\* build_report.
BuildReport(name, results) ==
  [run_name |-> name,
   total_cases |-> Len(results),
   passed_cases |-> Cardinality({i \in 1..Len(results) : results[i].passed}),
   dimensions |-> [d \in Dimension |->
                     Cardinality({i \in 1..Len(results) : d \in results[i].scorecard})],
   results |-> results]

\* store_eval_result: the row of a result.
RowOf(result) ==
  [case_key |-> result.case_key,
   status |-> IF result.passed THEN "PASSED" ELSE "FAILED",
   scorecard |-> result.scorecard]

\* Mutant: any status is true, as in bool(result.status).
ResultOf_Truthy(row) ==
  [case_key |-> row.case_key, passed |-> row.status # "", scorecard |-> row.scorecard]

\* DemoPlatformService.get_eval_report: the report GET /evals/{id} rebuilds from rows.
ResultOf(row) ==
  [case_key |-> row.case_key, passed |-> row.status = "PASSED", scorecard |-> row.scorecard]

GetEvalReport(run) ==
  BuildReport(run.name, [i \in 1..Len(run.results) |-> ResultOf(run.results[i])])

-----------------------------------------------------------------------------
(* OfflineEvalRunner.run *)

Update(p, w) == work' = [work EXCEPT ![p] = w]

\* get_latest_completed_run finds one.
HasBaseline(name) == \E i \in 1..Len(db.runs) : db.runs[i].name = name
                                             /\ db.runs[i].status = "COMPLETED"

\* The event loop of the API server can turn to p: no other handler is under way.  A handler
\* has no await and keeps the loop until it returns or raises.  Its session is closed later,
\* by a worker thread that the loop has to start (get_session is a generator dependency).
LoopIsFree(p) ==
  p \in Server => \A q \in Server \ {p} : work[q].pc \in {"idle", "raising"}

\* POST /evals/run, or the script's main.
Request(p) ==
  /\ work[p].pc = "idle"
  /\ LoopIsFree(p)
  /\ Len(db.runs) + Cardinality({q \in Process : work[q].pc # "idle"}) < MaxRuns
  /\ \E name \in Name, compare \in BOOLEAN :
       Update(p, [Idle EXCEPT !.pc = IF compare THEN "baseline" ELSE "create",
                              !.name = name, !.compare = compare])
  /\ answer' = [answer EXCEPT ![p] = NoAnswer]
  /\ UNCHANGED db

\* _load_baseline.  A completed run has results, and the first of them makes it name
\* ScoreCard, which runner.py does not import: NameError, before anything is written.
LoadBaseline(p) ==
  /\ work[p].pc = "baseline"
  /\ LET found == HasBaseline(work[p].name)
     IN Update(p, [work[p] EXCEPT !.pc = IF found THEN "raising" ELSE "create",
                                  !.compared = found])
  /\ UNCHANGED <<db, answer>>

\* Mutant: the run is created with the default status of create_eval_run.
CreateRun_Pending(p) ==
  /\ work[p].pc = "create"
  /\ Update(p, [work[p] EXCEPT !.pc = "case",
                  !.run = [name |-> work[p].name, status |-> "PENDING", results |-> <<>>]])
  /\ UNCHANGED <<db, answer>>

\* create_eval_run.
CreateRun(p) ==
  /\ work[p].pc = "create"
  /\ Update(p, [work[p] EXCEPT !.pc = "case",
                  !.run = [name |-> work[p].name, status |-> "IN_PROGRESS", results |-> <<>>]])
  /\ UNCHANGED <<db, answer>>

\* Mutant: the server gets its files in another order than a script (glob without sorted).
Current_Unsorted(p) ==
  Catalogue[IF p \in Server THEN Len(Catalogue) - Len(work[p].results)
            ELSE Len(work[p].results) + 1]

\* load_eval_cases sorts the files: every run takes the cases in one order.
Current(p) == Catalogue[Len(work[p].results) + 1]

\* get_or_create_eval_case, its SELECT.  The columns of a case that is there are set to what
\* the file says; the flush updates the row if the file was edited since, which may be or not
\* (what the columns hold is left out: no code reads them again).
FindCase(p) ==
  /\ work[p].pc = "case"
  /\ Len(work[p].results) < Len(Catalogue)
  /\ \E next \in IF Current(p).key \in db.cases \cup work[p].cases
                 THEN {"execute", "update"} ELSE {"insert"} :
       Update(p, [work[p] EXCEPT !.pc = next])
  /\ UNCHANGED <<db, answer>>

\* p has a key to insert or to update that q's open session has written: the unique index makes
\* the insert wait, the lock on the row the update.
WaitsFor(p, q) ==
  /\ p # q
  /\ work[p].pc \in {"insert", "update"}
  /\ Current(p).key \in work[q].cases

Blocked(p) == \E q \in Process : WaitsFor(p, q)

\* get_or_create_eval_case, its UPDATE.
UpdateCase(p) ==
  /\ work[p].pc = "update"
  /\ ~Blocked(p)
  /\ Update(p, [work[p] EXCEPT !.pc = "execute", !.cases = @ \cup {Current(p).key}])
  /\ UNCHANGED <<db, answer>>

\* get_or_create_eval_case, its INSERT: it creates the case,
InsertCase(p) ==
  /\ work[p].pc = "insert"
  /\ ~Blocked(p)
  /\ Current(p).key \notin db.cases
  /\ Update(p, [work[p] EXCEPT !.pc = "execute", !.cases = @ \cup {Current(p).key}])
  /\ UNCHANGED <<db, answer>>

\* or finds that the other session has committed the key meanwhile: IntegrityError.  The
\* flush rolls the session back, which cannot be used any more, so that
\* update_eval_run_status raises as well.
InsertConflict(p) ==
  /\ work[p].pc = "insert"
  /\ ~Blocked(p)
  /\ Current(p).key \in db.cases
  /\ Update(p, [work[p] EXCEPT !.pc = "raising", !.cases = {}])
  /\ UNCHANGED <<db, answer>>

\* The tool is executed, the response built and scored, and the result stored.
RunCase(p) ==
  /\ work[p].pc = "execute"
  /\ \E scorecard \in Scorecards[Current(p)] :
       LET result == [case_key |-> Current(p).key, passed |-> Passed(scorecard),
                      scorecard |-> scorecard]
       IN Update(p, [work[p] EXCEPT !.pc = "case",
                                    !.run.results = Append(@, RowOf(result)),
                                    !.results = Append(@, result)])
  /\ UNCHANGED <<db, answer>>

\* KeyError in _build_response: the run is marked FAILED in the session, and the exception
\* goes on.
CaseRaises(p) ==
  /\ "tool" \in Faults
  /\ work[p].pc = "execute"
  /\ ~HasResponse(Current(p), FALSE)
  /\ Update(p, [work[p] EXCEPT !.pc = "raising", !.run.status = "FAILED"])
  /\ UNCHANGED <<db, answer>>

\* All cases are done: update_eval_run_status(COMPLETED).
FinishRun(p) ==
  /\ work[p].pc = "case"
  /\ Len(work[p].results) = Len(Catalogue)
  /\ Update(p, [work[p] EXCEPT !.pc = "commit", !.run.status = "COMPLETED"])
  /\ UNCHANGED <<db, answer>>

\* The report is built from the results the runner kept; the caller of run commits the session
\* and answers with it.  No request gets here with a baseline, so there is no regression.
Commit(p) ==
  /\ work[p].pc = "commit"
  /\ db' = [cases |-> db.cases \cup work[p].cases, runs |-> Append(db.runs, work[p].run)]
  /\ answer' = [answer EXCEPT ![p] =
                  [kind |-> "report", row |-> Len(db.runs) + 1,
                   report |-> BuildReport(work[p].name, work[p].results),
                   compared |-> work[p].compared, regression |-> FALSE]]
  /\ Update(p, Idle)

\* Mutant: what the session did until the exception is committed, the FAILED mark with it.
Rollback_Commits(p) ==
  /\ work[p].pc = "raising"
  /\ LoopIsFree(p)
  /\ db' = IF work[p].run = NoRun THEN db
           ELSE [cases |-> db.cases \cup work[p].cases, runs |-> Append(db.runs, work[p].run)]
  /\ answer' = [answer EXCEPT ![p] = [NoAnswer EXCEPT !.kind = "error",
                                                      !.compared = work[p].compared]]
  /\ Update(p, Idle)

\* Mutant: the session is not closed.
Rollback_KeepsSession(p) ==
  /\ work[p].pc = "raising"
  /\ LoopIsFree(p)
  /\ answer' = [answer EXCEPT ![p] = [NoAnswer EXCEPT !.kind = "error",
                                                      !.compared = work[p].compared]]
  /\ Update(p, [Idle EXCEPT !.cases = work[p].cases])
  /\ UNCHANGED db

\* The exception leaves run and its caller; the session is closed without a commit.
Rollback(p) ==
  /\ work[p].pc = "raising"
  /\ LoopIsFree(p)
  /\ answer' = [answer EXCEPT ![p] = [NoAnswer EXCEPT !.kind = "error",
                                                      !.compared = work[p].compared]]
  /\ Update(p, Idle)
  /\ UNCHANGED db

\* The process dies; the database ends its sessions, those of all requests to the server.
Crash(p) ==
  /\ "crash" \in Faults
  /\ work[p].pc # "idle"
  /\ work' = [q \in Process |-> IF q = p \/ {p, q} \subseteq Server THEN Idle ELSE work[q]]
  /\ UNCHANGED <<db, answer>>

Step(p) ==
  \/ LoadBaseline(p)
  \/ CreateRun(p)
  \/ FindCase(p)
  \/ InsertCase(p)
  \/ InsertConflict(p)
  \/ UpdateCase(p)
  \/ RunCase(p)
  \/ CaseRaises(p)
  \/ FinishRun(p)
  \/ Commit(p)
  \/ Rollback(p)

Next == \E p \in Process : Request(p) \/ Step(p) \/ Crash(p)

Spec == Init /\ [][Next]_vars

\* Each process runs; a request may come or not.  Fairness is strong because steps wait: an
\* insert or update is queued on the session it waits for and woken when that one ends, and the
\* event loop takes its tasks, the ends of requests too, in turn: none is overtaken for ever.
FairSpec == Spec /\ \A p \in Process : SF_vars(Step(p))

-----------------------------------------------------------------------------
(* Properties *)

\* Whatever fails and however two processes interleave, every committed eval run is COMPLETED,
\* has one result for each case of the catalogue in its order, rated by its own scorecard, and
\* the cases of its results are committed with it.  (run, run_evals, get_or_create_eval_case)
CommittedRunsAreComplete ==
  \A i \in 1..Len(db.runs) :
    LET run == db.runs[i]
    IN /\ run.status = "COMPLETED"
       /\ Len(run.results) = Len(Catalogue)
       /\ \A j \in 1..Len(Catalogue) :
            /\ run.results[j].case_key = Catalogue[j].key
            /\ run.results[j].status = "PASSED" <=> Passed(run.results[j].scorecard)
       /\ Keys \subseteq db.cases

\* The report a client was given is the one GET /evals/{id} rebuilds from the rows at any later
\* time: names, counts, averages and results.  (build_report, store_eval_result,
\* get_eval_report)
ReportMatchesRows ==
  \A p \in Process :
    answer[p].kind = "report" =>
      /\ answer[p].row \in 1..Len(db.runs)
      /\ answer[p].report = GetEvalReport(db.runs[answer[p].row])

\* A case that expects a citation, and words that only a text with a citation has.
ExpectsCitation(c) == c.min_citations = 1 /\ c.response_contains \subseteq {"snippet"}

\* Such a case does not pass without a citation, slow or not.  (score_case: the threshold of run
\* has to leave no room for the dimensions a missing citation costs, and leaves it to cases that
\* expect other words or more citations.)
PassedCasesAreGrounded ==
  \A i \in 1..Len(db.runs), j \in 1..Len(Catalogue) :
    ExpectsCitation(Catalogue[j]) /\ db.runs[i].results[j].status = "PASSED"
      => "citation_presence" \in db.runs[i].results[j].scorecard

\* No sessions wait for each other in a circle, however many run and whichever of them insert,
\* update or fail: among any of them is one that waits for none of the others, so that the
\* database has no deadlock to break by aborting one.  (get_or_create_eval_case keeps each row
\* it writes locked until the end of the run; load_eval_cases fixes the order)
NoCircularWait ==
  \A S \in (SUBSET Process) \ {{}} : \E p \in S : \A q \in S : ~WaitsFor(p, q)

\* A handler on the event loop waits for the database to give it a key that an earlier request
\* has written, and the session of that request is closed only when the loop gets a turn.
Wedged == \E p, q \in Server : work[p].pc = "raising" /\ WaitsFor(q, p)

\* Every request ends, although sessions wait for what others have written, unless the server is
\* wedged, which is the only way for a wait to last.  (Sessions write cases in the catalogue's
\* order; get_session closes them)
RequestsAreAnswered ==
  \A p \in Process : work[p].pc # "idle" ~> (work[p].pc = "idle" \/ Wedged)

\* A comparison with an earlier completed run of the name is answered with a regression
\* report.  (docs/eval-strategy.md:28)
RegressionIsReported ==
  \A p \in Process :
    answer[p].compared => answer[p].kind = "report" /\ answer[p].regression

=============================================================================
