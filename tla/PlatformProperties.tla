------------------------- MODULE PlatformProperties -------------------------
(***************************************************************************)
(* What the platform must keep true, whatever crashes or fails.            *)
(***************************************************************************)
EXTENDS Platform

Decided == {"APPROVED", "REJECTED"}
ApprovalsOf(v, r) == {a \in Approval : v.owner[a] = r}

\* The positions of a run's events of some type.
At_(v, r, types) == {i \in 1..Len(v.trace[r]) : v.trace[r][i].type \in types}

-----------------------------------------------------------------------------
(* Safety *)

\* No answer is generated and no run completes after a tool asked for approval, unless the
\* operator's APPROVED lies in between in the run's trace: the pause of engine.py:156-165
\* cannot be skipped, and a resume before the decision is impossible.
NoResponseBeforeApproval ==
  \A r \in Run : \A i \in At_(tx, r, {"TOOL_RESULT_RECEIVED"}) :
    tx.trace[r][i].outcome = "APPROVAL_REQUIRED" =>
      \A j \in At_(tx, r, {"MODEL_SELECTED", "RUN_COMPLETED"}) :
        (j > i /\ tx.trace[r][j].outcome # "CANCELED") =>
          \E k \in At_(tx, r, {"APPROVAL_RESOLVED"}) :
            i < k /\ k < j /\ tx.trace[r][k].outcome = "APPROVED"

\* A run has at most one approval, and the two tables never contradict each other in the
\* committed database: a pending approval's run waits, a rejected one's waits or is
\* canceled, an approved one's waits, completes or fails, and nothing else is canceled.
ApprovalGatesOutcome ==
  \A r \in Run :
    /\ \A a, b \in ApprovalsOf(db, r) : a = b
    /\ \A a \in ApprovalsOf(db, r) :
         /\ db.decision[a] = "PENDING" => db.status[r] = "WAITING_FOR_APPROVAL"
         /\ db.decision[a] = "REJECTED" => db.status[r] \in {"WAITING_FOR_APPROVAL", "CANCELED"}
         /\ db.decision[a] = "APPROVED" =>
              db.status[r] \in {"WAITING_FOR_APPROVAL", "COMPLETED", "FAILED"}
    /\ db.status[r] \in {"WAITING_FOR_APPROVAL", "CANCELED"} => ApprovalsOf(db, r) # {}

\* The status a reader derives from the trace alone.  Pausing and resuming have no event of
\* their own: the approval events stand for them.
StatusFromTrace(t) ==
  IF t = << >> THEN "NONE"
  ELSE LET last == t[Len(t)] IN
       IF last.type \in {"RUN_COMPLETED", "RUN_FAILED"} THEN last.outcome
       ELSE IF last.type \in {"APPROVAL_REQUESTED", "APPROVAL_RESOLVED"}
            THEN "WAITING_FOR_APPROVAL" ELSE "IN_PROGRESS"

\* The committed status is the one the committed trace tells, last_error is set exactly on
\* failed runs, and a trace begins with RUN_STARTED and says nothing after its final event.
TraceExplainsStatus ==
  \A r \in Run :
    /\ db.status[r] = StatusFromTrace(db.trace[r])
    /\ db.lastError[r] <=> db.status[r] = "FAILED"
    /\ \A i \in 1..Len(db.trace[r]) :
         /\ (db.trace[r][i].type = "RUN_STARTED") <=> (i = 1)
         /\ db.trace[r][i].type \in {"RUN_COMPLETED", "RUN_FAILED"} => i = Len(db.trace[r])

\* An approval has one APPROVAL_REQUESTED, and one APPROVAL_RESOLVED exactly when it is
\* decided, which says the decision; neither appears in another run's trace.  The API
\* records the resolution and the engine can record it too (record_resolution_event).
OneResolutionPerDecision ==
  \A r \in Run, a \in Approval :
    LET About(type) == {i \in At_(db, r, {type}) : db.trace[r][i].subject = a}
        owned == db.owner[a] = r
    IN /\ Cardinality(About("APPROVAL_REQUESTED")) = (IF owned THEN 1 ELSE 0)
       /\ Cardinality(About("APPROVAL_RESOLVED")) =
            (IF owned /\ db.decision[a] \in Decided THEN 1 ELSE 0)
       /\ \A i \in About("APPROVAL_RESOLVED") : db.trace[r][i].outcome = db.decision[a]

\* TOOL_CALLED is recorded for the whole plan before anything runs (engine.py:130-139): the
\* results that follow answer the first calls, in order, and calls are left unanswered only
\* when the execution stopped for an approval or the run failed.
ToolResultsFollowCalls ==
  \A r \in Run :
    LET t == db.trace[r]
        calls == At_(db, r, {"TOOL_CALLED"})
        results == At_(db, r, {"TOOL_RESULT_RECEIVED"})
    IN /\ \A i \in results : \E j \in calls :
            /\ t[j].subject = t[i].subject
            /\ Cardinality({k \in calls : k <= j}) = Cardinality({k \in results : k <= i})
       /\ Cardinality(results) < Cardinality(calls) =>
            \/ db.status[r] = "FAILED"
            \/ \E i \in results : t[i].outcome = "APPROVAL_REQUIRED"

\* What a client reads of a run fits the decision, at every moment: the approved-preview answer
\* only after an approval, the rejection text exactly on canceled runs, an error exactly on
\* failed ones, and the "approval required" text exactly with the id of the approval that is
\* waited for.  No text at all means that a decided approval has not taken effect.
ReadsFitDecision ==
  \A r \in {q \in Run : db.status[q] # "NONE"} :
    LET read == GetRun(db, r, Nothing)
        text == read.response_text
        Has(d) == \E a \in ApprovalsOf(db, r) : db.decision[a] \in d
    IN /\ text = "approved_preview" <=> read.status = "COMPLETED" /\ Has({"APPROVED"})
       /\ text = "rejection" <=> read.status = "CANCELED"
       /\ text = "error" <=> read.status = "FAILED"
       /\ text = "approval_required" <=> read.approval_request_id # NoApproval
       /\ text = Nothing <=> read.status = "WAITING_FOR_APPROVAL" /\ Has(Decided)

\* The answer to POST /runs is what GET /runs/{id} says from then on, and the resume_result of a
\* decision contradicts neither: both are made from the context, not from the rows.
AnswersFitReads ==
  handler.pc = "returned" =>
    LET r == handler.run
        read == GetRun(tx, r, Nothing)
    IN IF handler.approval = NoApproval
       THEN GetRun(tx, r, ctx[r].response) = read
       ELSE /\ ResumeResult(r).run_state = read.status
            /\ ResumeResult(r).response_text \in {Nothing, read.response_text}

AnswerMatchesDecision == ReadsFitDecision /\ AnswersFitReads

\* The committed events of a run are numbered 1, 2, 3, ... at every moment, and an event keeps
\* the number it was committed under: rows that a rollback or a crash takes away leave no
\* gap behind, and the number read for the next event (run_repository.py:91) is never one
\* that is taken, which would raise on the unique key of run_event.py:22.
TraceGrowsWithoutGaps ==
  [][\A r \in Run :
       LET old == db.trace[r]
           new == db'.trace[r]
       IN /\ DOMAIN new = 1..Cardinality(DOMAIN new)
          /\ \A i \in DOMAIN old : i \in DOMAIN new /\ new[i] = old[i]]_vars

-----------------------------------------------------------------------------
(* The process's memory, while nothing fails.  Where foreign keys are enforced no run ever *)
(* waits (StartedRunsAreRecorded), and there is nothing to remember.                      *)

\* Between requests, every run the database shows as waiting can be resumed: its approval
\* leads to it, and to a context that waits on that approval.
WaitingRunsAreResumable ==
  handler = Idle =>
    \A r \in Run : db.status[r] = "WAITING_FOR_APPROVAL" =>
      \E a \in Approval :
        /\ db.owner[a] = r
        /\ memory.approvalToRun[a] = r
        /\ r \in memory.waiting
        /\ ctx[r].state = "WAITING_FOR_APPROVAL" /\ ctx[r].approval = a

\* Between requests, the controller keeps nothing of runs that no longer wait.
MemoryHoldsOnlyWaitingRuns ==
  handler = Idle =>
    /\ \A r \in memory.waiting : db.status[r] = "WAITING_FOR_APPROVAL"
    /\ \A a \in Approval : memory.approvalToRun[a] # NoRun =>
         db.status[memory.approvalToRun[a]] = "WAITING_FOR_APPROVAL"
    /\ \A r \in Run : ctx[r] # NoContext <=> r \in memory.waiting

\* Between requests, every run that POST /runs has started is in the database: a run whose
\* tool needs approval appears as waiting for it.
StartedRunsAreRecorded ==
  handler = Idle => \A r \in Run : r \in used => db.status[r] # "NONE"

-----------------------------------------------------------------------------
(* Liveness *)

\* Every request is answered: the step loop of the engine ends.
HandlerReturns == (handler # Idle) ~> (handler = Idle)

-----------------------------------------------------------------------------
(* Refinement: the committed rows behave as RunLifecycle says. *)

DecisionOf(r) ==
  IF ApprovalsOf(db, r) = {} THEN "NONE"
  ELSE db.decision[CHOOSE a \in Approval : db.owner[a] = r]

Lifecycle == INSTANCE RunLifecycle WITH
  status <- db.status,
  decision <- [r \in Run |-> DecisionOf(r)]

\* Each commit is one step of the lifecycle and everything else is invisible, crashes and
\* aborted handlers included.
ImplementsLifecycle == Lifecycle!Spec

\* While nothing fails a decided run is also settled (the fairness of RunLifecycle).
ImplementsFairLifecycle == Lifecycle!FairSpec
=============================================================================
