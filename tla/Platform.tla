------------------------------ MODULE Platform ------------------------------
(***************************************************************************)
(* The API process (apps/api/app/main.py, demo.py): request handlers that  *)
(* call the engine inside a database session and commit it, one process    *)
(* memory, crashes and failing stores.                                     *)
(*                                                                         *)
(* Handlers are async functions with synchronous bodies on one event loop: *)
(* one runs at a time, from request to response.  Each opens a session; tx *)
(* is that session's view, and db, what everybody else reads, changes only *)
(* at session.commit().  POST /runs commits once; POST /approvals/.../     *)
(* {approve,reject} commits twice: the decision, then the resumed run.     *)
(***************************************************************************)
EXTENDS Engine, FiniteSets

CONSTANT Faults   \* what may go wrong: "crash" the process, "abort" a handler

ASSUME FaultsAssumption == Faults \subseteq {"crash", "abort"}

VARIABLES
  db,             \* the committed rows
  handler,        \* the handler that runs
  used            \* ids handed out so far; uuid4 does not repeat one

vars == <<tx, ctx, memory, db, handler, used>>

\* pc: "engine" inside the engine, "returned" before the commit that follows it,
\* "decided" before the commit of a decision, "lookup" after it.
Idle == [pc |-> "idle", run |-> NoRun, approval |-> NoApproval]

Handler ==
  {Idle}
    \cup [pc: {"engine", "returned"}, run: Run, approval: Approval \cup {NoApproval}]
    \cup [pc: {"decided", "lookup"}, run: {NoRun}, approval: Approval]

TypeOK ==
  /\ tx \in View
  /\ db \in View
  /\ ctx \in [Run -> Context]
  /\ memory \in Memory
  /\ handler \in Handler
  /\ used \in SUBSET (Run \cup Approval)

Init ==
  /\ tx = EmptyView
  /\ db = EmptyView
  /\ ctx = [r \in Run |-> NoContext]
  /\ memory = EmptyMemory
  /\ handler = Idle
  /\ used = {}

-----------------------------------------------------------------------------
(* POST /runs *)

\* Mutant: the new row is committed before the engine runs.
StartRun_CommitsFirst(r) ==
  /\ handler = Idle
  /\ r \notin used
  /\ tx' = CreateRun(db, r)
  /\ db' = tx'
  /\ ctx' = [ctx EXCEPT ![r] = NewContext]
  /\ handler' = [Idle EXCEPT !.pc = "engine", !.run = r]
  /\ used' = used \cup {r}
  /\ UNCHANGED memory

\* create_run, then engine.start_run on a new context.
StartRun(r) ==
  /\ handler = Idle
  /\ r \notin used
  /\ tx' = CreateRun(db, r)
  /\ ctx' = [ctx EXCEPT ![r] = NewContext]
  /\ handler' = [Idle EXCEPT !.pc = "engine", !.run = r]
  /\ used' = used \cup {r}
  /\ UNCHANGED <<memory, db>>

EngineStep ==
  /\ handler.pc = "engine"
  /\ Step(handler.run, Approval \ used)
  /\ handler' = [handler EXCEPT !.pc =
                   IF ctx'[handler.run].state = "IN_PROGRESS" THEN "engine" ELSE "returned"]
  /\ used' = used \cup {a \in Approval : tx'.owner[a] # NoRun}
  /\ UNCHANGED db

\* A context nobody but the handler refers to goes with it.
DropContext(r) ==
  IF r \in memory.waiting THEN ctx ELSE [ctx EXCEPT ![r] = NoContext]

\* The commit after engine.start_run or engine.resume_after_approval.
CommitRun ==
  /\ handler.pc = "returned"
  /\ db' = tx
  /\ ctx' = DropContext(handler.run)
  /\ handler' = Idle
  /\ UNCHANGED <<tx, memory, used>>

-----------------------------------------------------------------------------
(* POST /approvals/{id}/approve and /reject *)

\* Unknown ids get 404 and resolved ones 409, with nothing changed.  Otherwise the
\* decision and APPROVAL_RESOLVED are written.
ResolveApproval(a, d) ==
  /\ handler = Idle
  /\ Resolvable(db, a)
  /\ tx' = AppendRunEvent(ResolveApprovalRequest(db, a, d), db.owner[a], ApprovalResolved(a, d))
  /\ handler' = [Idle EXCEPT !.pc = "decided", !.approval = a]
  /\ UNCHANGED <<ctx, memory, db, used>>

\* Mutant: service.resume_after_approval is not called.
CommitDecision_ReturnsEarly ==
  /\ handler.pc = "decided"
  /\ db' = tx
  /\ handler' = Idle
  /\ UNCHANGED <<tx, ctx, memory, used>>

CommitDecision ==
  /\ handler.pc = "decided"
  /\ db' = tx
  /\ handler' = [handler EXCEPT !.pc = "lookup"]
  /\ UNCHANGED <<tx, ctx, memory, used>>

\* No mapping or no context: the handler answers without a resume_result.
NothingToResume ==
  /\ handler.pc = "lookup"
  /\ ~HasWaitingContext(memory, handler.approval)
  /\ handler' = Idle
  /\ UNCHANGED <<tx, ctx, memory, db, used>>

\* engine.resume_after_approval up to its first pass through the loop, or to the end.
Resume ==
  /\ handler.pc = "lookup"
  /\ HasWaitingContext(memory, handler.approval)
  /\ LET r == memory.approvalToRun[handler.approval] IN
       \/ /\ ResumeApproved(r)
          /\ handler' = [handler EXCEPT !.run = r, !.pc = "engine"]
       \/ /\ CancelRun(r)
          /\ handler' = [handler EXCEPT !.run = r, !.pc = "returned"]
  /\ UNCHANGED <<db, used>>

-----------------------------------------------------------------------------
(* Failures *)

\* The row of an approval request violates its foreign key.
ApprovalRequestRaises ==
  /\ handler.pc = "engine"
  /\ At(handler.run, "execute_tools")
  /\ ~CanCreateApprovalRequest
  /\ \E records \in Executions(ctx[handler.run].planned) : NeedsApproval(records)

\* The engine refuses to resume.
ResumeRaises ==
  /\ handler.pc = "lookup"
  /\ HasWaitingContext(memory, handler.approval)
  /\ ResumeRefused(memory.approvalToRun[handler.approval])

\* An exception leaves the handler: a store call raised, which also breaks the session, or
\* the engine did.
MayEscape ==
  \/ "abort" \in Faults /\ handler # Idle
  \/ ApprovalRequestRaises
  \/ ResumeRaises

\* The engine assigns context.state before it writes the status, so a store that raises in
\* between leaves a context the controller still holds ahead of its row.
InterruptedStates(r) ==
  IF handler.pc # "lookup" \/ ResumeRefused(r) THEN {ctx[r].state}
  ELSE {ctx[r].state,
        IF tx.decision[ctx[r].approval] = "APPROVED" THEN "IN_PROGRESS" ELSE "CANCELED"}

InterruptedRun ==
  IF handler.pc = "lookup" THEN memory.approvalToRun[handler.approval] ELSE handler.run

\* Closing the session rolls it back; the process's memory is not rolled back.
HandlerAborts ==
  /\ MayEscape
  /\ tx' = db
  /\ handler' = Idle
  /\ ctx' \in IF InterruptedRun \in memory.waiting
              THEN {[ctx EXCEPT ![InterruptedRun].state = s] : s \in InterruptedStates(InterruptedRun)}
              ELSE {[r \in Run |-> IF r = InterruptedRun THEN NoContext ELSE ctx[r]]}
  /\ UNCHANGED <<memory, db, used>>

\* The process dies and a new one starts with nothing but the database.
Crash ==
  /\ "crash" \in Faults
  /\ tx' = db
  /\ ctx' = [r \in Run |-> NoContext]
  /\ memory' = EmptyMemory
  /\ handler' = Idle
  /\ UNCHANGED <<db, used>>

-----------------------------------------------------------------------------
(* Reads, and what the writing handlers answer *)

\* get_latest_for_run, of the run's approvals, of which there is one at most.
LatestForRun(v, r) ==
  IF \E a \in Approval : v.owner[a] = r THEN CHOOSE a \in Approval : v.owner[a] = r
  ELSE NoApproval

\* _extract_response_text: the last final event that has a text, if any.
ExtractResponseText(events) ==
  LET final == {i \in 1..Len(events) :
        \/ events[i].type = "RUN_COMPLETED" /\ events[i].subject # Nothing
        \/ events[i].type = "RUN_FAILED"}
      last == CHOOSE i \in final : \A j \in final : j <= i
  IN IF final = {} THEN Nothing
     ELSE IF events[last].type = "RUN_FAILED" THEN "error" ELSE events[last].subject

\* get_run on view v; override is the response_text of the context POST /runs has at hand.
GetRun(v, r, override) ==
  LET latest == LatestForRun(v, r)
      pending == latest # NoApproval /\ v.decision[latest] = "PENDING"
      extracted == IF override # Nothing THEN override ELSE ExtractResponseText(v.trace[r])
  IN [status |-> v.status[r],
      response_text |-> IF extracted = Nothing /\ pending /\ v.status[r] = "WAITING_FOR_APPROVAL"
                        THEN "approval_required" ELSE extracted,
      last_error |-> v.lastError[r],
      approval_request_id |-> IF pending THEN latest ELSE NoApproval]

\* _serialize_resume_result.
ResumeResult(r) == [run_state |-> ctx[r].state, response_text |-> ctx[r].response]

-----------------------------------------------------------------------------
\* What a handler does once a request has come in.
HandlerStep ==
  \/ EngineStep
  \/ CommitRun
  \/ CommitDecision
  \/ NothingToResume
  \/ Resume

Request ==
  \/ \E r \in Run : StartRun(r)
  \/ \E a \in Approval, d \in {"APPROVED", "REJECTED"} : ResolveApproval(a, d)

Next == Request \/ HandlerStep \/ HandlerAborts \/ Crash

Spec == Init /\ [][Next]_vars

\* A handler runs to its end: its body is synchronous code.  Nobody has to send a request.
FairSpec == Spec /\ WF_vars(HandlerStep)
=============================================================================
