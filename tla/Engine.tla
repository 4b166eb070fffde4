------------------------------- MODULE Engine -------------------------------
(***************************************************************************)
(* OrchestratorEngine (orchestrator/engine.py, approval.py): one action    *)
(* per iteration of the step loop of _execute, and one per way             *)
(* resume_after_approval can go.  The engine works on the session's view   *)
(* tx, on RunContext objects and on the runtime controller's memory; who   *)
(* calls it and when tx is committed is Platform's business.               *)
(***************************************************************************)
EXTENDS Naturals, Store

CONSTANTS
  NoApproval,     \* approval_request_id is None
  Tool,           \* registered tools
  Risky,          \* those can_execute_without_approval refuses
  Plans           \* the tool lists plan_tools may return

ASSUME NoApprovalAssumption == NoApproval \notin Approval
ASSUME ToolAssumption == Risky \subseteq Tool /\ Plans \subseteq Seq(Tool)

VARIABLES
  tx,             \* the view of the session of the handler that runs
  ctx,            \* ctx[r]: the RunContext of r, NoContext when nothing refers to one
  memory          \* the runtime controller

INSTANCE RuntimeController

ToolStatus == {"SUCCEEDED", "FAILED", "APPROVAL_REQUIRED"}
Nothing == ""
Response == {"approved_preview", "approval_required", "tool_output", "grounded", "rejection"}

\* What a payload is about, and what it says.
Subject == Tool \cup Approval \cup Response \cup {Nothing}
Outcome == ToolStatus \cup ApprovalStatus \cup RunState \cup {Nothing}
TraceEvent == [type: EventType, subject: Subject, outcome: Outcome]

View == [status: [Run -> RunStatus], lastError: [Run -> BOOLEAN],
         trace: [Run -> Seq(TraceEvent)],
         owner: [Approval -> Run \cup {NoRun}], decision: [Approval -> ApprovalDecision]]

ToolRecord == [tool: Tool, status: ToolStatus]

Context == [state: RunStatus, step: RunStep \cup {NoStep}, planned: Seq(Tool),
            records: Seq(ToolRecord), response: Response \cup {Nothing},
            approval: Approval \cup {NoApproval}]

NewContext == [state |-> "PENDING", step |-> NoStep, planned |-> << >>, records |-> << >>,
               response |-> Nothing, approval |-> NoApproval]
NoContext == [NewContext EXCEPT !.state = "NONE"]

-----------------------------------------------------------------------------
(* Events. *)

RunStarted == Event("RUN_STARTED", Nothing, Nothing)
RetrievalCompleted == Event("RETRIEVAL_COMPLETED", Nothing, Nothing)
ModelSelected == Event("MODEL_SELECTED", Nothing, Nothing)
ApprovalRequested(a) == Event("APPROVAL_REQUESTED", a, "PENDING")
ApprovalResolved(a, d) == Event("APPROVAL_RESOLVED", a, d)
\* Mutant: the two payload fields swapped.
RunCompleted_Swapped(response, final) == Event("RUN_COMPLETED", final, response)
RunCompleted(response, final) == Event("RUN_COMPLETED", response, final)
RunFailed == Event("RUN_FAILED", Nothing, "FAILED")

ToolsCalled(plan) == [i \in 1..Len(plan) |-> Event("TOOL_CALLED", plan[i], Nothing)]
ToolResults(records) ==
  [i \in 1..Len(records) |-> Event("TOOL_RESULT_RECEIVED", records[i].tool, records[i].status)]

-----------------------------------------------------------------------------
(* Collaborators: what they may return. *)

\* A risky tool ends in APPROVAL_REQUIRED or fails; the others succeed or fail.
StatusesOf(t) == {"FAILED"} \cup (IF t \in Risky THEN {"APPROVAL_REQUIRED"} ELSE {"SUCCEEDED"})

NeedsApproval(records) == \E i \in 1..Len(records) : records[i].status = "APPROVAL_REQUIRED"

\* Mutant: a failed tool ends the execution too.
IsExecution_StopsAtFailure(plan, records) ==
  \A i \in 1..Len(records) :
    /\ records[i].tool = plan[i]
    /\ records[i].status \in StatusesOf(plan[i])
    /\ records[i].status # "SUCCEEDED" => i = Len(records)

\* execute_tools runs the plan in order and returns at the first tool that needs approval.
IsExecution(plan, records) ==
  /\ \A i \in 1..Len(records) :
       /\ records[i].tool = plan[i]
       /\ records[i].status \in StatusesOf(plan[i])
       /\ records[i].status = "APPROVAL_REQUIRED" => i = Len(records)
  /\ Len(records) = Len(plan) \/ NeedsApproval(records)

Executions(plan) ==
  {records \in UNION {[1..n -> ToolRecord] : n \in 0..Len(plan)} : IsExecution(plan, records)}

\* Mutant: the gateway does not look at the approval.
GenerateResponseText_IgnoresApproval(c) ==
  IF NeedsApproval(c.records) THEN "approval_required" ELSE "grounded"

\* generate_response of the gateway.
GenerateResponseText(c) ==
  IF NeedsApproval(c.records)
  THEN IF c.approval # NoApproval /\ c.state = "IN_PROGRESS"
       THEN "approved_preview" ELSE "approval_required"
  ELSE IF \E i \in 1..Len(c.records) : c.records[i].status = "SUCCEEDED"
       THEN "tool_output" ELSE "grounded"

-----------------------------------------------------------------------------
(* _execute: the step loop. *)

CurrentStep(c) == IF c.step = NoStep THEN NextStep(NoStep) ELSE c.step
At(r, step) == ctx[r].state = "IN_PROGRESS" /\ CurrentStep(ctx[r]) = step
Advance(c) == [c EXCEPT !.step = NextStep(CurrentStep(c))]

\* PENDING: move to IN_PROGRESS and record RUN_STARTED.
Begin(r) ==
  /\ ctx[r].state = "PENDING"
  /\ CanTransition(ctx[r].state, "IN_PROGRESS")
  /\ ctx' = [ctx EXCEPT ![r].state = "IN_PROGRESS"]
  /\ tx' = AppendRunEvent(UpdateRunStatus(tx, r, "IN_PROGRESS", FALSE), r, RunStarted)
  /\ UNCHANGED memory

Classify(r) ==
  /\ At(r, "classify")
  /\ ctx' = [ctx EXCEPT ![r] = Advance(@)]
  /\ UNCHANGED <<tx, memory>>

RetrieveContext(r) ==
  /\ At(r, "retrieve_context")
  /\ ctx' = [ctx EXCEPT ![r] = Advance(@)]
  /\ tx' = AppendRunEvent(tx, r, RetrievalCompleted)
  /\ UNCHANGED memory

\* Mutant: the step is not advanced.
DecideTools_Repeats(r) ==
  /\ At(r, "decide_tools")
  /\ \E plan \in Plans : ctx' = [ctx EXCEPT ![r].planned = plan]
  /\ UNCHANGED <<tx, memory>>

DecideTools(r) ==
  /\ At(r, "decide_tools")
  /\ \E plan \in Plans : ctx' = [ctx EXCEPT ![r] = [Advance(@) EXCEPT !.planned = plan]]
  /\ UNCHANGED <<tx, memory>>

\* TOOL_CALLED for the whole plan, the execution, one TOOL_RESULT_RECEIVED per record.
AfterTools(r, records) ==
  AppendRunEvents(tx, r, ToolsCalled(ctx[r].planned) \o ToolResults(records))

\* Mutant: execution_result.requires_approval is not looked at.
ExecuteTools_IgnoresApproval(r) ==
  /\ At(r, "execute_tools")
  /\ \E records \in Executions(ctx[r].planned) :
       /\ ctx' = [ctx EXCEPT ![r].records = records, ![r].step = "generate_response"]
       /\ tx' = AfterTools(r, records)
  /\ UNCHANGED memory

\* No executed tool needs approval: straight to the response.
ExecuteTools(r) ==
  /\ At(r, "execute_tools")
  /\ \E records \in Executions(ctx[r].planned) :
       /\ ~NeedsApproval(records)
       /\ ctx' = [ctx EXCEPT ![r].records = records, ![r].step = "generate_response"]
       /\ tx' = AfterTools(r, records)
  /\ UNCHANGED memory

\* _request_approval, called in the same iteration when a tool needs approval: approval
\* row and APPROVAL_REQUESTED, WAITING_FOR_APPROVAL without an event, runtime hooks.  It
\* raises, and so does the _fail_run that catches it, if the row cannot be created.
RequestApproval(r, a) ==
  /\ At(r, "execute_tools")
  /\ CanCreateApprovalRequest
  /\ CanTransition(ctx[r].state, "WAITING_FOR_APPROVAL")
  /\ \E records \in Executions(ctx[r].planned) :
       /\ NeedsApproval(records)
       /\ ctx' = [ctx EXCEPT ![r].records = records, ![r].step = "request_approval_if_needed",
                             ![r].approval = a, ![r].state = "WAITING_FOR_APPROVAL"]
       /\ tx' = UpdateRunStatus(
                  AppendRunEvent(CreateApprovalRequest(AfterTools(r, records), a, r),
                                 r, ApprovalRequested(a)),
                  r, "WAITING_FOR_APPROVAL", FALSE)
  /\ memory' = OnWaitingForApproval(StoreWaitingContext(memory, r, a), r, a)

GenerateResponse(r) ==
  /\ At(r, "generate_response")
  /\ ctx' = [ctx EXCEPT ![r] = [Advance(@) EXCEPT !.response = GenerateResponseText(ctx[r])]]
  /\ tx' = AppendRunEvent(tx, r, ModelSelected)
  /\ UNCHANGED memory

Complete(r) ==
  /\ At(r, "complete")
  /\ CanTransition(ctx[r].state, "COMPLETED")
  /\ ctx' = [ctx EXCEPT ![r].state = "COMPLETED"]
  /\ tx' = AppendRunEvent(UpdateRunStatus(tx, r, "COMPLETED", FALSE), r,
                          RunCompleted(ctx[r].response, "COMPLETED"))
  /\ memory' = OnRunCompleted(memory, r)

\* The events a step has recorded when its collaborator raises.
RecordedBeforeFailure(c) ==
  IF CurrentStep(c) = "execute_tools" THEN {ToolsCalled(c.planned)}
  ELSE {<< >>} \cup (IF CurrentStep(c) = "generate_response" THEN {<<ModelSelected>>} ELSE {})

\* The gateway, the retrieval service or the tool adapter raises: _fail_run.
CollaboratorFails(r) ==
  /\ ctx[r].state = "IN_PROGRESS"
  /\ CurrentStep(ctx[r]) # "complete"
  /\ CanTransition(ctx[r].state, "FAILED")
  /\ ctx' = [ctx EXCEPT ![r].state = "FAILED"]
  /\ \E es \in RecordedBeforeFailure(ctx[r]) :
       tx' = AppendRunEvent(UpdateRunStatus(AppendRunEvents(tx, r, es), r, "FAILED", TRUE),
                            r, RunFailed)
  /\ memory' = OnRunCompleted(memory, r)

-----------------------------------------------------------------------------
(* resume_after_approval(context, record_resolution_event=False). *)

\* It raises unless the context waits and its approval is no longer pending.
ResumeRefused(r) ==
  \/ ctx[r].state # "WAITING_FOR_APPROVAL"
  \/ ctx[r].approval = NoApproval
  \/ tx.decision[ctx[r].approval] = "PENDING"

\* Mutant: any decision resumes.
ResumeApproved_AnyDecision(r) ==
  /\ ~ResumeRefused(r)
  /\ CanTransition(ctx[r].state, "IN_PROGRESS")
  /\ ctx' = [ctx EXCEPT ![r].state = "IN_PROGRESS", ![r].step = "generate_response"]
  /\ tx' = UpdateRunStatus(tx, r, "IN_PROGRESS", FALSE)
  /\ memory' = OnRunResumed(memory, r)

\* Mutant: record_resolution_event left at its default.
ResumeApproved_RecordsResolution(r) ==
  /\ ~ResumeRefused(r)
  /\ tx.decision[ctx[r].approval] = "APPROVED"
  /\ CanTransition(ctx[r].state, "IN_PROGRESS")
  /\ ctx' = [ctx EXCEPT ![r].state = "IN_PROGRESS", ![r].step = "generate_response"]
  /\ tx' = UpdateRunStatus(
             AppendRunEvent(tx, r, ApprovalResolved(ctx[r].approval, "APPROVED")),
             r, "IN_PROGRESS", FALSE)
  /\ memory' = OnRunResumed(memory, r)

\* Approved: back to IN_PROGRESS without an event, and on to the response.
ResumeApproved(r) ==
  /\ ~ResumeRefused(r)
  /\ tx.decision[ctx[r].approval] = "APPROVED"
  /\ CanTransition(ctx[r].state, "IN_PROGRESS")
  /\ ctx' = [ctx EXCEPT ![r].state = "IN_PROGRESS", ![r].step = "generate_response"]
  /\ tx' = UpdateRunStatus(tx, r, "IN_PROGRESS", FALSE)
  /\ memory' = OnRunResumed(memory, r)

\* Mutant: no RUN_COMPLETED event.
CancelRun_NoEvent(r) ==
  /\ ~ResumeRefused(r)
  /\ tx.decision[ctx[r].approval] # "APPROVED"
  /\ ctx' = [ctx EXCEPT ![r].state = "CANCELED"]
  /\ tx' = UpdateRunStatus(tx, r, "CANCELED", FALSE)
  /\ memory' = OnRunCompleted(memory, r)

\* Anything else: _cancel_run.
CancelRun(r) ==
  /\ ~ResumeRefused(r)
  /\ tx.decision[ctx[r].approval] # "APPROVED"
  /\ CanTransition(ctx[r].state, "CANCELED")
  /\ ctx' = [ctx EXCEPT ![r].state = "CANCELED"]
  /\ tx' = AppendRunEvent(UpdateRunStatus(tx, r, "CANCELED", FALSE), r,
                          RunCompleted("rejection", "CANCELED"))
  /\ memory' = OnRunCompleted(memory, r)

-----------------------------------------------------------------------------
\* One iteration of the loop; fresh is the id the approval store may generate.
Step(r, fresh) ==
  \/ Begin(r)
  \/ Classify(r)
  \/ RetrieveContext(r)
  \/ DecideTools(r)
  \/ ExecuteTools(r)
  \/ \E a \in fresh : RequestApproval(r, a)
  \/ GenerateResponse(r)
  \/ Complete(r)
  \/ CollaboratorFails(r)
=============================================================================
