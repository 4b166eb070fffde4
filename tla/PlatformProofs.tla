--------------------------- MODULE PlatformProofs ---------------------------
(***************************************************************************)
(* Proofs about Platform, for any sets of runs, approvals and tools, any   *)
(* tool plans and any faults, foreign keys enforced or not.                *)
(***************************************************************************)
EXTENDS PlatformProperties, SequenceTheorems, FiniteSetTheorems, TLAPS

-----------------------------------------------------------------------------
(* The repositories map views to views. *)

\* update_run_status maps views to views.
LEMMA UpdateRunStatusType ==
  ASSUME NEW v \in View, NEW r \in Run, NEW s \in RunStatus, NEW b \in BOOLEAN
  PROVE  UpdateRunStatus(v, r, s, b) \in View
BY DEF UpdateRunStatus, View

\* So does any change of one run's trace to a sequence of events.
LEMMA TraceUpdateType ==
  ASSUME NEW v \in View, NEW r \in Run, NEW t \in Seq(TraceEvent)
  PROVE  [v EXCEPT !.trace[r] = t] \in View
<1>1. [v.trace EXCEPT ![r] = t] \in [Run -> Seq(TraceEvent)]
  BY DEF View
<1> QED
  BY <1>1 DEF View

\* The number of the next event is the one after the length of the trace, so it is free and
\* leaves no gap.  (_next_sequence; the unique key of run_event.py:22 is never violated)
LEMMA NextSequenceIsFree ==
  ASSUME NEW v \in View, NEW r \in Run
  PROVE  /\ NextSequence(v, r) = Len(v.trace[r]) + 1
         /\ NextSequence(v, r) \notin DOMAIN v.trace[r]
<1> DEFINE n == Len(v.trace[r])
           numbers == {0} \cup DOMAIN v.trace[r]
<1>1. v.trace[r] \in Seq(TraceEvent)
  BY DEF View
<1>2. n \in Nat /\ DOMAIN v.trace[r] = 1..n
  BY <1>1
<1> HIDE DEF n
<1>3. \A m \in numbers : (\A y \in numbers : m >= y) <=> m = n
  BY <1>2
<1>4. n \in numbers
  BY <1>2
<1>5. Max(numbers) = n
  <2> HIDE DEF numbers
  <2> QED
    BY <1>3, <1>4 DEF Max
<1> QED
  BY <1>2, <1>5 DEF NextSequence, n

\* The rows under the next numbers, and those there were, are a sequence.
LEMMA NumberedRows ==
  ASSUME NEW S, NEW t \in Seq(S), NEW es \in Seq(S)
  PROVE  LET first == Len(t) + 1
             new == first..(first + Len(es) - 1)
         IN [i \in DOMAIN t \cup new |-> IF i \in new THEN es[i - first + 1] ELSE t[i]] = t \o es
<1> DEFINE n == Len(t)
           m == Len(es)
           new == (n + 1)..(n + 1 + m - 1)
           u == [i \in DOMAIN t \cup new |-> IF i \in new THEN es[i - (n + 1) + 1] ELSE t[i]]
<1>1. n \in Nat /\ m \in Nat /\ DOMAIN t = 1..n
  OBVIOUS
<1>2. DOMAIN t \cup new = 1..(n + m)
  BY <1>1
<1>3. /\ t \o es \in Seq(S) /\ Len(t \o es) = n + m
      /\ \A i \in 1..(n + m) : (t \o es)[i] = IF i <= n THEN t[i] ELSE es[i - n]
  BY ConcatProperties
<1>4. ASSUME NEW i \in 1..(n + m)
      PROVE  /\ u[i] = IF i \in new THEN es[i - (n + 1) + 1] ELSE t[i]
             /\ i \in new <=> ~(i <= n)
             /\ i - (n + 1) + 1 = i - n
  BY <1>1, <1>2
<1>5. \A i \in 1..(n + m) : u[i] = (t \o es)[i]
  BY <1>3, <1>4
<1>6. u \in Seq(S) /\ Len(u) = n + m
  <2>1. DOMAIN u = 1..(n + m) /\ n + m \in Nat
    BY <1>1, <1>2
  <2>2. \A i \in 1..(n + m) : u[i] \in S
    BY <1>1, <1>3, <1>5
  <2>3. u = [i \in 1..(n + m) |-> u[i]]
    BY <1>2
  <2> HIDE DEF u
  <2> QED
    BY <2>1, <2>2, <2>3
<1> HIDE DEF u, n, m
<1>7. u = t \o es
  BY <1>3, <1>5, <1>6, SeqEqual
<1> QED
  BY <1>7 DEF u, n, m, new

\* append_run_event, called for one event after another, extends the run's trace by them.
LEMMA AppendRunEventsExtends ==
  ASSUME NEW v \in View, NEW r \in Run, NEW S, NEW es \in Seq(S)
  PROVE  AppendRunEvents(v, r, es) = [v EXCEPT !.trace[r] = v.trace[r] \o es]
<1>1. v.trace[r] \in Seq(TraceEvent \cup S) /\ es \in Seq(TraceEvent \cup S)
  BY DEF View
<1>2. NextSequence(v, r) = Len(v.trace[r]) + 1
  BY NextSequenceIsFree
<1> QED
  BY <1>1, <1>2, NumberedRows DEF AppendRunEvents

\* For one event that is Append.
LEMMA AppendRunEventAppends ==
  ASSUME NEW v \in View, NEW r \in Run, NEW e
  PROVE  AppendRunEvent(v, r, e) = [v EXCEPT !.trace[r] = Append(v.trace[r], e)]
<1>1. <<e>> \in Seq({e})
  OBVIOUS
<1>2. v.trace[r] \in Seq(TraceEvent \cup {e})
  BY DEF View
<1>3. Append(v.trace[r], e) = v.trace[r] \o <<e>>
  BY <1>2, AppendIsConcat
<1>4. AppendRunEvents(v, r, <<e>>) = [v EXCEPT !.trace[r] = v.trace[r] \o <<e>>]
  <2> DEFINE S == {e}
             es == <<e>>
  <2>1. es \in Seq(S)
    BY <1>1
  <2> HIDE DEF S, es
  <2>2. AppendRunEvents(v, r, es) = [v EXCEPT !.trace[r] = v.trace[r] \o es]
    BY <2>1, AppendRunEventsExtends
  <2> QED
    BY <2>2 DEF es
<1> QED
  BY <1>3, <1>4 DEF AppendRunEvent

\* append_run_event maps views to views.
LEMMA AppendRunEventType ==
  ASSUME NEW v \in View, NEW r \in Run, NEW e \in TraceEvent
  PROVE  AppendRunEvent(v, r, e) \in View
<1>1. v.trace[r] \in Seq(TraceEvent)
  BY DEF View
<1> DEFINE t == Append(v.trace[r], e)
<1>2. t \in Seq(TraceEvent)
  BY <1>1, AppendProperties
<1>3. AppendRunEvent(v, r, e) = [v EXCEPT !.trace[r] = t]
  BY AppendRunEventAppends
<1> HIDE DEF t
<1> QED
  BY <1>2, <1>3, TraceUpdateType

\* So does recording several events.
LEMMA AppendRunEventsType ==
  ASSUME NEW v \in View, NEW r \in Run, NEW es \in Seq(TraceEvent)
  PROVE  AppendRunEvents(v, r, es) \in View
<1>1. v.trace[r] \in Seq(TraceEvent)
  BY DEF View
<1> DEFINE t == v.trace[r] \o es
<1>2. t \in Seq(TraceEvent)
  BY <1>1, ConcatProperties
<1>3. AppendRunEvents(v, r, es) = [v EXCEPT !.trace[r] = t]
  BY AppendRunEventsExtends
<1> HIDE DEF t
<1> QED
  BY <1>2, <1>3, TraceUpdateType

\* create_approval_request maps views to views.
LEMMA CreateApprovalRequestType ==
  ASSUME NEW v \in View, NEW a \in Approval, NEW r \in Run
  PROVE  CreateApprovalRequest(v, a, r) \in View
BY DEF CreateApprovalRequest, View, ApprovalDecision, ApprovalStatus

\* resolve_approval_request maps views to views.
LEMMA ResolveApprovalRequestType ==
  ASSUME NEW v \in View, NEW a \in Approval, NEW d \in {"APPROVED", "REJECTED"}
  PROVE  ResolveApprovalRequest(v, a, d) \in View
BY DEF ResolveApprovalRequest, View, ApprovalDecision, ApprovalStatus

\* create_run maps views to views.
LEMMA CreateRunType ==
  ASSUME NEW v \in View, NEW r \in Run
  PROVE  CreateRun(v, r) \in View
BY DEF CreateRun, View, RunStatus, RunState

-----------------------------------------------------------------------------
(* What the engine writes has the right type. *)

\* The events the engine and the API record are trace events.
LEMMA EventsTyped ==
  /\ RunStarted \in TraceEvent
  /\ RetrievalCompleted \in TraceEvent
  /\ ModelSelected \in TraceEvent
  /\ RunFailed \in TraceEvent
  /\ \A a \in Approval : ApprovalRequested(a) \in TraceEvent
  /\ \A a \in Approval, d \in ApprovalStatus : ApprovalResolved(a, d) \in TraceEvent
  /\ \A response \in Response \cup {Nothing}, s \in RunState :
       RunCompleted(response, s) \in TraceEvent
BY DEF RunStarted, RetrievalCompleted, ModelSelected, RunFailed, ApprovalRequested,
       ApprovalResolved, RunCompleted, Event, TraceEvent, EventType, Subject, Outcome,
       Nothing, RunState, ApprovalStatus, ToolStatus

\* The TOOL_CALLED events of a plan.
LEMMA ToolsCalledType ==
  ASSUME NEW plan \in Seq(Tool)
  PROVE  ToolsCalled(plan) \in Seq(TraceEvent)
<1>1. Len(plan) \in Nat /\ \A i \in 1..Len(plan) : plan[i] \in Tool
  OBVIOUS
<1>2. \A i \in 1..Len(plan) : Event("TOOL_CALLED", plan[i], Nothing) \in TraceEvent
  BY <1>1 DEF Event, TraceEvent, EventType, Subject, Outcome, Nothing
<1> QED
  BY <1>1, <1>2, IsASeq DEF ToolsCalled

\* The TOOL_RESULT_RECEIVED events of an execution.
LEMMA ToolResultsType ==
  ASSUME NEW records \in Seq(ToolRecord)
  PROVE  ToolResults(records) \in Seq(TraceEvent)
<1>1. Len(records) \in Nat /\ \A i \in 1..Len(records) : records[i] \in ToolRecord
  OBVIOUS
<1>2. \A i \in 1..Len(records) :
        Event("TOOL_RESULT_RECEIVED", records[i].tool, records[i].status) \in TraceEvent
  BY <1>1 DEF Event, TraceEvent, EventType, Subject, Outcome, ToolRecord
<1> QED
  BY <1>1, <1>2, IsASeq DEF ToolResults

\* An execution is a sequence of tool records.
LEMMA ExecutionsType ==
  ASSUME NEW plan \in Seq(Tool), NEW records \in Executions(plan)
  PROVE  records \in Seq(ToolRecord)
<1>1. PICK n \in 0..Len(plan) : records \in [1..n -> ToolRecord]
  BY DEF Executions
<1>2. n \in Nat
  BY <1>1, LenProperties
<1> QED
  BY <1>1, <1>2

\* The view after the events of an execution.
LEMMA AfterToolsType ==
  ASSUME tx \in View, NEW r \in Run, ctx[r] \in Context,
         NEW records \in Executions(ctx[r].planned)
  PROVE  AfterTools(r, records) \in View
<1>1. ctx[r].planned \in Seq(Tool)
  BY DEF Context
<1>2. ToolsCalled(ctx[r].planned) \o ToolResults(records) \in Seq(TraceEvent)
  BY <1>1, ToolsCalledType, ToolResultsType, ExecutionsType, ConcatProperties
<1> QED
  BY <1>2, AppendRunEventsType DEF AfterTools

\* The gateway returns one of the responses.
LEMMA GenerateResponseTextType ==
  ASSUME NEW c \in Context
  PROVE  GenerateResponseText(c) \in Response
BY DEF GenerateResponseText, Response

\* Advancing the step keeps a context a context.
LEMMA AdvanceType ==
  ASSUME NEW c \in Context, CurrentStep(c) # "complete"
  PROVE  Advance(c) \in Context
<1>1. CurrentStep(c) \in RunStep
  BY DEF CurrentStep, NextStep, NoStep, RunStep, Context
<1>2. NextStep(CurrentStep(c)) \in RunStep
  BY <1>1 DEF NextStep, RunStep, NoStep
<1> QED
  BY <1>2 DEF Advance, Context

\* Each hook maps controller memories to controller memories.
LEMMA MemoryType ==
  ASSUME NEW m \in Memory, NEW r \in Run
  PROVE  /\ OnRunResumed(m, r) \in Memory
         /\ OnRunCompleted(m, r) \in Memory
         /\ \A a \in Approval : OnWaitingForApproval(m, r, a) \in Memory
         /\ \A a \in Approval : StoreWaitingContext(m, r, a) \in Memory
BY DEF Memory, OnRunResumed, OnRunCompleted, OnWaitingForApproval, StoreWaitingContext
\* What a failing step has recorded is a sequence of events.
LEMMA RecordedType ==
  ASSUME NEW c \in Context, NEW es \in RecordedBeforeFailure(c)
  PROVE  es \in Seq(TraceEvent)
<1>1. es \in {ToolsCalled(c.planned), << >>, <<ModelSelected>>}
  BY DEF RecordedBeforeFailure
<1>2. ModelSelected \in TraceEvent
  BY EventsTyped
<1>3. <<ModelSelected>> \in Seq(TraceEvent) /\ << >> \in Seq(TraceEvent)
  BY <1>2
<1>4. c.planned \in Seq(Tool)
  BY DEF Context
<1> QED
  BY <1>1, <1>3, <1>4, ToolsCalledType

-----------------------------------------------------------------------------
(* Type correctness *)

EngineTypeOK == tx \in View /\ ctx \in [Run -> Context] /\ memory \in Memory

\* An iteration of the loop keeps views, contexts and memory typed.
LEMMA EngineTypeStep ==
  ASSUME EngineTypeOK, NEW r \in Run, Step(r, Approval \ used)
  PROVE  EngineTypeOK'
<1> USE DEF EngineTypeOK
<1>1. CASE Begin(r)
  <2>1. tx' \in View
    BY <1>1, UpdateRunStatusType, AppendRunEventType, EventsTyped DEF Begin, RunStatus, RunState
  <2>2. ctx' \in [Run -> Context]
    BY <1>1 DEF Begin, Context, RunStatus, RunState
  <2> QED
    BY <1>1, <2>1, <2>2 DEF Begin
<1>2. CASE Classify(r)
  <2>1. ctx' \in [Run -> Context]
    BY <1>2, AdvanceType DEF Classify, At
  <2> QED
    BY <1>2, <2>1 DEF Classify
<1>3. CASE RetrieveContext(r)
  <2>1. ctx' \in [Run -> Context]
    BY <1>3, AdvanceType DEF RetrieveContext, At
  <2>2. tx' \in View
    BY <1>3, AppendRunEventType, EventsTyped DEF RetrieveContext
  <2> QED
    BY <1>3, <2>1, <2>2 DEF RetrieveContext
<1>4. CASE DecideTools(r)
  <2>1. PICK plan \in Plans : ctx' = [ctx EXCEPT ![r] = [Advance(@) EXCEPT !.planned = plan]]
    BY <1>4 DEF DecideTools
  <2>2. Advance(ctx[r]) \in Context
    BY <1>4, AdvanceType DEF DecideTools, At
  <2>3. [Advance(ctx[r]) EXCEPT !.planned = plan] \in Context
    BY <2>2, ToolAssumption DEF Context
  <2> QED
    BY <1>4, <2>1, <2>3 DEF DecideTools
<1>5. CASE ExecuteTools(r)
  <2>1. PICK records \in Executions(ctx[r].planned) :
          /\ ctx' = [ctx EXCEPT ![r].records = records, ![r].step = "generate_response"]
          /\ tx' = AfterTools(r, records)
    BY <1>5 DEF ExecuteTools
  <2>2. ctx[r] \in Context /\ ctx[r].planned \in Seq(Tool)
    BY DEF Context
  <2>3. records \in Seq(ToolRecord)
    BY <2>2, ExecutionsType
  <2>4. ctx' \in [Run -> Context]
    BY <2>1, <2>3 DEF Context, RunStep
  <2>5. tx' \in View
    BY <2>1, <2>2, AfterToolsType
  <2> QED
    BY <1>5, <2>4, <2>5 DEF ExecuteTools
<1>6. CASE \E a \in Approval \ used : RequestApproval(r, a)
  <2>1. PICK a \in Approval : RequestApproval(r, a)
    BY <1>6
  <2>2. PICK records \in Executions(ctx[r].planned) :
          /\ ctx' = [ctx EXCEPT ![r].records = records,
                                ![r].step = "request_approval_if_needed",
                                ![r].approval = a, ![r].state = "WAITING_FOR_APPROVAL"]
          /\ tx' = UpdateRunStatus(
                     AppendRunEvent(CreateApprovalRequest(AfterTools(r, records), a, r),
                                    r, ApprovalRequested(a)),
                     r, "WAITING_FOR_APPROVAL", FALSE)
    BY <2>1 DEF RequestApproval
  <2>3. ctx[r] \in Context /\ ctx[r].planned \in Seq(Tool)
    BY DEF Context
  <2>4. records \in Seq(ToolRecord)
    BY <2>3, ExecutionsType
  <2>9. [ctx[r] EXCEPT !.records = records, !.step = "request_approval_if_needed",
                       !.approval = a, !.state = "WAITING_FOR_APPROVAL"] \in Context
    BY <2>3, <2>4 DEF Context, RunStep, RunStatus, RunState
  <2>5. ctx' \in [Run -> Context]
    BY <2>2, <2>9
  <2>6. AfterTools(r, records) \in View
    BY <2>3, AfterToolsType
  <2>7. tx' \in View
    BY <2>2, <2>6, CreateApprovalRequestType, AppendRunEventType, UpdateRunStatusType,
       EventsTyped DEF RunStatus, RunState
  <2>8. memory' \in Memory
    BY <2>1, MemoryType DEF RequestApproval
  <2> QED
    BY <2>5, <2>7, <2>8
<1>7. CASE GenerateResponse(r)
  <2>1. Advance(ctx[r]) \in Context
    BY <1>7, AdvanceType DEF GenerateResponse, At
  <2>2. [Advance(ctx[r]) EXCEPT !.response = GenerateResponseText(ctx[r])] \in Context
    BY <2>1, GenerateResponseTextType DEF Context
  <2>3. tx' \in View
    BY <1>7, AppendRunEventType, EventsTyped DEF GenerateResponse
  <2> QED
    BY <1>7, <2>2, <2>3 DEF GenerateResponse
<1>8. CASE Complete(r)
  <2>1. ctx' \in [Run -> Context]
    BY <1>8 DEF Complete, Context, RunStatus, RunState
  <2>2. RunCompleted(ctx[r].response, "COMPLETED") \in TraceEvent
    BY EventsTyped DEF Context, RunState
  <2>3. tx' \in View
    BY <1>8, <2>2, UpdateRunStatusType, AppendRunEventType DEF Complete, RunStatus, RunState
  <2> QED
    BY <1>8, <2>1, <2>3, MemoryType DEF Complete
<1>9. CASE CollaboratorFails(r)
  <2>1. ctx' \in [Run -> Context]
    BY <1>9 DEF CollaboratorFails, Context, RunStatus, RunState
  <2>2. PICK es \in RecordedBeforeFailure(ctx[r]) :
          tx' = AppendRunEvent(UpdateRunStatus(AppendRunEvents(tx, r, es), r, "FAILED", TRUE),
                               r, RunFailed)
    BY <1>9 DEF CollaboratorFails
  <2>4. es \in Seq(TraceEvent)
    BY <2>2, RecordedType
  <2>5. tx' \in View
    BY <2>2, <2>4, AppendRunEventsType, UpdateRunStatusType, AppendRunEventType, EventsTyped
       DEF RunStatus, RunState
  <2> QED
    BY <1>9, <2>1, <2>5, MemoryType DEF CollaboratorFails
<1> QED
  BY <1>1, <1>2, <1>3, <1>4, <1>5, <1>6, <1>7, <1>8, <1>9 DEF Step

\* A new RunContext and the absence of one.
LEMMA NewContextType == NewContext \in Context /\ NoContext \in Context
<1>1. << >> \in Seq(Tool) /\ << >> \in Seq(ToolRecord)
  OBVIOUS
<1>2. NewContext \in Context
  BY <1>1 DEF NewContext, Context, RunStatus, RunState
<1> QED
  BY <1>2 DEF NoContext, Context, RunStatus

\* The types hold when the process starts.
LEMMA InitType == Init => TypeOK
<1> SUFFICES ASSUME Init PROVE TypeOK
  OBVIOUS
<1>1. EmptyView \in View
  <2>1. [r \in Run |-> << >>] \in [Run -> Seq(TraceEvent)]
    OBVIOUS
  <2>2. [r \in Run |-> FALSE] \in [Run -> BOOLEAN]
    OBVIOUS
  <2>3. [r \in Run |-> "NONE"] \in [Run -> RunStatus]
    BY DEF RunStatus
  <2>4. [a \in Approval |-> NoRun] \in [Approval -> Run \cup {NoRun}]
    OBVIOUS
  <2>5. [a \in Approval |-> "NONE"] \in [Approval -> ApprovalDecision]
    BY DEF ApprovalDecision
  <2> QED
    BY <2>1, <2>2, <2>3, <2>4, <2>5, ZenonT(30) DEF EmptyView, View
<1>2. NoContext \in Context
  BY NewContextType
<1>3. EmptyMemory \in Memory
  BY DEF EmptyMemory, Memory
<1> QED
  BY <1>1, <1>2, <1>3 DEF Init, TypeOK, Handler

\* The engine inside a handler keeps the types.
LEMMA EngineStepType ==
  ASSUME TypeOK, EngineStep
  PROVE  TypeOK'
<1>1. handler \in [pc: {"engine"}, run: Run, approval: Approval \cup {NoApproval}]
  BY DEF TypeOK, Handler, Idle, EngineStep
<1>2. EngineTypeOK'
  BY <1>1, EngineTypeStep DEF TypeOK, EngineStep, EngineTypeOK
<1>3. handler' \in Handler
  BY <1>1 DEF EngineStep, Handler
<1>4. used' \in SUBSET (Run \cup Approval)
  BY DEF EngineStep, TypeOK
<1> QED
  BY <1>2, <1>3, <1>4 DEF TypeOK, EngineTypeOK, EngineStep

\* So does resuming or canceling.
LEMMA ResumeType ==
  ASSUME TypeOK, Resume
  PROVE  TypeOK'
<1>1. handler \in [pc: {"lookup"}, run: {NoRun}, approval: Approval]
  BY DEF TypeOK, Handler, Idle, Resume
<1> DEFINE r == memory.approvalToRun[handler.approval]
<1>2. r \in Run
  BY DEF Resume, HasWaitingContext, TypeOK, Memory
<1>3. ctx[r] \in Context
  BY <1>2 DEF TypeOK
<1>4. CASE ResumeApproved(r) /\ handler' = [handler EXCEPT !.run = r, !.pc = "engine"]
  <2>1. [ctx[r] EXCEPT !.state = "IN_PROGRESS", !.step = "generate_response"] \in Context
    BY <1>3 DEF Context, RunStatus, RunState, RunStep
  <2>2. ctx' \in [Run -> Context]
    BY <1>4, <2>1 DEF ResumeApproved, TypeOK
  <2>3. tx' \in View
    BY <1>2, <1>4, UpdateRunStatusType DEF ResumeApproved, TypeOK, RunStatus, RunState
  <2>4. memory' \in Memory
    BY <1>2, <1>4, MemoryType DEF ResumeApproved, TypeOK
  <2>5. handler' \in Handler
    BY <1>1, <1>2, <1>4 DEF Handler
  <2> QED
    BY <2>2, <2>3, <2>4, <2>5 DEF TypeOK, Resume
<1>5. CASE CancelRun(r) /\ handler' = [handler EXCEPT !.run = r, !.pc = "returned"]
  <2>1. [ctx[r] EXCEPT !.state = "CANCELED"] \in Context
    BY <1>3 DEF Context, RunStatus, RunState
  <2>2. ctx' \in [Run -> Context]
    BY <1>5, <2>1 DEF CancelRun, TypeOK
  <2>3. RunCompleted("rejection", "CANCELED") \in TraceEvent
    BY EventsTyped DEF Response, RunState
  <2>4. tx' \in View
    BY <1>2, <1>5, <2>3, UpdateRunStatusType, AppendRunEventType
       DEF CancelRun, TypeOK, RunStatus, RunState
  <2>5. memory' \in Memory
    BY <1>2, <1>5, MemoryType DEF CancelRun, TypeOK
  <2>6. handler' \in Handler
    BY <1>1, <1>2, <1>5 DEF Handler
  <2> QED
    BY <2>2, <2>4, <2>5, <2>6 DEF TypeOK, Resume
<1> QED
  BY <1>4, <1>5 DEF Resume

\* So does a handler that is rolled back.
LEMMA HandlerAbortsType ==
  ASSUME TypeOK, HandlerAborts
  PROVE  TypeOK'
<1>1. ctx' \in [Run -> Context]
  <2>1. CASE InterruptedRun \in memory.waiting
    <3>1. PICK s \in InterruptedStates(InterruptedRun) :
            ctx' = [ctx EXCEPT ![InterruptedRun].state = s]
      BY <2>1 DEF HandlerAborts
    <3>2. InterruptedRun \in Run
      BY <2>1 DEF TypeOK, Memory
    <3>3. ctx[InterruptedRun] \in Context
      BY <3>2 DEF TypeOK
    <3>4. s \in RunStatus
      BY <3>1, <3>3 DEF InterruptedStates, Context, RunStatus, RunState
    <3>5. [ctx[InterruptedRun] EXCEPT !.state = s] \in Context
      BY <3>3, <3>4 DEF Context
    <3> QED
      BY <3>1, <3>5 DEF TypeOK
  <2>2. CASE InterruptedRun \notin memory.waiting
    <3>1. ctx' = [q \in Run |-> IF q = InterruptedRun THEN NoContext ELSE ctx[q]]
      BY <2>2 DEF HandlerAborts
    <3> QED
      BY <3>1, NewContextType DEF TypeOK
  <2> QED
    BY <2>1, <2>2
<1> QED
  BY <1>1 DEF HandlerAborts, TypeOK, Handler

\* Every step of the platform keeps the types.
LEMMA TypeStep == TypeOK /\ [Next]_vars => TypeOK'
<1> SUFFICES ASSUME TypeOK, [Next]_vars PROVE TypeOK'
  OBVIOUS
<1>1. CASE UNCHANGED vars
  BY <1>1 DEF TypeOK, vars
<1>2. ASSUME NEW r \in Run, StartRun(r) PROVE TypeOK'
  <2>1. tx' \in View
    BY <1>2, CreateRunType DEF StartRun, TypeOK
  <2>2. handler' \in Handler
    BY <1>2 DEF StartRun, Handler, Idle
  <2> QED
    BY <1>2, <2>1, <2>2, NewContextType DEF StartRun, TypeOK
<1>3. ASSUME NEW a \in Approval, NEW d \in {"APPROVED", "REJECTED"}, ResolveApproval(a, d)
      PROVE  TypeOK'
  <2>1. db.owner[a] \in Run
    BY <1>3 DEF ResolveApproval, Resolvable, TypeOK, View
  <2>2. ApprovalResolved(a, d) \in TraceEvent
    BY EventsTyped DEF ApprovalStatus
  <2>3. tx' \in View
    BY <1>3, <2>1, <2>2, ResolveApprovalRequestType, AppendRunEventType
       DEF ResolveApproval, TypeOK
  <2>4. handler' \in Handler
    BY <1>3 DEF ResolveApproval, Handler, Idle
  <2> QED
    BY <1>3, <2>3, <2>4 DEF ResolveApproval, TypeOK
<1>4. CASE EngineStep
  BY <1>4, EngineStepType
<1>5. CASE CommitRun
  BY <1>5, NewContextType DEF CommitRun, DropContext, TypeOK, Handler
<1>6. CASE CommitDecision
  <2>1. handler \in [pc: {"decided"}, run: {NoRun}, approval: Approval]
    BY <1>6 DEF CommitDecision, TypeOK, Handler, Idle
  <2>2. handler' \in Handler
    BY <1>6, <2>1 DEF CommitDecision, Handler
  <2> QED
    BY <1>6, <2>2 DEF CommitDecision, TypeOK
<1>7. CASE NothingToResume
  BY <1>7 DEF NothingToResume, TypeOK, Handler
<1>8. CASE Resume
  BY <1>8, ResumeType
<1>9. CASE HandlerAborts
  BY <1>9, HandlerAbortsType
<1>10. CASE Crash
  BY <1>10, NewContextType, InitType DEF Crash, TypeOK, Handler, EmptyMemory, Memory
<1> QED
  BY <1>1, <1>2, <1>3, <1>4, <1>5, <1>6, <1>7, <1>8, <1>9, <1>10
     DEF Next, Request, HandlerStep

\* Every variable keeps its type: contexts, rows and traces are well formed, and a handler
\* always has the run or the approval it works on.
THEOREM TypeCorrect == Spec => []TypeOK
BY InitType, TypeStep, PTL DEF Spec

-----------------------------------------------------------------------------
(* Traces only grow *)

\* Sequence t begins with s.
Extends(s, t) == Len(s) <= Len(t) /\ \A i \in 1..Len(s) : s[i] = t[i]

\* View w keeps every event of view v, in its place.
Grows(v, w) == \A r \in Run : Extends(v.trace[r], w.trace[r])

\* A session has lost no event of a committed trace.
SessionExtendsTraces == TypeOK /\ Grows(db, tx)

\* Unchanged traces have grown.
LEMMA GrowsSame ==
  ASSUME NEW v \in View, NEW w, w.trace = v.trace
  PROVE  Grows(v, w)
<1>1. \A r \in Run : Len(v.trace[r]) \in Nat
  BY DEF View
<1> QED
  BY <1>1 DEF Grows, Extends

\* What has grown twice has grown.
LEMMA GrowsTwice ==
  ASSUME NEW u \in View, NEW v \in View, NEW w \in View, Grows(u, v), Grows(v, w)
  PROVE  Grows(u, w)
<1> SUFFICES ASSUME NEW r \in Run PROVE Extends(u.trace[r], w.trace[r])
  BY DEF Grows
<1>1. Extends(u.trace[r], v.trace[r]) /\ Extends(v.trace[r], w.trace[r])
  BY DEF Grows
<1>2. /\ Len(u.trace[r]) \in Nat
      /\ Len(v.trace[r]) \in Nat
      /\ Len(w.trace[r]) \in Nat
  BY DEF View
<1>3. Len(u.trace[r]) <= Len(w.trace[r])
  BY <1>1, <1>2 DEF Extends
<1>4. ASSUME NEW i \in 1..Len(u.trace[r])
      PROVE  u.trace[r][i] = w.trace[r][i]
  <2>1. i \in 1..Len(v.trace[r])
    BY <1>1, <1>2 DEF Extends
  <2> QED
    BY <1>1, <2>1 DEF Extends
<1> QED
  BY <1>3, <1>4 DEF Extends

\* Replacing one trace by an extension of it.
LEMMA GrowsTraceUpdate ==
  ASSUME NEW v \in View, NEW r \in Run, NEW t, Extends(v.trace[r], t)
  PROVE  Grows(v, [v EXCEPT !.trace[r] = t])
<1> DEFINE w == [v EXCEPT !.trace[r] = t]
<1>1. \A q \in Run : w.trace[q] = IF q = r THEN t ELSE v.trace[q]
  BY DEF View
<1>2. \A q \in Run : Len(v.trace[q]) \in Nat
  BY DEF View
<1> HIDE DEF w
<1>3. Grows(v, w)
  BY <1>1, <1>2 DEF Grows, Extends
<1> QED
  BY <1>3 DEF w

\* append_run_event adds an event after the last one.
LEMMA AppendRunEventGrows ==
  ASSUME NEW v \in View, NEW r \in Run, NEW e \in TraceEvent
  PROVE  Grows(v, AppendRunEvent(v, r, e))
<1>1. v.trace[r] \in Seq(TraceEvent)
  BY DEF View
<1>2. Extends(v.trace[r], Append(v.trace[r], e))
  BY <1>1, AppendProperties DEF Extends
<1>3. AppendRunEvent(v, r, e) = [v EXCEPT !.trace[r] = Append(v.trace[r], e)]
  BY AppendRunEventAppends
<1>4. Grows(v, [v EXCEPT !.trace[r] = Append(v.trace[r], e)])
  BY <1>2, GrowsTraceUpdate
<1> QED
  BY <1>3, <1>4

\* So does recording several events.
LEMMA AppendRunEventsGrows ==
  ASSUME NEW v \in View, NEW r \in Run, NEW es \in Seq(TraceEvent)
  PROVE  Grows(v, AppendRunEvents(v, r, es))
<1>1. v.trace[r] \in Seq(TraceEvent) /\ Len(v.trace[r]) \in Nat /\ Len(es) \in Nat
  BY DEF View
<1>2. Extends(v.trace[r], v.trace[r] \o es)
  BY <1>1, ConcatProperties DEF Extends
<1>3. AppendRunEvents(v, r, es) = [v EXCEPT !.trace[r] = v.trace[r] \o es]
  BY AppendRunEventsExtends
<1>4. Grows(v, [v EXCEPT !.trace[r] = v.trace[r] \o es])
  BY <1>2, GrowsTraceUpdate
<1> QED
  BY <1>3, <1>4

\* The other repository methods leave traces alone.
LEMMA OtherMethodsKeepTraces ==
  ASSUME NEW v \in View, NEW r \in Run, NEW a \in Approval, NEW s, NEW b, NEW d
  PROVE  /\ UpdateRunStatus(v, r, s, b).trace = v.trace
         /\ CreateRun(v, r).trace = v.trace
         /\ CreateApprovalRequest(v, a, r).trace = v.trace
         /\ ResolveApprovalRequest(v, a, d).trace = v.trace
BY DEF View, UpdateRunStatus, CreateRun, CreateApprovalRequest, ResolveApprovalRequest

\* A status and an event, as the engine writes them together.
LEMMA StatusAndEventGrow ==
  ASSUME NEW v \in View, NEW r \in Run, NEW s \in RunStatus, NEW b \in BOOLEAN,
         NEW e \in TraceEvent
  PROVE  Grows(v, AppendRunEvent(UpdateRunStatus(v, r, s, b), r, e))
<1> DEFINE u == UpdateRunStatus(v, r, s, b)
<1>1. u \in View
  BY UpdateRunStatusType
<1>2. u.trace = v.trace
  BY DEF View, UpdateRunStatus
<1> HIDE DEF u
<1>3. Grows(u, AppendRunEvent(u, r, e))
  BY <1>1, AppendRunEventGrows
<1>4. Grows(v, AppendRunEvent(u, r, e))
  BY <1>2, <1>3 DEF Grows
<1> QED
  BY <1>4 DEF u

\* An iteration of the engine's loop adds events.
LEMMA EngineGrows ==
  ASSUME EngineTypeOK, NEW r \in Run, NEW fresh \in SUBSET Approval, Step(r, fresh)
  PROVE  Grows(tx, tx')
<1>1. tx \in View /\ ctx[r] \in Context
  BY DEF EngineTypeOK
<1>2. \A s \in RunState : s \in RunStatus
  BY DEF RunStatus
<1>3. {"IN_PROGRESS", "COMPLETED", "FAILED", "WAITING_FOR_APPROVAL"} \subseteq RunStatus
  BY DEF RunStatus, RunState
<1>4. ASSUME NEW records \in Executions(ctx[r].planned)
      PROVE  AfterTools(r, records) \in View /\ Grows(tx, AfterTools(r, records))
  <2>1. ctx[r].planned \in Seq(Tool)
    BY <1>1 DEF Context
  <2>2. ToolsCalled(ctx[r].planned) \o ToolResults(records) \in Seq(TraceEvent)
    BY <2>1, ToolsCalledType, ToolResultsType, ExecutionsType, ConcatProperties
  <2> QED
    BY <1>1, <2>2, AppendRunEventsType, AppendRunEventsGrows DEF AfterTools
<1>5. CASE Begin(r)
  BY <1>1, <1>3, <1>5, StatusAndEventGrow, EventsTyped DEF Begin
<1>6. CASE Classify(r) \/ DecideTools(r)
  BY <1>1, <1>6, GrowsSame DEF Classify, DecideTools
<1>7. CASE RetrieveContext(r)
  BY <1>1, <1>7, AppendRunEventGrows, EventsTyped DEF RetrieveContext
<1>8. CASE ExecuteTools(r)
  BY <1>4, <1>8 DEF ExecuteTools
<1>9. ASSUME NEW a \in fresh, RequestApproval(r, a) PROVE Grows(tx, tx')
  <2>1. PICK records \in Executions(ctx[r].planned) :
          tx' = UpdateRunStatus(
                  AppendRunEvent(CreateApprovalRequest(AfterTools(r, records), a, r),
                                 r, ApprovalRequested(a)),
                  r, "WAITING_FOR_APPROVAL", FALSE)
    BY <1>9 DEF RequestApproval
  <2> DEFINE called == AfterTools(r, records)
             created == CreateApprovalRequest(called, a, r)
             asked == AppendRunEvent(created, r, ApprovalRequested(a))
  <2>2. called \in View /\ Grows(tx, called)
    BY <1>4
  <2> HIDE DEF called
  <2>3. created \in View /\ created.trace = called.trace
    BY <2>2, CreateApprovalRequestType, OtherMethodsKeepTraces
  <2> HIDE DEF created
  <2>4. asked \in View /\ Grows(created, asked)
    BY <2>3, AppendRunEventType, AppendRunEventGrows, EventsTyped
  <2> HIDE DEF asked
  <2>5. tx'.trace = asked.trace
    <3>1. tx' = UpdateRunStatus(asked, r, "WAITING_FOR_APPROVAL", FALSE)
      BY <2>1 DEF called, created, asked
    <3> QED
      BY <2>4, <3>1 DEF UpdateRunStatus, View
  <2>6. Grows(called, asked)
    BY <2>3, <2>4 DEF Grows
  <2>7. Grows(tx, asked)
    BY <1>1, <2>2, <2>4, <2>6, GrowsTwice
  <2> QED
    BY <2>5, <2>7 DEF Grows
<1>10. CASE GenerateResponse(r)
  BY <1>1, <1>10, AppendRunEventGrows, EventsTyped DEF GenerateResponse
<1>11. CASE Complete(r)
  <2>1. RunCompleted(ctx[r].response, "COMPLETED") \in TraceEvent
    BY <1>1, EventsTyped DEF Context, RunState
  <2> QED
    BY <1>1, <1>3, <1>11, <2>1, StatusAndEventGrow DEF Complete
<1>12. CASE CollaboratorFails(r)
  <2>1. PICK es \in RecordedBeforeFailure(ctx[r]) :
          tx' = AppendRunEvent(UpdateRunStatus(AppendRunEvents(tx, r, es), r, "FAILED", TRUE),
                               r, RunFailed)
    BY <1>12 DEF CollaboratorFails
  <2>2. es \in Seq(TraceEvent)
    BY <1>1, <2>1, RecordedType
  <2> DEFINE recorded == AppendRunEvents(tx, r, es)
  <2>3. recorded \in View /\ Grows(tx, recorded)
    BY <1>1, <2>2, AppendRunEventsType, AppendRunEventsGrows
  <2>4. tx' = AppendRunEvent(UpdateRunStatus(recorded, r, "FAILED", TRUE), r, RunFailed)
    BY <2>1
  <2> HIDE DEF recorded
  <2>5. Grows(recorded, tx')
    BY <1>3, <2>3, <2>4, StatusAndEventGrow, EventsTyped
  <2>6. tx' \in View
    BY <1>3, <2>3, <2>4, UpdateRunStatusType, AppendRunEventType, EventsTyped
  <2> QED
    BY <1>1, <2>3, <2>5, <2>6, GrowsTwice
<1> QED
  BY <1>5, <1>6, <1>7, <1>8, <1>9, <1>10, <1>11, <1>12 DEF Step

\* So does what a resume does before the loop, or instead of it.
LEMMA ResumeGrows ==
  ASSUME TypeOK, Resume
  PROVE  Grows(tx, tx')
<1>1. PICK r \in Run : ResumeApproved(r) \/ CancelRun(r)
  BY DEF Resume, HasWaitingContext, TypeOK, Memory
<1>2. tx \in View
  BY DEF TypeOK
<1>3. CASE ResumeApproved(r)
  <2>1. tx'.trace = tx.trace
    BY <1>2, <1>3 DEF ResumeApproved, UpdateRunStatus, View
  <2> QED
    BY <1>2, <2>1, GrowsSame
<1>4. CASE CancelRun(r)
  <2>1. RunCompleted("rejection", "CANCELED") \in TraceEvent
    BY EventsTyped DEF Response, RunState
  <2> QED
    BY <1>2, <1>4, <2>1, StatusAndEventGrow DEF CancelRun, RunStatus, RunState
<1> QED
  BY <1>1, <1>3, <1>4

\* A session starts from the committed rows, adds events, and is committed whole or dropped.
LEMMA SessionStep ==
  SessionExtendsTraces /\ [Next]_vars => SessionExtendsTraces' /\ Grows(db, db')
<1> SUFFICES ASSUME SessionExtendsTraces, [Next]_vars
             PROVE  Grows(db', tx') /\ Grows(db, db')
  BY TypeStep DEF SessionExtendsTraces
<1>1. TypeOK /\ tx \in View /\ db \in View /\ Grows(db, tx)
  BY DEF SessionExtendsTraces, TypeOK
<1>2. tx' \in View
  BY <1>1, TypeStep DEF TypeOK
<1>3. CASE UNCHANGED <<tx, db>>
  BY <1>1, <1>3, GrowsSame
<1>4. CASE tx' = db /\ db' = db
  BY <1>1, <1>4, GrowsSame
<1>5. CASE db' = tx /\ tx' = tx
  BY <1>1, <1>5, GrowsSame
<1>6. CASE db' = db /\ Grows(tx, tx')
  BY <1>1, <1>2, <1>6, GrowsSame, GrowsTwice
<1>7. ASSUME NEW r \in Run, StartRun(r) PROVE Grows(db', tx') /\ Grows(db, db')
  <2>1. db' = db /\ tx'.trace = db.trace
    BY <1>1, <1>7 DEF StartRun, CreateRun, View
  <2> QED
    BY <1>1, <2>1, GrowsSame
<1>8. ASSUME NEW a \in Approval, NEW d \in {"APPROVED", "REJECTED"}, ResolveApproval(a, d)
      PROVE  Grows(db', tx') /\ Grows(db, db')
  <2> DEFINE resolved == ResolveApprovalRequest(db, a, d)
  <2>1. /\ db' = db /\ tx' = AppendRunEvent(resolved, db.owner[a], ApprovalResolved(a, d))
        /\ db.owner[a] \in Run
    BY <1>1, <1>8 DEF ResolveApproval, Resolvable, View
  <2>2. ApprovalResolved(a, d) \in TraceEvent
    BY EventsTyped DEF ApprovalStatus
  <2>3. resolved \in View /\ resolved.trace = db.trace
    BY <1>1, ResolveApprovalRequestType DEF ResolveApprovalRequest, View
  <2> HIDE DEF resolved
  <2>4. Grows(resolved, tx')
    BY <2>1, <2>2, <2>3, AppendRunEventGrows
  <2> QED
    BY <1>1, <2>1, <2>3, <2>4, GrowsSame DEF Grows
<1>9. CASE EngineStep
  <2>1. handler.run \in Run /\ EngineTypeOK
    BY <1>1, <1>9 DEF EngineStep, TypeOK, Handler, Idle, EngineTypeOK
  <2>2. Grows(tx, tx')
    BY <1>9, <2>1, EngineGrows DEF EngineStep
  <2> QED
    BY <1>6, <1>9, <2>2 DEF EngineStep
<1>10. CASE Resume
  BY <1>1, <1>6, <1>10, ResumeGrows DEF Resume
<1> QED
  BY <1>3, <1>4, <1>5, <1>7, <1>8, <1>9, <1>10
     DEF Next, Request, HandlerStep, CommitRun, CommitDecision, NothingToResume,
         HandlerAborts, Crash, vars

\* Committed events are numbered without gaps, and none is ever lost, replaced or renumbered:
\* not by a rollback, a crash or a resume in another session.  (append_run_event,
\* _next_sequence, session.commit, session.rollback)
THEOREM TracesGrowWithoutGaps == Spec => TraceGrowsWithoutGaps
<1> DEFINE Grown(r) ==
             LET old == db.trace[r]
                 new == db'.trace[r]
             IN /\ DOMAIN new = 1..Cardinality(DOMAIN new)
                /\ \A i \in DOMAIN old : i \in DOMAIN new /\ new[i] = old[i]
<1>1. Init => SessionExtendsTraces
  BY InitType, GrowsSame DEF Init, SessionExtendsTraces, TypeOK
<1>2. SessionExtendsTraces /\ [Next]_vars => [\A r \in Run : Grown(r)]_vars
  <2> SUFFICES ASSUME SessionExtendsTraces, [Next]_vars, NEW r \in Run
               PROVE  Grown(r)
    OBVIOUS
  <2>1. db.trace[r] \in Seq(TraceEvent) /\ db'.trace[r] \in Seq(TraceEvent)
    BY TypeStep DEF SessionExtendsTraces, TypeOK, View
  <2>2. Extends(db.trace[r], db'.trace[r])
    BY SessionStep DEF Grows
  <2>3. /\ Len(db.trace[r]) \in Nat /\ DOMAIN db.trace[r] = 1..Len(db.trace[r])
        /\ Len(db'.trace[r]) \in Nat /\ DOMAIN db'.trace[r] = 1..Len(db'.trace[r])
    BY <2>1
  <2>4. Cardinality(DOMAIN db'.trace[r]) = Len(db'.trace[r])
    <3> DEFINE n == Len(db'.trace[r])
    <3>1. n \in Nat
      BY <2>3
    <3> HIDE DEF n
    <3>2. Cardinality(1..n) = n
      BY <3>1, FS_Interval
    <3> QED
      BY <2>3, <3>2 DEF n
  <2> QED
    BY <2>2, <2>3, <2>4 DEF Extends
<1>3. SessionExtendsTraces /\ [Next]_vars => SessionExtendsTraces'
  BY SessionStep
<1> QED
  BY <1>1, <1>2, <1>3, PTL DEF Spec, TraceGrowsWithoutGaps
=============================================================================
