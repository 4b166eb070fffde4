---------------------- MODULE PlatformInvariantProofs ----------------------
(***************************************************************************)
(* The invariants of PlatformInvariant are inductive, one section each.    *)
(* PlatformInv gives ApprovalGatesOutcome and the refinement of            *)
(* RunLifecycle, MemoryInv what the controller remembers while no handler  *)
(* aborts.  TraceInv gives NoResponseBeforeApproval and                    *)
(* TraceExplainsStatus, ApprovalInv OneResolutionPerDecision, ToolInv      *)
(* ToolResultsFollowCalls and TextInv AnswerMatchesDecision.  All for any  *)
(* sets of runs, approvals and tools and any plans, on databases that      *)
(* enforce foreign keys or do not, and but for MemoryInv for any faults.   *)
(***************************************************************************)
EXTENDS PlatformInvariant, PlatformProofs

-----------------------------------------------------------------------------
(* What the repositories change of statuses, owners and decisions. *)

\* append_run_event touches traces only.
LEMMA AppendRunEventRows ==
  ASSUME NEW v \in View, NEW r \in Run, NEW e
  PROVE  /\ AppendRunEvent(v, r, e).status = v.status
         /\ AppendRunEvent(v, r, e).owner = v.owner
         /\ AppendRunEvent(v, r, e).decision = v.decision
BY DEF AppendRunEvent, AppendRunEvents, View

\* So does recording several events.
LEMMA AppendRunEventsRows ==
  ASSUME NEW v \in View, NEW r \in Run, NEW es
  PROVE  /\ AppendRunEvents(v, r, es).status = v.status
         /\ AppendRunEvents(v, r, es).owner = v.owner
         /\ AppendRunEvents(v, r, es).decision = v.decision
BY DEF AppendRunEvents, View

\* create_approval_request adds one pending approval and touches nothing else.
LEMMA CreateApprovalRequestRows ==
  ASSUME NEW v \in View, NEW a \in Approval, NEW r \in Run
  PROVE  /\ CreateApprovalRequest(v, a, r).status = v.status
         /\ CreateApprovalRequest(v, a, r).owner = [v.owner EXCEPT ![a] = r]
         /\ CreateApprovalRequest(v, a, r).decision = [v.decision EXCEPT ![a] = "PENDING"]
BY DEF CreateApprovalRequest, View

\* resolve_approval_request changes one decision and touches nothing else.
LEMMA ResolveApprovalRequestRows ==
  ASSUME NEW v \in View, NEW a \in Approval, NEW d
  PROVE  /\ ResolveApprovalRequest(v, a, d).status = v.status
         /\ ResolveApprovalRequest(v, a, d).owner = v.owner
         /\ ResolveApprovalRequest(v, a, d).decision = [v.decision EXCEPT ![a] = d]
BY DEF ResolveApprovalRequest, View

\* create_run changes the status of one run and touches nothing else.
LEMMA CreateRunRows ==
  ASSUME NEW v \in View, NEW r \in Run
  PROVE  /\ CreateRun(v, r).status = [v.status EXCEPT ![r] = "PENDING"]
         /\ CreateRun(v, r).owner = v.owner
         /\ CreateRun(v, r).decision = v.decision
BY DEF CreateRun, View

-----------------------------------------------------------------------------
(* What an iteration of the engine changes of them. *)

\* The loop moves r, with its row, to state s, and completes it in the runtime or not.
MovesTo(r, s) ==
  /\ tx'.status = [tx.status EXCEPT ![r] = s]
  /\ tx'.owner = tx.owner
  /\ tx'.decision = tx.decision
  /\ \A q \in Run \ {r} : ctx'[q] = ctx[q]
  /\ ctx'[r].state = s
  /\ ctx'[r].approval = ctx[r].approval
  /\ memory' = IF s = "IN_PROGRESS" THEN memory ELSE OnRunCompleted(memory, r)

\* It stores the context of r, with its new approval a.
PausesOn(r, a) ==
  /\ At(r, "execute_tools")
  /\ CanCreateApprovalRequest
  /\ tx'.status = [tx.status EXCEPT ![r] = Waiting]
  /\ tx'.owner = [tx.owner EXCEPT ![a] = r]
  /\ tx'.decision = [tx.decision EXCEPT ![a] = "PENDING"]
  /\ \A q \in Run \ {r} : ctx'[q] = ctx[q]
  /\ ctx'[r].state = Waiting
  /\ ctx'[r].approval = a
  /\ memory'.waiting = memory.waiting \cup {r}
  /\ memory'.approvalToRun = [memory.approvalToRun EXCEPT ![a] = r]

\* What one iteration of the engine's loop may do to rows, context and controller.
LEMMA LoopEffect ==
  ASSUME EngineTypeOK, NEW r \in Run, tx.status[r] = ctx[r].state, Step(r, Approval \ used)
  PROVE  \/ \E s \in {"IN_PROGRESS", "COMPLETED", "FAILED"} :
              /\ MovesTo(r, s)
              /\ s = "IN_PROGRESS" =>
                   \/ ctx[r].state = "PENDING"
                   \/ CurrentStep(ctx[r]) \notin {"generate_response", "complete"}
                   \/ ctx'[r].step = "complete"
         \/ \E a \in Approval \ used : PausesOn(r, a)
<1> USE DEF EngineTypeOK
<1>1. ctx[r] \in Context /\ ctx[r].state \in RunStatus
  BY DEF Context
<1>2. \A v \in View : [v.status EXCEPT ![r] = v.status[r]] = v.status
  BY DEF View
<1>3. CASE Begin(r)
  <2> DEFINE moved == UpdateRunStatus(tx, r, "IN_PROGRESS", FALSE)
  <2>1. moved \in View
    BY UpdateRunStatusType DEF RunStatus, RunState
  <2>4. /\ moved.status = [tx.status EXCEPT ![r] = "IN_PROGRESS"]
        /\ moved.owner = tx.owner /\ moved.decision = tx.decision
    BY DEF UpdateRunStatus, View
  <2>2. /\ tx'.status = moved.status
        /\ tx'.owner = moved.owner /\ tx'.decision = moved.decision
    BY <1>3, <2>1, AppendRunEventRows DEF Begin
  <2>3. /\ \A q \in Run \ {r} : ctx'[q] = ctx[q]
        /\ ctx'[r].state = "IN_PROGRESS" /\ ctx'[r].approval = ctx[r].approval
    BY <1>1, <1>3 DEF Begin, Context
  <2> QED
    BY <1>3, <2>4, <2>2, <2>3 DEF Begin, MovesTo
<1>4. CASE Classify(r)
  <2>1. MovesTo(r, "IN_PROGRESS")
    BY <1>1, <1>2, <1>4 DEF Classify, At, MovesTo, Advance, Context
  <2> QED
    BY <1>4, <2>1 DEF Classify, At
<1>5. CASE RetrieveContext(r)
  <2>1. MovesTo(r, "IN_PROGRESS")
    BY <1>1, <1>2, <1>5, AppendRunEventRows DEF RetrieveContext, At, MovesTo, Advance, Context
  <2> QED
    BY <1>5, <2>1 DEF RetrieveContext, At
<1>6. CASE DecideTools(r)
  <2>1. MovesTo(r, "IN_PROGRESS")
    BY <1>1, <1>2, <1>6 DEF DecideTools, At, MovesTo, Advance, Context
  <2> QED
    BY <1>6, <2>1 DEF DecideTools, At
<1>7. CASE ExecuteTools(r)
  <2>1. MovesTo(r, "IN_PROGRESS")
    BY <1>1, <1>2, <1>7, AppendRunEventsRows DEF ExecuteTools, At, MovesTo, AfterTools, Context
  <2> QED
    BY <1>7, <2>1 DEF ExecuteTools, At
<1>8. CASE \E a \in Approval \ used : RequestApproval(r, a)
  <2>1. PICK a \in Approval \ used : RequestApproval(r, a)
    BY <1>8
  <2>2. PICK records \in Executions(ctx[r].planned) :
          /\ ctx' = [ctx EXCEPT ![r].records = records,
                                ![r].step = "request_approval_if_needed",
                                ![r].approval = a, ![r].state = "WAITING_FOR_APPROVAL"]
          /\ tx' = UpdateRunStatus(
                     AppendRunEvent(CreateApprovalRequest(AfterTools(r, records), a, r),
                                    r, ApprovalRequested(a)),
                     r, "WAITING_FOR_APPROVAL", FALSE)
    BY <2>1 DEF RequestApproval
  <2>3. AfterTools(r, records) \in View
    BY <1>1, AfterToolsType
  <2>4. /\ AfterTools(r, records).status = tx.status
        /\ AfterTools(r, records).owner = tx.owner
        /\ AfterTools(r, records).decision = tx.decision
    BY AppendRunEventsRows DEF AfterTools
  <2> DEFINE created == CreateApprovalRequest(AfterTools(r, records), a, r)
             recorded == AppendRunEvent(created, r, ApprovalRequested(a))
  <2>5. created \in View /\ recorded \in View
    BY <2>3, CreateApprovalRequestType, AppendRunEventType, EventsTyped
  <2>6. /\ created.status = tx.status
        /\ created.owner = [tx.owner EXCEPT ![a] = r]
        /\ created.decision = [tx.decision EXCEPT ![a] = "PENDING"]
    BY <2>3, <2>4, CreateApprovalRequestRows
  <2>7. /\ recorded.status = created.status
        /\ recorded.owner = created.owner
        /\ recorded.decision = created.decision
    BY <2>5, AppendRunEventRows
  <2>8. /\ tx'.status = [recorded.status EXCEPT ![r] = Waiting]
        /\ tx'.owner = recorded.owner
        /\ tx'.decision = recorded.decision
    <3>1. tx' = UpdateRunStatus(recorded, r, Waiting, FALSE)
      BY <2>2 DEF Waiting
    <3> HIDE DEF recorded
    <3> QED
      BY <2>5, <3>1 DEF UpdateRunStatus, View
  <2>9. /\ \A q \in Run \ {r} : ctx'[q] = ctx[q]
        /\ ctx'[r].state = Waiting /\ ctx'[r].approval = a
    BY <1>1, <2>2 DEF Context, Waiting
  <2>10. /\ memory'.waiting = memory.waiting \cup {r}
         /\ memory'.approvalToRun = [memory.approvalToRun EXCEPT ![a] = r]
    BY <2>1 DEF RequestApproval, OnWaitingForApproval, StoreWaitingContext, Memory
  <2> HIDE DEF created, recorded
  <2>11. PausesOn(r, a)
    BY <2>1, <2>6, <2>7, <2>8, <2>9, <2>10 DEF PausesOn, RequestApproval
  <2> QED
    BY <2>11
<1>9. CASE GenerateResponse(r)
  <2>1. MovesTo(r, "IN_PROGRESS")
    BY <1>1, <1>2, <1>9, AppendRunEventRows
       DEF GenerateResponse, At, MovesTo, Advance, Context
  <2>2. ctx'[r].step = "complete"
    BY <1>1, <1>9 DEF GenerateResponse, At, Advance, NextStep, NoStep, Context
  <2> QED
    BY <2>1, <2>2
<1>10. CASE Complete(r)
  <2> DEFINE moved == UpdateRunStatus(tx, r, "COMPLETED", FALSE)
  <2>1. moved \in View
    BY UpdateRunStatusType DEF RunStatus, RunState
  <2>4. /\ moved.status = [tx.status EXCEPT ![r] = "COMPLETED"]
        /\ moved.owner = tx.owner /\ moved.decision = tx.decision
    BY DEF UpdateRunStatus, View
  <2>2. /\ tx'.status = moved.status
        /\ tx'.owner = moved.owner /\ tx'.decision = moved.decision
    BY <1>10, <2>1, AppendRunEventRows DEF Complete
  <2>3. /\ \A q \in Run \ {r} : ctx'[q] = ctx[q]
        /\ ctx'[r].state = "COMPLETED" /\ ctx'[r].approval = ctx[r].approval
    BY <1>1, <1>10 DEF Complete, Context
  <2>5. MovesTo(r, "COMPLETED")
    BY <1>10, <2>4, <2>2, <2>3 DEF Complete, MovesTo
  <2> QED
    BY <2>5
<1>11. CASE CollaboratorFails(r)
  <2>1. PICK es \in RecordedBeforeFailure(ctx[r]) :
          tx' = AppendRunEvent(UpdateRunStatus(AppendRunEvents(tx, r, es), r, "FAILED", TRUE),
                               r, RunFailed)
    BY <1>11 DEF CollaboratorFails
  <2> DEFINE recorded == AppendRunEvents(tx, r, es)
             failed == UpdateRunStatus(recorded, r, "FAILED", TRUE)
  <2>2. recorded \in View /\ failed \in View
    BY <1>1, <2>1, RecordedType, AppendRunEventsType, UpdateRunStatusType
       DEF RunStatus, RunState
  <2>3. /\ recorded.status = tx.status
        /\ recorded.owner = tx.owner /\ recorded.decision = tx.decision
    BY AppendRunEventsRows
  <2>4. /\ failed.status = [recorded.status EXCEPT ![r] = "FAILED"]
        /\ failed.owner = recorded.owner /\ failed.decision = recorded.decision
    <3> HIDE DEF recorded
    <3> QED
      BY <2>2 DEF UpdateRunStatus, View
  <2>5. /\ tx'.status = failed.status
        /\ tx'.owner = failed.owner /\ tx'.decision = failed.decision
    BY <2>1, <2>2, AppendRunEventRows
  <2>6. /\ \A q \in Run \ {r} : ctx'[q] = ctx[q]
        /\ ctx'[r].state = "FAILED" /\ ctx'[r].approval = ctx[r].approval
    BY <1>1, <1>11 DEF CollaboratorFails, Context
  <2>7. MovesTo(r, "FAILED")
    BY <1>11, <2>3, <2>4, <2>5, <2>6 DEF CollaboratorFails, MovesTo
  <2> QED
    BY <2>7
<1> QED
  BY <1>3, <1>4, <1>5, <1>6, <1>7, <1>8, <1>9, <1>10, <1>11 DEF Step
-----------------------------------------------------------------------------
(* PlatformInv is inductive: one lemma per action of Platform. *)

Rest == CommittedRuns /\ Ownership /\ KeptContexts /\ HandlerInv

\* The invariant holds when the process starts on an empty database.
LEMMA InitInv == Init => PlatformInv
<1> SUFFICES ASSUME Init PROVE PlatformInv
  OBVIOUS
<1>1. TypeOK
  BY InitType
<1>2. /\ \A r \in Run : db.status[r] = "NONE"
      /\ \A a \in Approval : db.owner[a] = NoRun /\ memory.approvalToRun[a] = NoRun
      /\ memory.waiting = {} /\ tx = db /\ handler.pc = "idle"
  BY DEF Init, EmptyView, EmptyMemory, Idle
<1>3. CommittedRuns
  BY <1>2, NoRunAssumption DEF CommittedRuns, CommittedRun, ApprovalsOf, Waiting
<1>4. Ownership
  BY <1>2 DEF Ownership
<1>5. KeptContexts /\ HandlerInv
  BY <1>2 DEF KeptContexts, HandlerInv
<1> QED
  BY <1>1, <1>3, <1>4, <1>5 DEF PlatformInv

\* POST /runs: a new run has no approval, and nobody else's rows change.
LEMMA StartRunInv ==
  ASSUME PlatformInv, NEW r \in Run, StartRun(r)
  PROVE  Rest'
<1>1. /\ handler.pc = "idle" /\ tx = db /\ r \notin used
      /\ tx' = CreateRun(db, r) /\ ctx' = [ctx EXCEPT ![r] = NewContext]
      /\ memory' = memory /\ db' = db /\ used' = used \cup {r}
      /\ handler'.pc = "engine" /\ handler'.run = r /\ handler'.approval = NoApproval
  BY DEF StartRun, PlatformInv, HandlerInv, Idle
<1>2. /\ tx'.status = [db.status EXCEPT ![r] = "PENDING"]
      /\ tx'.owner = db.owner /\ tx'.decision = db.decision
  BY <1>1, CreateRunRows DEF PlatformInv, TypeOK
<1>3. db.status[r] = "NONE" /\ \A a \in Approval : db.owner[a] # r
  BY <1>1 DEF PlatformInv, CommittedRuns, CommittedRun, ApprovalsOf, Waiting
<1>4. r \notin memory.waiting /\ \A a \in Approval : memory.approvalToRun[a] # r
  BY <1>1, NoRunAssumption DEF PlatformInv, KeptContexts, Ownership
<1>5. ctx'[r].state = "PENDING" /\ ctx'[r].approval = NoApproval
  BY <1>1 DEF NewContext, PlatformInv, TypeOK
<1>6. CommittedRuns'
  BY <1>1 DEF PlatformInv, CommittedRuns, CommittedRun, ApprovalsOf
<1>7. Ownership'
  BY <1>1, <1>2 DEF PlatformInv, Ownership
<1>8. KeptContexts'
  BY <1>1, <1>4 DEF PlatformInv, KeptContexts, TypeOK, Memory
<1>9. HandlerInv'
  BY <1>1, <1>2, <1>3, <1>4, <1>5
     DEF PlatformInv, TypeOK, View, HandlerInv, NewRun, OthersUntouched, Waiting
<1> QED
  BY <1>6, <1>7, <1>8, <1>9 DEF Rest

\* The commit after the engine: the handler's run becomes what its context says.
LEMMA CommitRunInv ==
  ASSUME PlatformInv, CommitRun
  PROVE  Rest'
<1>1. /\ handler.pc = "returned" /\ handler.run \in Run /\ OthersUntouched
      /\ handler.approval = NoApproval => NewRun
      /\ handler.approval # NoApproval => ResumedRun /\ handler.approval \in Approval
  BY DEF CommitRun, PlatformInv, HandlerInv, TypeOK, Handler, Idle
<1>2. PICK r \in Run : r = handler.run
  BY <1>1
<1>3. /\ db' = tx /\ tx' = tx /\ memory' = memory /\ used' = used /\ handler'.pc = "idle"
      /\ \A q \in memory.waiting : ctx'[q] = ctx[q]
  BY DEF CommitRun, Idle, DropContext, PlatformInv, TypeOK, Memory
<1>4. r \in used /\ CommittedRun(r)
  BY <1>1, <1>2 DEF PlatformInv, HandlerInv, CommittedRuns
<1>5. CommittedRun(r)'
  <2>1. CASE handler.approval = NoApproval
    BY <1>1, <1>2, <1>3, <1>4, <2>1 DEF NewRun, CommittedRun, ApprovalsOf, Waiting
  <2>2. CASE handler.approval # NoApproval
    BY <1>1, <1>2, <1>3, <1>4, <2>2 DEF ResumedRun, CommittedRun, ApprovalsOf, Waiting
  <2> QED
    BY <2>1, <2>2
<1>6. ASSUME NEW q \in Run, q # r PROVE CommittedRun(q)'
  <2>1. /\ db'.status[q] = db.status[q]
        /\ \A a \in Approval : db'.owner[a] = q <=> db.owner[a] = q
        /\ \A a \in Approval : db'.owner[a] = q => db'.decision[a] = db.decision[a]
    BY <1>1, <1>2, <1>3, <1>6, NoRunAssumption
       DEF OthersUntouched, PlatformInv, Ownership, TypeOK, View
  <2> QED
    BY <1>3, <2>1 DEF PlatformInv, CommittedRuns, CommittedRun, ApprovalsOf
<1>7. Ownership'
  BY <1>3 DEF PlatformInv, Ownership
<1>8. KeptContexts'
  <2>1. db'.status[r] \in {"NONE", Waiting} \/ r \notin memory.waiting
    BY <1>1, <1>2, <1>3 DEF NewRun, ResumedRun
  <2>2. \A q \in Run \ {r} : db'.status[q] = db.status[q]
    BY <1>1, <1>2, <1>3 DEF OthersUntouched
  <2> QED
    BY <1>3, <2>1, <2>2 DEF PlatformInv, KeptContexts, TypeOK, Memory
<1>9. HandlerInv'
  BY <1>3 DEF HandlerInv
<1> QED
  BY <1>5, <1>6, <1>7, <1>8, <1>9 DEF Rest, CommittedRuns

\* A decision is written for a pending approval, whose run therefore waits.
LEMMA ResolveApprovalInv ==
  ASSUME PlatformInv, NEW a \in Approval, NEW d \in Decided, ResolveApproval(a, d)
  PROVE  Rest'
<1>1. /\ handler.pc = "idle" /\ tx = db /\ db.owner[a] # NoRun /\ db.decision[a] = "PENDING"
      /\ memory' = memory /\ ctx' = ctx /\ db' = db /\ used' = used
      /\ handler'.pc = "decided" /\ handler'.approval = a
  BY DEF ResolveApproval, Resolvable, PlatformInv, HandlerInv, Idle
<1> DEFINE resolved == ResolveApprovalRequest(db, a, d)
<1>2. /\ db \in View /\ db.owner[a] \in Run /\ resolved \in View
      /\ resolved.status = db.status /\ resolved.owner = db.owner
      /\ resolved.decision = [db.decision EXCEPT ![a] = d]
  <2>1. db \in View
    BY DEF PlatformInv, TypeOK
  <2>2. db.owner[a] \in Run
    BY <1>1, <2>1 DEF View
  <2>3. resolved \in View
    BY <2>1, ResolveApprovalRequestType DEF Decided
  <2> QED
    BY <2>1, <2>2, <2>3, ResolveApprovalRequestRows
<1>3. tx' = AppendRunEvent(resolved, db.owner[a], ApprovalResolved(a, d))
  BY DEF ResolveApproval
<1> HIDE DEF resolved
<1>4. /\ tx'.status = db.status /\ tx'.owner = db.owner
      /\ tx'.decision = [db.decision EXCEPT ![a] = d]
  BY <1>2, <1>3, AppendRunEventRows
<1>5. CommittedRuns'
  BY <1>1 DEF PlatformInv, CommittedRuns, CommittedRun, ApprovalsOf
<1>6. Ownership'
  BY <1>1, <1>4 DEF PlatformInv, Ownership
<1>7. KeptContexts'
  BY <1>1 DEF PlatformInv, KeptContexts
<1>8. DecisionPending'
  BY <1>1, <1>2, <1>4 DEF DecisionPending, View
<1>9. HandlerInv'
  BY <1>1, <1>8 DEF HandlerInv
<1> QED
  BY <1>5, <1>6, <1>7, <1>9 DEF Rest

\* The commit of a decision: the run still waits.
LEMMA CommitDecisionInv ==
  ASSUME PlatformInv, CommitDecision
  PROVE  Rest'
<1>1. /\ handler.pc = "decided" /\ handler.approval \in Approval /\ DecisionPending
  BY DEF CommitDecision, PlatformInv, HandlerInv, TypeOK, Handler, Idle
<1>2. PICK a \in Approval : a = handler.approval
  BY <1>1
<1>3. /\ db' = tx /\ tx' = tx /\ memory' = memory /\ ctx' = ctx /\ used' = used
      /\ handler'.pc = "lookup" /\ handler'.approval = a
  BY <1>2 DEF CommitDecision, PlatformInv, TypeOK, Handler, Idle
<1>4. /\ db'.status = db.status /\ db'.owner = db.owner
      /\ db.decision[a] = "PENDING" /\ db'.decision[a] \in Decided
      /\ \A b \in Approval : b # a => db'.decision[b] = db.decision[b]
      /\ db.owner[a] # NoRun
  BY <1>1, <1>2, <1>3 DEF DecisionPending
<1>5. CommittedRuns'
  BY <1>3, <1>4 DEF PlatformInv, CommittedRuns, CommittedRun, ApprovalsOf, Decided, Waiting
<1>6. Ownership'
  BY <1>3 DEF PlatformInv, Ownership
<1>7. KeptContexts'
  BY <1>3, <1>4 DEF PlatformInv, KeptContexts
<1>8. HandlerInv'
  BY <1>3, <1>4 DEF HandlerInv
<1> QED
  BY <1>5, <1>6, <1>7, <1>8 DEF Rest

\* Answering without a resume changes no rows.
LEMMA NothingToResumeInv ==
  ASSUME PlatformInv, NothingToResume
  PROVE  Rest'
<1>1. /\ tx = db /\ tx' = tx /\ db' = db /\ memory' = memory /\ ctx' = ctx /\ used' = used
      /\ handler'.pc = "idle"
  BY DEF NothingToResume, PlatformInv, HandlerInv, Idle
<1> QED
  BY <1>1 DEF Rest, PlatformInv, CommittedRuns, CommittedRun, ApprovalsOf, Ownership,
              KeptContexts, HandlerInv

\* A restart forgets contexts and controller, which the invariant allows.
LEMMA CrashInv ==
  ASSUME PlatformInv, Crash
  PROVE  Rest'
<1>1. /\ tx' = db /\ db' = db /\ used' = used /\ handler'.pc = "idle"
      /\ memory'.waiting = {}
      /\ \A a \in Approval : memory'.approvalToRun[a] = NoRun
  BY DEF Crash, Idle, EmptyMemory
<1>2. CommittedRuns'
  BY <1>1 DEF PlatformInv, CommittedRuns, CommittedRun, ApprovalsOf
<1>3. Ownership'
  BY <1>1 DEF PlatformInv, Ownership
<1> QED
  BY <1>1, <1>2, <1>3 DEF Rest, KeptContexts, HandlerInv

\* A rolled-back handler leaves memory behind that the invariant allows.
LEMMA HandlerAbortsInv ==
  ASSUME PlatformInv, HandlerAborts
  PROVE  Rest'
<1>1. /\ tx' = db /\ db' = db /\ used' = used /\ handler'.pc = "idle" /\ memory' = memory
  BY DEF HandlerAborts, Idle
<1>2. \A q \in memory.waiting : ctx'[q].approval = ctx[q].approval
  <2>1. memory.waiting \subseteq Run /\ ctx \in [Run -> Context]
    BY DEF PlatformInv, TypeOK, Memory
  <2>2. CASE InterruptedRun \in memory.waiting
    <3>1. PICK s : ctx' = [ctx EXCEPT ![InterruptedRun].state = s]
      BY <2>2 DEF HandlerAborts
    <3> QED
      BY <2>1, <3>1 DEF Context
  <2>3. CASE InterruptedRun \notin memory.waiting
    <3>1. ctx' = [q \in Run |-> IF q = InterruptedRun THEN NoContext ELSE ctx[q]]
      BY <2>3 DEF HandlerAborts
    <3> QED
      BY <2>1, <2>3, <3>1
  <2> QED
    BY <2>2, <2>3
<1>3. CommittedRuns'
  BY <1>1 DEF PlatformInv, CommittedRuns, CommittedRun, ApprovalsOf
<1>4. Ownership'
  BY <1>1 DEF PlatformInv, Ownership
<1>5. KeptContexts'
  BY <1>1, <1>2 DEF PlatformInv, KeptContexts
<1> QED
  BY <1>1, <1>3, <1>4, <1>5 DEF Rest, HandlerInv

\* Resume either sends run r on towards its response or cancels it.
ResumesTo(r, a, s) ==
  /\ tx'.status = [tx.status EXCEPT ![r] = s]
  /\ tx'.owner = tx.owner
  /\ tx'.decision = tx.decision
  /\ \A q \in Run \ {r} : ctx'[q] = ctx[q]
  /\ ctx'[r].state = s
  /\ memory'.waiting = memory.waiting \ {r}
  /\ \A b \in Approval : memory'.approvalToRun[b] \in {NoRun, memory.approvalToRun[b]}
  /\ memory' = IF s = "CANCELED" THEN OnRunCompleted(memory, r) ELSE OnRunResumed(memory, r)
  /\ handler'.run = r
  /\ handler'.approval = a
  /\ \/ /\ s = "IN_PROGRESS" /\ handler'.pc = "engine"
        /\ ctx'[r].step = "generate_response"
        /\ tx.decision[ctx[r].approval] = "APPROVED"
     \/ /\ s = "CANCELED" /\ handler'.pc = "returned"
        /\ tx.decision[ctx[r].approval] # "APPROVED"

\* What resume_after_approval does before the loop, or instead of it.
LEMMA ResumeEffect ==
  ASSUME PlatformInv, Resume
  PROVE  \E r \in Run, a \in Approval, s \in {"IN_PROGRESS", "CANCELED"} :
           /\ handler.approval = a /\ memory.approvalToRun[a] = r /\ r \in memory.waiting
           /\ ~ResumeRefused(r)
           /\ ResumesTo(r, a, s)
<1>1. /\ TypeOK /\ tx \in View /\ handler.approval \in Approval
      /\ handler \in [pc: {"lookup"}, run: {NoRun}, approval: Approval]
  BY DEF PlatformInv, TypeOK, Resume, Handler, Idle
<1>2. PICK a \in Approval : a = handler.approval
  BY <1>1
<1>3. PICK r \in Run : r = memory.approvalToRun[a] /\ r \in memory.waiting
  BY <1>1, <1>2 DEF Resume, HasWaitingContext, TypeOK, Memory
<1>4. ctx[r] \in Context
  BY <1>1 DEF TypeOK
<1>5. CASE ResumeApproved(r) /\ handler' = [handler EXCEPT !.run = r, !.pc = "engine"]
  <2>1. tx' = UpdateRunStatus(tx, r, "IN_PROGRESS", FALSE) /\ ~ResumeRefused(r)
    BY <1>5 DEF ResumeApproved
  <2>2. /\ tx'.status = [tx.status EXCEPT ![r] = "IN_PROGRESS"]
        /\ tx'.owner = tx.owner /\ tx'.decision = tx.decision
    BY <1>1, <2>1 DEF UpdateRunStatus, View
  <2>3. /\ \A q \in Run \ {r} : ctx'[q] = ctx[q]
        /\ ctx'[r].state = "IN_PROGRESS" /\ ctx'[r].step = "generate_response"
        /\ tx.decision[ctx[r].approval] = "APPROVED"
    BY <1>1, <1>4, <1>5 DEF ResumeApproved, TypeOK, Context
  <2>4. /\ memory'.waiting = memory.waiting \ {r}
        /\ memory'.approvalToRun = memory.approvalToRun
        /\ memory' = OnRunResumed(memory, r)
    BY <1>1, <1>5 DEF ResumeApproved, OnRunResumed, TypeOK, Memory
  <2>5. handler'.run = r /\ handler'.approval = a /\ handler'.pc = "engine"
    BY <1>1, <1>2, <1>5
  <2>6. ResumesTo(r, a, "IN_PROGRESS")
    BY <2>2, <2>3, <2>4, <2>5 DEF ResumesTo
  <2> QED
    BY <1>2, <1>3, <2>1, <2>6
<1>6. CASE CancelRun(r) /\ handler' = [handler EXCEPT !.run = r, !.pc = "returned"]
  <2> DEFINE moved == UpdateRunStatus(tx, r, "CANCELED", FALSE)
  <2>1. moved \in View
    BY <1>1, UpdateRunStatusType DEF RunStatus, RunState
  <2>2. /\ moved.status = [tx.status EXCEPT ![r] = "CANCELED"]
        /\ moved.owner = tx.owner /\ moved.decision = tx.decision
    BY <1>1 DEF UpdateRunStatus, View
  <2>3. tx' = AppendRunEvent(moved, r, RunCompleted("rejection", "CANCELED"))
    BY <1>6 DEF CancelRun
  <2> HIDE DEF moved
  <2>4. /\ tx'.status = moved.status
        /\ tx'.owner = moved.owner /\ tx'.decision = moved.decision
    BY <2>1, <2>3, AppendRunEventRows
  <2>5. /\ \A q \in Run \ {r} : ctx'[q] = ctx[q]
        /\ ctx'[r].state = "CANCELED" /\ ~ResumeRefused(r)
        /\ tx.decision[ctx[r].approval] # "APPROVED"
    BY <1>1, <1>4, <1>6 DEF CancelRun, TypeOK, Context
  <2>6. /\ memory'.waiting = memory.waiting \ {r}
        /\ \A b \in Approval : memory'.approvalToRun[b] \in {NoRun, memory.approvalToRun[b]}
        /\ memory' = OnRunCompleted(memory, r)
    BY <1>6 DEF CancelRun, OnRunCompleted
  <2>7. handler'.run = r /\ handler'.approval = a /\ handler'.pc = "returned"
    BY <1>1, <1>2, <1>6
  <2>8. ResumesTo(r, a, "CANCELED")
    BY <2>2, <2>4, <2>5, <2>6, <2>7 DEF ResumesTo
  <2> QED
    BY <1>2, <1>3, <2>5, <2>8
<1> QED
  BY <1>2, <1>3, <1>5, <1>6 DEF Resume

\* A resume finds the run that the decided approval belongs to.
LEMMA ResumeInv ==
  ASSUME PlatformInv, Resume
  PROVE  Rest'
<1>1. PICK r \in Run, a \in Approval, s \in {"IN_PROGRESS", "CANCELED"} :
        /\ handler.approval = a /\ memory.approvalToRun[a] = r /\ r \in memory.waiting
        /\ ~ResumeRefused(r)
        /\ ResumesTo(r, a, s)
  BY ResumeEffect
<1>2. /\ handler.pc = "lookup" /\ db' = db /\ used' = used /\ tx = db
      /\ db.owner[a] # NoRun /\ db.decision[a] \in Decided
  BY <1>1 DEF Resume, PlatformInv, HandlerInv
<1>3. db.owner[a] = r /\ ctx[r].approval = a /\ r \in used
  BY <1>1, <1>2, NoRunAssumption DEF PlatformInv, Ownership, KeptContexts
<1>4. db.status[r] = Waiting
  BY <1>1, <1>2, <1>3
     DEF PlatformInv, KeptContexts, CommittedRuns, CommittedRun, ApprovalsOf, Decided, Waiting
<1>5. CommittedRuns'
  BY <1>2 DEF PlatformInv, CommittedRuns, CommittedRun, ApprovalsOf
<1>6. Ownership'
  BY <1>1, <1>2 DEF PlatformInv, Ownership, ResumesTo
<1>7. KeptContexts'
  BY <1>1, <1>2, NoRunAssumption DEF PlatformInv, KeptContexts, ResumesTo, TypeOK, Memory
<1>8. ResumedRun'
  BY <1>1, <1>2, <1>3, <1>4 DEF ResumesTo, ResumedRun, Decided, PlatformInv, TypeOK, View
<1>9. OthersUntouched'
  BY <1>1, <1>2, <1>3 DEF ResumesTo, OthersUntouched, PlatformInv, TypeOK, View
<1>10. HandlerInv'
  BY <1>1, <1>2, <1>3, <1>8, <1>9, NoApprovalAssumption DEF ResumesTo, HandlerInv
<1> QED
  BY <1>5, <1>6, <1>7, <1>10 DEF Rest

\* An iteration of the loop keeps the handler's run consistent and the others untouched.
LEMMA EngineStepInv ==
  ASSUME PlatformInv, EngineStep
  PROVE  Rest'
<1>1. /\ TypeOK /\ CommittedRuns /\ Ownership /\ KeptContexts /\ HandlerInv
      /\ handler \in [pc: {"engine"}, run: Run, approval: Approval \cup {NoApproval}]
  BY DEF PlatformInv, TypeOK, EngineStep, Handler, Idle
<1>2. PICK r \in Run : r = handler.run
  BY <1>1
<1>3. /\ db' = db /\ used' = used \cup {a \in Approval : tx'.owner[a] # NoRun}
      /\ handler'.pc = IF ctx'[r].state = "IN_PROGRESS" THEN "engine" ELSE "returned"
      /\ handler'.run = r /\ handler'.approval = handler.approval
      /\ Step(r, Approval \ used)
  BY <1>1, <1>2 DEF EngineStep
<1>4. /\ OthersUntouched /\ r \in used
      /\ handler.approval = NoApproval => NewRun
      /\ handler.approval # NoApproval => ResumedRun
  BY <1>1, <1>2 DEF HandlerInv
<1>5. /\ tx.status[r] = ctx[r].state /\ ctx[r].state # Waiting /\ r \notin memory.waiting
  BY <1>1, <1>2, <1>4 DEF NewRun, ResumedRun, Waiting
<1>6. CommittedRuns'
  BY <1>1, <1>3 DEF CommittedRuns, CommittedRun, ApprovalsOf
<1>7. ASSUME NEW s \in {"IN_PROGRESS", "COMPLETED", "FAILED"}, MovesTo(r, s),
             s = "IN_PROGRESS" =>
               \/ ctx[r].state = "PENDING"
               \/ CurrentStep(ctx[r]) \notin {"generate_response", "complete"}
               \/ ctx'[r].step = "complete"
      PROVE  Rest'
  <2>1. /\ memory'.waiting \subseteq memory.waiting
        /\ \A a \in Approval : memory'.approvalToRun[a] \in {NoRun, memory.approvalToRun[a]}
    BY <1>7 DEF MovesTo, OnRunCompleted
  <2>2. Ownership'
    BY <1>1, <1>3, <1>7, <2>1 DEF Ownership, MovesTo
  <2>3. KeptContexts'
    BY <1>1, <1>3, <1>5, <1>7, <2>1, NoRunAssumption
       DEF KeptContexts, MovesTo, TypeOK, Memory
  <2>4. OthersUntouched'
    BY <1>2, <1>3, <1>4, <1>7 DEF OthersUntouched, MovesTo
  <2>5. CASE handler.approval = NoApproval
    <3>1. NewRun'
      BY <1>1, <1>2, <1>3, <1>4, <1>5, <1>7, <2>1, <2>5, NoRunAssumption
         DEF NewRun, MovesTo, Waiting, TypeOK, View
    <3> QED
      BY <1>3, <1>4, <1>6, <2>2, <2>3, <2>4, <2>5, <3>1 DEF Rest, HandlerInv
  <2>6. CASE handler.approval # NoApproval
    <3>1. /\ ctx[r].state = "IN_PROGRESS"
          /\ CurrentStep(ctx[r]) \in {"generate_response", "complete"}
          /\ tx.decision[handler.approval] = "APPROVED"
      BY <1>1, <1>2, <1>4, <2>6 DEF ResumedRun, CurrentStep, NoStep
    <3>2. ResumedRun'
      BY <1>1, <1>2, <1>3, <1>4, <1>5, <1>7, <2>1, <2>6, <3>1
         DEF ResumedRun, MovesTo, TypeOK, View
    <3> QED
      BY <1>3, <1>4, <1>6, <2>2, <2>3, <2>4, <2>6, <3>2 DEF Rest, HandlerInv
  <2> QED
    BY <2>5, <2>6
<1>8. ASSUME NEW a \in Approval \ used, PausesOn(r, a) PROVE Rest'
  <2>1. handler.approval = NoApproval /\ NewRun
    BY <1>1, <1>2, <1>4, <1>8 DEF PausesOn, At, CurrentStep, NoStep, ResumedRun
  <2>2. /\ tx.owner[a] = NoRun /\ db.owner[a] = NoRun /\ memory.approvalToRun[a] = NoRun
        /\ db.status[r] = "NONE"
        /\ \A b \in Approval : tx.owner[b] # r /\ memory.approvalToRun[b] # r
    BY <1>1, <1>2, <1>5, <1>8, <2>1, NoRunAssumption DEF Ownership, NewRun
  <2>3. Ownership'
    BY <1>1, <1>3, <1>4, <1>8, <2>2, NoRunAssumption
       DEF Ownership, PausesOn, TypeOK, View, Memory
  <2>4. KeptContexts'
    BY <1>1, <1>3, <1>4, <1>8, <2>2, NoRunAssumption
       DEF KeptContexts, PausesOn, TypeOK, Memory, Waiting
  <2>5. OthersUntouched'
    BY <1>1, <1>2, <1>3, <1>4, <1>8, <2>2 DEF OthersUntouched, PausesOn, TypeOK, View
  <2>6. handler'.pc = "returned"
    BY <1>3, <1>8 DEF PausesOn, Waiting
  <2>7. NewRun'
    BY <1>1, <1>3, <1>8, <2>2, <2>6 DEF NewRun, PausesOn, TypeOK, View, Waiting
  <2> QED
    BY <1>3, <1>4, <1>6, <2>1, <2>3, <2>4, <2>5, <2>6, <2>7 DEF Rest, HandlerInv
<1>9. EngineTypeOK
  BY <1>1 DEF TypeOK, EngineTypeOK
<1> QED
  BY <1>3, <1>5, <1>7, <1>8, <1>9, LoopEffect

\* Every step of the platform keeps the invariant.
LEMMA PlatformInvStep == PlatformInv /\ [Next]_vars => PlatformInv'
<1> SUFFICES ASSUME PlatformInv, [Next]_vars PROVE PlatformInv'
  OBVIOUS
<1>1. TypeOK'
  BY TypeStep DEF PlatformInv
<1>2. CASE UNCHANGED vars
  BY <1>2 DEF vars, PlatformInv, TypeOK, CommittedRuns, CommittedRun, Ownership, KeptContexts,
              HandlerInv, DecisionPending, OthersUntouched, NewRun, ResumedRun
<1>3. CASE Next
  <2>1. Rest'
    BY <1>3, StartRunInv, ResolveApprovalInv, EngineStepInv, CommitRunInv, CommitDecisionInv,
       NothingToResumeInv, ResumeInv, HandlerAbortsInv, CrashInv
       DEF Next, Request, HandlerStep, Decided
  <2> QED
    BY <1>1, <2>1 DEF Rest, PlatformInv
<1> QED
  BY <1>2, <1>3

\* PlatformInv holds in every reachable state.
THEOREM PlatformInvariant == Spec => []PlatformInv
BY InitInv, PlatformInvStep, PTL DEF Spec

\* The decision on a run's approval and the run's outcome never contradict each other in the
\* committed database, whatever crashes or fails (approvals of main.py:130-166, runs of
\* engine.py:60-84).
THEOREM ApprovalGatesEveryOutcome == Spec => []ApprovalGatesOutcome
<1>1. PlatformInv => ApprovalGatesOutcome
  BY DEF PlatformInv, CommittedRuns, CommittedRun, ApprovalGatesOutcome, ApprovalsOf, Waiting
<1> QED
  BY <1>1, PlatformInvariant, PTL
-----------------------------------------------------------------------------
(* MemoryInv is inductive beside PlatformInv, while no handler aborts. *)

\* What the controller holds of a run does not depend on the steps of another one.
LEMMA KeptSame ==
  ASSUME NEW r \in Run, ctx'[r] = ctx[r],
         r \in memory'.waiting <=> r \in memory.waiting,
         \A a \in Approval : memory'.approvalToRun[a] = r <=> memory.approvalToRun[a] = r,
         \A a \in Approval : tx'.owner[a] = r <=> tx.owner[a] = r
  PROVE  /\ Kept(r)' <=> Kept(r)
         /\ Forgotten(r)' <=> Forgotten(r)
         /\ Gone(r)' <=> Gone(r)
BY DEF Kept, Forgotten, Gone

\* What on_run_completed forgets, and what it keeps.
LEMMA OnRunCompletedForgets ==
  ASSUME memory \in Memory, NEW r \in Run, memory' = OnRunCompleted(memory, r)
  PROVE  /\ Forgotten(r)'
         /\ \A q \in Run \ {r} :
              /\ q \in memory'.waiting <=> q \in memory.waiting
              /\ \A a \in Approval : memory'.approvalToRun[a] = q <=> memory.approvalToRun[a] = q
BY NoRunAssumption DEF Memory, OnRunCompleted, Forgotten

\* What on_run_resumed forgets, and what it keeps.
LEMMA OnRunResumedForgets ==
  ASSUME memory \in Memory, NEW r \in Run, memory' = OnRunResumed(memory, r)
  PROVE  \A q \in Run \ {r} :
           /\ q \in memory'.waiting <=> q \in memory.waiting
           /\ \A a \in Approval : memory'.approvalToRun[a] = q <=> memory.approvalToRun[a] = q
BY DEF Memory, OnRunResumed

\* POST /runs gives its run a context.
LEMMA StartRunMemory ==
  ASSUME PlatformInv, MemoryInv, NEW r \in Run, StartRun(r)
  PROVE  MemoryInv'
<1>1. /\ handler.pc = "idle" /\ tx = db /\ db' = db /\ memory' = memory
      /\ handler'.pc = "engine" /\ handler'.run = r
      /\ tx' = CreateRun(db, r) /\ db \in View
      /\ \A q \in Run \ {r} : ctx'[q] = ctx[q]
  BY DEF StartRun, PlatformInv, TypeOK, HandlerInv, Idle
<1>2. tx'.owner = tx.owner
  BY <1>1, CreateRunRows
<1>3. ASSUME NEW q \in Run, q # r
      PROVE  (Kept(q)' <=> Kept(q)) /\ (Gone(q)' <=> Gone(q))
  BY <1>1, <1>2, <1>3, KeptSame
<1> QED
  BY <1>1, <1>3 DEF MemoryInv

\* Nobody is in the engine's hands before or after a decision; the owners stay.
LEMMA QuietMemory ==
  ASSUME MemoryInv, handler.pc \notin {"engine", "returned"},
         handler'.pc \notin {"engine", "returned"},
         db'.status = db.status, tx'.owner = tx.owner, ctx' = ctx, memory' = memory
  PROVE  MemoryInv'
BY DEF MemoryInv, Kept, Forgotten, Gone

\* The commit after the engine: what the row becomes is what the context says.
LEMMA CommitRunMemory ==
  ASSUME PlatformInv, MemoryInv, CommitRun
  PROVE  MemoryInv'
<1>1. /\ handler.pc = "returned" /\ handler.run \in Run
      /\ db' = tx /\ tx' = tx /\ memory' = memory /\ handler'.pc = "idle"
      /\ ctx' = DropContext(handler.run)
      /\ ctx \in [Run -> Context]
  BY DEF CommitRun, PlatformInv, TypeOK, Handler, Idle
<1>2. PICK r \in Run : r = handler.run
  BY <1>1
<1>3. /\ tx.status[r] = ctx[r].state
      /\ \A q \in Run \ {r} : tx.status[q] = db.status[q]
  BY <1>1, <1>2 DEF PlatformInv, HandlerInv, NewRun, ResumedRun, OthersUntouched
<1>4. IF ctx[r].state = Waiting THEN Kept(r) ELSE Forgotten(r)
  BY <1>1, <1>2 DEF MemoryInv
<1>5. /\ \A q \in Run \ {r} : ctx'[q] = ctx[q]
      /\ IF r \in memory.waiting THEN ctx'[r] = ctx[r] ELSE ctx'[r] = NoContext
  BY <1>1, <1>2 DEF DropContext
<1>6. ASSUME NEW q \in Run, q # r
      PROVE  IF db'.status[q] = Waiting THEN Kept(q)' \/ ("crash" \in Faults /\ Gone(q)') ELSE Gone(q)'
  <2>1. IF db.status[q] = Waiting THEN Kept(q) \/ ("crash" \in Faults /\ Gone(q)) ELSE Gone(q)
    BY <1>2, <1>6 DEF MemoryInv
  <2>2. (Kept(q)' <=> Kept(q)) /\ (Gone(q)' <=> Gone(q))
    BY <1>1, <1>5, <1>6, KeptSame
  <2> QED
    BY <1>1, <1>3, <1>6, <2>1, <2>2
<1>7. IF db'.status[r] = Waiting THEN Kept(r)' ELSE Gone(r)'
  BY <1>1, <1>3, <1>4, <1>5 DEF Kept, Forgotten, Gone
<1> QED
  BY <1>1, <1>6, <1>7 DEF MemoryInv

\* An iteration of the loop: the run stays with the handler, is kept, or is forgotten.
LEMMA EngineStepMemory ==
  ASSUME PlatformInv, MemoryInv, EngineStep
  PROVE  MemoryInv'
<1>1. /\ EngineTypeOK /\ memory \in Memory /\ tx \in View
      /\ handler \in [pc: {"engine"}, run: Run, approval: Approval \cup {NoApproval}]
  BY DEF PlatformInv, TypeOK, EngineTypeOK, EngineStep, Handler, Idle
<1>2. PICK r \in Run : r = handler.run
  BY <1>1
<1>3. /\ db' = db /\ handler'.run = r /\ handler.pc = "engine"
      /\ handler'.pc = IF ctx'[r].state = "IN_PROGRESS" THEN "engine" ELSE "returned"
      /\ tx.status[r] = ctx[r].state /\ Step(r, Approval \ used)
  BY <1>1, <1>2 DEF EngineStep, PlatformInv, HandlerInv, NewRun, ResumedRun
<1>4. ASSUME NEW s \in {"IN_PROGRESS", "COMPLETED", "FAILED"}, MovesTo(r, s)
      PROVE  /\ handler'.pc = "returned" =>
                  IF ctx'[r].state = Waiting THEN Kept(r)' ELSE Forgotten(r)'
             /\ \A q \in Run \ {r} : Kept(q)' = Kept(q) /\ Forgotten(q)' = Forgotten(q)
  <2>1. CASE s = "IN_PROGRESS"
    <3>1. memory' = memory /\ tx'.owner = tx.owner /\ handler'.pc = "engine"
      BY <1>3, <1>4, <2>1 DEF MovesTo
    <3>2. \A q \in Run \ {r} : Kept(q)' = Kept(q) /\ Forgotten(q)' = Forgotten(q)
      BY <1>4, <3>1 DEF MovesTo, Kept, Forgotten
    <3> QED
      BY <3>1, <3>2
  <2>2. CASE s # "IN_PROGRESS"
    <3>1. memory' = OnRunCompleted(memory, r) /\ tx'.owner = tx.owner /\ ctx'[r].state # Waiting
      BY <1>4, <2>2 DEF MovesTo, Waiting
    <3>2. Forgotten(r)'
      BY <1>1, <3>1, OnRunCompletedForgets
    <3>3. ASSUME NEW q \in Run \ {r}
          PROVE  Kept(q)' = Kept(q) /\ Forgotten(q)' = Forgotten(q)
      <4>1. /\ q \in memory'.waiting <=> q \in memory.waiting
            /\ \A a \in Approval : memory'.approvalToRun[a] = q <=> memory.approvalToRun[a] = q
        BY <1>1, <3>1, OnRunCompletedForgets
      <4>2. ctx'[q] = ctx[q]
        BY <1>4 DEF MovesTo
      <4> QED
        BY <3>1, <4>1, <4>2 DEF Kept, Forgotten
    <3> QED
      BY <3>1, <3>2, <3>3
  <2> QED
    BY <2>1, <2>2
<1>5. ASSUME NEW a \in Approval \ used, PausesOn(r, a)
      PROVE  /\ ctx'[r].state = Waiting /\ Kept(r)'
             /\ \A q \in Run \ {r} : Kept(q)' = Kept(q) /\ Forgotten(q)' = Forgotten(q)
  <2>1. tx.owner[a] = NoRun /\ memory.approvalToRun[a] = NoRun
    BY <1>5 DEF PlatformInv, Ownership
  <2>2. ctx'[r].state = Waiting /\ Kept(r)'
    BY <1>1, <1>5 DEF PausesOn, Kept, View, Memory
  <2>3. ASSUME NEW q \in Run \ {r}
        PROVE  Kept(q)' = Kept(q) /\ Forgotten(q)' = Forgotten(q)
    <3>1. /\ q \in memory'.waiting <=> q \in memory.waiting
          /\ \A b \in Approval : memory'.approvalToRun[b] = q <=> memory.approvalToRun[b] = q
          /\ \A b \in Approval : tx'.owner[b] = q <=> tx.owner[b] = q
          /\ ctx'[q] = ctx[q]
      BY <1>1, <1>5, <2>1, NoRunAssumption DEF PausesOn, View, Memory
    <3> QED
      BY <3>1 DEF Kept, Forgotten
  <2> QED
    BY <2>2, <2>3
<1>6. \A q \in Run \ {r} : ctx'[q] = ctx[q]
  BY <1>1, <1>3, LoopEffect DEF MovesTo, PausesOn
<1>7. /\ handler'.pc = "returned" => IF ctx'[r].state = Waiting THEN Kept(r)' ELSE Forgotten(r)'
      /\ \A q \in Run \ {r} : Kept(q)' = Kept(q) /\ Forgotten(q)' = Forgotten(q)
  BY <1>1, <1>3, <1>4, <1>5, LoopEffect
<1>8. handler'.pc \in {"engine", "returned"}
  BY <1>3
<1> QED
  BY <1>2, <1>3, <1>6, <1>7, <1>8 DEF MemoryInv, Gone

\* A resume takes its run from the controller; a cancellation makes it forget the run.
LEMMA ResumeMemory ==
  ASSUME PlatformInv, MemoryInv, Resume
  PROVE  MemoryInv'
<1>1. PICK r \in Run, a \in Approval, s \in {"IN_PROGRESS", "CANCELED"} :
        /\ handler.approval = a /\ memory.approvalToRun[a] = r /\ r \in memory.waiting
        /\ ~ResumeRefused(r)
        /\ ResumesTo(r, a, s)
  BY ResumeEffect
<1>2. /\ handler.pc = "lookup" /\ db' = db /\ memory \in Memory
      /\ handler'.pc \in {"engine", "returned"} /\ handler'.run = r
      /\ tx'.owner = tx.owner /\ \A q \in Run \ {r} : ctx'[q] = ctx[q]
  BY <1>1 DEF Resume, PlatformInv, TypeOK, ResumesTo
<1>3. handler'.pc = "returned" =>
        memory' = OnRunCompleted(memory, r) /\ ctx'[r].state = "CANCELED"
  BY <1>1 DEF ResumesTo
<1>4. handler'.pc = "returned" => Forgotten(r)' /\ ctx'[r].state # Waiting
  BY <1>2, <1>3, OnRunCompletedForgets DEF Waiting
<1>5. ASSUME NEW q \in Run \ {r}
      PROVE  Kept(q)' = Kept(q) /\ Forgotten(q)' = Forgotten(q)
  <2>1. /\ q \in memory'.waiting <=> q \in memory.waiting
        /\ \A b \in Approval : memory'.approvalToRun[b] = q <=> memory.approvalToRun[b] = q
    BY <1>1, <1>2, OnRunCompletedForgets, OnRunResumedForgets DEF ResumesTo
  <2> QED
    BY <1>2, <2>1 DEF Kept, Forgotten
<1> QED
  BY <1>2, <1>4, <1>5 DEF MemoryInv, Gone

\* The engine never refuses to resume what the controller holds, so unless stores fail a
\* handler aborts only where the row of an approval request cannot be created.
LEMMA OnlyApprovalRequestsRaise ==
  ASSUME "abort" \notin Faults, PlatformInv, MemoryInv, MayEscape
  PROVE  ApprovalRequestRaises
<1> SUFFICES ASSUME ResumeRaises PROVE FALSE
  BY DEF MayEscape
<1>1. /\ handler.pc = "lookup" /\ HasWaitingContext(memory, handler.approval)
      /\ ResumeRefused(memory.approvalToRun[handler.approval])
      /\ handler.approval \in Approval
  BY DEF ResumeRaises, PlatformInv, TypeOK, Handler, Idle
<1>2. PICK r \in Run : r = memory.approvalToRun[handler.approval] /\ r \in memory.waiting
  BY <1>1 DEF HasWaitingContext, PlatformInv, TypeOK, Memory
<1>3. Kept(r)
  BY <1>1, <1>2 DEF MemoryInv, Gone, Forgotten
<1>4. ctx[r].approval = handler.approval
  BY <1>1, <1>2 DEF PlatformInv, KeptContexts
<1>5. tx.decision[handler.approval] \in Decided
  BY <1>1 DEF PlatformInv, HandlerInv
<1> QED
  BY <1>1, <1>2, <1>3, <1>4, <1>5, NoApprovalAssumption DEF ResumeRefused, Kept, Decided, Waiting

\* A run that aborts there is new: its rows and its context go, and the controller has never
\* heard of it.
LEMMA ApprovalRequestRaisesMemory ==
  ASSUME PlatformInv, MemoryInv, ApprovalRequestRaises, HandlerAborts
  PROVE  MemoryInv'
<1>1. /\ handler.pc = "engine" /\ handler.run \in Run
      /\ At(handler.run, "execute_tools")
      /\ OthersUntouched
      /\ IF handler.approval = NoApproval THEN NewRun ELSE ResumedRun
  BY DEF ApprovalRequestRaises, PlatformInv, TypeOK, HandlerInv, Handler, Idle
<1>2. PICK r \in Run : r = handler.run
  BY <1>1
<1>3. NewRun
  BY <1>1 DEF ResumedRun, At, CurrentStep, NoStep
<1>4. db.status[r] = "NONE" /\ Forgotten(r)
  BY <1>1, <1>2, <1>3 DEF NewRun, At, Forgotten, Waiting
<1>5. /\ tx' = db /\ db' = db /\ memory' = memory /\ handler'.pc = "idle"
      /\ ctx' = [q \in Run |-> IF q = r THEN NoContext ELSE ctx[q]]
  BY <1>1, <1>2, <1>4 DEF HandlerAborts, InterruptedRun, Forgotten, Idle
<1>6. ASSUME NEW q \in Run, q # r
      PROVE  (Kept(q)' <=> Kept(q)) /\ (Gone(q)' <=> Gone(q))
  <2>1. \A a \in Approval : tx'.owner[a] = q <=> tx.owner[a] = q
    BY <1>1, <1>2, <1>5, <1>6, NoRunAssumption DEF OthersUntouched, PlatformInv, Ownership
  <2> QED
    BY <1>5, <1>6, <2>1, KeptSame
<1>7. Gone(r)'
  BY <1>4, <1>5 DEF Gone, Forgotten
<1> QED
  BY <1>1, <1>2, <1>4, <1>5, <1>6, <1>7 DEF MemoryInv, Waiting

\* Every step keeps MemoryInv.
LEMMA MemoryInvStep ==
  ASSUME "abort" \notin Faults
  PROVE  PlatformInv /\ MemoryInv /\ [Next]_vars => MemoryInv'
<1> SUFFICES ASSUME PlatformInv, MemoryInv, [Next]_vars PROVE MemoryInv'
  OBVIOUS
<1>1. CASE UNCHANGED vars
  BY <1>1 DEF vars, MemoryInv, Kept, Forgotten, Gone
<1>2. ASSUME NEW a \in Approval, NEW d \in Decided, ResolveApproval(a, d) PROVE MemoryInv'
  <2> DEFINE resolved == ResolveApprovalRequest(db, a, d)
  <2>1. /\ handler.pc = "idle" /\ handler'.pc = "decided" /\ tx = db /\ db \in View
        /\ ctx' = ctx /\ memory' = memory /\ db' = db /\ db.owner[a] \in Run
        /\ tx' = AppendRunEvent(resolved, db.owner[a], ApprovalResolved(a, d))
    BY <1>2 DEF ResolveApproval, Resolvable, Idle, PlatformInv, TypeOK, HandlerInv, View
  <2>2. resolved \in View /\ resolved.owner = db.owner
    BY <2>1, ResolveApprovalRequestType, ResolveApprovalRequestRows DEF Decided
  <2> HIDE DEF resolved
  <2>3. tx'.owner = db.owner
    BY <2>1, <2>2, AppendRunEventRows
  <2> QED
    BY <2>1, <2>3, QuietMemory
<1>3. CASE CommitDecision
  <2>1. /\ handler.pc = "decided" /\ handler'.pc = "lookup" /\ db' = tx /\ tx' = tx
        /\ tx.status = db.status /\ ctx' = ctx /\ memory' = memory
    BY <1>3 DEF CommitDecision, PlatformInv, TypeOK, Handler, Idle, HandlerInv, DecisionPending
  <2> QED
    BY <2>1, QuietMemory
<1>4. CASE NothingToResume
  <2>1. /\ handler.pc = "lookup" /\ handler'.pc = "idle" /\ db' = db /\ tx' = tx
        /\ ctx' = ctx /\ memory' = memory
    BY <1>4 DEF NothingToResume, Idle
  <2> QED
    BY <2>1, QuietMemory
<1>5. CASE HandlerAborts
  <2>1. ApprovalRequestRaises
    BY <1>5, OnlyApprovalRequestsRaise DEF HandlerAborts
  <2> QED
    BY <1>5, <2>1, ApprovalRequestRaisesMemory
<1>6. CASE Crash
  <2>1. "crash" \in Faults /\ handler' = Idle /\ ctx' = [r \in Run |-> NoContext] /\ memory' = EmptyMemory
    BY <1>6 DEF Crash
  <2>2. \A r \in Run : Gone(r)'
    BY <2>1, NoRunAssumption DEF Gone, Forgotten, EmptyMemory
  <2> QED
    BY <2>1, <2>2 DEF MemoryInv, Idle
<1> QED
  BY <1>1, <1>2, <1>3, <1>4, <1>5, <1>6, StartRunMemory, EngineStepMemory, CommitRunMemory, ResumeMemory
     DEF Next, Request, HandlerStep, Decided

\* While no handler aborts, MemoryInv holds in every reachable state, whatever crashes.
THEOREM MemoryInvariant ==
  ASSUME "abort" \notin Faults
  PROVE  Spec => []MemoryInv
<1>1. Init => MemoryInv
  BY NoRunAssumption DEF Init, MemoryInv, Forgotten, Gone, EmptyView, EmptyMemory, Idle, Waiting
<1> QED
  BY <1>1, MemoryInvStep, PlatformInvariant, PTL DEF Spec

\* While nothing fails, every run that waits between requests can be resumed.
\* (on_waiting_for_approval, store_waiting_context and get_waiting_context)
THEOREM WaitingRunsCanBeResumed ==
  ASSUME Faults = {}
  PROVE  Spec => []WaitingRunsAreResumable
<1>1. PlatformInv /\ MemoryInv => WaitingRunsAreResumable
  BY DEF PlatformInv, HandlerInv, MemoryInv, Kept, WaitingRunsAreResumable, Idle, Waiting
<1>2. Spec => []MemoryInv
  BY MemoryInvariant
<1> QED
  BY <1>1, <1>2, PlatformInvariant, PTL

\* While no handler aborts, the controller and the heap hold nothing but runs that wait,
\* whatever crashes.  (on_run_completed and on_run_resumed)
THEOREM MemoryIsNotLeaked ==
  ASSUME "abort" \notin Faults
  PROVE  Spec => []MemoryHoldsOnlyWaitingRuns
<1>1. PlatformInv /\ MemoryInv => MemoryHoldsOnlyWaitingRuns
  <2> SUFFICES ASSUME PlatformInv, MemoryInv, handler = Idle
               PROVE  /\ \A r \in memory.waiting : db.status[r] = Waiting
                      /\ \A a \in Approval : memory.approvalToRun[a] # NoRun =>
                           db.status[memory.approvalToRun[a]] = Waiting
                      /\ \A r \in Run : ctx[r] # NoContext <=> r \in memory.waiting
    BY DEF MemoryHoldsOnlyWaitingRuns, Waiting
  <2>1. \A r \in Run : (db.status[r] = Waiting /\ Kept(r)) \/ Gone(r)
    BY DEF MemoryInv, Idle
  <2>2. memory.waiting \subseteq Run /\ \A a \in Approval : memory.approvalToRun[a] \in Run \cup {NoRun}
    BY DEF PlatformInv, TypeOK, Memory
  <2>3. \A r \in Run : Kept(r) => ctx[r] # NoContext /\ r \in memory.waiting
    BY DEF Kept, NoContext, NewContext, Waiting
  <2> QED
    BY <2>1, <2>2, <2>3 DEF Forgotten, Gone
<1> QED
  BY <1>1, PlatformInvariant, MemoryInvariant, PTL

-----------------------------------------------------------------------------
(* Where foreign keys are enforced no run ever pauses. *)

\* Only request_approval creates an approval request, and there it raises.
LEMMA NothingAwaitsApprovalStep ==
  ASSUME ForeignKeys = TRUE, PlatformInv, NothingAwaitsApproval, [Next]_vars
  PROVE  NothingAwaitsApproval'
<1>1. tx \in View /\ db \in View /\ EngineTypeOK
  BY DEF PlatformInv, TypeOK, EngineTypeOK
<1>2. ASSUME NEW r \in Run, StartRun(r) PROVE NothingAwaitsApproval'
  BY <1>1, <1>2, CreateRunRows DEF StartRun, NothingAwaitsApproval
<1>3. ASSUME NEW a \in Approval, NEW d \in Decided PROVE ~ResolveApproval(a, d)
  BY DEF ResolveApproval, Resolvable, NothingAwaitsApproval
<1>4. CASE EngineStep
  <2>1. handler \in [pc: {"engine"}, run: Run, approval: Approval \cup {NoApproval}]
    BY <1>4 DEF PlatformInv, TypeOK, EngineStep, Handler, Idle
  <2>2. PICK r \in Run : r = handler.run
    BY <2>1
  <2>3. tx.status[r] = ctx[r].state /\ Step(r, Approval \ used) /\ db' = db
    BY <1>4, <2>1, <2>2 DEF PlatformInv, HandlerInv, NewRun, ResumedRun, EngineStep
  <2>4. \A a \in Approval : ~PausesOn(r, a)
    BY DEF PausesOn, CanCreateApprovalRequest
  <2>5. tx'.owner = tx.owner
    BY <1>1, <2>3, <2>4, LoopEffect DEF MovesTo
  <2> QED
    BY <2>3, <2>5 DEF NothingAwaitsApproval
<1>5. CASE Resume
  <2>1. tx'.owner = tx.owner /\ db' = db
    BY <1>5, ResumeEffect DEF Resume, ResumesTo
  <2> QED
    BY <2>1 DEF NothingAwaitsApproval
<1>6. CASE UNCHANGED vars
  BY <1>6 DEF vars, NothingAwaitsApproval
<1>7. CASE CommitRun \/ CommitDecision \/ NothingToResume \/ HandlerAborts \/ Crash
  BY <1>7 DEF CommitRun, CommitDecision, NothingToResume, HandlerAborts, Crash,
              NothingAwaitsApproval
<1> QED
  BY <1>2, <1>3, <1>4, <1>5, <1>6, <1>7 DEF Next, Request, HandlerStep, Decided

\* On a database that enforces foreign keys no run is ever recorded as waiting for approval
\* or as canceled: the row of its approval request names a tool invocation that nothing
\* inserts (engine.py:223, approval_repository.py:39, approval_request.py:30).
THEOREM NothingWaitsUnderForeignKeys ==
  ASSUME ForeignKeys = TRUE
  PROVE  Spec => [](\A r \in Run : db.status[r] \notin {"WAITING_FOR_APPROVAL", "CANCELED"})
<1>1. Init => NothingAwaitsApproval
  BY DEF Init, EmptyView, NothingAwaitsApproval
<1>2. PlatformInv /\ NothingAwaitsApproval /\ [Next]_vars => NothingAwaitsApproval'
  BY NothingAwaitsApprovalStep
<1>3. PlatformInv /\ NothingAwaitsApproval =>
        \A r \in Run : db.status[r] \notin {"WAITING_FOR_APPROVAL", "CANCELED"}
  BY NoRunAssumption
     DEF PlatformInv, CommittedRuns, CommittedRun, ApprovalsOf, NothingAwaitsApproval, Waiting
<1> QED
  BY <1>1, <1>2, <1>3, PlatformInvariant, PTL DEF Spec

-----------------------------------------------------------------------------
(* Platform implements RunLifecycle. *)

\* Without an approval a run has no decision.
LEMMA DecisionOfNobody ==
  ASSUME NEW r \in Run, \A a \in Approval : db.owner[a] # r
  PROVE  DecisionOf(r) = "NONE"
BY DEF DecisionOf, ApprovalsOf

\* A run's decision is that of its one approval.
LEMMA DecisionOfOwner ==
  ASSUME NEW r \in Run, NEW a \in Approval, db.owner[a] = r,
         \A b \in Approval : db.owner[b] = r => b = a
  PROVE  DecisionOf(r) = db.decision[a]
<1>1. (CHOOSE b \in Approval : db.owner[b] = r) = a
  OBVIOUS
<1>2. ApprovalsOf(db, r) # {}
  BY DEF ApprovalsOf
<1> QED
  BY <1>1, <1>2 DEF DecisionOf

\* The decision of a run whose rows a commit leaves alone.
LEMMA DecisionOfUntouched ==
  ASSUME NEW r \in Run,
         \A a \in Approval : db'.owner[a] = r <=> db.owner[a] = r,
         \A a \in Approval : db.owner[a] = r => db'.decision[a] = db.decision[a],
         CommittedRun(r)
  PROVE  DecisionOf(r)' = DecisionOf(r)
<1>1. CASE \A a \in Approval : db.owner[a] # r
  BY <1>1 DEF DecisionOf, ApprovalsOf
<1>2. CASE \E a \in Approval : db.owner[a] = r
  <2>1. PICK a \in Approval : db.owner[a] = r
    BY <1>2
  <2>2. \A b \in Approval : db.owner[b] = r => b = a
    BY <2>1 DEF CommittedRun, ApprovalsOf
  <2>3. DecisionOf(r) = db.decision[a]
    BY <2>1, <2>2, DecisionOfOwner
  <2>4. (CHOOSE b \in Approval : db'.owner[b] = r) = a
    BY <2>1, <2>2
  <2>5. DecisionOf(r)' = db'.decision[a]
    BY <2>1, <2>4 DEF DecisionOf, ApprovalsOf
  <2> QED
    BY <2>1, <2>3, <2>5
<1> QED
  BY <1>1, <1>2

LifecycleStep == [Lifecycle!Next]_(Lifecycle!vars)

\* A step that leaves the committed rows alone is invisible.
LEMMA InvisibleStep ==
  ASSUME db' = db
  PROVE  LifecycleStep
<1>1. db'.status = db.status /\ \A r \in Run : DecisionOf(r)' = DecisionOf(r)
  BY DEF DecisionOf, ApprovalsOf
<1> QED
  BY <1>1 DEF LifecycleStep, Lifecycle!vars

\* The commit of a decision is Decide.
LEMMA CommitDecisionImplements ==
  ASSUME PlatformInv, CommitDecision
  PROVE  LifecycleStep
<1>1. /\ handler.pc = "decided" /\ handler.approval \in Approval /\ DecisionPending
      /\ db' = tx /\ CommittedRuns /\ tx \in View /\ db \in View
  BY DEF CommitDecision, PlatformInv, HandlerInv, TypeOK, Handler, Idle
<1>2. PICK a \in Approval : a = handler.approval
  BY <1>1
<1>3. /\ db'.status = db.status /\ db'.owner = db.owner
      /\ db.decision[a] = "PENDING" /\ db'.decision[a] \in Decided
      /\ \A b \in Approval : b # a => db'.decision[b] = db.decision[b]
  BY <1>1, <1>2 DEF DecisionPending
<1>4. PICK r \in Run : db.owner[a] = r
  BY <1>1, <1>2 DEF DecisionPending, View
<1>5. db.status[r] = Waiting /\ \A b \in Approval : db.owner[b] = r => b = a
  BY <1>1, <1>3, <1>4 DEF CommittedRuns, CommittedRun, ApprovalsOf
<1>6. DecisionOf(r) = "PENDING"
  BY <1>3, <1>4, <1>5, DecisionOfOwner
<1>7. DecisionOf(r)' = db'.decision[a]
  <2>1. (CHOOSE b \in Approval : db'.owner[b] = r) = a
    BY <1>3, <1>4, <1>5
  <2> QED
    BY <1>3, <1>4, <2>1 DEF DecisionOf, ApprovalsOf
<1>8. \A q \in Run : q # r => DecisionOf(q)' = DecisionOf(q)
  <2> TAKE q \in Run
  <2>1. HAVE q # r
  <2>2. CommittedRun(q)
    BY <1>1 DEF CommittedRuns
  <2> QED
    BY <1>3, <1>4, <2>1, <2>2, DecisionOfUntouched
<1>9. [q \in Run |-> DecisionOf(q)]' = [[q \in Run |-> DecisionOf(q)] EXCEPT ![r] = db'.decision[a]]
  BY <1>7, <1>8
<1>10. Lifecycle!Decide(r)
  BY <1>3, <1>5, <1>6, <1>9 DEF Lifecycle!Decide, Decided, Waiting
<1> QED
  BY <1>10 DEF LifecycleStep, Lifecycle!Next

\* The commit of a run is Finish or Pause for a new run, Settle for a resumed one.
LEMMA CommitRunImplements ==
  ASSUME PlatformInv, CommitRun
  PROVE  LifecycleStep
<1>1. /\ handler.pc = "returned" /\ handler.run \in Run /\ OthersUntouched /\ db' = tx
      /\ handler.approval = NoApproval => NewRun
      /\ handler.approval # NoApproval => ResumedRun /\ handler.approval \in Approval
      /\ CommittedRuns /\ Ownership /\ tx \in View /\ db \in View
  BY DEF CommitRun, PlatformInv, HandlerInv, TypeOK, Handler, Idle
<1>2. PICK r \in Run : r = handler.run
  BY <1>1
<1>3. \A q \in Run : q # r => db'.status[q] = db.status[q] /\ DecisionOf(q)' = DecisionOf(q)
  <2> TAKE q \in Run
  <2>1. HAVE q # r
  <2>2. /\ db'.status[q] = db.status[q]
        /\ \A a \in Approval : db'.owner[a] = q <=> db.owner[a] = q
        /\ \A a \in Approval : db.owner[a] = q => db'.decision[a] = db.decision[a]
    BY <1>1, <1>2, <2>1, NoRunAssumption DEF OthersUntouched, Ownership, View
  <2>3. CommittedRun(q)
    BY <1>1 DEF CommittedRuns
  <2> QED
    BY <2>2, <2>3, DecisionOfUntouched
<1>4. db'.status = [db.status EXCEPT ![r] = db'.status[r]]
  BY <1>1, <1>3 DEF View
<1>5. [q \in Run |-> DecisionOf(q)]' =
        [[q \in Run |-> DecisionOf(q)] EXCEPT ![r] = DecisionOf(r)']
  BY <1>3
<1>6. CASE handler.approval = NoApproval
  <2>1. NewRun /\ db.status[r] = "NONE" /\ db'.status[r] \in {Waiting, "COMPLETED", "FAILED"}
    BY <1>1, <1>2, <1>6 DEF NewRun, Waiting
  <2>2. \A a \in Approval : db.owner[a] # r
    BY <1>1, <2>1 DEF CommittedRuns, CommittedRun, ApprovalsOf, Waiting
  <2>3. DecisionOf(r) = "NONE"
    BY <2>2, DecisionOfNobody
  <2>4. CASE db'.status[r] = Waiting
    <3>1. PICK a \in Approval :
            /\ \A b \in Approval : db'.owner[b] = r <=> b = a
            /\ db'.decision[a] = "PENDING"
      BY <1>1, <1>2, <2>1, <2>4 DEF NewRun
    <3>2. (CHOOSE b \in Approval : db'.owner[b] = r) = a
      BY <3>1
    <3>3. DecisionOf(r)' = "PENDING"
      BY <3>1, <3>2 DEF DecisionOf, ApprovalsOf
    <3>4. Lifecycle!Pause(r)
      BY <1>4, <1>5, <2>1, <2>4, <3>3 DEF Lifecycle!Pause, Waiting
    <3> QED
      BY <3>4 DEF LifecycleStep, Lifecycle!Next
  <2>5. CASE db'.status[r] \in {"COMPLETED", "FAILED"}
    <3>1. \A a \in Approval : db'.owner[a] # r
      BY <1>1, <1>2, <2>1, <2>5 DEF NewRun, Waiting
    <3>2. DecisionOf(r)' = DecisionOf(r)
      BY <2>3, <3>1 DEF DecisionOf, ApprovalsOf
    <3>3. Lifecycle!Finish(r)
      BY <1>4, <1>5, <2>1, <2>5, <3>2 DEF Lifecycle!Finish
    <3> QED
      BY <3>3 DEF LifecycleStep, Lifecycle!Next
  <2> QED
    BY <2>1, <2>4, <2>5
<1>7. CASE handler.approval # NoApproval
  <2>1. PICK a \in Approval : a = handler.approval
    BY <1>1, <1>7
  <2>2. /\ db.status[r] = Waiting /\ db.owner[a] = r
        /\ db'.owner = db.owner /\ db'.decision = db.decision
        /\ \/ db.decision[a] = "APPROVED" /\ db'.status[r] \in {"COMPLETED", "FAILED"}
           \/ db.decision[a] = "REJECTED" /\ db'.status[r] = "CANCELED"
    BY <1>1, <1>2, <1>7, <2>1 DEF ResumedRun
  <2>3. \A b \in Approval : db.owner[b] = r => b = a
    BY <1>1, <2>2 DEF CommittedRuns, CommittedRun, ApprovalsOf
  <2>4. DecisionOf(r) = db.decision[a]
    BY <2>2, <2>3, DecisionOfOwner
  <2>5. \A q \in Run : DecisionOf(q)' = DecisionOf(q)
    BY <2>2 DEF DecisionOf, ApprovalsOf
  <2>6. Lifecycle!Settle(r)
    BY <1>4, <2>2, <2>4, <2>5 DEF Lifecycle!Settle, Waiting
  <2> QED
    BY <2>6 DEF LifecycleStep, Lifecycle!Next
<1> QED
  BY <1>6, <1>7

\* The committed rows behave as RunLifecycle says, crashes and aborted handlers included.
THEOREM LifecycleImplemented == Spec => ImplementsLifecycle
<1>1. Init => Lifecycle!Init
  <2> SUFFICES ASSUME Init PROVE Lifecycle!Init
    OBVIOUS
  <2>1. db.status = [r \in Run |-> "NONE"] /\ \A a \in Approval : db.owner[a] = NoRun
    BY DEF Init, EmptyView
  <2>2. \A r \in Run : DecisionOf(r) = "NONE"
    BY <2>1, NoRunAssumption, DecisionOfNobody
  <2> QED
    BY <2>1, <2>2 DEF Lifecycle!Init
<1>2. PlatformInv /\ [Next]_vars => [Lifecycle!Next]_(Lifecycle!vars)
  <2> SUFFICES ASSUME PlatformInv, [Next]_vars PROVE LifecycleStep
    BY DEF LifecycleStep
  <2>1. CASE CommitRun
    BY <2>1, CommitRunImplements
  <2>2. CASE CommitDecision
    BY <2>2, CommitDecisionImplements
  <2>3. CASE db' = db
    BY <2>3, InvisibleStep
  <2> QED
    BY <2>1, <2>2, <2>3
       DEF Next, Request, HandlerStep, StartRun, ResolveApproval, EngineStep, NothingToResume,
           Resume, HandlerAborts, Crash, vars
<1> QED
  BY <1>1, <1>2, PlatformInvariant, PTL DEF Spec, ImplementsLifecycle, Lifecycle!Spec

-----------------------------------------------------------------------------
(* TraceInv is inductive: what one event, or several, do to a trace. *)

\* Trace u is t with event e more, or with several.
Adds(t, e, u) == u = Append(t, e)
AddsAll(t, es, u) == u = t \o es

\* The trace with several events more.
LEMMA ConcatEvents ==
  ASSUME NEW t \in Seq(TraceEvent), NEW es \in Seq(TraceEvent), NEW u, AddsAll(t, es, u)
  PROVE  /\ u \in Seq(TraceEvent)
         /\ Len(t) \in Nat /\ Len(es) \in Nat /\ Len(u) = Len(t) + Len(es)
         /\ \A i \in 1..Len(t) : u[i] = t[i]
         /\ \A i \in 1..Len(u) : i \notin 1..Len(t) => \E k \in 1..Len(es) : u[i] = es[k]
<1>1. Len(t) \in Nat /\ Len(es) \in Nat
  OBVIOUS
<1>2. /\ u \in Seq(TraceEvent) /\ Len(u) = Len(t) + Len(es)
      /\ \A i \in 1..Len(t) + Len(es) : u[i] = IF i <= Len(t) THEN t[i] ELSE es[i - Len(t)]
  BY ConcatProperties DEF AddsAll
<1>3. ASSUME NEW i \in 1..Len(u), i \notin 1..Len(t)
      PROVE  \E k \in 1..Len(es) : u[i] = es[k]
  <2>1. i - Len(t) \in 1..Len(es) /\ u[i] = es[i - Len(t)]
    BY <1>1, <1>2, <1>3
  <2> QED
    BY <2>1
<1>4. \A i \in 1..Len(t) : u[i] = t[i]
  BY <1>1, <1>2
<1> QED
  BY <1>1, <1>2, <1>3, <1>4, Zenon

\* Events that neither answer nor begin or end a run.
Quiet(e) == ~Answers(e) /\ ~Starts(e) /\ ~Ends(e)

\* Recording events that answer nothing.
LEMMA ConcatTrace ==
  ASSUME NEW t \in Seq(TraceEvent), NEW es \in Seq(TraceEvent), NEW u, AddsAll(t, es, u),
         \A i \in 1..Len(es) : Quiet(es[i])
  PROVE  /\ Gated(t) => Gated(u)
         /\ Running(t) => Running(u)
         /\ (\A i \in 1..Len(es) : ~Asks(es[i])) =>
              (Cleared(t) => Cleared(u)) /\ (NeverAsked(t) => NeverAsked(u))
<1>1. /\ Len(t) \in Nat /\ Len(u) \in Nat /\ Len(t) <= Len(u)
      /\ \A i \in 1..Len(t) : i \in 1..Len(u) /\ u[i] = t[i]
      /\ \A i \in 1..Len(u) : i \notin 1..Len(t) => \E k \in 1..Len(es) : u[i] = es[k]
  BY ConcatEvents
<1>2. \A i \in 1..Len(u) : i \notin 1..Len(t) => Quiet(u[i])
  BY <1>1
<1>3. ASSUME Gated(t), NEW i \in 1..Len(u), NEW j \in 1..Len(u),
             Asks(u[i]), Answers(u[j]), i < j
      PROVE  \E k \in 1..Len(u) : i < k /\ k < j /\ Approves(u[k])
  <2>1. i \in 1..Len(t) /\ j \in 1..Len(t)
    BY <1>1, <1>2, <1>3 DEF Quiet
  <2>2. PICK k \in 1..Len(t) : i < k /\ k < j /\ Approves(t[k])
    BY <1>1, <1>3, <2>1 DEF Gated
  <2> QED
    BY <1>1, <2>2
<1>4. Running(t) => Running(u)
  <2> SUFFICES ASSUME Running(t) PROVE Running(u)
    OBVIOUS
  <2>1. Len(t) # 0 /\ Shaped(t) /\ ~Ends(t[Len(t)])
    BY DEF Running
  <2>2. u # << >>
    BY <1>1, <2>1
  <2>3. \A i \in 1..Len(t) : ~Ends(u[i])
    BY <1>1, <2>1 DEF Shaped
  <2>4. \A i \in 1..Len(u) : ~Ends(u[i])
    BY <1>2, <2>3 DEF Quiet
  <2>5. \A i \in 1..Len(u) : Starts(u[i]) <=> i = 1
    BY <1>1, <1>2, <2>1 DEF Shaped, Quiet
  <2>6. Len(u) \in 1..Len(u)
    BY <1>1, <2>1
  <2> QED
    BY <2>2, <2>4, <2>5, <2>6 DEF Running, Shaped
<1>5. ASSUME \A i \in 1..Len(es) : ~Asks(es[i])
      PROVE  (Cleared(t) => Cleared(u)) /\ (NeverAsked(t) => NeverAsked(u))
  <2>1. \A i \in 1..Len(u) : Asks(u[i]) => i \in 1..Len(t) /\ Asks(t[i])
    BY <1>1, <1>5
  <2>2. \A k \in 1..Len(t) : Approves(t[k]) => k \in 1..Len(u) /\ Approves(u[k])
    BY <1>1
  <2>3. Cleared(t) => Cleared(u)
    BY <2>1, <2>2 DEF Cleared
  <2>4. NeverAsked(t) => NeverAsked(u)
    BY <2>1 DEF NeverAsked
  <2> QED
    BY <2>3, <2>4
<1>6. Gated(t) => Gated(u)
  BY <1>3 DEF Gated
<1> QED
  BY <1>4, <1>5, <1>6

\* Recording one event.
LEMMA AppendTrace ==
  ASSUME NEW t \in Seq(TraceEvent), NEW e \in TraceEvent, NEW u, Adds(t, e, u)
  PROVE  /\ u \in Seq(TraceEvent) /\ u # << >> /\ u[Len(u)] = e
         /\ Gated(t) /\ (Answers(e) => Cleared(t)) => Gated(u)
         /\ Cleared(t) /\ ~Asks(e) => Cleared(u)
         /\ Approves(e) => Cleared(u)
         /\ NeverAsked(t) /\ ~Asks(e) => NeverAsked(u)
         /\ Running(t) /\ ~Starts(e) /\ (Ends(e) => e.outcome \in Terminal) => Shaped(u)
         /\ Running(t) /\ ~Starts(e) /\ ~Ends(e) => Running(u)
         /\ t = << >> /\ Starts(e) /\ ~Ends(e) => Running(u)
<1>1. /\ u \in Seq(TraceEvent) /\ u # << >>
      /\ Len(t) \in Nat /\ Len(u) = Len(t) + 1 /\ u[Len(t) + 1] = e
      /\ \A i \in 1..Len(t) : u[i] = t[i]
  BY AppendProperties DEF Adds
<1>2. \A i \in 1..Len(u) : i \in 1..Len(t) \/ (i = Len(u) /\ u[i] = e)
  BY <1>1
<1>3. \A i \in 1..Len(t) : i \in 1..Len(u) /\ u[i] = t[i] /\ i < Len(u)
  BY <1>1
<1>4. Len(u) \in 1..Len(u) /\ u[Len(u)] = e
  BY <1>1
<1>5. ASSUME Gated(t), Answers(e) => Cleared(t)
      PROVE  Gated(u)
  <2> SUFFICES ASSUME NEW i \in 1..Len(u), NEW j \in 1..Len(u), Asks(u[i]), Answers(u[j]), i < j
               PROVE  \E k \in 1..Len(u) : i < k /\ k < j /\ Approves(u[k])
    BY DEF Gated
  <2>1. i \in 1..Len(t) /\ Asks(t[i])
    BY <1>1, <1>2, <1>3
  <2>2. CASE j \in 1..Len(t)
    <3>1. PICK k \in 1..Len(t) : i < k /\ k < j /\ Approves(t[k])
      BY <1>3, <1>5, <2>1, <2>2 DEF Gated
    <3> QED
      BY <1>3, <3>1
  <2>3. CASE j = Len(u) /\ u[j] = e
    <3>1. PICK k \in 1..Len(t) : i < k /\ Approves(t[k])
      BY <1>5, <2>1, <2>3 DEF Cleared
    <3> QED
      BY <1>3, <2>3, <3>1
  <2> QED
    BY <1>2, <2>2, <2>3
<1>6. ASSUME ~Asks(e)
      PROVE  (Cleared(t) => Cleared(u)) /\ (NeverAsked(t) => NeverAsked(u))
  <2>1. \A i \in 1..Len(u) : Asks(u[i]) => i \in 1..Len(t) /\ Asks(t[i])
    BY <1>2, <1>3, <1>6
  <2>2. \A k \in 1..Len(t) : Approves(t[k]) => k \in 1..Len(u) /\ Approves(u[k])
    BY <1>3
  <2>3. Cleared(t) => Cleared(u)
    BY <2>1, <2>2 DEF Cleared
  <2>4. NeverAsked(t) => NeverAsked(u)
    BY <2>1 DEF NeverAsked
  <2> QED
    BY <2>3, <2>4
<1>7. Approves(e) => Cleared(u)
  <2> SUFFICES ASSUME Approves(e), NEW i \in 1..Len(u), Asks(u[i])
               PROVE  \E k \in 1..Len(u) : i < k /\ Approves(u[k])
    BY DEF Cleared
  <2>1. ~Asks(e)
    BY DEF Approves, Asks
  <2>2. i < Len(u)
    BY <1>2, <1>3, <2>1
  <2> QED
    BY <1>4, <2>2
<1>8. ASSUME Running(t), ~Starts(e), Ends(e) => e.outcome \in Terminal
      PROVE  Shaped(u)
  <2>1. Len(t) # 0 /\ Shaped(t) /\ ~Ends(t[Len(t)])
    BY <1>8 DEF Running
  <2>2. \A i \in 1..Len(t) : ~Ends(u[i]) /\ (Starts(u[i]) <=> i = 1)
    BY <1>3, <2>1 DEF Shaped
  <2>3. Len(u) # 1
    BY <1>1, <2>1
  <2> QED
    BY <1>2, <1>8, <2>2, <2>3 DEF Shaped
<1>9. t = << >> /\ Starts(e) /\ ~Ends(e) => Running(u)
  <2> SUFFICES ASSUME t = << >>, Starts(e), ~Ends(e) PROVE Running(u)
    OBVIOUS
  <2>1. Len(u) = 1 /\ u[1] = e
    BY <1>1
  <2> QED
    BY <1>1, <2>1 DEF Running, Shaped
<1>10. Running(t) /\ ~Starts(e) /\ ~Ends(e) => Running(u)
  BY <1>1, <1>4, <1>8 DEF Running
<1> QED
  BY <1>1, <1>4, <1>5, <1>6, <1>7, <1>8, <1>9, <1>10

\* What the last event of a trace tells.
LEMMA LastEventTells ==
  ASSUME NEW u, u # << >>
  PROVE  /\ Ends(u[Len(u)]) => StatusFromTrace(u) = u[Len(u)].outcome
         /\ u[Len(u)].type \in {"APPROVAL_REQUESTED", "APPROVAL_RESOLVED"} =>
              StatusFromTrace(u) = Waiting
BY DEF StatusFromTrace, Ends, Waiting

\* What a status tells of the trace it comes from.
LEMMA StatusTells ==
  ASSUME NEW t \in Seq(TraceEvent), Shaped(t)
  PROVE  /\ StatusFromTrace(t) = "NONE" => t = << >>
         /\ StatusFromTrace(t) = Waiting => Running(t)
<1>1. Len(t) \in Nat /\ (t # << >> => Len(t) \in 1..Len(t))
  OBVIOUS
<1>2. t # << >> => t[Len(t)] \in TraceEvent
  BY <1>1
<1>3. t # << >> => t[Len(t)].outcome # "NONE"
  BY <1>2 DEF TraceEvent, Outcome, ToolStatus, ApprovalStatus, RunState, Nothing
<1>4. StatusFromTrace(t) = "NONE" => t = << >>
  BY <1>3 DEF StatusFromTrace
<1>5. ASSUME StatusFromTrace(t) = Waiting PROVE Running(t)
  <2>1. t # << >>
    BY <1>5 DEF StatusFromTrace, Waiting
  <2>2. ASSUME Ends(t[Len(t)]) PROVE FALSE
    <3>1. StatusFromTrace(t) = t[Len(t)].outcome
      BY <2>1, <2>2, LastEventTells
    <3>2. t[Len(t)].outcome \in Terminal
      BY <1>1, <2>1, <2>2 DEF Shaped
    <3> QED
      BY <1>5, <3>1, <3>2 DEF Terminal, Waiting
  <2> QED
    BY <2>1, <2>2 DEF Running
<1> QED
  BY <1>4, <1>5

-----------------------------------------------------------------------------
(* What the repositories change of traces and errors. *)

\* append_run_event adds an event to one trace and touches nothing else.
LEMMA AppendRunEventTrace ==
  ASSUME NEW v \in View, NEW r \in Run, NEW e, NEW w, w = AppendRunEvent(v, r, e)
  PROVE  /\ w.status = v.status /\ w.lastError = v.lastError
         /\ Adds(v.trace[r], e, w.trace[r])
         /\ \A q \in Run \ {r} : w.trace[q] = v.trace[q]
<1>1. w = [v EXCEPT !.trace[r] = Append(v.trace[r], e)]
  BY AppendRunEventAppends
<1> QED
  BY <1>1 DEF View, Adds

\* So does recording several events.
LEMMA AppendRunEventsTrace ==
  ASSUME NEW v \in View, NEW r \in Run, NEW es \in Seq(TraceEvent), NEW w,
         w = AppendRunEvents(v, r, es)
  PROVE  /\ w.status = v.status /\ w.lastError = v.lastError
         /\ AddsAll(v.trace[r], es, w.trace[r])
         /\ \A q \in Run \ {r} : w.trace[q] = v.trace[q]
<1>1. w = [v EXCEPT !.trace[r] = v.trace[r] \o es]
  BY AppendRunEventsExtends
<1> QED
  BY <1>1 DEF View, AddsAll

\* The events of an execution are quiet, and ask only when a tool needs approval.
LEMMA ExecutionIsQuiet ==
  ASSUME NEW plan \in Seq(Tool), NEW records \in Seq(ToolRecord), NEW es,
         AddsAll(ToolsCalled(plan), ToolResults(records), es)
  PROVE  /\ es \in Seq(TraceEvent)
         /\ \A i \in 1..Len(es) : Quiet(es[i])
         /\ ~NeedsApproval(records) => \A i \in 1..Len(es) : ~Asks(es[i])
<1> DEFINE called == ToolsCalled(plan)
           results == ToolResults(records)
<1>0. AddsAll(called, results, es)
  OBVIOUS
<1>1. called \in Seq(TraceEvent) /\ results \in Seq(TraceEvent)
  BY ToolsCalledType, ToolResultsType
<1>2. DOMAIN called = 1..Len(plan) /\ DOMAIN results = 1..Len(records)
  BY DEF ToolsCalled, ToolResults
<1>3. DOMAIN called = 1..Len(called) /\ DOMAIN results = 1..Len(results)
  BY <1>1
<1>4. \A i \in 1..Len(called) : called[i].type = "TOOL_CALLED"
  BY <1>2, <1>3 DEF ToolsCalled, Event
<1>5. \A i \in 1..Len(results) :
        /\ i \in 1..Len(records)
        /\ results[i].type = "TOOL_RESULT_RECEIVED" /\ results[i].outcome = records[i].status
  BY <1>2, <1>3 DEF ToolResults, Event
<1> HIDE DEF called, results
<1>8. es \in Seq(TraceEvent) /\ \A i \in 1..Len(called) : es[i] = called[i]
  BY <1>0, <1>1, ConcatEvents
<1>6. \A i \in 1..Len(es) : i \notin 1..Len(called) => \E k \in 1..Len(results) : es[i] = results[k]
  BY <1>0, <1>1, ConcatEvents
<1>7. ASSUME NEW i \in 1..Len(es)
      PROVE  Quiet(es[i]) /\ (~NeedsApproval(records) => ~Asks(es[i]))
  <2>1. CASE i \in 1..Len(called)
    BY <1>4, <1>8, <2>1 DEF Quiet, Answers, Starts, Ends, Asks
  <2>2. CASE i \notin 1..Len(called)
    <3>1. PICK k \in 1..Len(results) : es[i] = results[k]
      BY <1>6, <2>2
    <3> QED
      BY <1>5, <3>1 DEF Quiet, Answers, Starts, Ends, Asks, NeedsApproval
  <2> QED
    BY <2>1, <2>2
<1> QED
  BY <1>7, <1>8

\* The events a failing step has recorded: quiet ones, or the answer's.
LEMMA RecordedEvents ==
  ASSUME NEW c \in Context, NEW es \in RecordedBeforeFailure(c)
  PROVE  \/ es = <<ModelSelected>>
         \/ \A i \in 1..Len(es) : Quiet(es[i]) /\ ~Asks(es[i])
<1>1. CASE es = ToolsCalled(c.planned)
  <2>1. c.planned \in Seq(Tool)
    BY DEF Context
  <2>2. es \in Seq(TraceEvent) /\ DOMAIN es = 1..Len(c.planned)
    BY <1>1, <2>1, ToolsCalledType DEF ToolsCalled
  <2>3. DOMAIN es = 1..Len(es)
    BY <2>2
  <2>4. \A i \in 1..Len(es) : es[i].type = "TOOL_CALLED"
    BY <1>1, <2>2, <2>3 DEF ToolsCalled, Event
  <2> QED
    BY <2>4 DEF Quiet, Answers, Starts, Ends, Asks
<1>2. CASE es = << >>
  BY <1>2
<1> QED
  BY <1>1, <1>2 DEF RecordedBeforeFailure

-----------------------------------------------------------------------------
(* One iteration of the engine's loop. *)

\* The loop adds to the trace of r what leaves r under way, or records how it ends or pauses.
LoopTrace(r) ==
  /\ \A q \in Run \ {r} : tx'.trace[q] = tx.trace[q] /\ tx'.lastError[q] = tx.lastError[q]
  /\ IF ctx'[r].state = "IN_PROGRESS" THEN UnderWay(r)'
     ELSE /\ Explained(tx', r)
          /\ Gated(tx'.trace[r])
          /\ ctx'[r].state # Waiting => Cleared(tx'.trace[r])

\* What follows from a step that does not touch the rows, or adds one quiet event.
LEMMA QuietIteration ==
  ASSUME EngineTypeOK, EngineTypeOK', NEW r \in Run, UnderWay(r), ctx[r].state = "IN_PROGRESS",
         ctx'[r].state = "IN_PROGRESS", BeforeTools(ctx'[r]) => BeforeTools(ctx[r]),
         \/ tx' = tx
         \/ \E e \in TraceEvent :
              /\ ~Starts(e) /\ ~Ends(e) /\ ~Asks(e)
              /\ tx' = AppendRunEvent(tx, r, e)
  PROVE  LoopTrace(r)
<1> DEFINE t == tx.trace[r]
           u == tx'.trace[r]
<1>1. tx \in View /\ t \in Seq(TraceEvent)
  BY DEF EngineTypeOK, View
<1>2. Running(t) /\ Gated(t) /\ Cleared(t) /\ (BeforeTools(ctx[r]) => NeverAsked(t))
  BY DEF UnderWay
<1>3. /\ tx'.lastError = tx.lastError
      /\ \A q \in Run \ {r} : tx'.trace[q] = tx.trace[q]
      /\ Running(u) /\ Gated(u) /\ Cleared(u) /\ (BeforeTools(ctx[r]) => NeverAsked(u))
  <2>1. CASE tx' = tx
    BY <1>2, <2>1
  <2>2. ASSUME NEW e \in TraceEvent, ~Starts(e), ~Ends(e), ~Asks(e),
               tx' = AppendRunEvent(tx, r, e)
        PROVE  <1>3
    <3>1. /\ tx'.lastError = tx.lastError /\ Adds(t, e, u)
          /\ \A q \in Run \ {r} : tx'.trace[q] = tx.trace[q]
      BY <1>1, <2>2, AppendRunEventTrace
    <3> HIDE DEF t, u
    <3>2. Running(u) /\ Gated(u) /\ Cleared(u) /\ (NeverAsked(t) => NeverAsked(u))
      BY <1>1, <1>2, <2>2, <3>1, AppendTrace
    <3> QED
      BY <1>2, <3>1, <3>2 DEF u
  <2> QED
    BY <2>1, <2>2
<1>4. ~tx'.lastError[r]
  BY <1>3 DEF UnderWay
<1> QED
  BY <1>3, <1>4 DEF LoopTrace, UnderWay

\* What follows from a step that ends the run.
LEMMA FinalIteration ==
  ASSUME EngineTypeOK, NEW r \in Run, NEW t \in Seq(TraceEvent),
         Running(t), Gated(t), Cleared(t),
         NEW e \in TraceEvent, Ends(e), e.outcome \in {"COMPLETED", "FAILED"},
         tx'.status[r] = e.outcome, tx'.lastError[r] = (e.outcome = "FAILED"),
         Adds(t, e, tx'.trace[r]), ctx'[r].state = e.outcome,
         \A q \in Run \ {r} : tx'.trace[q] = tx.trace[q] /\ tx'.lastError[q] = tx.lastError[q]
  PROVE  LoopTrace(r)
<1> DEFINE u == tx'.trace[r]
<1>1. ~Starts(e) /\ ~Asks(e) /\ e.outcome \in Terminal
  BY DEF Ends, Starts, Asks, Terminal
<1>2. u # << >> /\ u[Len(u)] = e /\ Shaped(u) /\ Gated(u) /\ Cleared(u)
  BY <1>1, AppendTrace
<1>3. StatusFromTrace(u) = e.outcome
  BY <1>2, LastEventTells
<1>4. Explained(tx', r)
  BY <1>2, <1>3 DEF Explained
<1> QED
  BY <1>2, <1>4 DEF LoopTrace

\* Every iteration of the loop.
LEMMA EngineTraceStep ==
  ASSUME EngineTypeOK, EngineTypeOK', NEW r \in Run, UnderWay(r), tx.status[r] = ctx[r].state,
         Step(r, Approval \ used)
  PROVE  LoopTrace(r)
<1> DEFINE t == tx.trace[r]
           c == ctx[r]
<1>1. /\ tx \in View /\ t \in Seq(TraceEvent) /\ c \in Context /\ c.planned \in Seq(Tool)
      /\ ctx \in [Run -> Context]
  BY DEF EngineTypeOK, View, Context
<1>2. Gated(t) /\ Cleared(t) /\ (BeforeTools(c) => NeverAsked(t))
  BY DEF UnderWay
<1>3. c.state = "IN_PROGRESS" => Running(t)
  BY DEF UnderWay
<1>4. {"IN_PROGRESS", "COMPLETED", "FAILED", "WAITING_FOR_APPROVAL"} \subseteq RunStatus
  BY DEF RunStatus, RunState
<1>5. CASE Begin(r)
  <2>1. t = << >>
    BY <1>5 DEF Begin, UnderWay
  <2>2. ctx'[r].state = "IN_PROGRESS" /\ CurrentStep(ctx'[r]) = CurrentStep(c)
    BY <1>1, <1>5 DEF Begin, CurrentStep, Context
  <2>3. tx' = AppendRunEvent(UpdateRunStatus(tx, r, "IN_PROGRESS", FALSE), r, RunStarted)
    BY <1>5 DEF Begin
  <2>5. /\ RunStarted \in TraceEvent /\ Starts(RunStarted)
        /\ ~Ends(RunStarted) /\ ~Answers(RunStarted) /\ ~Asks(RunStarted)
    BY EventsTyped DEF RunStarted, Event, Starts, Ends, Answers, Asks
  <2> DEFINE moved == UpdateRunStatus(tx, r, "IN_PROGRESS", FALSE)
  <2>7. /\ moved.lastError[r] = FALSE /\ moved.trace = tx.trace
        /\ \A q \in Run \ {r} : moved.lastError[q] = tx.lastError[q]
    BY <1>1 DEF UpdateRunStatus, View
  <2>8. moved \in View
    BY <1>1, <1>4, UpdateRunStatusType
  <2>9. tx' = AppendRunEvent(moved, r, RunStarted)
    BY <2>3
  <2> HIDE DEF moved
  <2>4. /\ Adds(t, RunStarted, tx'.trace[r]) /\ ~tx'.lastError[r]
        /\ \A q \in Run \ {r} : tx'.trace[q] = tx.trace[q] /\ tx'.lastError[q] = tx.lastError[q]
    BY <2>7, <2>8, <2>9, AppendRunEventTrace
  <2> HIDE DEF t
  <2>6. /\ Running(tx'.trace[r]) /\ Gated(tx'.trace[r]) /\ Cleared(tx'.trace[r])
        /\ NeverAsked(t) => NeverAsked(tx'.trace[r])
    BY <1>1, <1>2, <2>1, <2>4, <2>5, AppendTrace
  <2> QED
    BY <1>2, <2>2, <2>4, <2>6 DEF LoopTrace, UnderWay, BeforeTools
<1>6. CASE Classify(r)
  <2>1. /\ ctx'[r].state = "IN_PROGRESS" /\ c.state = "IN_PROGRESS"
        /\ BeforeTools(ctx[r]) /\ tx' = tx
    BY <1>1, <1>6 DEF Classify, At, Advance, Context, BeforeTools
  <2> QED
    BY <2>1, QuietIteration
<1>7. CASE RetrieveContext(r)
  <2>1. /\ ctx'[r].state = "IN_PROGRESS" /\ c.state = "IN_PROGRESS"
        /\ BeforeTools(ctx[r]) /\ tx' = AppendRunEvent(tx, r, RetrievalCompleted)
    BY <1>1, <1>7 DEF RetrieveContext, At, Advance, Context, BeforeTools
  <2>2. /\ RetrievalCompleted \in TraceEvent /\ ~Starts(RetrievalCompleted)
        /\ ~Ends(RetrievalCompleted) /\ ~Asks(RetrievalCompleted)
    BY EventsTyped DEF RetrievalCompleted, Event, Starts, Ends, Asks
  <2> QED
    BY <2>1, <2>2, QuietIteration
<1>8. CASE DecideTools(r)
  <2>1. /\ ctx'[r].state = "IN_PROGRESS" /\ c.state = "IN_PROGRESS"
        /\ BeforeTools(ctx[r]) /\ tx' = tx
    BY <1>1, <1>8 DEF DecideTools, At, Advance, Context, BeforeTools
  <2> QED
    BY <2>1, QuietIteration
<1>9. ASSUME NEW records \in Executions(c.planned), NEW w, w = AfterTools(r, records),
             At(r, "execute_tools")
      PROVE  /\ w \in View /\ Running(w.trace[r]) /\ Gated(w.trace[r])
             /\ w.lastError = tx.lastError
             /\ \A q \in Run \ {r} : w.trace[q] = tx.trace[q]
             /\ ~NeedsApproval(records) => Cleared(w.trace[r])
  <2> DEFINE es == ToolsCalled(c.planned) \o ToolResults(records)
  <2>1. records \in Seq(ToolRecord)
    BY <1>1, ExecutionsType
  <2>2. /\ es \in Seq(TraceEvent) /\ \A i \in 1..Len(es) : Quiet(es[i])
        /\ ~NeedsApproval(records) => \A i \in 1..Len(es) : ~Asks(es[i])
    BY <1>1, <2>1, ExecutionIsQuiet DEF AddsAll
  <2>3. w = AppendRunEvents(tx, r, es)
    BY <1>9 DEF AfterTools
  <2> HIDE DEF es
  <2>4. /\ w.lastError = tx.lastError /\ AddsAll(t, es, w.trace[r])
        /\ \A q \in Run \ {r} : w.trace[q] = tx.trace[q]
    BY <1>1, <2>2, <2>3, AppendRunEventsTrace
  <2>5. w \in View
    BY <1>1, <2>2, <2>3, AppendRunEventsType
  <2> HIDE DEF t
  <2>6. /\ Running(w.trace[r]) /\ Gated(w.trace[r])
        /\ ~NeedsApproval(records) => Cleared(w.trace[r])
    BY <1>1, <1>2, <1>3, <1>9, <2>2, <2>4, ConcatTrace DEF At
  <2> QED
    BY <2>4, <2>5, <2>6
<1>10. CASE ExecuteTools(r)
  <2>1. PICK records \in Executions(c.planned) :
          ~NeedsApproval(records) /\ tx' = AfterTools(r, records)
    BY <1>10 DEF ExecuteTools
  <2>2. /\ ctx'[r].state = "IN_PROGRESS" /\ ~BeforeTools(ctx'[r])
        /\ At(r, "execute_tools")
    BY <1>1, <1>10 DEF ExecuteTools, At, Context, BeforeTools, CurrentStep, NoStep
  <2>3. ~tx'.lastError[r]
    BY <1>9, <2>1, <2>2 DEF UnderWay
  <2> QED
    BY <1>9, <2>1, <2>2, <2>3 DEF LoopTrace, UnderWay
<1>11. ASSUME NEW a \in Approval \ used, RequestApproval(r, a) PROVE LoopTrace(r)
  <2>1. PICK records \in Executions(c.planned) :
          tx' = UpdateRunStatus(
                  AppendRunEvent(CreateApprovalRequest(AfterTools(r, records), a, r),
                                 r, ApprovalRequested(a)),
                  r, "WAITING_FOR_APPROVAL", FALSE)
    BY <1>11 DEF RequestApproval
  <2>2. At(r, "execute_tools") /\ ctx'[r].state = Waiting
    BY <1>1, <1>11 DEF RequestApproval, Context, Waiting
  <2> DEFINE called == AfterTools(r, records)
             created == CreateApprovalRequest(called, a, r)
             asked == AppendRunEvent(created, r, ApprovalRequested(a))
  <2>3. /\ called \in View /\ Running(called.trace[r]) /\ Gated(called.trace[r])
        /\ called.lastError = tx.lastError
        /\ \A q \in Run \ {r} : called.trace[q] = tx.trace[q]
    BY <1>9, <2>2
  <2>4. tx' = UpdateRunStatus(asked, r, Waiting, FALSE)
    BY <2>1 DEF Waiting
  <2> HIDE DEF called
  <2>5. created \in View /\ created.trace = called.trace /\ created.lastError = called.lastError
    BY <2>3, CreateApprovalRequestType DEF CreateApprovalRequest, View
  <2> HIDE DEF created
  <2>6. /\ ApprovalRequested(a) \in TraceEvent
        /\ ~Starts(ApprovalRequested(a)) /\ ~Ends(ApprovalRequested(a))
        /\ ~Answers(ApprovalRequested(a))
        /\ ApprovalRequested(a).type = "APPROVAL_REQUESTED"
    BY EventsTyped DEF ApprovalRequested, Event, Starts, Ends, Answers
  <2>7. asked \in View
    BY <2>5, <2>6, AppendRunEventType
  <2>8. /\ asked.lastError = created.lastError
        /\ Adds(created.trace[r], ApprovalRequested(a), asked.trace[r])
        /\ \A q \in Run \ {r} : asked.trace[q] = created.trace[q]
    BY <2>5, AppendRunEventTrace
  <2> HIDE DEF asked
  <2>9. /\ tx'.status[r] = Waiting /\ tx'.lastError[r] = FALSE /\ tx'.trace = asked.trace
        /\ \A q \in Run \ {r} : tx'.lastError[q] = asked.lastError[q]
    BY <2>4, <2>7 DEF UpdateRunStatus, View
  <2>10. called.trace[r] \in Seq(TraceEvent)
    BY <2>3 DEF View
  <2>11. Adds(called.trace[r], ApprovalRequested(a), tx'.trace[r])
    BY <2>5, <2>8, <2>9
  <2>12. /\ tx'.trace[r] # << >> /\ tx'.trace[r][Len(tx'.trace[r])] = ApprovalRequested(a)
         /\ Shaped(tx'.trace[r]) /\ Gated(tx'.trace[r])
    BY <2>3, <2>6, <2>10, <2>11, AppendTrace
  <2>13. StatusFromTrace(tx'.trace[r]) = Waiting
    BY <2>6, <2>12, LastEventTells
  <2>14. Explained(tx', r)
    BY <2>9, <2>12, <2>13 DEF Explained, Waiting
  <2>15. \A q \in Run \ {r} : tx'.trace[q] = tx.trace[q] /\ tx'.lastError[q] = tx.lastError[q]
    BY <2>3, <2>5, <2>8, <2>9
  <2> QED
    BY <2>2, <2>12, <2>14, <2>15 DEF LoopTrace, Waiting
<1>12. CASE GenerateResponse(r)
  <2>1. /\ ctx'[r].state = "IN_PROGRESS" /\ c.state = "IN_PROGRESS"
        /\ CurrentStep(ctx'[r]) = "complete" /\ tx' = AppendRunEvent(tx, r, ModelSelected)
    BY <1>1, <1>12
       DEF GenerateResponse, At, Advance, NextStep, NoStep, Context, CurrentStep
  <2>2. /\ ModelSelected \in TraceEvent /\ ~Starts(ModelSelected)
        /\ ~Ends(ModelSelected) /\ ~Asks(ModelSelected)
    BY EventsTyped DEF ModelSelected, Event, Starts, Ends, Asks
  <2>3. ~BeforeTools(ctx'[r])
    BY <2>1 DEF BeforeTools
  <2> QED
    BY <2>1, <2>2, <2>3, QuietIteration
<1>13. CASE Complete(r)
  <2> DEFINE e == RunCompleted(c.response, "COMPLETED")
  <2>1. e \in TraceEvent /\ Ends(e) /\ e.outcome = "COMPLETED"
    BY <1>1, EventsTyped DEF Context, RunState, RunCompleted, Event, Ends
  <2>2. /\ tx' = AppendRunEvent(UpdateRunStatus(tx, r, "COMPLETED", FALSE), r, e)
        /\ c.state = "IN_PROGRESS" /\ ctx'[r].state = "COMPLETED"
    BY <1>1, <1>13 DEF Complete, At, Context
  <2> HIDE DEF e
  <2> DEFINE moved == UpdateRunStatus(tx, r, "COMPLETED", FALSE)
  <2>5. /\ moved.status[r] = "COMPLETED" /\ moved.lastError[r] = FALSE
        /\ moved.trace = tx.trace
        /\ \A q \in Run \ {r} : moved.lastError[q] = tx.lastError[q]
    BY <1>1 DEF UpdateRunStatus, View
  <2>6. moved \in View
    BY <1>1, <1>4, UpdateRunStatusType
  <2>7. tx' = AppendRunEvent(moved, r, e)
    BY <2>2
  <2> HIDE DEF moved
  <2>3. /\ tx'.status[r] = "COMPLETED" /\ tx'.lastError[r] = FALSE
        /\ Adds(t, e, tx'.trace[r])
        /\ \A q \in Run \ {r} : tx'.trace[q] = tx.trace[q] /\ tx'.lastError[q] = tx.lastError[q]
    BY <2>5, <2>6, <2>7, AppendRunEventTrace
  <2> HIDE DEF t
  <2> QED
    BY <1>1, <1>2, <1>3, <2>1, <2>2, <2>3, FinalIteration
<1>14. CASE CollaboratorFails(r)
  <2>1. PICK es \in RecordedBeforeFailure(c) :
          tx' = AppendRunEvent(UpdateRunStatus(AppendRunEvents(tx, r, es), r, "FAILED", TRUE),
                               r, RunFailed)
    BY <1>14 DEF CollaboratorFails
  <2>2. c.state = "IN_PROGRESS" /\ ctx'[r].state = "FAILED"
    BY <1>1, <1>14 DEF CollaboratorFails, Context
  <2> DEFINE recorded == AppendRunEvents(tx, r, es)
  <2>3. es \in Seq(TraceEvent) /\ recorded \in View
    BY <1>1, RecordedType, AppendRunEventsType
  <2>4. /\ AddsAll(t, es, recorded.trace[r]) /\ recorded.lastError = tx.lastError
        /\ \A q \in Run \ {r} : recorded.trace[q] = tx.trace[q]
    BY <1>1, <2>3, AppendRunEventsTrace
  <2>5. tx' = AppendRunEvent(UpdateRunStatus(recorded, r, "FAILED", TRUE), r, RunFailed)
    BY <2>1
  <2> HIDE DEF recorded, t
  <2>6. recorded.trace[r] \in Seq(TraceEvent)
    BY <2>3 DEF View
  <2>7. Running(recorded.trace[r]) /\ Gated(recorded.trace[r]) /\ Cleared(recorded.trace[r])
    <3>1. CASE es = <<ModelSelected>>
      <4>1. ModelSelected \in TraceEvent /\ ~Starts(ModelSelected)
            /\ ~Ends(ModelSelected) /\ ~Asks(ModelSelected)
        BY EventsTyped DEF ModelSelected, Event, Starts, Ends, Asks
      <4>2. Adds(t, ModelSelected, recorded.trace[r])
        BY <1>1, <2>4, <3>1, <4>1, AppendIsConcat DEF Adds, AddsAll
      <4> QED
        BY <1>1, <1>2, <1>3, <2>2, <4>1, <4>2, AppendTrace
    <3>2. CASE \A i \in 1..Len(es) : Quiet(es[i]) /\ ~Asks(es[i])
      BY <1>1, <1>2, <1>3, <2>2, <2>3, <2>4, <3>2, ConcatTrace
    <3> QED
      BY <1>1, <3>1, <3>2, RecordedEvents
  <2>8. RunFailed \in TraceEvent /\ Ends(RunFailed) /\ RunFailed.outcome = "FAILED"
    BY EventsTyped DEF RunFailed, Event, Ends
  <2> DEFINE failed == UpdateRunStatus(recorded, r, "FAILED", TRUE)
  <2>9. /\ failed.status[r] = "FAILED" /\ failed.lastError[r] = TRUE
        /\ failed.trace = recorded.trace
        /\ \A q \in Run \ {r} : failed.lastError[q] = recorded.lastError[q]
    BY <2>3 DEF UpdateRunStatus, View
  <2>12. failed \in View
    BY <1>4, <2>3, UpdateRunStatusType
  <2>13. tx' = AppendRunEvent(failed, r, RunFailed)
    BY <2>5
  <2> HIDE DEF failed
  <2>11. /\ tx'.status[r] = "FAILED" /\ tx'.lastError[r] = TRUE
         /\ Adds(recorded.trace[r], RunFailed, tx'.trace[r])
         /\ \A q \in Run \ {r} : tx'.trace[q] = recorded.trace[q]
                                 /\ tx'.lastError[q] = recorded.lastError[q]
    BY <2>9, <2>12, <2>13, AppendRunEventTrace
  <2>10. \A q \in Run \ {r} : tx'.trace[q] = tx.trace[q] /\ tx'.lastError[q] = tx.lastError[q]
    BY <2>4, <2>11
  <2> QED
    BY <2>2, <2>6, <2>7, <2>8, <2>10, <2>11, FinalIteration
<1> QED
  BY <1>5, <1>6, <1>7, <1>8, <1>10, <1>11, <1>12, <1>13, <1>14 DEF Step

-----------------------------------------------------------------------------
(* TraceInv is inductive: one lemma per action that writes a trace. *)

\* The same rows, or fewer approved ones.
LEMMA RecordedSame ==
  ASSUME NEW r \in Run, NEW v, NEW w, Recorded(v, r),
         w.status[r] = v.status[r], w.lastError[r] = v.lastError[r], w.trace[r] = v.trace[r],
         \A a \in Approval : w.owner[a] = r /\ w.decision[a] = "APPROVED" =>
           v.owner[a] = r /\ v.decision[a] = "APPROVED"
  PROVE  Recorded(w, r)
<1>1. Explained(w, r)
  BY DEF Recorded, Explained
<1>2. Gated(w.trace[r])
  BY DEF Recorded
<1> QED
  BY <1>1, <1>2 DEF Recorded

\* POST /runs begins an empty trace.
LEMMA StartRunTraces ==
  ASSUME PlatformInv, TraceInv, NEW r \in Run, StartRun(r)
  PROVE  TraceInv'
<1>1. /\ db \in View /\ db.status[r] = "NONE" /\ Recorded(db, r)
      /\ ctx \in [Run -> Context]
  BY DEF StartRun, PlatformInv, TypeOK, CommittedRuns, CommittedRun, ApprovalsOf, Waiting, TraceInv
<1>2. db.trace[r] \in Seq(TraceEvent)
  BY <1>1 DEF View
<1>3. db.trace[r] = << >> /\ ~db.lastError[r]
  BY <1>1, <1>2, StatusTells DEF Recorded, Explained
<1>4. /\ tx'.trace = db.trace /\ tx'.lastError = db.lastError
      /\ tx'.owner = db.owner /\ tx'.decision = db.decision
      /\ \A q \in Run \ {r} : tx'.status[q] = db.status[q]
      /\ db' = db /\ handler'.pc = "engine" /\ handler'.run = r
      /\ ctx'[r].state = "PENDING"
  BY <1>1 DEF StartRun, CreateRun, View, Idle, NewContext
<1>5. UnderWay(r)'
  <2>1. tx'.trace[r] = << >> /\ ~tx'.lastError[r]
    BY <1>3, <1>4
  <2> QED
    BY <1>4, <2>1 DEF UnderWay, Gated, Cleared, NeverAsked
<1>6. ASSUME NEW q \in Run, q # r PROVE Recorded(tx', q)
  <2>1. Recorded(db, q)
    BY DEF TraceInv
  <2> QED
    BY <1>4, <1>6, <2>1, RecordedSame
<1>7. \A q \in Run : Recorded(db', q)
  BY <1>4 DEF TraceInv
<1> QED
  BY <1>4, <1>5, <1>6, <1>7 DEF TraceInv

\* A decision's event makes a waiting run's trace tell of the approval.
LEMMA ResolveApprovalTraces ==
  ASSUME PlatformInv, TraceInv, NEW a \in Approval, NEW d \in Decided, ResolveApproval(a, d)
  PROVE  TraceInv'
<1> DEFINE r == db.owner[a]
           resolved == ResolveApprovalRequest(db, a, d)
           e == ApprovalResolved(a, d)
<1>1. /\ db \in View /\ r \in Run /\ db.decision[a] = "PENDING" /\ db' = db
      /\ handler'.pc = "decided" /\ tx' = AppendRunEvent(resolved, r, e)
  BY DEF ResolveApproval, Resolvable, PlatformInv, TypeOK, View, Idle
<1>2. /\ resolved \in View /\ resolved.status = db.status /\ resolved.lastError = db.lastError
      /\ resolved.trace = db.trace /\ resolved.owner = db.owner
      /\ resolved.decision = [db.decision EXCEPT ![a] = d]
  <2>1. resolved \in View
    BY <1>1, ResolveApprovalRequestType DEF Decided
  <2> QED
    BY <1>1, <2>1 DEF ResolveApprovalRequest, View
<1>3. e \in TraceEvent /\ e.type = "APPROVAL_RESOLVED" /\ e.outcome = d
  BY EventsTyped DEF ApprovalResolved, Event, Decided, ApprovalStatus
<1>4. ~Starts(e) /\ ~Ends(e) /\ ~Answers(e) /\ ~Asks(e) /\ (d = "APPROVED" => Approves(e))
  BY <1>3 DEF Starts, Ends, Answers, Asks, Approves
<1> HIDE DEF resolved, e, r
<1>5. /\ tx'.status = db.status /\ tx'.lastError = db.lastError
      /\ tx'.owner = db.owner /\ tx'.decision = [db.decision EXCEPT ![a] = d]
      /\ Adds(db.trace[r], e, tx'.trace[r])
      /\ \A q \in Run \ {r} : tx'.trace[q] = db.trace[q]
  <2>1. /\ tx'.status = resolved.status /\ tx'.lastError = resolved.lastError
        /\ Adds(resolved.trace[r], e, tx'.trace[r])
        /\ \A q \in Run \ {r} : tx'.trace[q] = resolved.trace[q]
    BY <1>1, <1>2, AppendRunEventTrace
  <2>2. tx'.owner = resolved.owner /\ tx'.decision = resolved.decision
    BY <1>1, <1>2, AppendRunEventRows
  <2> QED
    BY <1>2, <2>1, <2>2
<1>6. ASSUME NEW q \in Run, q # r PROVE Recorded(tx', q)
  <2>1. \A b \in Approval : tx'.owner[b] = q => tx'.decision[b] = db.decision[b]
    BY <1>1, <1>5, <1>6 DEF r, View
  <2>2. Recorded(db, q)
    BY DEF TraceInv
  <2>3. /\ tx'.trace[q] = db.trace[q] /\ tx'.status[q] = db.status[q]
        /\ tx'.lastError[q] = db.lastError[q]
        /\ \A b \in Approval : tx'.owner[b] = q /\ tx'.decision[b] = "APPROVED" =>
             db.owner[b] = q /\ db.decision[b] = "APPROVED"
    BY <1>5, <1>6, <2>1
  <2> QED
    BY <2>2, <2>3, RecordedSame
<1>7. Recorded(tx', r)
  <2>1. Recorded(db, r) /\ db.status[r] = Waiting
    BY <1>1 DEF TraceInv, PlatformInv, CommittedRuns, CommittedRun, ApprovalsOf, r
  <2>2. db.trace[r] \in Seq(TraceEvent)
    BY <1>1 DEF View
  <2>3. Running(db.trace[r]) /\ Gated(db.trace[r]) /\ ~db.lastError[r]
    BY <2>1, <2>2, StatusTells DEF Recorded, Explained, Waiting
  <2>4. /\ tx'.trace[r] # << >> /\ tx'.trace[r][Len(tx'.trace[r])] = e
        /\ Shaped(tx'.trace[r]) /\ Gated(tx'.trace[r])
    BY <1>3, <1>4, <1>5, <2>2, <2>3, AppendTrace
  <2>5. StatusFromTrace(tx'.trace[r]) = Waiting
    BY <1>3, <2>4, LastEventTells
  <2>6. Explained(tx', r)
    BY <1>5, <2>1, <2>3, <2>4, <2>5 DEF Explained, Waiting
  <2>7. ASSUME NEW b \in Approval, tx'.owner[b] = r, tx'.decision[b] = "APPROVED"
        PROVE  Cleared(tx'.trace[r])
    <3>1. CASE b = a
      <4>1. d = "APPROVED"
        BY <1>1, <1>5, <2>7, <3>1 DEF View
      <4> QED
        BY <1>3, <1>4, <1>5, <2>2, <4>1, AppendTrace
    <3>2. CASE b # a
      <4>1. Cleared(db.trace[r])
        BY <1>1, <1>5, <2>1, <2>7, <3>2 DEF Recorded, View
      <4> QED
        BY <1>3, <1>4, <1>5, <2>2, <4>1, AppendTrace
    <3> QED
      BY <3>1, <3>2
  <2> QED
    BY <2>4, <2>6, <2>7 DEF Recorded
<1>8. \A q \in Run : Recorded(db', q)
  BY <1>1 DEF TraceInv
<1> QED
  BY <1>1, <1>6, <1>7, <1>8 DEF TraceInv

\* The engine keeps its run under way, or records what became of it.
LEMMA EngineStepTraces ==
  ASSUME PlatformInv, PlatformInv', TraceInv, EngineStep
  PROVE  TraceInv'
<1>1. /\ EngineTypeOK /\ EngineTypeOK'
      /\ handler \in [pc: {"engine"}, run: Run, approval: Approval \cup {NoApproval}]
  BY DEF PlatformInv, TypeOK, EngineTypeOK, EngineStep, Handler, Idle
<1>2. PICK r \in Run : r = handler.run
  BY <1>1
<1>3. /\ UnderWay(r) /\ tx.status[r] = ctx[r].state /\ Step(r, Approval \ used)
      /\ db' = db /\ handler'.run = r /\ handler'.approval = handler.approval
      /\ handler'.pc = IF ctx'[r].state = "IN_PROGRESS" THEN "engine" ELSE "returned"
  BY <1>1, <1>2
     DEF TraceInv, PlatformInv, HandlerInv, NewRun, ResumedRun, EngineStep
<1>4. LoopTrace(r)
  BY <1>1, <1>3, EngineTraceStep
<1>5. /\ \A q \in Run \ {r} : tx'.status[q] = tx.status[q]
      /\ \A q \in Run \ {r}, b \in Approval : tx'.owner[b] = q /\ tx'.decision[b] = "APPROVED" =>
           tx.owner[b] = q /\ tx.decision[b] = "APPROVED"
  <2>1. tx \in View
    BY <1>1 DEF EngineTypeOK
  <2>2. CASE \E s \in {"IN_PROGRESS", "COMPLETED", "FAILED"} : MovesTo(r, s)
    BY <2>1, <2>2 DEF MovesTo, View
  <2>3. CASE \E a \in Approval \ used : PausesOn(r, a)
    BY <2>1, <2>3 DEF PausesOn, View
  <2> QED
    BY <1>1, <1>3, <2>2, <2>3, LoopEffect
<1>6. ASSUME NEW q \in Run, q # r PROVE Recorded(tx', q)
  <2>1. Recorded(tx, q)
    BY <1>2, <1>6 DEF TraceInv
  <2> QED
    BY <1>4, <1>5, <1>6, <2>1, RecordedSame DEF LoopTrace
<1>7. CASE ctx'[r].state = "IN_PROGRESS"
  <2>1. UnderWay(r)' /\ handler'.pc = "engine"
    BY <1>3, <1>4, <1>7 DEF LoopTrace
  <2> QED
    BY <1>3, <1>6, <2>1 DEF TraceInv
<1>8. CASE ctx'[r].state # "IN_PROGRESS"
  <2>1. /\ Explained(tx', r) /\ Gated(tx'.trace[r])
        /\ ctx'[r].state # Waiting => Cleared(tx'.trace[r])
        /\ handler'.pc = "returned"
    BY <1>3, <1>4, <1>8 DEF LoopTrace
  <2>2. ctx'[r].state = Waiting =>
          \A b \in Approval : tx'.owner[b] = r => tx'.decision[b] = "PENDING"
    BY <1>3, <2>1 DEF PlatformInv, HandlerInv, NewRun, ResumedRun, Waiting
  <2>3. Recorded(tx', r)
    BY <2>1, <2>2 DEF Recorded
  <2> QED
    BY <1>3, <1>6, <2>1, <2>3 DEF TraceInv
<1> QED
  BY <1>7, <1>8

\* A resume finds a waiting run's trace; an approved one is cleared, another ends.
LEMMA ResumeTraces ==
  ASSUME PlatformInv, TraceInv, Resume
  PROVE  TraceInv'
<1>1. PICK r \in Run, a \in Approval, s \in {"IN_PROGRESS", "CANCELED"} :
        /\ handler.approval = a /\ memory.approvalToRun[a] = r /\ r \in memory.waiting
        /\ ~ResumeRefused(r)
        /\ ResumesTo(r, a, s)
  BY ResumeEffect
<1> DEFINE t == tx.trace[r]
           u == tx'.trace[r]
<1>2. /\ tx = db /\ db' = db /\ tx \in View /\ ctx \in [Run -> Context]
      /\ t \in Seq(TraceEvent)
      /\ db.owner[a] # NoRun /\ db.decision[a] \in Decided
      /\ handler.pc = "lookup"
  BY <1>1 DEF PlatformInv, TypeOK, HandlerInv, Resume, View
<1>3. db.owner[a] = r /\ ctx[r].approval = a
  BY <1>1, <1>2, NoRunAssumption DEF PlatformInv, Ownership, KeptContexts
<1>4. db.status[r] = Waiting
  BY <1>1, <1>3
     DEF PlatformInv, KeptContexts, CommittedRuns, CommittedRun, ApprovalsOf, Waiting
<1>5. Recorded(tx, r)
  BY <1>2 DEF TraceInv
<1>6. Running(t) /\ Gated(t)
  BY <1>2, <1>4, <1>5, StatusTells DEF Recorded, Explained
<1>7. ASSUME NEW q \in Run, q # r,
             tx'.lastError[q] = tx.lastError[q], tx'.trace[q] = tx.trace[q]
      PROVE  Recorded(tx', q)
  <2>1. tx'.status[q] = tx.status[q] /\ tx'.owner = tx.owner /\ tx'.decision = tx.decision
    BY <1>1, <1>2, <1>7 DEF ResumesTo, View
  <2>2. Recorded(tx, q)
    BY <1>2 DEF TraceInv
  <2> QED
    BY <1>7, <2>1, <2>2, RecordedSame
<1>8. \A q \in Run : Recorded(db', q)
  BY <1>2 DEF TraceInv
<1>9. CASE ResumeApproved(r) /\ handler' = [handler EXCEPT !.run = r, !.pc = "engine"]
  <2>1. tx' = UpdateRunStatus(tx, r, "IN_PROGRESS", FALSE) /\ tx.decision[a] = "APPROVED"
    BY <1>3, <1>9 DEF ResumeApproved
  <2>2. /\ tx'.trace = tx.trace /\ tx'.lastError[r] = FALSE
        /\ \A q \in Run \ {r} : tx'.lastError[q] = tx.lastError[q]
    BY <1>2, <2>1 DEF UpdateRunStatus, View
  <2>3. ctx'[r].state = "IN_PROGRESS" /\ ctx'[r].step = "generate_response"
    BY <1>2, <1>9 DEF ResumeApproved, Context
  <2>4. Cleared(t)
    BY <1>2, <1>3, <1>5, <2>1 DEF Recorded
  <2>5. ~BeforeTools(ctx'[r])
    BY <2>3 DEF BeforeTools, CurrentStep, NoStep
  <2>6. UnderWay(r)'
    BY <1>6, <2>2, <2>3, <2>4, <2>5 DEF UnderWay
  <2>7. handler'.run = r /\ handler'.pc = "engine"
    BY <1>2, <1>9 DEF PlatformInv, TypeOK, Handler, Idle
  <2> QED
    BY <1>7, <1>8, <2>2, <2>6, <2>7 DEF TraceInv
<1>10. CASE CancelRun(r) /\ handler' = [handler EXCEPT !.run = r, !.pc = "returned"]
  <2> DEFINE canceled == UpdateRunStatus(tx, r, "CANCELED", FALSE)
             e == RunCompleted("rejection", "CANCELED")
  <2>1. tx' = AppendRunEvent(canceled, r, e)
    BY <1>10 DEF CancelRun
  <2>2. canceled \in View
    BY <1>2, UpdateRunStatusType DEF RunStatus, RunState
  <2>3. /\ canceled.status[r] = "CANCELED" /\ canceled.lastError[r] = FALSE
        /\ canceled.trace = tx.trace
        /\ \A q \in Run \ {r} : canceled.lastError[q] = tx.lastError[q]
    BY <1>2 DEF UpdateRunStatus, View
  <2>4. /\ e \in TraceEvent /\ Ends(e) /\ e.outcome = "CANCELED"
        /\ ~Starts(e) /\ ~Asks(e) /\ ~Answers(e)
    BY EventsTyped DEF RunCompleted, Event, Ends, Starts, Asks, Answers, Response, RunState
  <2> HIDE DEF canceled, e
  <2>5. /\ tx'.status[r] = "CANCELED" /\ tx'.lastError[r] = FALSE
        /\ Adds(t, e, u)
        /\ \A q \in Run \ {r} : tx'.lastError[q] = tx.lastError[q] /\ tx'.trace[q] = tx.trace[q]
    BY <2>1, <2>2, <2>3, AppendRunEventTrace
  <2> HIDE DEF t, u
  <2>6. /\ u # << >> /\ u[Len(u)] = e /\ Shaped(u) /\ Gated(u)
        /\ Cleared(t) => Cleared(u)
    BY <1>2, <1>6, <2>4, <2>5, AppendTrace DEF Terminal
  <2>7. StatusFromTrace(u) = "CANCELED"
    BY <2>4, <2>6, LastEventTells
  <2>8. Explained(tx', r)
    BY <2>5, <2>6, <2>7 DEF Explained, u
  <2>9. tx'.owner = tx.owner /\ tx'.decision = tx.decision
    BY <1>1 DEF ResumesTo
  <2>10. Recorded(tx', r)
    BY <1>5, <2>6, <2>8, <2>9 DEF Recorded, t, u
  <2>11. handler'.pc = "returned"
    BY <1>2, <1>10 DEF PlatformInv, TypeOK, Handler, Idle
  <2> QED
    BY <1>7, <1>8, <2>5, <2>10, <2>11 DEF TraceInv
<1> QED
  BY <1>1, <1>9, <1>10 DEF Resume

\* Every step of the platform keeps TraceInv.
LEMMA TraceInvStep == PlatformInv /\ PlatformInv' /\ TraceInv /\ [Next]_vars => TraceInv'
<1> SUFFICES ASSUME PlatformInv, PlatformInv', TraceInv, [Next]_vars
             PROVE  TraceInv'
  OBVIOUS
<1>1. CASE UNCHANGED vars
  BY <1>1 DEF vars, TraceInv, UnderWay
<1>2. CASE (CommitRun \/ CommitDecision)
  <2>1. /\ handler.pc # "engine" /\ handler'.pc # "engine" /\ db' = tx /\ tx' = tx
    BY <1>2 DEF CommitRun, CommitDecision, Idle, PlatformInv, TypeOK, Handler
  <2> QED
    BY <2>1 DEF TraceInv
<1>3. CASE (NothingToResume \/ HandlerAborts \/ Crash)
  <2>1. handler'.pc # "engine" /\ db' = db /\ tx' = db
    BY <1>3 DEF NothingToResume, HandlerAborts, Crash, Idle, PlatformInv, HandlerInv
  <2> QED
    BY <2>1 DEF TraceInv
<1> QED
  BY <1>1, <1>2, <1>3, StartRunTraces, ResolveApprovalTraces, EngineStepTraces, ResumeTraces
     DEF Next, Request, HandlerStep, Decided

\* What the traces say at every step of a handler, crashes and aborted handlers included.
THEOREM TraceInvariant == Spec => []TraceInv
<1>1. Init => TraceInv
  <2> SUFFICES ASSUME Init, NEW r \in Run
               PROVE  Recorded(db, r) /\ Recorded(tx, r) /\ handler.pc # "engine"
    BY DEF TraceInv
  <2>1. /\ db.trace[r] = << >> /\ db.status[r] = "NONE" /\ db.lastError[r] = FALSE
        /\ tx = db /\ handler.pc # "engine"
    BY DEF Init, EmptyView, Idle
  <2>2. Recorded(db, r)
    BY <2>1 DEF Recorded, Explained, Shaped, Gated, Cleared, StatusFromTrace
  <2> QED
    BY <2>1, <2>2
<1> QED
  BY <1>1, TraceInvStep, PlatformInvariant, PTL DEF Spec

\* No answer and no completion follows a tool's request for approval unless the operator's
\* APPROVED lies in between, in any session.  (_request_approval, resume_after_approval)
THEOREM ApprovalPrecedesResponse == Spec => []NoResponseBeforeApproval
<1>1. TraceInv => NoResponseBeforeApproval
  <2> SUFFICES ASSUME TraceInv, NEW r \in Run,
                      NEW i \in At_(tx, r, {"TOOL_RESULT_RECEIVED"}),
                      tx.trace[r][i].outcome = "APPROVAL_REQUIRED",
                      NEW j \in At_(tx, r, {"MODEL_SELECTED", "RUN_COMPLETED"}),
                      j > i, tx.trace[r][j].outcome # "CANCELED"
               PROVE  \E k \in At_(tx, r, {"APPROVAL_RESOLVED"}) :
                        i < k /\ k < j /\ tx.trace[r][k].outcome = "APPROVED"
    BY DEF NoResponseBeforeApproval
  <2> DEFINE t == tx.trace[r]
  <2>1. /\ i \in 1..Len(t) /\ j \in 1..Len(t) /\ i < j
        /\ Asks(t[i]) /\ Answers(t[j])
    BY DEF At_, Asks, Answers
  <2>2. Gated(t)
    BY DEF TraceInv, UnderWay, Recorded
  <2>3. PICK k \in 1..Len(t) : i < k /\ k < j /\ Approves(t[k])
    BY <2>1, <2>2 DEF Gated
  <2> QED
    BY <2>3 DEF Approves, At_
<1> QED
  BY <1>1, TraceInvariant, PTL

\* The trace alone tells the status of a run, at every commit.
\* (update_run_status and append_run_event, always called together)
THEOREM TracesExplainStatus == Spec => []TraceExplainsStatus
<1>1. TraceInv => TraceExplainsStatus
  BY DEF TraceInv, Recorded, Explained, Shaped, Starts, Ends, TraceExplainsStatus
<1> QED
  BY <1>1, TraceInvariant, PTL

-----------------------------------------------------------------------------
(* What one iteration of the engine's loop writes to the trace of its run. *)

\* The events of an execution come after trace t in u.
WritesTools(plan, records, t, u) ==
  \E es \in Seq(TraceEvent) :
    AddsAll(ToolsCalled(plan), ToolResults(records), es) /\ AddsAll(t, es, u)

\* Before the tools: nothing, or one of two events.
WritesEarly(r) ==
  /\ ctx[r].state = "PENDING" \/ BeforeTools(ctx[r])
  /\ BeforeTools(ctx[r]) => BeforeTools(ctx'[r])
  /\ ctx'[r].state = "IN_PROGRESS"
  /\ ctx'[r].response = ctx[r].response
  /\ tx'.owner = tx.owner /\ tx'.decision = tx.decision
  /\ \/ tx'.trace[r] = tx.trace[r]
     \/ \E e \in {RunStarted, RetrievalCompleted} : Adds(tx.trace[r], e, tx'.trace[r])

\* The whole execution.
WritesExecution(r) ==
  /\ At(r, "execute_tools")
  /\ ctx'[r].state = "IN_PROGRESS" /\ ctx'[r].step = "generate_response"
  /\ ctx'[r].response = ctx[r].response
  /\ tx'.owner = tx.owner /\ tx'.decision = tx.decision
  /\ \E records \in Executions(ctx[r].planned) :
       /\ ~NeedsApproval(records)
       /\ ctx'[r].records = records
       /\ WritesTools(ctx[r].planned, records, tx.trace[r], tx'.trace[r])

\* The execution up to the tool that asks for approval, and the request.
WritesRequest(r, a) ==
  /\ At(r, "execute_tools")
  /\ ctx'[r].state = Waiting
  /\ ctx'[r].response = ctx[r].response
  /\ tx'.owner = [tx.owner EXCEPT ![a] = r]
  /\ tx'.decision = [tx.decision EXCEPT ![a] = "PENDING"]
  /\ \E records \in Executions(ctx[r].planned), w \in Seq(TraceEvent) :
       /\ NeedsApproval(records)
       /\ ctx'[r].records = records
       /\ WritesTools(ctx[r].planned, records, tx.trace[r], w)
       /\ Adds(w, ApprovalRequested(a), tx'.trace[r])

WritesAnswer(r) ==
  /\ At(r, "generate_response")
  /\ ctx'[r].state = "IN_PROGRESS" /\ ctx'[r].step = "complete"
  /\ ctx'[r].response = GenerateResponseText(ctx[r])
  /\ tx'.owner = tx.owner /\ tx'.decision = tx.decision
  /\ Adds(tx.trace[r], ModelSelected, tx'.trace[r])

WritesCompletion(r) ==
  /\ At(r, "complete")
  /\ ctx'[r].state = "COMPLETED"
  /\ ctx'[r].response = ctx[r].response
  /\ tx'.owner = tx.owner /\ tx'.decision = tx.decision
  /\ Adds(tx.trace[r], RunCompleted(ctx[r].response, "COMPLETED"), tx'.trace[r])

WritesFailure(r) ==
  /\ ctx[r].state = "IN_PROGRESS" /\ CurrentStep(ctx[r]) # "complete"
  /\ ctx'[r].state = "FAILED"
  /\ ctx'[r].response = ctx[r].response
  /\ tx'.owner = tx.owner /\ tx'.decision = tx.decision
  /\ \E es \in RecordedBeforeFailure(ctx[r]), w \in Seq(TraceEvent) :
       AddsAll(tx.trace[r], es, w) /\ Adds(w, RunFailed, tx'.trace[r])

\* The events of an execution, in the view before the engine goes on.
LEMMA AfterToolsWrites ==
  ASSUME tx \in View, NEW r \in Run, ctx[r] \in Context,
         NEW records \in Executions(ctx[r].planned), NEW w, w = AfterTools(r, records)
  PROVE  /\ w \in View
         /\ WritesTools(ctx[r].planned, records, tx.trace[r], w.trace[r])
         /\ w.owner = tx.owner /\ w.decision = tx.decision
         /\ \A q \in Run \ {r} : w.trace[q] = tx.trace[q]
<1> DEFINE es == ToolsCalled(ctx[r].planned) \o ToolResults(records)
<1>1. ctx[r].planned \in Seq(Tool) /\ records \in Seq(ToolRecord)
  BY ExecutionsType DEF Context
<1>2. AddsAll(ToolsCalled(ctx[r].planned), ToolResults(records), es) /\ es \in Seq(TraceEvent)
  BY <1>1, ExecutionIsQuiet DEF AddsAll
<1>3. w = AppendRunEvents(tx, r, es)
  BY DEF AfterTools
<1> HIDE DEF es
<1>4. w \in View
  BY <1>2, <1>3, AppendRunEventsType
<1>5. AddsAll(tx.trace[r], es, w.trace[r]) /\ \A q \in Run \ {r} : w.trace[q] = tx.trace[q]
  BY <1>2, <1>3, AppendRunEventsTrace
<1>6. w.owner = tx.owner /\ w.decision = tx.decision
  BY <1>3, AppendRunEventsRows
<1> QED
  BY <1>2, <1>4, <1>5, <1>6 DEF WritesTools

\* Every iteration of the loop.
LEMMA EngineWrites ==
  ASSUME EngineTypeOK, NEW r \in Run, Step(r, Approval \ used)
  PROVE  /\ \A q \in Run \ {r} : tx'.trace[q] = tx.trace[q]
         /\ \/ WritesEarly(r)
            \/ WritesExecution(r)
            \/ \E a \in Approval \ used : WritesRequest(r, a)
            \/ WritesAnswer(r)
            \/ WritesCompletion(r)
            \/ WritesFailure(r)
<1> DEFINE t == tx.trace[r]
           c == ctx[r]
<1>1. /\ tx \in View /\ t \in Seq(TraceEvent) /\ c \in Context /\ c.planned \in Seq(Tool)
      /\ ctx \in [Run -> Context]
  BY DEF EngineTypeOK, View, Context
<1>2. {"IN_PROGRESS", "COMPLETED", "FAILED", "WAITING_FOR_APPROVAL"} \subseteq RunStatus
  BY DEF RunStatus, RunState
<1>3. CASE Begin(r)
  <2>1. tx' = AppendRunEvent(UpdateRunStatus(tx, r, "IN_PROGRESS", FALSE), r, RunStarted)
    BY <1>3 DEF Begin
  <2> DEFINE moved == UpdateRunStatus(tx, r, "IN_PROGRESS", FALSE)
  <2>4. /\ moved \in View /\ moved.trace = tx.trace
        /\ moved.owner = tx.owner /\ moved.decision = tx.decision
    BY <1>1, <1>2, UpdateRunStatusType DEF UpdateRunStatus, View
  <2>5. tx' = AppendRunEvent(moved, r, RunStarted)
    BY <2>1
  <2> HIDE DEF moved
  <2>2. /\ Adds(t, RunStarted, tx'.trace[r])
        /\ tx'.owner = tx.owner /\ tx'.decision = tx.decision
        /\ \A q \in Run \ {r} : tx'.trace[q] = tx.trace[q]
    BY <2>4, <2>5, AppendRunEventTrace, AppendRunEventRows
  <2>3. /\ c.state = "PENDING" /\ ctx'[r].state = "IN_PROGRESS"
        /\ ctx'[r].response = c.response /\ CurrentStep(ctx'[r]) = CurrentStep(c)
    BY <1>1, <1>3 DEF Begin, CurrentStep, Context
  <2> QED
    BY <2>2, <2>3 DEF WritesEarly, BeforeTools
<1>4. CASE Classify(r) \/ DecideTools(r)
  <2>1. /\ BeforeTools(c) /\ ctx'[r].state = "IN_PROGRESS"
        /\ ctx'[r].response = c.response
    BY <1>1, <1>4 DEF Classify, DecideTools, At, Advance, Context, BeforeTools
  <2>2. BeforeTools(ctx'[r])
    <3>1. CASE Classify(r)
      <4>1. CurrentStep(c) = "classify" /\ CurrentStep(ctx'[r]) = NextStep(CurrentStep(c))
        BY <1>1, <3>1 DEF Classify, At, Advance, Context, CurrentStep, NextStep, NoStep
      <4> QED
        BY <4>1 DEF BeforeTools, NextStep
    <3>2. CASE DecideTools(r)
      <4>1. CurrentStep(c) = "decide_tools" /\ CurrentStep(ctx'[r]) = NextStep(CurrentStep(c))
        BY <1>1, <3>2 DEF DecideTools, At, Advance, Context, CurrentStep, NextStep, NoStep
      <4> QED
        BY <4>1 DEF BeforeTools, NextStep
    <3> QED
      BY <1>4, <3>1, <3>2
  <2>3. tx' = tx
    BY <1>4 DEF Classify, DecideTools
  <2> QED
    BY <2>1, <2>2, <2>3 DEF WritesEarly
<1>5. CASE RetrieveContext(r)
  <2>1. /\ BeforeTools(c) /\ ctx'[r].state = "IN_PROGRESS"
        /\ ctx'[r].response = c.response
    BY <1>1, <1>5 DEF RetrieveContext, At, Advance, Context, BeforeTools
  <2>2. BeforeTools(ctx'[r])
    BY <1>1, <1>5
       DEF RetrieveContext, At, Advance, Context, BeforeTools, CurrentStep, NextStep, NoStep
  <2>3. tx' = AppendRunEvent(tx, r, RetrievalCompleted)
    BY <1>5 DEF RetrieveContext
  <2>4. /\ Adds(t, RetrievalCompleted, tx'.trace[r])
        /\ tx'.owner = tx.owner /\ tx'.decision = tx.decision
        /\ \A q \in Run \ {r} : tx'.trace[q] = tx.trace[q]
    BY <1>1, <2>3, AppendRunEventTrace, AppendRunEventRows
  <2> QED
    BY <2>1, <2>2, <2>4 DEF WritesEarly
<1>6. CASE ExecuteTools(r)
  <2>1. PICK records \in Executions(c.planned) :
          /\ ~NeedsApproval(records) /\ tx' = AfterTools(r, records)
          /\ ctx' = [ctx EXCEPT ![r].records = records, ![r].step = "generate_response"]
    BY <1>6 DEF ExecuteTools
  <2>2. /\ At(r, "execute_tools") /\ ctx'[r].state = "IN_PROGRESS"
        /\ ctx'[r].step = "generate_response"
        /\ ctx'[r].response = c.response /\ ctx'[r].records = records
    BY <1>1, <1>6, <2>1 DEF ExecuteTools, At, Context
  <2>3. /\ WritesTools(c.planned, records, t, tx'.trace[r])
        /\ tx'.owner = tx.owner /\ tx'.decision = tx.decision
        /\ \A q \in Run \ {r} : tx'.trace[q] = tx.trace[q]
    BY <1>1, <2>1, AfterToolsWrites
  <2> QED
    BY <2>1, <2>2, <2>3 DEF WritesExecution
<1>7. ASSUME NEW a \in Approval \ used, RequestApproval(r, a)
      PROVE  WritesRequest(r, a) /\ \A q \in Run \ {r} : tx'.trace[q] = tx.trace[q]
  <2>1. PICK records \in Executions(c.planned) :
          /\ NeedsApproval(records)
          /\ ctx' = [ctx EXCEPT ![r].records = records, ![r].step = "request_approval_if_needed",
                                ![r].approval = a, ![r].state = "WAITING_FOR_APPROVAL"]
          /\ tx' = UpdateRunStatus(
                     AppendRunEvent(CreateApprovalRequest(AfterTools(r, records), a, r),
                                    r, ApprovalRequested(a)),
                     r, "WAITING_FOR_APPROVAL", FALSE)
    BY <1>7 DEF RequestApproval
  <2>2. /\ At(r, "execute_tools") /\ ctx'[r].state = Waiting
        /\ ctx'[r].response = c.response /\ ctx'[r].records = records
    BY <1>1, <1>7, <2>1 DEF RequestApproval, Context, Waiting
  <2> DEFINE called == AfterTools(r, records)
             created == CreateApprovalRequest(called, a, r)
             asked == AppendRunEvent(created, r, ApprovalRequested(a))
  <2>3. /\ called \in View
        /\ WritesTools(c.planned, records, t, called.trace[r])
        /\ called.owner = tx.owner /\ called.decision = tx.decision
        /\ \A q \in Run \ {r} : called.trace[q] = tx.trace[q]
    BY <1>1, AfterToolsWrites
  <2>4. tx' = UpdateRunStatus(asked, r, Waiting, FALSE)
    BY <2>1 DEF Waiting
  <2> HIDE DEF called
  <2>5. /\ created \in View /\ created.trace = called.trace
        /\ created.owner = [called.owner EXCEPT ![a] = r]
        /\ created.decision = [called.decision EXCEPT ![a] = "PENDING"]
    BY <2>3, CreateApprovalRequestType DEF CreateApprovalRequest, View
  <2> HIDE DEF created
  <2>6. asked \in View
    BY <2>5, AppendRunEventType, EventsTyped
  <2>7. /\ Adds(created.trace[r], ApprovalRequested(a), asked.trace[r])
        /\ asked.owner = created.owner /\ asked.decision = created.decision
        /\ \A q \in Run \ {r} : asked.trace[q] = created.trace[q]
    BY <2>5, AppendRunEventTrace, AppendRunEventRows
  <2> HIDE DEF asked
  <2>8. tx'.trace = asked.trace /\ tx'.owner = asked.owner /\ tx'.decision = asked.decision
    BY <2>4, <2>6 DEF UpdateRunStatus, View
  <2>9. called.trace[r] \in Seq(TraceEvent)
    BY <2>3 DEF View
  <2>10. Adds(called.trace[r], ApprovalRequested(a), tx'.trace[r])
    BY <2>5, <2>7, <2>8
  <2>11. tx'.owner = [tx.owner EXCEPT ![a] = r] /\ tx'.decision = [tx.decision EXCEPT ![a] = "PENDING"]
    BY <2>3, <2>5, <2>7, <2>8
  <2>12. \A q \in Run \ {r} : tx'.trace[q] = tx.trace[q]
    BY <2>3, <2>5, <2>7, <2>8
  <2> QED
    BY <2>1, <2>2, <2>3, <2>9, <2>10, <2>11, <2>12 DEF WritesRequest
<1>8. CASE GenerateResponse(r)
  <2>1. /\ At(r, "generate_response") /\ ctx'[r].state = "IN_PROGRESS"
        /\ ctx'[r].response = GenerateResponseText(c)
        /\ ctx'[r].step = "complete"
    BY <1>1, <1>8 DEF GenerateResponse, At, Advance, NextStep, NoStep, Context
  <2>2. tx' = AppendRunEvent(tx, r, ModelSelected)
    BY <1>8 DEF GenerateResponse
  <2>3. /\ Adds(t, ModelSelected, tx'.trace[r])
        /\ tx'.owner = tx.owner /\ tx'.decision = tx.decision
        /\ \A q \in Run \ {r} : tx'.trace[q] = tx.trace[q]
    BY <1>1, <2>2, AppendRunEventTrace, AppendRunEventRows
  <2> QED
    BY <2>1, <2>3 DEF WritesAnswer
<1>9. CASE Complete(r)
  <2> DEFINE e == RunCompleted(c.response, "COMPLETED")
  <2>1. e \in TraceEvent
    BY <1>1, EventsTyped DEF Context, RunState
  <2>2. /\ tx' = AppendRunEvent(UpdateRunStatus(tx, r, "COMPLETED", FALSE), r, e)
        /\ At(r, "complete") /\ ctx'[r].state = "COMPLETED"
        /\ ctx'[r].response = c.response
    BY <1>1, <1>9 DEF Complete, Context
  <2> HIDE DEF e
  <2> DEFINE moved == UpdateRunStatus(tx, r, "COMPLETED", FALSE)
  <2>4. /\ moved \in View /\ moved.trace = tx.trace
        /\ moved.owner = tx.owner /\ moved.decision = tx.decision
    BY <1>1, <1>2, UpdateRunStatusType DEF UpdateRunStatus, View
  <2>5. tx' = AppendRunEvent(moved, r, e)
    BY <2>2
  <2> HIDE DEF moved
  <2>3. /\ Adds(t, e, tx'.trace[r])
        /\ tx'.owner = tx.owner /\ tx'.decision = tx.decision
        /\ \A q \in Run \ {r} : tx'.trace[q] = tx.trace[q]
    BY <2>4, <2>5, AppendRunEventTrace, AppendRunEventRows
  <2> QED
    BY <2>2, <2>3 DEF WritesCompletion, e
<1>10. CASE CollaboratorFails(r)
  <2>1. PICK es \in RecordedBeforeFailure(c) :
          tx' = AppendRunEvent(UpdateRunStatus(AppendRunEvents(tx, r, es), r, "FAILED", TRUE),
                               r, RunFailed)
    BY <1>10 DEF CollaboratorFails
  <2>2. /\ c.state = "IN_PROGRESS" /\ CurrentStep(c) # "complete" /\ ctx'[r].state = "FAILED"
        /\ ctx'[r].response = c.response
    BY <1>1, <1>10 DEF CollaboratorFails, Context
  <2> DEFINE recorded == AppendRunEvents(tx, r, es)
  <2>3. es \in Seq(TraceEvent) /\ recorded \in View
    BY <1>1, RecordedType, AppendRunEventsType
  <2>4. /\ AddsAll(t, es, recorded.trace[r])
        /\ recorded.owner = tx.owner /\ recorded.decision = tx.decision
        /\ \A q \in Run \ {r} : recorded.trace[q] = tx.trace[q]
    BY <1>1, <2>3, AppendRunEventsTrace, AppendRunEventsRows
  <2> HIDE DEF recorded
  <2> DEFINE failed == UpdateRunStatus(recorded, r, "FAILED", TRUE)
  <2>7. /\ failed \in View /\ failed.trace = recorded.trace
        /\ failed.owner = recorded.owner /\ failed.decision = recorded.decision
    BY <1>2, <2>3, UpdateRunStatusType DEF UpdateRunStatus, View
  <2>8. tx' = AppendRunEvent(failed, r, RunFailed)
    BY <2>1 DEF recorded
  <2> HIDE DEF failed
  <2>5. /\ Adds(recorded.trace[r], RunFailed, tx'.trace[r])
        /\ tx'.owner = recorded.owner /\ tx'.decision = recorded.decision
        /\ \A q \in Run \ {r} : tx'.trace[q] = recorded.trace[q]
    BY <2>7, <2>8, AppendRunEventTrace, AppendRunEventRows
  <2>6. recorded.trace[r] \in Seq(TraceEvent)
    BY <2>3 DEF View
  <2> QED
    BY <2>1, <2>2, <2>4, <2>5, <2>6 DEF WritesFailure
<1> QED
  BY <1>3, <1>4, <1>5, <1>6, <1>7, <1>8, <1>9, <1>10 DEF Step

\* The trace of an execution: what was there, the calls of the plan, the results.
LEMMA ToolEvents ==
  ASSUME NEW plan \in Seq(Tool), NEW records \in Seq(ToolRecord),
         NEW t \in Seq(TraceEvent), NEW u, WritesTools(plan, records, t, u)
  PROVE  /\ u \in Seq(TraceEvent)
         /\ Len(u) = Len(t) + Len(plan) + Len(records)
         /\ \A i \in 1..Len(t) : u[i] = t[i]
         /\ \A k \in 1..Len(plan) : u[Len(t) + k] = Event("TOOL_CALLED", plan[k], Nothing)
         /\ \A k \in 1..Len(records) : u[Len(t) + Len(plan) + k] =
              Event("TOOL_RESULT_RECEIVED", records[k].tool, records[k].status)
<1> DEFINE called == ToolsCalled(plan)
           results == ToolResults(records)
<1>1. PICK es \in Seq(TraceEvent) : AddsAll(called, results, es) /\ AddsAll(t, es, u)
  BY DEF WritesTools
<1>2. called \in Seq(TraceEvent) /\ results \in Seq(TraceEvent)
  BY ToolsCalledType, ToolResultsType
<1>3. Len(called) = Len(plan) /\ Len(results) = Len(records)
  <2>1. DOMAIN called = 1..Len(plan) /\ DOMAIN results = 1..Len(records)
    BY DEF ToolsCalled, ToolResults
  <2>2. Len(plan) \in Nat /\ Len(records) \in Nat
    OBVIOUS
  <2> QED
    BY <1>2, <2>1, <2>2, LenProperties
<1>4. \A k \in 1..Len(plan) : called[k] = Event("TOOL_CALLED", plan[k], Nothing)
  BY DEF ToolsCalled
<1>5. \A k \in 1..Len(records) :
        results[k] = Event("TOOL_RESULT_RECEIVED", records[k].tool, records[k].status)
  BY DEF ToolResults
<1> HIDE DEF called, results
<1>6. /\ Len(es) = Len(called) + Len(results)
      /\ \A k \in 1..Len(es) : es[k] = IF k <= Len(called) THEN called[k] ELSE results[k - Len(called)]
  BY <1>1, <1>2, ConcatProperties DEF AddsAll
<1>7. /\ u \in Seq(TraceEvent) /\ Len(u) = Len(t) + Len(es)
      /\ \A i \in 1..Len(u) : u[i] = IF i <= Len(t) THEN t[i] ELSE es[i - Len(t)]
  BY <1>1, ConcatProperties DEF AddsAll
<1>8. Len(t) \in Nat /\ Len(plan) \in Nat /\ Len(records) \in Nat
  OBVIOUS
<1>9. \A i \in 1..Len(t) : u[i] = t[i]
  BY <1>3, <1>6, <1>7, <1>8
<1>10. ASSUME NEW k \in 1..Len(plan)
       PROVE  u[Len(t) + k] = Event("TOOL_CALLED", plan[k], Nothing)
  <2>1. Len(t) + k \in 1..Len(u) /\ ~(Len(t) + k <= Len(t)) /\ (Len(t) + k) - Len(t) = k
    BY <1>3, <1>6, <1>7, <1>8
  <2>2. u[Len(t) + k] = es[k]
    BY <1>7, <2>1
  <2>3. es[k] = called[k]
    BY <1>3, <1>6, <1>8
  <2> QED
    BY <1>4, <2>2, <2>3
<1>11. ASSUME NEW k \in 1..Len(records)
       PROVE  u[Len(t) + Len(plan) + k] =
                Event("TOOL_RESULT_RECEIVED", records[k].tool, records[k].status)
  <2> DEFINE i == Len(t) + Len(plan) + k
             j == Len(plan) + k
  <2>1. i \in 1..Len(u) /\ ~(i <= Len(t)) /\ i - Len(t) = j
    BY <1>3, <1>6, <1>7, <1>8
  <2>2. j \in 1..Len(es) /\ ~(j <= Len(called)) /\ j - Len(called) = k
    BY <1>3, <1>6, <1>8
  <2>3. u[i] = es[j] /\ es[j] = results[k]
    BY <1>6, <1>7, <2>1, <2>2
  <2> QED
    BY <1>5, <2>3
<1> QED
  BY <1>3, <1>6, <1>7, <1>8, <1>9, <1>10, <1>11

-----------------------------------------------------------------------------
(* ApprovalInv is inductive: what a trace says of approvals. *)

\* Trace u goes on where t ends, without a word about approvals.
Silent(t, u) ==
  /\ Len(t) \in Nat /\ Len(u) \in Nat /\ Len(t) <= Len(u)
  /\ \A i \in 1..Len(t) : u[i] = t[i]
  /\ \A i \in 1..Len(u) : i \notin 1..Len(t) =>
       u[i].type \notin {"APPROVAL_REQUESTED", "APPROVAL_RESOLVED"}

\* One event of another type is silent.
LEMMA AppendSilent ==
  ASSUME NEW t \in Seq(TraceEvent), NEW e \in TraceEvent, NEW u, Adds(t, e, u),
         e.type \notin {"APPROVAL_REQUESTED", "APPROVAL_RESOLVED"}
  PROVE  Silent(t, u)
<1>1. /\ Len(t) \in Nat /\ Len(u) = Len(t) + 1 /\ u[Len(t) + 1] = e
      /\ \A i \in 1..Len(t) : u[i] = t[i]
  BY AppendProperties DEF Adds
<1>2. \A i \in 1..Len(u) : i \notin 1..Len(t) => i = Len(t) + 1
  BY <1>1
<1> QED
  BY <1>1, <1>2 DEF Silent

\* An execution is silent.
LEMMA ExecutionSilent ==
  ASSUME NEW plan \in Seq(Tool), NEW records \in Seq(ToolRecord),
         NEW t \in Seq(TraceEvent), NEW u, WritesTools(plan, records, t, u)
  PROVE  Silent(t, u)
<1>1. /\ Len(u) = Len(t) + Len(plan) + Len(records)
      /\ \A i \in 1..Len(t) : u[i] = t[i]
      /\ \A k \in 1..Len(plan) : u[Len(t) + k] = Event("TOOL_CALLED", plan[k], Nothing)
      /\ \A k \in 1..Len(records) : u[Len(t) + Len(plan) + k] =
           Event("TOOL_RESULT_RECEIVED", records[k].tool, records[k].status)
  BY ToolEvents
<1>2. Len(t) \in Nat /\ Len(plan) \in Nat /\ Len(records) \in Nat
  OBVIOUS
<1>3. ASSUME NEW i \in 1..Len(u), i \notin 1..Len(t)
      PROVE  u[i].type \in {"TOOL_CALLED", "TOOL_RESULT_RECEIVED"}
  <2>1. CASE i <= Len(t) + Len(plan)
    <3>1. i - Len(t) \in 1..Len(plan) /\ Len(t) + (i - Len(t)) = i
      BY <1>1, <1>2, <1>3, <2>1
    <3>2. u[i] = Event("TOOL_CALLED", plan[i - Len(t)], Nothing)
      BY <1>1, <3>1
    <3> QED
      BY <3>2 DEF Event
  <2>2. CASE ~(i <= Len(t) + Len(plan))
    <3> DEFINE k == i - (Len(t) + Len(plan))
    <3>1. k \in 1..Len(records) /\ Len(t) + Len(plan) + k = i
      BY <1>1, <1>2, <1>3, <2>2
    <3>2. u[i] = Event("TOOL_RESULT_RECEIVED", records[k].tool, records[k].status)
      BY <1>1, <3>1
    <3> QED
      BY <3>2 DEF Event
  <2> QED
    BY <2>1, <2>2
<1>4. Len(u) \in Nat /\ Len(t) <= Len(u)
  BY <1>1, <1>2
<1>5. \A i \in 1..Len(u) : i \notin 1..Len(t) =>
        u[i].type \notin {"APPROVAL_REQUESTED", "APPROVAL_RESOLVED"}
  BY <1>3
<1> QED
  BY <1>1, <1>2, <1>4, <1>5, Zenon DEF Silent

\* What a failing step has recorded is silent.
LEMMA RecordedSilent ==
  ASSUME NEW c \in Context, NEW es \in RecordedBeforeFailure(c),
         NEW t \in Seq(TraceEvent), NEW u, AddsAll(t, es, u)
  PROVE  Silent(t, u)
<1>1. es \in Seq(TraceEvent)
  BY RecordedType
<1>2. \A i \in 1..Len(es) : es[i].type \in {"TOOL_CALLED", "MODEL_SELECTED"}
  <2>1. CASE es = ToolsCalled(c.planned)
    <3>1. c.planned \in Seq(Tool)
      BY DEF Context
    <3>2. DOMAIN es = 1..Len(c.planned)
      BY <2>1 DEF ToolsCalled
    <3>3. DOMAIN es = 1..Len(es)
      BY <1>1
    <3> QED
      BY <2>1, <3>2, <3>3 DEF ToolsCalled, Event
  <2>2. CASE es = << >>
    BY <2>2
  <2>3. CASE es = <<ModelSelected>>
    BY <2>3 DEF ModelSelected, Event
  <2> QED
    BY <2>1, <2>2, <2>3 DEF RecordedBeforeFailure
<1>5. AddsAll(t, es, u)
  OBVIOUS
<1>3. /\ Len(t) \in Nat /\ Len(es) \in Nat /\ Len(u) = Len(t) + Len(es)
      /\ \A i \in 1..Len(t) : u[i] = t[i]
      /\ \A i \in 1..Len(u) : i \notin 1..Len(t) => \E k \in 1..Len(es) : u[i] = es[k]
  BY ONLY <1>1, <1>5, ConcatEvents
<1>4. \A i \in 1..Len(u) : i \notin 1..Len(t) => u[i].type \in {"TOOL_CALLED", "MODEL_SELECTED"}
  BY <1>2, <1>3
<1> QED
  BY <1>3, <1>4 DEF Silent

\* Being silent twice is being silent.
LEMMA SilentTwice ==
  ASSUME NEW t, NEW u, NEW w, Silent(t, u), Silent(u, w)
  PROVE  Silent(t, w)
<1>1. \A i \in 1..Len(t) : i \in 1..Len(u) /\ w[i] = t[i]
  BY DEF Silent
<1>2. \A i \in 1..Len(w) : i \notin 1..Len(t) =>
        w[i].type \notin {"APPROVAL_REQUESTED", "APPROVAL_RESOLVED"}
  <2> SUFFICES ASSUME NEW i \in 1..Len(w), i \notin 1..Len(t)
               PROVE  w[i].type \notin {"APPROVAL_REQUESTED", "APPROVAL_RESOLVED"}
    OBVIOUS
  <2>1. CASE i \in 1..Len(u)
    BY <2>1 DEF Silent
  <2>2. CASE i \notin 1..Len(u)
    BY <2>2 DEF Silent
  <2> QED
    BY <2>1, <2>2
<1>3. Len(t) \in Nat /\ Len(w) \in Nat /\ Len(t) <= Len(w)
  BY DEF Silent
<1> QED
  BY <1>1, <1>2, <1>3 DEF Silent

\* What silence leaves of an account: everything.
LEMMA SilentAccounts ==
  ASSUME NEW t, NEW u, Silent(t, u), NEW r, NEW owner, NEW decision, NEW a,
         Accounts(t, r, owner, decision, a)
  PROVE  Accounts(u, r, owner, decision, a)
<1>1. \A i \in 1..Len(t) : i \in 1..Len(u) /\ u[i] = t[i]
  BY DEF Silent
<1>2. ASSUME NEW type \in {"APPROVAL_REQUESTED", "APPROVAL_RESOLVED"}
      PROVE  \A i \in 1..Len(u) : Says(u[i], type, a) => i \in 1..Len(t) /\ u[i] = t[i]
  BY <1>1, <1>2 DEF Silent, Says
<1>3. ASSUME NEW type \in {"APPROVAL_REQUESTED", "APPROVAL_RESOLVED"}
      PROVE  /\ Tells(u, type, a) <=> Tells(t, type, a)
             /\ Once(t, type, a) => Once(u, type, a)
  <2>1. Tells(u, type, a) <=> Tells(t, type, a)
    BY <1>1, <1>2 DEF Tells
  <2>2. Once(t, type, a) => Once(u, type, a)
    BY <1>2 DEF Once
  <2> QED
    BY <2>1, <2>2
<1>4. \A i \in 1..Len(u) : Says(u[i], "APPROVAL_RESOLVED", a) => u[i].outcome = decision
  BY <1>2 DEF Accounts
<1> QED
  BY <1>3, <1>4 DEF Accounts

\* What one event adds to what is said.
LEMMA AppendSays ==
  ASSUME NEW t \in Seq(TraceEvent), NEW e \in TraceEvent, NEW u, Adds(t, e, u),
         NEW type, NEW a
  PROVE  /\ Tells(u, type, a) <=> Tells(t, type, a) \/ Says(e, type, a)
         /\ Once(t, type, a) /\ ~(Tells(t, type, a) /\ Says(e, type, a)) => Once(u, type, a)
         /\ \A i \in 1..Len(u) : (i \in 1..Len(t) /\ u[i] = t[i]) \/ (i = Len(u) /\ u[i] = e)
<1>1. /\ Len(t) \in Nat /\ Len(u) = Len(t) + 1 /\ u[Len(t) + 1] = e
      /\ \A i \in 1..Len(t) : u[i] = t[i]
  BY AppendProperties DEF Adds
<1>2. \A i \in 1..Len(t) : i \in 1..Len(u) /\ u[i] = t[i]
  BY <1>1
<1>3. \A i \in 1..Len(u) : (i \in 1..Len(t) /\ u[i] = t[i]) \/ (i = Len(u) /\ u[i] = e)
  BY <1>1
<1>4. Len(u) \in 1..Len(u) /\ u[Len(u)] = e
  BY <1>1
<1>5. Tells(u, type, a) <=> Tells(t, type, a) \/ Says(e, type, a)
  BY <1>2, <1>3, <1>4 DEF Tells
<1>6. ASSUME Once(t, type, a), ~(Tells(t, type, a) /\ Says(e, type, a)),
             NEW i \in 1..Len(u), NEW j \in 1..Len(u),
             Says(u[i], type, a), Says(u[j], type, a)
      PROVE  i = j
  BY <1>3, <1>6 DEF Once, Tells
<1>7. Once(t, type, a) /\ ~(Tells(t, type, a) /\ Says(e, type, a)) => Once(u, type, a)
  BY <1>6 DEF Once
<1> QED
  BY <1>3, <1>5, <1>7

\* The account of an event about another approval.
LEMMA OtherAccounts ==
  ASSUME NEW t \in Seq(TraceEvent), NEW e \in TraceEvent, NEW u, Adds(t, e, u),
         NEW r, NEW owner, NEW decision, NEW a, e.subject # a,
         Accounts(t, r, owner, decision, a)
  PROVE  Accounts(u, r, owner, decision, a)
<1>1. \A type : ~Says(e, type, a)
  BY DEF Says
<1>2. \A i \in 1..Len(u) : (i \in 1..Len(t) /\ u[i] = t[i]) \/ (i = Len(u) /\ u[i] = e)
  BY AppendSays
<1>3. /\ Tells(u, "APPROVAL_REQUESTED", a) <=> Tells(t, "APPROVAL_REQUESTED", a)
      /\ Once(t, "APPROVAL_REQUESTED", a) => Once(u, "APPROVAL_REQUESTED", a)
  BY <1>1, AppendSays
<1>4. /\ Tells(u, "APPROVAL_RESOLVED", a) <=> Tells(t, "APPROVAL_RESOLVED", a)
      /\ Once(t, "APPROVAL_RESOLVED", a) => Once(u, "APPROVAL_RESOLVED", a)
  BY <1>1, AppendSays
<1>5. \A i \in 1..Len(u) : Says(u[i], "APPROVAL_RESOLVED", a) => u[i].outcome = decision
  BY <1>1, <1>2 DEF Accounts
<1> QED
  BY <1>3, <1>4, <1>5 DEF Accounts

\* The account of a request.
LEMMA RequestAccounts ==
  ASSUME NEW t \in Seq(TraceEvent), NEW a \in Approval, NEW u, Adds(t, ApprovalRequested(a), u),
         NEW r, NEW owner, owner # r, NEW decision, Accounts(t, r, owner, decision, a)
  PROVE  Accounts(u, r, r, "PENDING", a)
<1> DEFINE e == ApprovalRequested(a)
<1>1. e \in TraceEvent /\ Says(e, "APPROVAL_REQUESTED", a) /\ ~Says(e, "APPROVAL_RESOLVED", a)
  BY EventsTyped DEF ApprovalRequested, Event, Says
<1> HIDE DEF e
<1>2. Adds(t, e, u)
  BY DEF e
<1>3. \A i \in 1..Len(u) : (i \in 1..Len(t) /\ u[i] = t[i]) \/ (i = Len(u) /\ u[i] = e)
  BY <1>1, <1>2, AppendSays
<1>4. Tells(u, "APPROVAL_REQUESTED", a) /\ Once(u, "APPROVAL_REQUESTED", a)
  BY <1>1, <1>2, AppendSays DEF Accounts
<1>5. ~Tells(u, "APPROVAL_RESOLVED", a) /\ Once(u, "APPROVAL_RESOLVED", a)
  BY <1>1, <1>2, AppendSays DEF Accounts
<1>6. \A i \in 1..Len(u) : ~Says(u[i], "APPROVAL_RESOLVED", a)
  BY <1>5 DEF Tells
<1> QED
  BY <1>4, <1>5, <1>6 DEF Accounts, Decided

\* The account of a resolution.
LEMMA ResolutionAccounts ==
  ASSUME NEW t \in Seq(TraceEvent), NEW a \in Approval, NEW d \in Decided, NEW u,
         Adds(t, ApprovalResolved(a, d), u), NEW r, Accounts(t, r, r, "PENDING", a)
  PROVE  Accounts(u, r, r, d, a)
<1> DEFINE e == ApprovalResolved(a, d)
<1>1. /\ e \in TraceEvent /\ e.outcome = d
      /\ Says(e, "APPROVAL_RESOLVED", a) /\ ~Says(e, "APPROVAL_REQUESTED", a)
  BY EventsTyped DEF ApprovalResolved, Event, Says, Decided, ApprovalStatus
<1> HIDE DEF e
<1>2. Adds(t, e, u)
  BY DEF e
<1>3. \A i \in 1..Len(u) : (i \in 1..Len(t) /\ u[i] = t[i]) \/ (i = Len(u) /\ u[i] = e)
  BY <1>1, <1>2, AppendSays
<1>4. Tells(u, "APPROVAL_REQUESTED", a) /\ Once(u, "APPROVAL_REQUESTED", a)
  BY <1>1, <1>2, AppendSays DEF Accounts
<1>5. ~Tells(t, "APPROVAL_RESOLVED", a) /\ Once(t, "APPROVAL_RESOLVED", a)
  BY DEF Accounts, Decided
<1>6. Tells(u, "APPROVAL_RESOLVED", a) /\ Once(u, "APPROVAL_RESOLVED", a)
  BY <1>1, <1>2, <1>5, AppendSays
<1>7. \A i \in 1..Len(u) : Says(u[i], "APPROVAL_RESOLVED", a) => u[i].outcome = d
  BY <1>1, <1>3, <1>5 DEF Tells
<1> QED
  BY <1>4, <1>6, <1>7 DEF Accounts

\* The account of an approval that nobody names in a trace.
LEMMA AccountedSame ==
  ASSUME NEW r \in Run, NEW a \in Approval, NEW v, NEW w, Accounted(v, r, a),
         w.trace[r] = v.trace[r], w.owner[a] = r <=> v.owner[a] = r,
         v.owner[a] = r => w.decision[a] = v.decision[a]
  PROVE  Accounted(w, r, a)
<1>1. CASE v.owner[a] = r
  BY <1>1 DEF Accounted
<1>2. CASE v.owner[a] # r
  BY <1>2 DEF Accounted, Accounts, Tells
<1> QED
  BY <1>1, <1>2

\* An iteration of the loop is silent, but for a request.
LEMMA EngineSilent ==
  ASSUME EngineTypeOK, NEW r \in Run, Step(r, Approval \ used)
  PROVE  /\ \A q \in Run \ {r} : tx'.trace[q] = tx.trace[q]
         /\ \/ /\ tx'.owner = tx.owner /\ tx'.decision = tx.decision
               /\ Silent(tx.trace[r], tx'.trace[r])
            \/ \E b \in Approval \ used, w \in Seq(TraceEvent) :
                 /\ tx'.owner = [tx.owner EXCEPT ![b] = r]
                 /\ tx'.decision = [tx.decision EXCEPT ![b] = "PENDING"]
                 /\ Silent(tx.trace[r], w)
                 /\ Adds(w, ApprovalRequested(b), tx'.trace[r])
<1> DEFINE t == tx.trace[r]
           u == tx'.trace[r]
           c == ctx[r]
           Unasked == /\ tx'.owner = tx.owner /\ tx'.decision = tx.decision
                      /\ Silent(t, u)
<1>1. /\ t \in Seq(TraceEvent) /\ c \in Context /\ c.planned \in Seq(Tool)
      /\ Len(t) \in Nat
  BY DEF EngineTypeOK, View, Context
<1>2. ASSUME WritesEarly(r) PROVE Unasked
  <2>1. ASSUME u = t PROVE Unasked
    BY <1>1, <1>2, <2>1 DEF WritesEarly, Silent
  <2>2. ASSUME NEW e \in {RunStarted, RetrievalCompleted}, Adds(t, e, u) PROVE Unasked
    <3>1. e \in TraceEvent /\ e.type \notin {"APPROVAL_REQUESTED", "APPROVAL_RESOLVED"}
      BY EventsTyped DEF RunStarted, RetrievalCompleted, Event
    <3> HIDE DEF t, u
    <3>2. Silent(t, u)
      BY <1>1, <2>2, <3>1, AppendSilent
    <3> QED
      BY <1>2, <3>2 DEF WritesEarly
  <2> QED
    BY <1>2, <2>1, <2>2 DEF WritesEarly
<1>3. ASSUME WritesExecution(r) PROVE Unasked
  <2>1. PICK records \in Executions(c.planned) : WritesTools(c.planned, records, t, u)
    BY <1>3 DEF WritesExecution
  <2>2. records \in Seq(ToolRecord)
    BY <1>1, ExecutionsType
  <2>3. Silent(t, u)
    BY <1>1, <2>1, <2>2, ExecutionSilent
  <2> QED
    BY <1>3, <2>3 DEF WritesExecution
<1>4. ASSUME NEW b \in Approval \ used, WritesRequest(r, b)
      PROVE  \E w \in Seq(TraceEvent) :
               /\ tx'.owner = [tx.owner EXCEPT ![b] = r]
               /\ tx'.decision = [tx.decision EXCEPT ![b] = "PENDING"]
               /\ Silent(t, w)
               /\ Adds(w, ApprovalRequested(b), u)
  <2>1. PICK records \in Executions(c.planned), w \in Seq(TraceEvent) :
          WritesTools(c.planned, records, t, w) /\ Adds(w, ApprovalRequested(b), u)
    BY <1>4 DEF WritesRequest
  <2>2. records \in Seq(ToolRecord)
    BY <1>1, ExecutionsType
  <2>3. Silent(t, w)
    BY <1>1, <2>1, <2>2, ExecutionSilent
  <2> QED
    BY <1>4, <2>1, <2>3 DEF WritesRequest
<1>5. ASSUME WritesAnswer(r) PROVE Unasked
  <2>1. ModelSelected \in TraceEvent /\ ModelSelected.type = "MODEL_SELECTED"
    BY EventsTyped DEF ModelSelected, Event
  <2>2. Adds(t, ModelSelected, u)
    BY <1>5 DEF WritesAnswer
  <2> HIDE DEF t, u
  <2>3. Silent(t, u)
    BY <1>1, <2>1, <2>2, AppendSilent
  <2> QED
    BY <1>5, <2>3 DEF WritesAnswer
<1>6. ASSUME WritesCompletion(r) PROVE Unasked
  <2> DEFINE e == RunCompleted(c.response, "COMPLETED")
  <2>1. e \in TraceEvent /\ e.type = "RUN_COMPLETED"
    BY <1>1, EventsTyped DEF Context, RunState, RunCompleted, Event
  <2>2. Adds(t, e, u)
    BY <1>6 DEF WritesCompletion
  <2> HIDE DEF t, u, e
  <2>3. Silent(t, u)
    BY <1>1, <2>1, <2>2, AppendSilent
  <2> QED
    BY <1>6, <2>3 DEF WritesCompletion
<1>7. ASSUME WritesFailure(r) PROVE Unasked
  <2>1. PICK es \in RecordedBeforeFailure(c), w \in Seq(TraceEvent) :
          AddsAll(t, es, w) /\ Adds(w, RunFailed, u)
    BY <1>7 DEF WritesFailure
  <2>2. RunFailed \in TraceEvent /\ RunFailed.type = "RUN_FAILED"
    BY EventsTyped DEF RunFailed, Event
  <2> HIDE DEF t, u, c
  <2>3. Silent(t, w) /\ Silent(w, u)
    BY <1>1, <2>1, <2>2, AppendSilent, RecordedSilent
  <2>4. Silent(t, u)
    BY <2>3, SilentTwice
  <2> QED
    BY <1>7, <2>4 DEF WritesFailure
<1> QED
  BY <1>2, <1>3, <1>4, <1>5, <1>6, <1>7, EngineWrites

\* The engine accounts for its request, and says nothing else of approvals.
LEMMA EngineStepAccounts ==
  ASSUME PlatformInv, ApprovalInv, EngineStep, NEW q \in Run, NEW a \in Approval
  PROVE  Accounted(tx', q, a)
<1>1. /\ EngineTypeOK /\ tx \in View
      /\ handler \in [pc: {"engine"}, run: Run, approval: Approval \cup {NoApproval}]
  BY DEF PlatformInv, TypeOK, EngineTypeOK, EngineStep, Handler, Idle
<1>2. PICK r \in Run : r = handler.run
  BY <1>1
<1>3. Step(r, Approval \ used)
  BY <1>2 DEF EngineStep
<1>4. \A p \in Run \ {r} : tx'.trace[p] = tx.trace[p]
  BY <1>1, <1>3, EngineSilent
<1>5. Accounted(tx, q, a)
  BY DEF ApprovalInv
<1>6. ASSUME tx'.owner = tx.owner, tx'.decision = tx.decision, Silent(tx.trace[r], tx'.trace[r])
      PROVE  Accounted(tx', q, a)
  <2>1. CASE q = r
    BY <1>5, <1>6, <2>1, SilentAccounts DEF Accounted
  <2>2. CASE q # r
    BY <1>4, <1>5, <1>6, <2>2, AccountedSame
  <2> QED
    BY <2>1, <2>2
<1>7. ASSUME NEW b \in Approval \ used, NEW w \in Seq(TraceEvent),
             tx'.owner = [tx.owner EXCEPT ![b] = r],
             tx'.decision = [tx.decision EXCEPT ![b] = "PENDING"],
             Silent(tx.trace[r], w), Adds(w, ApprovalRequested(b), tx'.trace[r])
      PROVE  Accounted(tx', q, a)
  <2>1. tx.owner[b] = NoRun /\ tx'.owner[b] = r /\ tx'.decision[b] = "PENDING"
    BY <1>1, <1>7 DEF PlatformInv, Ownership, View
  <2>2. a # b => tx'.owner[a] = tx.owner[a] /\ tx'.decision[a] = tx.decision[a]
    BY <1>1, <1>7 DEF View
  <2>3. CASE q # r
    BY <1>4, <1>5, <2>1, <2>2, <2>3, NoRunAssumption, AccountedSame
  <2>4. CASE q = r
    <3>1. Accounts(w, r, tx.owner[a], tx.decision[a], a)
      BY <1>5, <1>7, <2>4, SilentAccounts DEF Accounted
    <3>2. CASE a = b
      <4>1. tx.owner[a] # r
        BY <2>1, <3>2, NoRunAssumption
      <4>2. Accounts(tx'.trace[r], r, r, "PENDING", a)
        BY <1>7, <3>1, <3>2, <4>1, RequestAccounts
      <4> QED
        BY <2>1, <2>4, <3>2, <4>2 DEF Accounted
    <3>3. CASE a # b
      <4>1. ApprovalRequested(b) \in TraceEvent /\ ApprovalRequested(b).subject # a
        BY <3>3, EventsTyped DEF ApprovalRequested, Event
      <4>2. Accounts(tx'.trace[r], r, tx.owner[a], tx.decision[a], a)
        BY <1>7, <3>1, <4>1, OtherAccounts
      <4> QED
        BY <2>2, <2>4, <3>3, <4>2 DEF Accounted
    <3> QED
      BY <3>2, <3>3
  <2> QED
    BY <2>3, <2>4
<1> QED
  BY <1>1, <1>3, <1>6, <1>7, EngineSilent

\* A decision and its event are written together.
LEMMA ResolveApprovalAccounts ==
  ASSUME PlatformInv, ApprovalInv, NEW b \in Approval, NEW d \in Decided, ResolveApproval(b, d),
         NEW q \in Run, NEW a \in Approval
  PROVE  Accounted(tx', q, a)
<1> DEFINE r == db.owner[b]
           resolved == ResolveApprovalRequest(db, b, d)
           e == ApprovalResolved(b, d)
<1>1. /\ db \in View /\ r \in Run /\ db.decision[b] = "PENDING"
      /\ tx' = AppendRunEvent(resolved, r, e)
      /\ Accounted(db, q, a)
  BY DEF ResolveApproval, Resolvable, PlatformInv, TypeOK, View, ApprovalInv
<1>2. /\ resolved \in View /\ resolved.trace = db.trace /\ resolved.owner = db.owner
      /\ resolved.decision = [db.decision EXCEPT ![b] = d]
  <2>1. resolved \in View
    BY <1>1, ResolveApprovalRequestType DEF Decided
  <2> QED
    BY <1>1, <2>1 DEF ResolveApprovalRequest, View
<1>3. e \in TraceEvent /\ e.subject = b
  BY EventsTyped DEF ApprovalResolved, Event, Decided, ApprovalStatus
<1>4. db.trace[r] \in Seq(TraceEvent)
  BY <1>1 DEF View
<1> HIDE DEF resolved, e, r
<1>5. /\ tx'.owner = db.owner /\ tx'.decision = [db.decision EXCEPT ![b] = d]
      /\ Adds(db.trace[r], e, tx'.trace[r])
      /\ \A p \in Run \ {r} : tx'.trace[p] = db.trace[p]
  BY <1>1, <1>2, AppendRunEventTrace, AppendRunEventRows
<1>6. /\ tx'.decision[b] = d
      /\ a # b => tx'.decision[a] = db.decision[a]
  BY <1>1, <1>5 DEF View
<1>7. CASE q # r
  <2>1. db.owner[a] = q => tx'.decision[a] = db.decision[a]
    BY <1>6, <1>7 DEF r
  <2> QED
    BY <1>1, <1>5, <1>7, <2>1, AccountedSame
<1>8. CASE q = r /\ a = b
  <2>1. Accounts(db.trace[r], r, r, "PENDING", b)
    BY <1>1, <1>8 DEF Accounted, r
  <2>2. Accounts(tx'.trace[r], r, r, d, b)
    BY <1>4, <1>5, <2>1, ResolutionAccounts DEF e
  <2> QED
    BY <1>5, <1>6, <1>8, <2>2 DEF Accounted, r
<1>9. CASE q = r /\ a # b
  <2>1. Accounts(db.trace[r], r, db.owner[a], db.decision[a], a)
    BY <1>1, <1>9 DEF Accounted
  <2>2. Accounts(tx'.trace[r], r, db.owner[a], db.decision[a], a)
    BY <1>3, <1>4, <1>5, <1>9, <2>1, OtherAccounts
  <2> QED
    BY <1>5, <1>6, <1>9, <2>2 DEF Accounted
<1> QED
  BY <1>7, <1>8, <1>9

\* The engine's answer to a decision says nothing more of it.
LEMMA ResumeAccounts ==
  ASSUME PlatformInv, ApprovalInv, Resume, NEW q \in Run, NEW a \in Approval
  PROVE  Accounted(tx', q, a)
<1>1. PICK r \in Run, b \in Approval, s \in {"IN_PROGRESS", "CANCELED"} :
        /\ handler.approval = b /\ memory.approvalToRun[b] = r /\ ResumesTo(r, b, s)
  BY ResumeEffect
<1>2. /\ tx \in View /\ tx'.owner = tx.owner /\ tx'.decision = tx.decision
      /\ tx.trace[r] \in Seq(TraceEvent) /\ Accounted(tx, q, a)
  BY <1>1 DEF ResumesTo, PlatformInv, TypeOK, View, ApprovalInv
<1>3. CASE ResumeApproved(r)
  <2>1. tx'.trace = tx.trace
    BY <1>2, <1>3 DEF ResumeApproved, UpdateRunStatus, View
  <2> QED
    BY <1>2, <2>1, AccountedSame
<1>4. CASE CancelRun(r)
  <2> DEFINE canceled == UpdateRunStatus(tx, r, "CANCELED", FALSE)
             e == RunCompleted("rejection", "CANCELED")
  <2>1. tx' = AppendRunEvent(canceled, r, e)
    BY <1>4 DEF CancelRun
  <2>2. canceled \in View
    BY <1>2, UpdateRunStatusType DEF RunStatus, RunState
  <2>3. canceled.trace = tx.trace
    BY <1>2 DEF UpdateRunStatus, View
  <2>4. e \in TraceEvent /\ e.type = "RUN_COMPLETED"
    BY EventsTyped DEF RunCompleted, Event, Response, RunState
  <2> HIDE DEF canceled, e
  <2>5. Adds(tx.trace[r], e, tx'.trace[r]) /\ \A p \in Run \ {r} : tx'.trace[p] = tx.trace[p]
    BY <2>1, <2>2, <2>3, AppendRunEventTrace
  <2>6. Silent(tx.trace[r], tx'.trace[r])
    BY <1>2, <2>4, <2>5, AppendSilent
  <2>7. CASE q = r
    BY <1>2, <2>6, <2>7, SilentAccounts DEF Accounted
  <2>8. CASE q # r
    BY <1>2, <2>5, <2>8, AccountedSame
  <2> QED
    BY <2>7, <2>8
<1> QED
  BY <1>1, <1>3, <1>4 DEF Resume

\* Every step keeps ApprovalInv.
LEMMA ApprovalInvStep == PlatformInv /\ ApprovalInv /\ [Next]_vars => ApprovalInv'
<1> SUFFICES ASSUME PlatformInv, ApprovalInv, [Next]_vars, NEW r \in Run, NEW a \in Approval
             PROVE  Accounted(db', r, a) /\ Accounted(tx', r, a)
  BY DEF ApprovalInv
<1>1. Accounted(db, r, a) /\ Accounted(tx, r, a)
  BY DEF ApprovalInv
<1>2. CASE UNCHANGED vars
  BY <1>1, <1>2 DEF vars
<1>3. CASE CommitRun \/ CommitDecision
  BY <1>1, <1>3 DEF CommitRun, CommitDecision
<1>4. CASE NothingToResume \/ HandlerAborts \/ Crash
  BY <1>1, <1>4 DEF NothingToResume, HandlerAborts, Crash
<1>5. ASSUME NEW q \in Run, StartRun(q) PROVE Accounted(tx', r, a) /\ db' = db
  <2>1. tx'.trace = db.trace /\ tx'.owner = db.owner /\ tx'.decision = db.decision
    BY <1>5 DEF StartRun, CreateRun, PlatformInv, TypeOK, View
  <2> QED
    BY <1>1, <1>5, <2>1, AccountedSame DEF StartRun
<1>6. ASSUME NEW b \in Approval, NEW d \in Decided, ResolveApproval(b, d)
      PROVE  Accounted(tx', r, a) /\ db' = db
  BY <1>6, ResolveApprovalAccounts DEF ResolveApproval
<1>7. CASE EngineStep
  BY <1>1, <1>7, EngineStepAccounts DEF EngineStep
<1>8. CASE Resume
  BY <1>1, <1>8, ResumeAccounts DEF Resume
<1> QED
  BY <1>1, <1>2, <1>3, <1>4, <1>5, <1>6, <1>7, <1>8 DEF Next, Request, HandlerStep, Decided

\* ApprovalInv holds in every reachable state.
THEOREM ApprovalInvariant == Spec => []ApprovalInv
<1>1. Init => ApprovalInv
  <2> SUFFICES ASSUME Init, NEW r \in Run, NEW a \in Approval
               PROVE  Accounted(db, r, a) /\ Accounted(tx, r, a)
    BY DEF ApprovalInv
  <2>1. db.trace[r] = << >> /\ db.owner[a] = NoRun /\ tx = db
    BY DEF Init, EmptyView
  <2> QED
    BY <2>1, NoRunAssumption DEF Accounted, Accounts, Tells, Once
<1> QED
  BY <1>1, ApprovalInvStep, PlatformInvariant, PTL DEF Spec

\* An approval has one APPROVAL_REQUESTED event, and one APPROVAL_RESOLVED exactly when it is
\* decided.  (main.py records the resolution, resume_after_approval does not again)
THEOREM DecisionsAreRecordedOnce == Spec => []OneResolutionPerDecision
<1>1. ApprovalInv => OneResolutionPerDecision
  <2> SUFFICES ASSUME ApprovalInv, NEW r \in Run, NEW a \in Approval
               PROVE  LET About(type) == {i \in At_(db, r, {type}) : db.trace[r][i].subject = a}
                          owned == db.owner[a] = r
                      IN /\ Cardinality(About("APPROVAL_REQUESTED")) = (IF owned THEN 1 ELSE 0)
                         /\ Cardinality(About("APPROVAL_RESOLVED")) =
                              (IF owned /\ db.decision[a] \in Decided THEN 1 ELSE 0)
                         /\ \A i \in About("APPROVAL_RESOLVED") :
                              db.trace[r][i].outcome = db.decision[a]
    BY DEF OneResolutionPerDecision
  <2> DEFINE t == db.trace[r]
             About(type) == {i \in At_(db, r, {type}) : t[i].subject = a}
  <2>1. Accounts(t, r, db.owner[a], db.decision[a], a)
    BY DEF ApprovalInv, Accounted
  <2>2. ASSUME NEW type \in {"APPROVAL_REQUESTED", "APPROVAL_RESOLVED"}
        PROVE  Cardinality(About(type)) = IF Tells(t, type, a) THEN 1 ELSE 0
    <3>1. \A i : i \in About(type) <=> i \in 1..Len(t) /\ Says(t[i], type, a)
      BY DEF At_, Says
    <3>2. Once(t, type, a)
      BY <2>1, <2>2 DEF Accounts
    <3>3. CASE Tells(t, type, a)
      <4>1. PICK i \in 1..Len(t) : Says(t[i], type, a)
        BY <3>3 DEF Tells
      <4>2. About(type) = {i}
        BY <3>1, <3>2, <4>1 DEF Once
      <4> QED
        BY <3>3, <4>2, FS_Singleton
    <3>4. CASE ~Tells(t, type, a)
      <4>1. About(type) = {}
        BY <3>1, <3>4 DEF Tells
      <4> QED
        BY <3>4, <4>1, FS_EmptySet
    <3> QED
      BY <3>3, <3>4
  <2>3. \A i \in About("APPROVAL_RESOLVED") : t[i].outcome = db.decision[a]
    BY <2>1 DEF Accounts, At_, Says
  <2>4. Cardinality(About("APPROVAL_REQUESTED")) = IF db.owner[a] = r THEN 1 ELSE 0
    BY <2>1, <2>2 DEF Accounts
  <2>5. Cardinality(About("APPROVAL_RESOLVED")) =
          IF db.owner[a] = r /\ db.decision[a] \in Decided THEN 1 ELSE 0
    BY <2>1, <2>2 DEF Accounts
  <2> QED
    BY <2>3, <2>4, <2>5
<1> QED
  BY <1>1, ApprovalInvariant, PTL

-----------------------------------------------------------------------------
(* ToolInv is inductive: the block of calls and results. *)

\* Trace u goes on where t ends, without a word about tools.
ToolFree(t, u) ==
  /\ Len(t) \in Nat /\ Len(u) \in Nat /\ Len(t) <= Len(u)
  /\ \A i \in 1..Len(t) : u[i] = t[i]
  /\ \A i \in 1..Len(u) : i \notin 1..Len(t) => ~Calls(u[i]) /\ ~Results(u[i])

\* One event of another type is free of tools.
LEMMA AppendToolFree ==
  ASSUME NEW t \in Seq(TraceEvent), NEW e \in TraceEvent, NEW u, Adds(t, e, u),
         ~Calls(e), ~Results(e)
  PROVE  ToolFree(t, u)
<1>1. /\ Len(t) \in Nat /\ Len(u) = Len(t) + 1 /\ u[Len(t) + 1] = e
      /\ \A i \in 1..Len(t) : u[i] = t[i]
  BY AppendProperties DEF Adds
<1>2. \A i \in 1..Len(u) : i \notin 1..Len(t) => i = Len(t) + 1
  BY <1>1
<1> QED
  BY <1>1, <1>2 DEF ToolFree

\* Where there was nothing of tools, there is nothing of them.
LEMMA ToolFreeKeepsNone ==
  ASSUME NEW t, NEW u, ToolFree(t, u), NoTools(t)
  PROVE  NoTools(u)
BY DEF ToolFree, NoTools

\* The block stays what it was.
LEMMA ToolFreeKeepsOrder ==
  ASSUME NEW t, NEW u, ToolFree(t, u), NEW failed, NEW failing, failed => failing,
         Ordered(t, failed)
  PROVE  Ordered(u, failing)
<1>1. PICK p \in 0..Len(t), n \in 0..Len(t), m \in 0..Len(t) :
        Block(t, p, n, m) /\ (m < n => failed \/ ~NeverAsked(t))
  BY DEF Ordered
<1>2. /\ Len(t) \in Nat /\ Len(u) \in Nat /\ Len(t) <= Len(u)
      /\ p \in Nat /\ n \in Nat /\ m \in Nat /\ p + n + m <= Len(t) /\ m <= n
  BY <1>1 DEF ToolFree, Block
<1>3. ASSUME NEW i \in 1..Len(u)
      PROVE  /\ Calls(u[i]) <=> p < i /\ i <= p + n
             /\ Results(u[i]) <=> p + n < i /\ i <= p + n + m
  <2>1. CASE i \in 1..Len(t)
    <3>1. u[i] = t[i]
      BY <2>1 DEF ToolFree
    <3> QED
      BY <1>1, <2>1, <3>1 DEF Block
  <2>2. CASE i \notin 1..Len(t)
    <3>1. ~Calls(u[i]) /\ ~Results(u[i])
      BY <2>2 DEF ToolFree
    <3>2. i > p + n + m /\ i > p + n
      BY <1>2, <2>2
    <3> QED
      BY <1>2, <3>1, <3>2
  <2> QED
    BY <2>1, <2>2
<1>4. ASSUME NEW k \in 1..m
      PROVE  u[p + k].subject = u[p + n + k].subject
  <2>1. p + k \in 1..Len(t) /\ p + n + k \in 1..Len(t)
    BY <1>2
  <2>2. u[p + k] = t[p + k] /\ u[p + n + k] = t[p + n + k]
    BY <2>1 DEF ToolFree
  <2> QED
    BY <1>1, <2>2 DEF Block
<1>5. Block(u, p, n, m)
  BY <1>2, <1>3, <1>4 DEF Block
<1>6. NeverAsked(u) => NeverAsked(t)
  BY <1>2 DEF NeverAsked, ToolFree
<1>7. p \in 0..Len(u) /\ n \in 0..Len(u) /\ m \in 0..Len(u)
  BY <1>2
<1> QED
  BY <1>1, <1>5, <1>6, <1>7 DEF Ordered

\* A trace without tools has an empty block.
LEMMA NoToolsOrdered ==
  ASSUME NEW t \in Seq(TraceEvent), NEW failed, NoTools(t)
  PROVE  Ordered(t, failed)
<1>1. Len(t) \in Nat /\ 0 \in 0..Len(t)
  OBVIOUS
<1>2. Block(t, 0, 0, 0)
  BY <1>1 DEF Block, NoTools
<1> QED
  BY <1>1, <1>2 DEF Ordered

\* An execution is one block; it is cut short only by a tool that asks for approval.
LEMMA ExecutionOrdered ==
  ASSUME NEW plan \in Seq(Tool), NEW records \in Executions(plan),
         NEW t \in Seq(TraceEvent), NoTools(t), NEW u, WritesTools(plan, records, t, u)
  PROVE  \A failed : Ordered(u, failed)
<1> DEFINE p == Len(t)
           n == Len(plan)
           m == Len(records)
<1>0. records \in Seq(ToolRecord)
  BY ExecutionsType
<1>1. /\ u \in Seq(TraceEvent) /\ Len(u) = p + n + m
      /\ \A i \in 1..p : u[i] = t[i]
      /\ \A k \in 1..n : u[p + k] = Event("TOOL_CALLED", plan[k], Nothing)
      /\ \A k \in 1..m : u[p + n + k] =
           Event("TOOL_RESULT_RECEIVED", records[k].tool, records[k].status)
  BY <1>0, ToolEvents
<1>2. p \in Nat /\ n \in Nat /\ m \in Nat
  BY <1>0
<1>3. /\ m <= n
      /\ \A k \in 1..m : records[k].tool = plan[k]
      /\ m = n \/ NeedsApproval(records)
  <2>1. PICK l \in 0..n : records \in [1..l -> ToolRecord]
    BY DEF Executions
  <2>2. m = l
    BY <1>0, <1>2, <2>1
  <2> QED
    BY <1>2, <2>1, <2>2 DEF Executions, IsExecution
<1>10. \A i \in 1..p : ~Calls(u[i]) /\ ~Results(u[i])
  BY <1>1 DEF NoTools
<1>11. ASSUME NEW k \in 1..n
       PROVE  /\ Calls(u[p + k]) /\ ~Results(u[p + k])
              /\ u[p + k].subject = plan[k]
  <2>1. u[p + k] = Event("TOOL_CALLED", plan[k], Nothing)
    BY <1>1
  <2> QED
    BY <2>1 DEF Calls, Results, Event
<1>12. ASSUME NEW k \in 1..m
       PROVE  /\ Results(u[p + n + k]) /\ ~Calls(u[p + n + k])
              /\ u[p + n + k].subject = records[k].tool
              /\ records[k].status = "APPROVAL_REQUIRED" => Asks(u[p + n + k])
  <2>1. u[p + n + k] = Event("TOOL_RESULT_RECEIVED", records[k].tool, records[k].status)
    BY <1>1
  <2> QED
    BY <2>1 DEF Calls, Results, Asks, Event
<1>13. ASSUME NEW k \in 1..m
       PROVE  u[p + k].subject = u[p + n + k].subject
  <2>1. k \in 1..n
    BY <1>2, <1>3
  <2> QED
    BY <1>3, <1>11, <1>12, <2>1
<1>14. m # n => \E k \in 1..m : Asks(u[p + n + k])
  BY <1>3, <1>12 DEF NeedsApproval
<1>15. \A k \in 1..m : p + n + k \in 1..Len(u)
  BY <1>1, <1>2
<1>16. Len(u) = p + n + m
  BY <1>1
<1> HIDE DEF p, n, m
<1>4. ASSUME NEW i \in 1..Len(u)
      PROVE  /\ Calls(u[i]) <=> p < i /\ i <= p + n
             /\ Results(u[i]) <=> p + n < i /\ i <= p + n + m
  <2>1. CASE i <= p
    <3>1. i \in 1..p /\ ~(p < i) /\ ~(p + n < i)
      BY <1>2, <2>1, <1>16
    <3> QED
      BY <1>10, <3>1
  <2>2. CASE p < i /\ i <= p + n
    <3>1. i - p \in 1..n /\ p + (i - p) = i /\ ~(p + n < i)
      BY <1>2, <2>2, <1>16
    <3>2. Calls(u[i]) /\ ~Results(u[i])
      BY <1>11, <3>1
    <3> QED
      BY <2>2, <3>1, <3>2
  <2>3. CASE p + n < i
    <3> DEFINE k == i - (p + n)
    <3>1. k \in 1..m /\ p + n + k = i /\ ~(i <= p + n) /\ i <= p + n + m
      BY <1>2, <2>3, <1>16
    <3>2. Results(u[i]) /\ ~Calls(u[i])
      BY <1>12, <3>1
    <3> QED
      BY <2>3, <3>1, <3>2
  <2> QED
    BY <1>2, <2>1, <2>2, <2>3, <1>16
<1>5. Block(u, p, n, m)
  BY <1>2, <1>3, <1>4, <1>13, <1>16 DEF Block, m, n
<1>6. p \in 0..Len(u) /\ n \in 0..Len(u) /\ m \in 0..Len(u)
  BY <1>2, <1>16
<1>7. ASSUME m < n PROVE ~NeverAsked(u)
  <2>1. PICK k \in 1..m : Asks(u[p + n + k])
    BY <1>2, <1>7, <1>14
  <2> QED
    BY <1>15, <2>1 DEF NeverAsked
<1> QED
  BY <1>5, <1>6, <1>7 DEF Ordered

\* The calls of a plan whose execution raises are one block without results.
LEMMA CallsOrdered ==
  ASSUME NEW plan \in Seq(Tool), NEW t \in Seq(TraceEvent), NoTools(t), NEW es,
         es = ToolsCalled(plan), NEW u, AddsAll(t, es, u)
  PROVE  \A failed : failed => Ordered(u, failed)
<1> DEFINE p == Len(t)
           n == Len(plan)
<1>1. /\ es \in Seq(TraceEvent) /\ Len(es) = n
      /\ \A k \in 1..n : Calls(es[k]) /\ ~Results(es[k])
  <2>1. es \in Seq(TraceEvent) /\ DOMAIN es = 1..n /\ n \in Nat
    BY ToolsCalledType DEF ToolsCalled
  <2> QED
    BY <2>1, LenProperties DEF ToolsCalled, Event, Calls, Results
<1>2. AddsAll(t, es, u)
  OBVIOUS
<1>3. /\ p \in Nat /\ n \in Nat /\ Len(u) = p + n
      /\ \A i \in 1..p : u[i] = t[i]
      /\ \A i \in 1..Len(u) : i \notin 1..p => \E k \in 1..n : u[i] = es[k]
  BY ONLY <1>1, <1>2, t \in Seq(TraceEvent), ConcatEvents
<1>4. ASSUME NEW i \in 1..Len(u)
      PROVE  (Calls(u[i]) <=> p < i /\ i <= p + n) /\ ~Results(u[i])
  <2>1. CASE i \in 1..p
    BY <1>3, <2>1 DEF NoTools
  <2>2. CASE i \notin 1..p
    <3>1. Calls(u[i]) /\ ~Results(u[i])
      BY <1>1, <1>3, <2>2
    <3>2. p < i /\ i <= p + n
      BY <1>3, <2>2
    <3> QED
      BY <3>1, <3>2
  <2> QED
    BY <2>1, <2>2
<1>5. Block(u, p, n, 0)
  BY <1>3, <1>4 DEF Block
<1>6. p \in 0..Len(u) /\ n \in 0..Len(u) /\ 0 \in 0..Len(u)
  BY <1>3
<1> QED
  BY <1>5, <1>6 DEF Ordered

\* The tools' events of a run inside the engine.
LEMMA EngineStepTools ==
  ASSUME PlatformInv, PlatformInv', TraceInv, ToolInv, EngineStep
  PROVE  ToolInv'
<1>1. /\ EngineTypeOK /\ tx \in View /\ tx' \in View
      /\ handler \in [pc: {"engine"}, run: Run, approval: Approval \cup {NoApproval}]
  BY DEF PlatformInv, TypeOK, EngineTypeOK, EngineStep, Handler, Idle
<1>2. PICK r \in Run : r = handler.run
  BY <1>1
<1> DEFINE t == tx.trace[r]
           u == tx'.trace[r]
           c == ctx[r]
           failing == tx'.status[r] = "FAILED"
<1>3. /\ Step(r, Approval \ used) /\ UnderWay(r) /\ tx.status[r] = c.state
      /\ db' = db /\ handler'.run = r
      /\ handler'.pc = IF ctx'[r].state = "IN_PROGRESS" THEN "engine" ELSE "returned"
  BY <1>1, <1>2 DEF TraceInv, PlatformInv, HandlerInv, NewRun, ResumedRun, EngineStep
<1>4. /\ t \in Seq(TraceEvent) /\ u \in Seq(TraceEvent) /\ Len(t) \in Nat
      /\ c \in Context /\ c.planned \in Seq(Tool)
  BY <1>1 DEF EngineTypeOK, View, Context
<1>5. c.state \in {"PENDING", "IN_PROGRESS"}
  BY <1>3
     DEF Step, Begin, Classify, RetrieveContext, DecideTools, ExecuteTools, RequestApproval,
         GenerateResponse, Complete, CollaboratorFails, At
<1>6. Ordered(t, FALSE)
  BY <1>3, <1>5 DEF ToolInv
<1>7. BeforeTools(c) \/ c.state = "PENDING" => NoTools(t)
  BY <1>1, <1>2, <1>3 DEF ToolInv, UnderWay, NoTools
<1>8. /\ \A q \in Run \ {r} : tx'.trace[q] = tx.trace[q]
      /\ \A q \in Run \ {r} : tx'.status[q] = tx.status[q]
  <2>1. \A q \in Run \ {r} : tx'.trace[q] = tx.trace[q]
    BY <1>1, <1>3, EngineWrites
  <2>2. CASE \E s \in {"IN_PROGRESS", "COMPLETED", "FAILED"} : MovesTo(r, s)
    BY <1>1, <2>1, <2>2 DEF MovesTo, View
  <2>3. CASE \E a \in Approval \ used : PausesOn(r, a)
    BY <1>1, <2>1, <2>3 DEF PausesOn, View
  <2> QED
    BY <1>1, <1>3, <2>2, <2>3, LoopEffect
<1> DEFINE Goal == /\ Ordered(u, failing)
                   /\ ctx'[r].state = "IN_PROGRESS" /\ BeforeTools(ctx'[r]) => NoTools(u)
<1>9. ASSUME ToolFree(t, u), ctx'[r].state = "IN_PROGRESS" => ~BeforeTools(ctx'[r])
      PROVE  Goal
  <2> HIDE DEF t, u, failing
  <2>1. Ordered(u, failing)
    BY <1>6, <1>9, ToolFreeKeepsOrder
  <2> QED
    BY <1>9, <2>1
<1>10. ASSUME WritesEarly(r) PROVE Goal
  <2>1. NoTools(t)
    BY <1>7, <1>10 DEF WritesEarly
  <2>2. NoTools(u)
    <3>1. ASSUME u = t PROVE NoTools(u)
      BY <2>1, <3>1
    <3>2. ASSUME NEW e \in {RunStarted, RetrievalCompleted}, Adds(t, e, u) PROVE NoTools(u)
      <4>1. e \in TraceEvent /\ ~Calls(e) /\ ~Results(e)
        BY EventsTyped DEF RunStarted, RetrievalCompleted, Event, Calls, Results
      <4> HIDE DEF t, u
      <4>2. ToolFree(t, u)
        BY <1>4, <3>2, <4>1, AppendToolFree
      <4> QED
        BY <2>1, <4>2, ToolFreeKeepsNone
    <3> QED
      BY <1>10, <3>1, <3>2 DEF WritesEarly
  <2> HIDE DEF t, u, failing
  <2>3. Ordered(u, failing)
    BY <1>4, <2>2, NoToolsOrdered
  <2> QED
    BY <2>2, <2>3
<1>11. ASSUME WritesExecution(r) PROVE Goal
  <2>1. PICK records \in Executions(c.planned) : WritesTools(c.planned, records, t, u)
    BY <1>11 DEF WritesExecution
  <2>2. BeforeTools(c) /\ ~BeforeTools(ctx'[r])
    BY <1>11 DEF WritesExecution, At, BeforeTools, CurrentStep, NoStep
  <2>3. NoTools(t)
    BY <1>7, <2>2
  <2> HIDE DEF t, u, failing
  <2>4. \A failed : Ordered(u, failed)
    BY <1>4, <2>1, <2>3, ExecutionOrdered
  <2> QED
    BY <2>2, <2>4
<1>12. ASSUME NEW a \in Approval, WritesRequest(r, a) PROVE Goal
  <2>1. PICK records \in Executions(c.planned), w \in Seq(TraceEvent) :
          WritesTools(c.planned, records, t, w) /\ Adds(w, ApprovalRequested(a), u)
    BY <1>12 DEF WritesRequest
  <2>2. BeforeTools(c) /\ ctx'[r].state # "IN_PROGRESS"
    BY <1>12 DEF WritesRequest, At, BeforeTools, Waiting
  <2>3. NoTools(t)
    BY <1>7, <2>2
  <2>4. ApprovalRequested(a) \in TraceEvent /\ ~Calls(ApprovalRequested(a))
        /\ ~Results(ApprovalRequested(a))
    BY EventsTyped DEF ApprovalRequested, Event, Calls, Results
  <2> HIDE DEF t, u, failing
  <2>5. Ordered(w, FALSE)
    BY <1>4, <2>1, <2>3, ExecutionOrdered
  <2>6. ToolFree(w, u)
    BY <2>1, <2>4, AppendToolFree
  <2>7. Ordered(u, failing)
    BY <2>5, <2>6, ToolFreeKeepsOrder
  <2> QED
    BY <2>2, <2>7
<1>13. ASSUME WritesAnswer(r) PROVE Goal
  <2>1. ModelSelected \in TraceEvent /\ ~Calls(ModelSelected) /\ ~Results(ModelSelected)
    BY EventsTyped DEF ModelSelected, Event, Calls, Results
  <2>2. Adds(t, ModelSelected, u) /\ ~BeforeTools(ctx'[r])
    BY <1>13 DEF WritesAnswer, BeforeTools, CurrentStep, NoStep
  <2>3. ToolFree(t, u)
    <3> HIDE DEF t, u
    <3> QED
      BY <1>4, <2>1, <2>2, AppendToolFree
  <2> QED
    BY <1>9, <2>2, <2>3
<1>14. ASSUME WritesCompletion(r) PROVE Goal
  <2> DEFINE e == RunCompleted(c.response, "COMPLETED")
  <2>1. e \in TraceEvent /\ ~Calls(e) /\ ~Results(e)
    BY <1>4, EventsTyped DEF Context, RunState, RunCompleted, Event, Calls, Results
  <2>2. Adds(t, e, u) /\ ctx'[r].state # "IN_PROGRESS"
    BY <1>14 DEF WritesCompletion
  <2>3. ToolFree(t, u)
    <3> HIDE DEF t, u, e
    <3> QED
      BY <1>4, <2>1, <2>2, AppendToolFree
  <2> QED
    BY <1>9, <2>2, <2>3
<1>15. ASSUME WritesFailure(r) PROVE Goal
  <2>1. PICK es \in RecordedBeforeFailure(c), w \in Seq(TraceEvent) :
          AddsAll(t, es, w) /\ Adds(w, RunFailed, u)
    BY <1>15 DEF WritesFailure
  <2>2. RunFailed \in TraceEvent /\ ~Calls(RunFailed) /\ ~Results(RunFailed)
    BY EventsTyped DEF RunFailed, Event, Calls, Results
  <2>3. ctx'[r].state = "FAILED" /\ handler'.pc = "returned"
    BY <1>3, <1>15 DEF WritesFailure
  <2>4. failing
    BY <1>3, <2>3 DEF PlatformInv, HandlerInv, NewRun, ResumedRun
  <2>5. ToolFree(w, u)
    <3> HIDE DEF t, u
    <3> QED
      BY <2>1, <2>2, AppendToolFree
  <2>6. Ordered(w, failing)
    <3>1. ASSUME CurrentStep(c) = "execute_tools" PROVE Ordered(w, failing)
      <4>1. NoTools(t)
        BY <1>7, <3>1 DEF BeforeTools
      <4>2. es = ToolsCalled(c.planned)
        BY <2>1, <3>1 DEF RecordedBeforeFailure
      <4> HIDE DEF t, u, c, failing
      <4> QED
        BY <1>4, <2>1, <2>4, <4>1, <4>2, CallsOrdered
    <3>2. ASSUME es = << >> PROVE Ordered(w, failing)
      <4>1. w = t
        BY <1>4, <2>1, <3>2 DEF AddsAll
      <4>2. Ordered(w, FALSE)
        BY <1>6, <4>1
      <4>3. ToolFree(w, w)
        BY DEF ToolFree
      <4> HIDE DEF failing
      <4> QED
        BY <4>2, <4>3, ToolFreeKeepsOrder
    <3>3. ASSUME es = <<ModelSelected>> PROVE Ordered(w, failing)
      <4>1. ModelSelected \in TraceEvent /\ ~Calls(ModelSelected) /\ ~Results(ModelSelected)
        BY EventsTyped DEF ModelSelected, Event, Calls, Results
      <4>2. Adds(t, ModelSelected, w)
        BY <1>4, <2>1, <3>3, <4>1 DEF Adds, AddsAll
      <4> HIDE DEF t, u, failing
      <4>3. ToolFree(t, w)
        BY <1>4, <4>1, <4>2, AppendToolFree
      <4> QED
        BY <1>6, <4>3, ToolFreeKeepsOrder
    <3> QED
      BY <2>1, <3>1, <3>2, <3>3 DEF RecordedBeforeFailure
  <2> HIDE DEF t, u, failing
  <2>7. Ordered(u, failing)
    BY <2>5, <2>6, ToolFreeKeepsOrder
  <2> QED
    BY <2>3, <2>7
<1>16. Goal
  BY <1>1, <1>3, <1>10, <1>11, <1>12, <1>13, <1>14, <1>15, EngineWrites
<1>17. ASSUME NEW q \in Run
       PROVE  /\ Ordered(db'.trace[q], db'.status[q] = "FAILED")
              /\ Ordered(tx'.trace[q], tx'.status[q] = "FAILED")
  <2>1. Ordered(db'.trace[q], db'.status[q] = "FAILED")
    BY <1>3 DEF ToolInv
  <2>2. CASE q = r
    BY <1>16, <2>1, <2>2
  <2>3. CASE q # r
    BY <1>8, <2>1, <2>3 DEF ToolInv
  <2> QED
    BY <2>2, <2>3
<1>18. handler'.pc = "engine" /\ BeforeTools(ctx'[handler'.run]) => NoTools(tx'.trace[handler'.run])
  BY <1>3, <1>16
<1> QED
  BY <1>17, <1>18 DEF ToolInv, BeforeTools, CurrentStep

\* Events of approvals and of canceled runs leave the tools' events as they were.
LEMMA OneEventKeepsOrder ==
  ASSUME NEW v \in View, NEW w, NEW r \in Run, NEW e \in TraceEvent, ~Calls(e), ~Results(e),
         Adds(v.trace[r], e, w.trace[r]), \A q \in Run \ {r} : w.trace[q] = v.trace[q],
         \A q \in Run : v.status[q] = "FAILED" => w.status[q] = "FAILED",
         \A q \in Run : Ordered(v.trace[q], v.status[q] = "FAILED")
  PROVE  \A q \in Run : Ordered(w.trace[q], w.status[q] = "FAILED")
<1> SUFFICES ASSUME NEW q \in Run
             PROVE  Ordered(w.trace[q], w.status[q] = "FAILED")
  OBVIOUS
<1> DEFINE t == v.trace[q]
           u == w.trace[q]
           failed == v.status[q] = "FAILED"
           failing == w.status[q] = "FAILED"
<1>1. t \in Seq(TraceEvent)
  BY DEF View
<1>2. Ordered(t, failed) /\ (failed => failing)
  OBVIOUS
<1>3. ToolFree(t, u)
  <2>1. CASE q = r
    <3>1. Adds(t, e, u)
      BY <2>1
    <3> HIDE DEF t, u
    <3> QED
      BY <1>1, <3>1, AppendToolFree
  <2>2. CASE q # r
    BY <1>1, <2>2 DEF ToolFree
  <2> QED
    BY <2>1, <2>2
<1> HIDE DEF t, u, failed, failing
<1>4. Ordered(u, failing)
  BY <1>2, <1>3, ToolFreeKeepsOrder
<1> QED
  BY <1>4 DEF u, failing

\* A decision is no event of a tool.
LEMMA ResolveApprovalTools ==
  ASSUME PlatformInv, ToolInv, NEW b \in Approval, NEW d \in Decided, ResolveApproval(b, d)
  PROVE  ToolInv'
<1> DEFINE r == db.owner[b]
           resolved == ResolveApprovalRequest(db, b, d)
           e == ApprovalResolved(b, d)
<1>1. /\ db \in View /\ r \in Run /\ tx' = AppendRunEvent(resolved, r, e)
      /\ db' = db /\ handler'.pc = "decided"
      /\ \A q \in Run : Ordered(db.trace[q], db.status[q] = "FAILED")
  BY DEF ResolveApproval, Resolvable, PlatformInv, TypeOK, View, ToolInv, Idle
<1>2. /\ resolved \in View /\ resolved.trace = db.trace /\ resolved.status = db.status
  <2>1. resolved \in View
    BY <1>1, ResolveApprovalRequestType DEF Decided
  <2> QED
    BY <1>1, <2>1 DEF ResolveApprovalRequest, View
<1>3. e \in TraceEvent /\ ~Calls(e) /\ ~Results(e)
  BY EventsTyped DEF ApprovalResolved, Event, Decided, ApprovalStatus, Calls, Results
<1> HIDE DEF resolved, e, r
<1>4. /\ tx'.status = db.status /\ Adds(db.trace[r], e, tx'.trace[r])
      /\ \A q \in Run \ {r} : tx'.trace[q] = db.trace[q]
  BY <1>1, <1>2, AppendRunEventTrace
<1>5. \A q \in Run : Ordered(tx'.trace[q], tx'.status[q] = "FAILED")
  BY <1>1, <1>3, <1>4, OneEventKeepsOrder
<1> QED
  BY <1>1, <1>5 DEF ToolInv

\* Nor is what follows a decision, until the engine goes on.
LEMMA ResumeTools ==
  ASSUME PlatformInv, ToolInv, Resume
  PROVE  ToolInv'
<1>1. PICK r \in Run, b \in Approval, s \in {"IN_PROGRESS", "CANCELED"} :
        /\ handler.approval = b /\ memory.approvalToRun[b] = r /\ r \in memory.waiting
        /\ ResumesTo(r, b, s)
  BY ResumeEffect
<1>2. /\ tx \in View /\ db' = db /\ tx = db /\ tx'.status = [tx.status EXCEPT ![r] = s]
      /\ tx.status[r] # "FAILED"
      /\ \A q \in Run : Ordered(tx.trace[q], tx.status[q] = "FAILED")
      /\ \/ handler'.pc = "engine" /\ handler'.run = r /\ ctx'[r].step = "generate_response"
         \/ handler'.pc = "returned"
  <2>1. tx \in View /\ db' = db /\ tx = db
    BY DEF PlatformInv, TypeOK, HandlerInv, Resume
  <2>2. tx.status[r] # "FAILED"
    BY <1>1, <2>1 DEF PlatformInv, KeptContexts, Waiting
  <2>3. /\ tx'.status = [tx.status EXCEPT ![r] = s]
        /\ \/ handler'.pc = "engine" /\ handler'.run = r /\ ctx'[r].step = "generate_response"
           \/ handler'.pc = "returned"
    BY <1>1 DEF ResumesTo
  <2>4. \A q \in Run : Ordered(tx.trace[q], tx.status[q] = "FAILED")
    BY DEF ToolInv
  <2> QED
    BY <2>1, <2>2, <2>3, <2>4
<1>3. \A q \in Run : tx.status[q] = "FAILED" => tx'.status[q] = "FAILED"
  BY <1>2 DEF View
<1>4. handler'.pc = "engine" => ~BeforeTools(ctx[handler.run])'
  BY <1>2 DEF BeforeTools, CurrentStep, NoStep
<1>5. CASE ResumeApproved(r)
  <2>1. tx'.trace = tx.trace
    BY <1>2, <1>5 DEF ResumeApproved, UpdateRunStatus, View
  <2>2. \A q \in Run : tx'.status[q] = tx.status[q] \/ tx.status[q] # "FAILED"
    BY <1>2 DEF View
  <2>3. ASSUME NEW q \in Run
        PROVE  Ordered(tx'.trace[q], tx'.status[q] = "FAILED")
    BY <1>2, <1>3, <2>1 DEF Ordered
  <2> QED
    BY <1>2, <1>4, <2>3 DEF ToolInv
<1>6. CASE CancelRun(r)
  <2> DEFINE canceled == UpdateRunStatus(tx, r, "CANCELED", FALSE)
             e == RunCompleted("rejection", "CANCELED")
  <2>1. tx' = AppendRunEvent(canceled, r, e)
    BY <1>6 DEF CancelRun
  <2>2. canceled \in View
    BY <1>2, UpdateRunStatusType DEF RunStatus, RunState
  <2>3. canceled.trace = tx.trace
    BY <1>2 DEF UpdateRunStatus, View
  <2>4. e \in TraceEvent /\ ~Calls(e) /\ ~Results(e)
    BY EventsTyped DEF RunCompleted, Event, Response, RunState, Calls, Results
  <2> HIDE DEF canceled, e
  <2>5. Adds(tx.trace[r], e, tx'.trace[r]) /\ \A p \in Run \ {r} : tx'.trace[p] = tx.trace[p]
    BY <2>1, <2>2, <2>3, AppendRunEventTrace
  <2>6. \A q \in Run : Ordered(tx'.trace[q], tx'.status[q] = "FAILED")
    <3>1. /\ \A q \in Run : Ordered(tx.trace[q], tx.status[q] = "FAILED")
          /\ tx \in View
      BY <1>2
    <3> QED
      BY ONLY <3>1, <1>3, <2>4, <2>5, r \in Run, OneEventKeepsOrder
  <2> QED
    BY <1>2, <1>4, <2>6 DEF ToolInv
<1> QED
  BY <1>1, <1>5, <1>6 DEF Resume

\* Every step keeps ToolInv.
LEMMA ToolInvStep == PlatformInv /\ PlatformInv' /\ TraceInv /\ ToolInv /\ [Next]_vars => ToolInv'
<1> SUFFICES ASSUME PlatformInv, PlatformInv', TraceInv, ToolInv, [Next]_vars
             PROVE  ToolInv'
  OBVIOUS
<1>1. CASE UNCHANGED vars
  BY <1>1 DEF vars, ToolInv
<1>2. CASE CommitRun \/ CommitDecision
  <2>1. handler'.pc # "engine" /\ db' = tx /\ tx' = tx
    BY <1>2 DEF CommitRun, CommitDecision, Idle, PlatformInv, TypeOK, Handler
  <2> QED
    BY <2>1 DEF ToolInv
<1>3. CASE NothingToResume \/ HandlerAborts \/ Crash
  <2>1. handler'.pc # "engine" /\ db' = db /\ tx' = db
    BY <1>3 DEF NothingToResume, HandlerAborts, Crash, Idle, PlatformInv, HandlerInv
  <2> QED
    BY <2>1 DEF ToolInv
<1>4. ASSUME NEW r \in Run, StartRun(r) PROVE ToolInv'
  <2>1. /\ db' = db /\ tx'.trace = db.trace /\ handler'.run = r
        /\ tx'.status = [db.status EXCEPT ![r] = "PENDING"] /\ db.status[r] = "NONE"
    BY <1>4 DEF StartRun, CreateRun, PlatformInv, TypeOK, View, Idle, CommittedRuns, CommittedRun
  <2>2. \A q \in Run : (tx'.status[q] = "FAILED") <=> (db.status[q] = "FAILED")
    BY <2>1 DEF PlatformInv, TypeOK, View
  <2>3. \A q \in Run : Ordered(tx'.trace[q], tx'.status[q] = "FAILED")
    BY <2>1, <2>2 DEF ToolInv, Ordered
  <2>4. NoTools(tx'.trace[r])
    <3>1. Recorded(db, r) /\ db.trace[r] \in Seq(TraceEvent)
      BY DEF TraceInv, PlatformInv, TypeOK, View
    <3>2. db.trace[r] = << >>
      BY <2>1, <3>1, StatusTells DEF Recorded, Explained
    <3> QED
      BY <2>1, <3>2 DEF NoTools
  <2> QED
    BY <2>1, <2>3, <2>4 DEF ToolInv
<1> QED
  BY <1>1, <1>2, <1>3, <1>4, EngineStepTools, ResolveApprovalTools, ResumeTools
     DEF Next, Request, HandlerStep, Decided

\* ToolInv holds in every reachable state.
THEOREM ToolInvariant == Spec => []ToolInv
<1>1. Init => ToolInv
  <2> SUFFICES ASSUME Init PROVE ToolInv
    OBVIOUS
  <2>1. /\ handler.pc = "idle" /\ tx = db
        /\ \A r \in Run : db.trace[r] = << >>
    BY DEF Init, EmptyView, Idle
  <2>2. \A r \in Run : db.trace[r] \in Seq(TraceEvent) /\ NoTools(db.trace[r])
    <3>1. << >> \in Seq(TraceEvent) /\ NoTools(<< >>)
      BY DEF NoTools
    <3> QED
      BY <2>1, <3>1
  <2>3. \A r \in Run : Ordered(db.trace[r], db.status[r] = "FAILED")
    BY <2>2, NoToolsOrdered
  <2> QED
    BY <2>1, <2>3 DEF ToolInv
<1> QED
  BY <1>1, ToolInvStep, PlatformInvariant, TraceInvariant, PTL DEF Spec

CallsIn(t) == {i \in 1..Len(t) : Calls(t[i])}
ResultsIn(t) == {i \in 1..Len(t) : Results(t[i])}

\* Every result answers the call that comes as early among the calls.
AnswersFirstCalls(t, calls, results) ==
  \A i \in results : \E j \in calls :
    /\ t[j].subject = t[i].subject
    /\ Cardinality({k \in calls : k <= j}) = Cardinality({k \in results : k <= i})

\* What the block says of the calls and the results of a trace.
LEMMA BlockAnswersCalls ==
  ASSUME NEW t \in Seq(TraceEvent), NEW p \in Nat, NEW n \in Nat, NEW m \in Nat,
         Block(t, p, n, m)
  PROVE  /\ Cardinality(CallsIn(t)) = n
         /\ Cardinality(ResultsIn(t)) = m
         /\ AnswersFirstCalls(t, CallsIn(t), ResultsIn(t))
<1> DEFINE calls == CallsIn(t)
           results == ResultsIn(t)
<1>0. /\ \A i : i \in calls <=> i \in 1..Len(t) /\ Calls(t[i])
      /\ \A i : i \in results <=> i \in 1..Len(t) /\ Results(t[i])
  BY DEF CallsIn, ResultsIn
<1> HIDE DEF calls, results
<1>1. Len(t) \in Nat /\ m <= n /\ p + n + m <= Len(t)
  BY DEF Block
<1>2. calls = p + 1..p + n
  <2>1. \A i : i \in calls <=> i \in 1..Len(t) /\ p < i /\ i <= p + n
    BY <1>0 DEF Block
  <2>2. \A i : i \in calls <=> i \in p + 1..p + n
    BY <1>1, <2>1
  <2> QED
    BY ONLY <2>2
<1>3. results = p + n + 1..p + n + m
  <2>1. \A i : i \in results <=> i \in 1..Len(t) /\ p + n < i /\ i <= p + n + m
    BY <1>0 DEF Block
  <2>2. \A i : i \in results <=> i \in p + n + 1..p + n + m
    BY <1>1, <2>1
  <2> QED
    BY ONLY <2>2
<1>4. Cardinality(calls) = n
  <2>1. p + 1 \in Int /\ p + n \in Int
    OBVIOUS
  <2>2. Cardinality(p + 1..p + n) = IF p + 1 > p + n THEN 0 ELSE p + n - (p + 1) + 1
    BY <2>1, FS_Interval
  <2> QED
    BY <1>2, <2>2
<1>5. Cardinality(results) = m
  <2>1. p + n + 1 \in Int /\ p + n + m \in Int
    OBVIOUS
  <2>2. Cardinality(p + n + 1..p + n + m) =
          IF p + n + 1 > p + n + m THEN 0 ELSE p + n + m - (p + n + 1) + 1
    BY <2>1, FS_Interval
  <2> QED
    BY <1>3, <2>2
<1>6. ASSUME NEW i \in results
      PROVE  \E j \in calls :
               /\ t[j].subject = t[i].subject
               /\ Cardinality({k \in calls : k <= j}) = Cardinality({k \in results : k <= i})
  <2> DEFINE x == i - (p + n)
             j == p + x
  <2>0. i \in p + n + 1..p + n + m
    BY <1>3, <1>6
  <2>1. x \in 1..m /\ i = p + n + x /\ j \in calls /\ j \in Int /\ i \in Int
    BY <1>1, <1>2, <2>0
  <2>2. t[j].subject = t[i].subject
    BY <2>1 DEF Block
  <2>3. {k \in calls : k <= j} = p + 1..j /\ {k \in results : k <= i} = p + n + 1..i
    BY <1>1, <1>2, <1>3, <2>1
  <2>4. Cardinality(p + 1..j) = x
    <3>1. p + 1 \in Int /\ ~(p + 1 > j) /\ j - (p + 1) + 1 = x
      BY <2>1
    <3> QED
      BY <2>1, <3>1, FS_Interval
  <2>5. Cardinality(p + n + 1..i) = x
    <3>1. p + n + 1 \in Int /\ ~(p + n + 1 > i) /\ i - (p + n + 1) + 1 = x
      BY <2>1
    <3> QED
      BY <2>1, <3>1, FS_Interval
  <2> QED
    BY <2>1, <2>2, <2>3, <2>4, <2>5
<1>7. AnswersFirstCalls(t, calls, results)
  BY <1>6 DEF AnswersFirstCalls
<1> QED
  BY <1>4, <1>5, <1>7 DEF calls, results

\* The results recorded in a run's trace answer the first calls of its plan, in order, and a call
\* is left unanswered only where a tool asked for approval or the run failed.  (engine.py:130-155)
THEOREM ResultsFollowCalls == Spec => []ToolResultsFollowCalls
<1>1. TypeOK /\ ToolInv => ToolResultsFollowCalls
  <2> SUFFICES ASSUME TypeOK, ToolInv, NEW r \in Run
               PROVE  LET t == db.trace[r]
                          calls == At_(db, r, {"TOOL_CALLED"})
                          results == At_(db, r, {"TOOL_RESULT_RECEIVED"})
                      IN /\ \A i \in results : \E j \in calls :
                              /\ t[j].subject = t[i].subject
                              /\ Cardinality({k \in calls : k <= j}) =
                                   Cardinality({k \in results : k <= i})
                         /\ Cardinality(results) < Cardinality(calls) =>
                              \/ db.status[r] = "FAILED"
                              \/ \E i \in results : t[i].outcome = "APPROVAL_REQUIRED"
    BY DEF ToolResultsFollowCalls
  <2> DEFINE t == db.trace[r]
             calls == At_(db, r, {"TOOL_CALLED"})
             results == At_(db, r, {"TOOL_RESULT_RECEIVED"})
             failed == db.status[r] = "FAILED"
  <2>1. t \in Seq(TraceEvent)
    BY DEF TypeOK, View
  <2>2. /\ \A i : i \in calls <=> i \in 1..Len(t) /\ Calls(t[i])
        /\ \A i : i \in results <=> i \in 1..Len(t) /\ Results(t[i])
    BY DEF At_, Calls, Results
  <2>3. NeverAsked(t) \/ \E i \in results : t[i].outcome = "APPROVAL_REQUIRED"
    BY <2>2 DEF NeverAsked, Asks, Results
  <2>4. Ordered(t, failed)
    BY DEF ToolInv
  <2> HIDE DEF t, calls, results, failed
  <2>5. PICK p \in 0..Len(t), n \in 0..Len(t), m \in 0..Len(t) :
          Block(t, p, n, m) /\ (m < n => failed \/ ~NeverAsked(t))
    BY <2>4 DEF Ordered
  <2>6. p \in Nat /\ n \in Nat /\ m \in Nat
    BY <2>1, <2>5
  <2>7. /\ Cardinality(CallsIn(t)) = n /\ Cardinality(ResultsIn(t)) = m
        /\ AnswersFirstCalls(t, CallsIn(t), ResultsIn(t))
    BY <2>1, <2>5, <2>6, BlockAnswersCalls
  <2>8. calls = CallsIn(t) /\ results = ResultsIn(t)
    BY <2>2 DEF CallsIn, ResultsIn
  <2>9. Cardinality(results) < Cardinality(calls) =>
          failed \/ \E i \in results : t[i].outcome = "APPROVAL_REQUIRED"
    BY <2>3, <2>5, <2>7, <2>8
  <2>10. AnswersFirstCalls(t, calls, results)
    BY <2>7, <2>8
  <2> QED
    BY <2>9, <2>10 DEF t, calls, results, failed, AnswersFirstCalls
<1>2. PlatformInv => TypeOK
  BY DEF PlatformInv
<1> QED
  BY <1>1, <1>2, PlatformInvariant, ToolInvariant, PTL

-----------------------------------------------------------------------------
(* TextInv is inductive: answers come from the last step of the engine, and go nowhere else. *)

\* Where nothing changes, nothing else is said.
LEMMA EndSaidAgain ==
  ASSUME NEW r \in Run, NEW v, NEW w, SaysHowItEnded(v, r), w.trace[r] = v.trace[r],
         HasApproval(w, r) <=> HasApproval(v, r)
  PROVE  SaysHowItEnded(w, r)
BY DEF SaysHowItEnded, FitsApproval

\* An event that ends nothing says nothing of the end.
LEMMA NoEndSaid ==
  ASSUME NEW r \in Run, NEW v, NEW t \in Seq(TraceEvent), NEW e \in TraceEvent, ~Ends(e),
         Adds(t, e, v.trace[r])
  PROVE  SaysHowItEnded(v, r)
<1> DEFINE u == v.trace[r]
<1>1. u[Len(u)] = e
  BY AppendProperties DEF Adds
<1> QED
  BY <1>1 DEF SaysHowItEnded, Ends

\* A final event says how the run ended when it is one of those.
LEMMA EndSaid ==
  ASSUME NEW r \in Run, NEW v, NEW t \in Seq(TraceEvent), NEW e \in TraceEvent,
         Adds(t, e, v.trace[r]),
         e.type = "RUN_FAILED" => e.outcome = "FAILED",
         e.type = "RUN_COMPLETED" =>
           \/ e.outcome = "CANCELED" /\ e.subject = "rejection"
           \/ e.outcome = "COMPLETED" /\ FitsApproval(e.subject, v, r)
  PROVE  SaysHowItEnded(v, r) /\ v.trace[r][Len(v.trace[r])] = e
<1> DEFINE u == v.trace[r]
<1>1. u[Len(u)] = e
  BY AppendProperties DEF Adds
<1> QED
  BY <1>1 DEF SaysHowItEnded

\* The answer of the gateway fits the approval.
LEMMA GeneratedTextFits ==
  ASSUME NEW c, NEW v, NEW r, c.state = "IN_PROGRESS",
         NeedsApproval(c.records) <=> HasApproval(v, r),
         HasApproval(v, r) => c.approval # NoApproval
  PROVE  FitsApproval(GenerateResponseText(c), v, r)
BY DEF FitsApproval, GenerateResponseText

\* What an iteration leaves of the other runs, and which contexts are kept after it.
LEMMA EngineLeaves ==
  ASSUME PlatformInv, EngineStep, NEW r \in Run, r = handler.run
  PROVE  /\ \A q \in Run \ {r} : ctx'[q] = ctx[q] /\ (HasApproval(tx', q) <=> HasApproval(tx, q))
         /\ \A q \in memory'.waiting :
              \/ q \in memory.waiting /\ q # r
              \/ q = r /\ ctx'[r].state = Waiting
<1>1. /\ EngineTypeOK /\ tx \in View
      /\ tx.status[r] = ctx[r].state /\ Step(r, Approval \ used)
      /\ ctx[r].state # Waiting /\ r \notin memory.waiting
  <2>1. ctx[r].state # Waiting
    BY DEF EngineStep, PlatformInv, HandlerInv, NewRun, ResumedRun, Waiting
  <2> QED
    BY <2>1
       DEF EngineStep, PlatformInv, TypeOK, EngineTypeOK, HandlerInv, NewRun, ResumedRun
<1>2. ASSUME NEW s \in {"IN_PROGRESS", "COMPLETED", "FAILED"}, MovesTo(r, s)
      PROVE  /\ \A q \in Run \ {r} :
                  ctx'[q] = ctx[q] /\ (HasApproval(tx', q) <=> HasApproval(tx, q))
             /\ \A q \in memory'.waiting : q \in memory.waiting /\ q # r
  <2>1. memory'.waiting \in {memory.waiting, memory.waiting \ {r}}
    BY <1>2 DEF MovesTo, OnRunCompleted
  <2> QED
    BY <1>1, <1>2, <2>1 DEF MovesTo, HasApproval
<1>3. ASSUME NEW a \in Approval \ used, PausesOn(r, a)
      PROVE  /\ \A q \in Run \ {r} :
                  ctx'[q] = ctx[q] /\ (HasApproval(tx', q) <=> HasApproval(tx, q))
             /\ \A q \in memory'.waiting :
                  \/ q \in memory.waiting /\ q # r
                  \/ q = r /\ ctx'[r].state = Waiting
  <2>1. tx.owner[a] = NoRun
    BY DEF PlatformInv, Ownership
  <2>2. ASSUME NEW q \in Run, q # r
        PROVE  HasApproval(tx', q) <=> HasApproval(tx, q)
    <3>1. \A b \in Approval : tx'.owner[b] = IF b = a THEN r ELSE tx.owner[b]
      BY <1>1, <1>3 DEF PausesOn, View
    <3> QED
      BY <2>1, <2>2, <3>1, NoRunAssumption DEF HasApproval
  <2> QED
    BY <1>3, <2>2 DEF PausesOn
<1> QED
  BY <1>1, <1>2, <1>3, LoopEffect

\* The answer of the run inside the engine.
LEMMA EngineStepText ==
  ASSUME PlatformInv, PlatformInv', TextInv, EngineStep
  PROVE  TextInv'
<1>1. /\ EngineTypeOK /\ tx \in View /\ tx' \in View
      /\ handler \in [pc: {"engine"}, run: Run, approval: Approval \cup {NoApproval}]
  BY DEF PlatformInv, TypeOK, EngineTypeOK, EngineStep, Handler, Idle
<1>2. PICK r \in Run : r = handler.run
  BY <1>1
<1> DEFINE t == tx.trace[r]
           u == tx'.trace[r]
           c == ctx[r]
<1>3. /\ Step(r, Approval \ used) /\ db' = db /\ handler'.run = r
      /\ handler'.pc = IF ctx'[r].state = "IN_PROGRESS" THEN "engine" ELSE "returned"
      /\ Answering(r)
  BY <1>1, <1>2 DEF EngineStep, TextInv
<1>4. /\ t \in Seq(TraceEvent) /\ c \in Context
  BY <1>1 DEF EngineTypeOK, View
<1>5. At(r, "execute_tools") => ~HasApproval(tx, r)
  BY <1>1, <1>2
     DEF PlatformInv, HandlerInv, NewRun, ResumedRun, At, CurrentStep, NoStep, HasApproval, Waiting
<1>6. tx'.owner = tx.owner => (HasApproval(tx', r) <=> HasApproval(tx, r))
  BY DEF HasApproval
<1> DEFINE Goal == /\ ctx'[r].state = "IN_PROGRESS" => Answering(r)'
                   /\ ctx'[r].state # "IN_PROGRESS" => Answered(r)' /\ SaysHowItEnded(tx', r)
                   /\ ctx'[r].state = Waiting =>
                        NeedsApproval(ctx'[r].records) /\ ctx'[r].response = Nothing
<1>7. ASSUME WritesEarly(r) PROVE Goal
  <2>1. /\ BeforeTools(ctx'[r]) /\ ctx'[r].state = "IN_PROGRESS"
        /\ ctx'[r].response = c.response /\ BeforeTools(c)
    BY <1>3, <1>7 DEF WritesEarly, Answering
  <2>2. CurrentStep(c) # "complete" /\ CurrentStep(ctx'[r]) # "complete"
    BY <2>1 DEF BeforeTools
  <2>3. ctx'[r].response = Nothing
    BY <1>3, <2>1, <2>2 DEF Answering
  <2>4. Answering(r)'
    BY <2>1, <2>2, <2>3 DEF Answering, BeforeTools, CurrentStep
  <2> QED
    BY <2>1, <2>4 DEF Waiting
<1>8. ASSUME WritesExecution(r) PROVE Goal
  <2>1. /\ At(r, "execute_tools") /\ ctx'[r].state = "IN_PROGRESS"
        /\ ctx'[r].step = "generate_response" /\ ctx'[r].response = c.response
        /\ ~NeedsApproval(ctx'[r].records) /\ tx'.owner = tx.owner
    BY <1>8 DEF WritesExecution
  <2>2. c.response = Nothing
    BY <1>3, <2>1 DEF Answering, At
  <2>3. CurrentStep(ctx'[r]) = "generate_response"
    BY <2>1 DEF CurrentStep, NoStep
  <2>4. ~HasApproval(tx', r)
    BY <1>5, <1>6, <2>1
  <2>5. Answering(r)'
    BY <2>1, <2>2, <2>3, <2>4 DEF Answering, BeforeTools, CurrentStep, HasApproval
  <2> QED
    BY <2>1, <2>5 DEF Waiting
<1>9. ASSUME NEW a \in Approval \ used, WritesRequest(r, a) PROVE Goal
  <2>1. /\ At(r, "execute_tools") /\ ctx'[r].state = Waiting /\ ctx'[r].response = c.response
        /\ NeedsApproval(ctx'[r].records)
    BY <1>9 DEF WritesRequest
  <2>2. PICK w \in Seq(TraceEvent) : Adds(w, ApprovalRequested(a), u)
    BY <1>9 DEF WritesRequest
  <2>3. c.response = Nothing
    BY <1>3, <2>1 DEF Answering, At
  <2>4. ApprovalRequested(a) \in TraceEvent /\ ~Ends(ApprovalRequested(a))
    BY EventsTyped DEF ApprovalRequested, Event, Ends
  <2>5. SaysHowItEnded(tx', r)
    BY <2>2, <2>4, NoEndSaid
  <2>6. Answered(r)'
    BY <2>1, <2>3 DEF Answered
  <2> QED
    BY <2>1, <2>3, <2>5, <2>6 DEF Waiting
<1>10. ASSUME WritesAnswer(r) PROVE Goal
  <2>1. /\ At(r, "generate_response") /\ ctx'[r].state = "IN_PROGRESS"
        /\ ctx'[r].step = "complete" /\ ctx'[r].response = GenerateResponseText(c)
        /\ tx'.owner = tx.owner
    BY <1>10 DEF WritesAnswer
  <2>2. FitsApproval(GenerateResponseText(c), tx, r)
    <3>1. CurrentStep(c) # "complete" /\ ~BeforeTools(c) /\ c.state = "IN_PROGRESS"
      BY <2>1 DEF At, BeforeTools
    <3>2. /\ NeedsApproval(c.records) <=> HasApproval(tx, r)
          /\ HasApproval(tx, r) => c.approval # NoApproval
      BY <1>3, <3>1 DEF Answering
    <3> QED
      BY <3>1, <3>2, GeneratedTextFits
  <2>3. FitsApproval(ctx'[r].response, tx', r)
    BY <1>6, <2>1, <2>2 DEF FitsApproval
  <2>4. CurrentStep(ctx'[r]) = "complete"
    BY <2>1 DEF CurrentStep, NoStep
  <2>5. Answering(r)'
    BY <2>1, <2>3, <2>4 DEF Answering, CurrentStep, FitsApproval, HasApproval
  <2> QED
    BY <2>1, <2>5 DEF Waiting
<1>11. ASSUME WritesCompletion(r) PROVE Goal
  <2> DEFINE e == RunCompleted(c.response, "COMPLETED")
  <2>1. /\ At(r, "complete") /\ ctx'[r].state = "COMPLETED" /\ ctx'[r].response = c.response
        /\ tx'.owner = tx.owner /\ Adds(t, e, u)
    BY <1>11 DEF WritesCompletion
  <2>2. FitsApproval(c.response, tx', r)
    BY <1>3, <1>6, <2>1 DEF Answering, At, FitsApproval
  <2>3. /\ e \in TraceEvent /\ e.type = "RUN_COMPLETED" /\ e.outcome = "COMPLETED"
        /\ e.subject = c.response
    BY <1>4, EventsTyped DEF Context, RunState, RunCompleted, Event
  <2> HIDE DEF e
  <2>4. SaysHowItEnded(tx', r) /\ u[Len(u)] = e
    BY <1>4, <2>1, <2>2, <2>3, EndSaid
  <2>5. Answered(r)'
    BY <2>1, <2>4 DEF Answered, e
  <2> QED
    BY <2>1, <2>4, <2>5 DEF Waiting
<1>12. ASSUME WritesFailure(r) PROVE Goal
  <2>1. /\ CurrentStep(c) # "complete" /\ ctx'[r].state = "FAILED" /\ ctx'[r].response = c.response
    BY <1>12 DEF WritesFailure
  <2>2. PICK w \in Seq(TraceEvent) : Adds(w, RunFailed, u)
    BY <1>12 DEF WritesFailure
  <2>3. /\ RunFailed \in TraceEvent /\ RunFailed.type = "RUN_FAILED"
        /\ RunFailed.outcome = "FAILED"
    BY EventsTyped DEF RunFailed, Event
  <2>4. SaysHowItEnded(tx', r)
    BY <2>2, <2>3, EndSaid
  <2>5. Answered(r)'
    BY <1>3, <2>1 DEF Answering, Answered
  <2> QED
    BY <2>1, <2>4, <2>5 DEF Waiting
<1>13. Goal
  BY <1>1, <1>3, <1>7, <1>8, <1>9, <1>10, <1>11, <1>12, EngineWrites
<1>14. /\ \A q \in Run \ {r} : ctx'[q] = ctx[q] /\ (HasApproval(tx', q) <=> HasApproval(tx, q))
       /\ \A q \in memory'.waiting :
            \/ q \in memory.waiting /\ q # r
            \/ q = r /\ ctx'[r].state = Waiting
  BY <1>2, EngineLeaves
<1>15. memory.waiting \subseteq Run
  BY DEF PlatformInv, TypeOK, Memory
<1>16. \A q \in memory'.waiting : NeedsApproval(ctx'[q].records) /\ ctx'[q].response = Nothing
  BY <1>13, <1>14, <1>15 DEF TextInv
<1>17. ASSUME NEW q \in Run, ~(handler'.pc = "engine" /\ handler'.run = q)
       PROVE  SaysHowItEnded(tx', q)
  <2>1. CASE q = r
    BY <1>3, <1>13, <1>17, <2>1
  <2>2. CASE q # r
    <3>1. tx'.trace[q] = tx.trace[q]
      BY <1>1, <1>3, <2>2, EngineWrites
    <3>2. SaysHowItEnded(tx, q)
      BY <1>2, <2>2 DEF TextInv
    <3> QED
      BY <1>14, <2>2, <3>1, <3>2, EndSaidAgain
  <2> QED
    BY <2>1, <2>2
<1>18. \A q \in Run : SaysHowItEnded(db', q)
  BY <1>3 DEF TextInv
<1>19. /\ handler'.pc = "engine" => Answering(handler.run)'
       /\ handler'.pc = "returned" => Answered(handler.run)'
  BY <1>3, <1>13 DEF Answering, Answered
<1> QED
  BY <1>16, <1>17, <1>18, <1>19 DEF TextInv

\* A decision ends nothing.
LEMMA ResolveApprovalText ==
  ASSUME PlatformInv, TextInv, NEW b \in Approval, NEW d \in Decided, ResolveApproval(b, d)
  PROVE  TextInv'
<1> DEFINE r == db.owner[b]
           resolved == ResolveApprovalRequest(db, b, d)
           e == ApprovalResolved(b, d)
<1>1. /\ db \in View /\ r \in Run /\ tx' = AppendRunEvent(resolved, r, e)
      /\ db' = db /\ handler'.pc = "decided" /\ ctx' = ctx /\ memory' = memory
      /\ \A q \in Run : SaysHowItEnded(db, q)
  BY DEF ResolveApproval, Resolvable, PlatformInv, TypeOK, View, TextInv, Idle
<1>2. /\ resolved \in View /\ resolved.trace = db.trace /\ resolved.owner = db.owner
  <2>1. resolved \in View
    BY <1>1, ResolveApprovalRequestType DEF Decided
  <2> QED
    BY <1>1, <2>1 DEF ResolveApprovalRequest, View
<1>3. e \in TraceEvent /\ ~Ends(e)
  BY EventsTyped DEF ApprovalResolved, Event, Decided, ApprovalStatus, Ends
<1>4. db.trace[r] \in Seq(TraceEvent)
  BY <1>1 DEF View
<1> HIDE DEF resolved, e, r
<1>5. /\ tx'.owner = db.owner /\ Adds(db.trace[r], e, tx'.trace[r])
      /\ \A q \in Run \ {r} : tx'.trace[q] = db.trace[q]
  BY <1>1, <1>2, AppendRunEventTrace, AppendRunEventRows
<1>6. ASSUME NEW q \in Run PROVE SaysHowItEnded(tx', q)
  <2>1. CASE q = r
    BY <1>3, <1>4, <1>5, <2>1, NoEndSaid
  <2>2. CASE q # r
    <3>1. HasApproval(tx', q) <=> HasApproval(db, q)
      BY <1>5 DEF HasApproval
    <3> QED
      BY <1>1, <1>5, <2>2, <3>1, EndSaidAgain
  <2> QED
    BY <2>1, <2>2
<1> QED
  BY <1>1, <1>6 DEF TextInv

\* A run goes on after its decision with what it needs to answer, or it is canceled.
LEMMA ResumeText ==
  ASSUME PlatformInv, PlatformInv', TextInv, Resume
  PROVE  TextInv'
<1>1. PICK r \in Run, b \in Approval, s \in {"IN_PROGRESS", "CANCELED"} :
        /\ handler.approval = b /\ memory.approvalToRun[b] = r /\ r \in memory.waiting
        /\ ~ResumeRefused(r)
        /\ ResumesTo(r, b, s)
  BY ResumeEffect
<1>2. /\ tx \in View /\ ctx \in [Run -> Context] /\ db' = db /\ tx = db
      /\ memory.waiting \subseteq Run
  BY DEF PlatformInv, TypeOK, HandlerInv, Resume, Memory
<1>3. /\ NeedsApproval(ctx[r].records) /\ ctx[r].response = Nothing
      /\ ctx[r].approval # NoApproval
      /\ \A q \in Run : SaysHowItEnded(tx, q)
  BY <1>1, <1>2 DEF TextInv, ResumeRefused
<1>4. /\ handler'.run = r /\ memory'.waiting = memory.waiting \ {r} /\ tx'.owner = tx.owner
      /\ \A q \in Run \ {r} : ctx'[q] = ctx[q]
  BY <1>1 DEF ResumesTo
<1>5. \A q \in Run : HasApproval(tx', q) <=> HasApproval(tx, q)
  BY <1>4 DEF HasApproval
<1>6. /\ \A q \in Run : SaysHowItEnded(db', q)
      /\ \A q \in memory'.waiting : NeedsApproval(ctx'[q].records) /\ ctx'[q].response = Nothing
  BY <1>2, <1>4 DEF TextInv
<1>7. CASE ResumeApproved(r)
  <2>1. tx'.trace = tx.trace
    BY <1>2, <1>7 DEF ResumeApproved, UpdateRunStatus, View
  <2>2. \A q \in Run : SaysHowItEnded(tx', q)
    BY <1>3, <1>5, <2>1, EndSaidAgain
  <2>3. /\ ctx'[r].state = "IN_PROGRESS" /\ ctx'[r].step = "generate_response"
        /\ ctx'[r].records = ctx[r].records /\ ctx'[r].response = Nothing
        /\ ctx'[r].approval # NoApproval
    BY <1>2, <1>3, <1>7 DEF ResumeApproved, Context
  <2>4. handler'.pc = "engine" /\ handler'.approval \in Approval
    BY <1>1, <2>3 DEF ResumesTo
  <2>5. HasApproval(tx', r)
    <3>1. db'.owner[handler'.approval] = r
      BY <1>4, <2>4, NoApprovalAssumption DEF PlatformInv, HandlerInv, ResumedRun
    <3> QED
      BY <1>2, <1>4, <2>4, <3>1 DEF HasApproval
  <2>6. CurrentStep(ctx'[r]) = "generate_response"
    BY <2>3 DEF CurrentStep, NoStep
  <2>7. Answering(r)'
    BY <1>3, <2>3, <2>5, <2>6 DEF Answering, BeforeTools, CurrentStep, HasApproval, NeedsApproval
  <2>8. Answering(handler.run)'
    BY <1>4, <2>7 DEF Answering
  <2> QED
    BY <1>6, <2>2, <2>4, <2>8 DEF TextInv
<1>8. CASE CancelRun(r)
  <2> DEFINE canceled == UpdateRunStatus(tx, r, "CANCELED", FALSE)
             e == RunCompleted("rejection", "CANCELED")
  <2>1. tx' = AppendRunEvent(canceled, r, e)
    BY <1>8 DEF CancelRun
  <2>2. canceled \in View
    BY <1>2, UpdateRunStatusType DEF RunStatus, RunState
  <2>3. canceled.trace = tx.trace /\ tx.trace[r] \in Seq(TraceEvent)
    BY <1>2 DEF UpdateRunStatus, View
  <2>4. /\ e \in TraceEvent /\ e.type = "RUN_COMPLETED"
        /\ e.outcome = "CANCELED" /\ e.subject = "rejection"
    BY EventsTyped DEF RunCompleted, Event, Response, RunState
  <2> HIDE DEF canceled, e
  <2>5. Adds(tx.trace[r], e, tx'.trace[r]) /\ \A p \in Run \ {r} : tx'.trace[p] = tx.trace[p]
    BY <2>1, <2>2, <2>3, AppendRunEventTrace
  <2>6. SaysHowItEnded(tx', r)
    BY <2>3, <2>4, <2>5, EndSaid
  <2>7. \A q \in Run : SaysHowItEnded(tx', q)
    BY <1>3, <1>5, <2>5, <2>6, EndSaidAgain
  <2>8. ctx'[r].state = "CANCELED" /\ ctx'[r].response = Nothing
    BY <1>2, <1>3, <1>8 DEF CancelRun, Context
  <2>9. handler'.pc = "returned"
    BY <1>1, <2>8 DEF ResumesTo
  <2>10. Answered(handler.run)'
    BY <1>4, <2>8 DEF Answered
  <2> QED
    BY <1>6, <2>7, <2>9, <2>10 DEF TextInv
<1> QED
  BY <1>1, <1>7, <1>8 DEF Resume

\* A context the controller keeps loses neither its records nor its lack of an answer.
LEMMA AbortText ==
  ASSUME PlatformInv, TextInv, HandlerAborts
  PROVE  \A q \in memory'.waiting : NeedsApproval(ctx'[q].records) /\ ctx'[q].response = Nothing
<1>1. /\ memory.waiting \subseteq Run /\ ctx \in [Run -> Context] /\ memory' = memory
  BY DEF PlatformInv, TypeOK, Memory, HandlerAborts
<1>2. \A q \in memory.waiting :
        ctx'[q].records = ctx[q].records /\ ctx'[q].response = ctx[q].response
  <2>1. CASE InterruptedRun \in memory.waiting
    <3>1. PICK s : ctx' = [ctx EXCEPT ![InterruptedRun].state = s]
      BY <2>1 DEF HandlerAborts
    <3> QED
      BY <1>1, <3>1 DEF Context
  <2>2. CASE InterruptedRun \notin memory.waiting
    <3>1. ctx' = [q \in Run |-> IF q = InterruptedRun THEN NoContext ELSE ctx[q]]
      BY <2>2 DEF HandlerAborts
    <3> QED
      BY <1>1, <2>2, <3>1
  <2> QED
    BY <2>1, <2>2
<1> QED
  BY <1>1, <1>2 DEF TextInv, NeedsApproval

\* Every step keeps TextInv.
LEMMA TextInvStep == PlatformInv /\ PlatformInv' /\ TextInv /\ [Next]_vars => TextInv'
<1> SUFFICES ASSUME PlatformInv, PlatformInv', TextInv, [Next]_vars
             PROVE  TextInv'
  OBVIOUS
<1>0. memory.waiting \subseteq Run /\ ctx \in [Run -> Context]
  BY DEF PlatformInv, TypeOK, Memory
<1>1. CASE UNCHANGED vars
  BY <1>1 DEF vars, TextInv, Answering, Answered
<1>2. CASE CommitRun
  <2>1. /\ handler.pc = "returned" /\ handler'.pc = "idle" /\ db' = tx /\ tx' = tx
        /\ memory' = memory
        /\ \/ ctx' = ctx
           \/ handler.run \notin memory.waiting /\ ctx' = [ctx EXCEPT ![handler.run] = NoContext]
    BY <1>2 DEF CommitRun, DropContext, Idle
  <2>2. \A q \in memory.waiting : ctx'[q] = ctx[q]
    BY <1>0, <2>1
  <2> QED
    BY <2>1, <2>2 DEF TextInv
<1>3. CASE CommitDecision
  <2>1. /\ handler.pc = "decided" /\ handler'.pc = "lookup" /\ db' = tx /\ tx' = tx
        /\ memory' = memory /\ ctx' = ctx
    BY <1>3 DEF CommitDecision, PlatformInv, TypeOK, Handler, Idle
  <2> QED
    BY <2>1 DEF TextInv
<1>4. CASE NothingToResume
  <2>1. /\ handler.pc = "lookup" /\ handler'.pc = "idle" /\ db' = db /\ tx' = tx
        /\ memory' = memory /\ ctx' = ctx
    BY <1>4 DEF NothingToResume, Idle
  <2> QED
    BY <2>1 DEF TextInv
<1>5. CASE HandlerAborts
  <2>1. handler'.pc = "idle" /\ db' = db /\ tx' = db
    BY <1>5 DEF HandlerAborts, Idle
  <2>2. \A q \in memory'.waiting : NeedsApproval(ctx'[q].records) /\ ctx'[q].response = Nothing
    BY <1>5, AbortText
  <2> QED
    BY <2>1, <2>2 DEF TextInv
<1>6. CASE Crash
  <2>1. handler'.pc = "idle" /\ db' = db /\ tx' = db /\ memory'.waiting = {}
    BY <1>6 DEF Crash, Idle, EmptyMemory
  <2> QED
    BY <2>1 DEF TextInv
<1>7. ASSUME NEW r \in Run, StartRun(r) PROVE TextInv'
  <2>1. /\ db' = db /\ tx'.trace = db.trace /\ tx'.owner = db.owner
        /\ handler'.pc = "engine" /\ handler'.run = r
        /\ memory' = memory /\ r \notin memory.waiting
        /\ \A q \in Run \ {r} : ctx'[q] = ctx[q]
        /\ ctx'[r] = NewContext
    BY <1>0, <1>7 DEF StartRun, CreateRun, PlatformInv, TypeOK, View, Idle, KeptContexts
  <2>2. ASSUME NEW q \in Run PROVE SaysHowItEnded(tx', q)
    <3>1. HasApproval(tx', q) <=> HasApproval(db, q)
      BY <2>1 DEF HasApproval
    <3>2. SaysHowItEnded(db, q) /\ tx'.trace[q] = db.trace[q]
      BY <2>1 DEF TextInv
    <3> QED
      BY <3>1, <3>2, EndSaidAgain
  <2>3. \A q \in memory'.waiting : NeedsApproval(ctx'[q].records) /\ ctx'[q].response = Nothing
    BY <1>0, <2>1 DEF TextInv
  <2>4. /\ CurrentStep(ctx'[r]) = "classify" /\ ctx'[r].response = Nothing
    BY <2>1 DEF NewContext, CurrentStep, NextStep, NoStep
  <2>5. Answering(handler.run)'
    BY <2>1, <2>4 DEF Answering, BeforeTools, CurrentStep
  <2> QED
    BY <2>1, <2>2, <2>3, <2>5 DEF TextInv
<1> QED
  BY <1>1, <1>2, <1>3, <1>4, <1>5, <1>6, <1>7, EngineStepText, ResolveApprovalText, ResumeText
     DEF Next, Request, HandlerStep, Decided

\* TextInv holds in every reachable state.
THEOREM TextInvariant == Spec => []TextInv
<1>1. Init => TextInv
  BY DEF Init, EmptyView, EmptyMemory, Idle, TextInv, SaysHowItEnded
<1> QED
  BY <1>1, TextInvStep, PlatformInvariant, PTL DEF Spec

-----------------------------------------------------------------------------
(* What clients are told. *)

\* What is extracted from a trace is what its last event says, if that is final.
LEMMA ExtractedText ==
  ASSUME NEW t \in Seq(TraceEvent), Shaped(t),
         t # << >> /\ t[Len(t)].type = "RUN_COMPLETED" => t[Len(t)].subject # Nothing
  PROVE  ExtractResponseText(t) =
           IF t # << >> /\ Ends(t[Len(t)])
           THEN IF t[Len(t)].type = "RUN_FAILED" THEN "error" ELSE t[Len(t)].subject
           ELSE Nothing
<1> DEFINE final == {i \in 1..Len(t) :
             \/ t[i].type = "RUN_COMPLETED" /\ t[i].subject # Nothing
             \/ t[i].type = "RUN_FAILED"}
           last == CHOOSE i \in final : \A j \in final : j <= i
<1>1. Len(t) \in Nat /\ (t # << >> => Len(t) \in 1..Len(t)) /\ (t = << >> => Len(t) = 0)
  OBVIOUS
<1>2. \A i \in final : Ends(t[i]) /\ i = Len(t) /\ t # << >>
  BY <1>1 DEF Ends, Shaped
<1>3. CASE t # << >> /\ Ends(t[Len(t)])
  <2>1. Len(t) \in final
    BY <1>1, <1>3 DEF Ends
  <2>2. final = {Len(t)}
    BY <1>2, <2>1
  <2>3. last = Len(t)
    BY <1>1, <2>2
  <2>4. ExtractResponseText(t) = IF t[last].type = "RUN_FAILED" THEN "error" ELSE t[last].subject
    BY <2>2 DEF ExtractResponseText
  <2> QED
    BY <1>3, <2>3, <2>4
<1>4. CASE ~(t # << >> /\ Ends(t[Len(t)]))
  <2>1. final = {}
    BY <1>2, <1>4
  <2> QED
    BY <1>4, <2>1 DEF ExtractResponseText
<1> QED
  BY <1>3, <1>4

\* What GET /runs/{id} extracts, by the status it shows: of a view whose rows are recorded.
ReadText(v, r) ==
  LET text == ExtractResponseText(v.trace[r]) IN
  /\ v.status[r] = Waiting => text = Nothing
  /\ v.status[r] = "COMPLETED" => FitsApproval(text, v, r)
  /\ v.status[r] = "FAILED" => text = "error"
  /\ v.status[r] = "CANCELED" => text = "rejection"

\* Recorded rows read that way.
LEMMA RecordedText ==
  ASSUME NEW v \in View, NEW r \in Run, Recorded(v, r), SaysHowItEnded(v, r)
  PROVE  ReadText(v, r)
<1> DEFINE t == v.trace[r]
           last == t[Len(t)]
           text == ExtractResponseText(t)
<1>1. /\ t \in Seq(TraceEvent) /\ Shaped(t) /\ v.status[r] = StatusFromTrace(t)
  BY DEF View, Recorded, Explained
<1>2. /\ t # << >> /\ last.type = "RUN_FAILED" => last.outcome = "FAILED"
      /\ t # << >> /\ last.type = "RUN_COMPLETED" =>
           \/ last.outcome = "CANCELED" /\ last.subject = "rejection"
           \/ last.outcome = "COMPLETED" /\ FitsApproval(last.subject, v, r)
  BY DEF SaysHowItEnded
<1>3. t # << >> /\ last.type = "RUN_COMPLETED" => last.subject # Nothing
  BY <1>2 DEF FitsApproval, Nothing
<1>4. text = IF t # << >> /\ Ends(last)
             THEN IF last.type = "RUN_FAILED" THEN "error" ELSE last.subject
             ELSE Nothing
  BY <1>1, <1>3, ExtractedText
<1>5. v.status[r] = Waiting => text = Nothing
  <2>1. ASSUME v.status[r] = Waiting PROVE Running(t)
    BY <1>1, <2>1, StatusTells
  <2> QED
    BY <1>4, <2>1 DEF Running
<1>6. ASSUME v.status[r] \in Terminal
      PROVE  t # << >> /\ Ends(last) /\ v.status[r] = last.outcome
  BY <1>1, <1>6 DEF StatusFromTrace, Terminal, Ends
<1> HIDE DEF t, last, text
<1>7. v.status[r] = "COMPLETED" => FitsApproval(text, v, r)
  BY <1>2, <1>4, <1>6 DEF Terminal, Ends
<1>8. v.status[r] = "FAILED" => text = "error"
  BY <1>2, <1>4, <1>6 DEF Terminal, Ends
<1>9. v.status[r] = "CANCELED" => text = "rejection"
  BY <1>2, <1>4, <1>6 DEF Terminal, Ends
<1> QED
  BY <1>5, <1>7, <1>8, <1>9 DEF ReadText, t, text

\* The approval that a read looks at is the run's.
LEMMA LatestIsOurs ==
  ASSUME NEW v, NEW r, \A a, b \in ApprovalsOf(v, r) : a = b
  PROVE  /\ LatestForRun(v, r) = NoApproval => ApprovalsOf(v, r) = {}
         /\ LatestForRun(v, r) # NoApproval => ApprovalsOf(v, r) = {LatestForRun(v, r)}
<1>1. CASE ApprovalsOf(v, r) = {}
  <2>1. ~\E a \in Approval : v.owner[a] = r
    BY <1>1 DEF ApprovalsOf
  <2> QED
    BY <1>1, <2>1 DEF LatestForRun
<1>2. CASE ApprovalsOf(v, r) # {}
  <2>1. \E a \in Approval : v.owner[a] = r
    BY <1>2 DEF ApprovalsOf
  <2>2. LatestForRun(v, r) = CHOOSE a \in Approval : v.owner[a] = r
    BY <2>1 DEF LatestForRun
  <2>3. LatestForRun(v, r) \in Approval /\ v.owner[LatestForRun(v, r)] = r
    BY <2>1, <2>2
  <2>4. LatestForRun(v, r) \in ApprovalsOf(v, r)
    BY <2>3 DEF ApprovalsOf
  <2>5. LatestForRun(v, r) # NoApproval
    BY <2>3, NoApprovalAssumption
  <2> QED
    BY <2>4, <2>5
<1> QED
  BY <1>1, <1>2

\* What a client reads of a committed run.
LEMMA CommittedReads ==
  ASSUME PlatformInv, TraceInv, TextInv
  PROVE  ReadsFitDecision
<1> SUFFICES ASSUME NEW r \in Run, db.status[r] # "NONE"
             PROVE  LET read == GetRun(db, r, Nothing)
                        text == read.response_text
                        Has(d) == \E a \in ApprovalsOf(db, r) : db.decision[a] \in d
                    IN /\ text = "approved_preview" <=>
                            read.status = "COMPLETED" /\ Has({"APPROVED"})
                       /\ text = "rejection" <=> read.status = "CANCELED"
                       /\ text = "error" <=> read.status = "FAILED"
                       /\ text = "approval_required" <=> read.approval_request_id # NoApproval
                       /\ text = Nothing <=>
                            read.status = "WAITING_FOR_APPROVAL" /\ Has(Decided)
  BY DEF ReadsFitDecision
<1> DEFINE status == db.status[r]
           latest == LatestForRun(db, r)
           extracted == ExtractResponseText(db.trace[r])
           pending == latest # NoApproval /\ db.decision[latest] = "PENDING"
           text == IF extracted = Nothing /\ pending /\ status = Waiting
                   THEN "approval_required" ELSE extracted
           id == IF pending THEN latest ELSE NoApproval
           read == GetRun(db, r, Nothing)
           Has(d) == \E a \in ApprovalsOf(db, r) : db.decision[a] \in d
<1>1. read.status = status /\ read.response_text = text /\ read.approval_request_id = id
  BY DEF GetRun, Waiting
<1>2. CommittedRun(r) /\ ReadText(db, r)
  BY RecordedText DEF PlatformInv, TypeOK, CommittedRuns, TraceInv, TextInv
<1>3. /\ status \in {Waiting, "COMPLETED", "FAILED", "CANCELED"}
      /\ status \in {Waiting, "CANCELED"} => ApprovalsOf(db, r) # {}
      /\ \A a, b \in ApprovalsOf(db, r) : a = b
      /\ \A a \in ApprovalsOf(db, r) :
           \/ db.decision[a] = "PENDING" /\ status = Waiting
           \/ db.decision[a] = "REJECTED" /\ status \in {Waiting, "CANCELED"}
           \/ db.decision[a] = "APPROVED" /\ status \in {Waiting, "COMPLETED", "FAILED"}
  BY <1>2 DEF CommittedRun
<1>4. /\ status = Waiting => extracted = Nothing
      /\ status = "COMPLETED" => IF ApprovalsOf(db, r) # {} THEN extracted = "approved_preview"
                                 ELSE extracted \in {"tool_output", "grounded"}
      /\ status = "FAILED" => extracted = "error"
      /\ status = "CANCELED" => extracted = "rejection"
  BY <1>2 DEF ReadText, FitsApproval, HasApproval, ApprovalsOf
<1>5. /\ latest = NoApproval => ApprovalsOf(db, r) = {}
      /\ latest # NoApproval => ApprovalsOf(db, r) = {latest}
  BY <1>3, LatestIsOurs
<1> HIDE DEF status, latest, extracted, read
<1>6. pending => status = Waiting
  BY <1>3, <1>5
<1>7. \A d : Has(d) <=> latest # NoApproval /\ db.decision[latest] \in d
  BY <1>5
<1>8. text = "approved_preview" <=> status = "COMPLETED" /\ Has({"APPROVED"})
  BY <1>3, <1>4, <1>5, <1>7 DEF Waiting, Nothing
<1>9. text = "rejection" <=> status = "CANCELED"
  BY <1>3, <1>4 DEF Waiting, Nothing
<1>10. text = "error" <=> status = "FAILED"
  BY <1>3, <1>4 DEF Waiting, Nothing
<1>11. text = "approval_required" <=> id # NoApproval
  BY <1>3, <1>4, <1>6 DEF Waiting, Nothing
<1>12. text = Nothing <=> status = Waiting /\ Has(Decided)
  BY <1>3, <1>4, <1>5, <1>7 DEF Waiting, Nothing, Decided
<1> HIDE DEF text, id
<1> QED
  BY <1>1, <1>8, <1>9, <1>10, <1>11, <1>12 DEF Waiting, read

\* What a handler answers from the context of its run.
LEMMA ContextAnswers ==
  ASSUME PlatformInv, TraceInv, TextInv
  PROVE  AnswersFitReads
<1> SUFFICES ASSUME handler.pc = "returned" PROVE AnswersFitReads
  BY DEF AnswersFitReads
<1>1. /\ tx \in View
      /\ handler \in [pc: {"returned"}, run: Run, approval: Approval \cup {NoApproval}]
  BY DEF PlatformInv, TypeOK, Handler, Idle
<1>2. PICK r \in Run : r = handler.run
  BY <1>1
<1> DEFINE t == tx.trace[r]
           c == ctx[r]
<1>3. Recorded(tx, r) /\ SaysHowItEnded(tx, r) /\ Answered(r)
  BY <1>2 DEF TraceInv, TextInv
<1>4. tx.status[r] = c.state
  BY <1>1, <1>2 DEF PlatformInv, HandlerInv, NewRun, ResumedRun
<1>5. ASSUME c.response # Nothing PROVE ExtractResponseText(t) = c.response
  <2>1. c.state = "COMPLETED" /\ t[Len(t)] = RunCompleted(c.response, "COMPLETED")
    BY <1>3, <1>5 DEF Answered
  <2>2. t \in Seq(TraceEvent) /\ Shaped(t) /\ t # << >>
    BY <1>1, <1>3, <1>4, <2>1 DEF View, Recorded, Explained, StatusFromTrace
  <2>3. /\ t[Len(t)].type = "RUN_COMPLETED" /\ t[Len(t)].subject = c.response
        /\ Ends(t[Len(t)])
    BY <2>1 DEF RunCompleted, Event, Ends
  <2> HIDE DEF t, c
  <2> QED
    BY <1>5, <2>2, <2>3, ExtractedText
<1>6. /\ GetRun(tx, r, c.response) = GetRun(tx, r, Nothing)
      /\ c.response \in {Nothing, GetRun(tx, r, Nothing).response_text}
  <2>1. CASE c.response = Nothing
    BY <2>1
  <2>2. CASE c.response # Nothing
    BY <1>5, <2>2 DEF GetRun
  <2> QED
    BY <2>1, <2>2
<1>7. GetRun(tx, r, Nothing).status = c.state
  BY <1>4 DEF GetRun
<1> QED
  BY <1>2, <1>6, <1>7 DEF AnswersFitReads, ResumeResult

\* What a client reads of a run fits the operator's decision, and what the handlers answer from
\* their contexts fits what is read.  (demo.py _extract_response_text, main.py)
THEOREM AnswersMatchDecisions == Spec => []AnswerMatchesDecision
<1>1. PlatformInv /\ TraceInv /\ TextInv => AnswerMatchesDecision
  BY CommittedReads, ContextAnswers DEF AnswerMatchesDecision
<1> QED
  BY <1>1, PlatformInvariant, TraceInvariant, TextInvariant, PTL
=============================================================================
