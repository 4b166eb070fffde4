-------------------------- MODULE PlatformInvariant --------------------------
(***************************************************************************)
(* The inductive invariants behind the properties.  PlatformInv, for       *)
(* ApprovalGatesOutcome and the refinement of RunLifecycle: how the        *)
(* committed rows, the session's view, the contexts and the controller's   *)
(* memory relate while a handler runs.  MemoryInv, for                     *)
(* WaitingRunsAreResumable and MemoryHoldsOnlyWaitingRuns: what the        *)
(* controller remembers.  Then what the traces say meanwhile: TraceInv,    *)
(* for NoResponseBeforeApproval and TraceExplainsStatus; ApprovalInv, for  *)
(* OneResolutionPerDecision; ToolInv, for ToolResultsFollowCalls.  TextInv,*)
(* for AnswerMatchesDecision: who has which answer.  Every part but        *)
(* MemoryInv holds whatever crashes or fails, and MemoryInv whatever       *)
(* crashes.                                                                *)
(***************************************************************************)
EXTENDS PlatformProperties

Waiting == "WAITING_FOR_APPROVAL"

\* The committed rows of a run: what a client may see, and what decides it.
CommittedRun(r) ==
  /\ db.status[r] \in {"NONE", Waiting, "COMPLETED", "FAILED", "CANCELED"}
  /\ db.status[r] # "NONE" => r \in used
  /\ db.status[r] \in {Waiting, "CANCELED"} => ApprovalsOf(db, r) # {}
  /\ \A a, b \in ApprovalsOf(db, r) : a = b
  /\ \A a \in ApprovalsOf(db, r) :
       \/ db.decision[a] = "PENDING" /\ db.status[r] = Waiting
       \/ db.decision[a] = "REJECTED" /\ db.status[r] \in {Waiting, "CANCELED"}
       \/ db.decision[a] = "APPROVED" /\ db.status[r] \in {Waiting, "COMPLETED", "FAILED"}

CommittedRuns == \A r \in Run : CommittedRun(r)

\* An approval id is handed out once, so whoever names its run names the same one.
Ownership ==
  \A a \in Approval :
    /\ db.owner[a] # NoRun => tx.owner[a] = db.owner[a]
    /\ tx.owner[a] # NoRun => a \in used
    /\ memory.approvalToRun[a] # NoRun =>
         /\ a \in used
         /\ memory.approvalToRun[a] \in used
         /\ tx.owner[a] \in {NoRun, memory.approvalToRun[a]}

\* The contexts kept for a resume: each knows its approval, and no such run is settled, not
\* even one whose rows were rolled back.
KeptContexts ==
  \A r \in memory.waiting :
    /\ r \in used
    /\ db.status[r] \in {"NONE", Waiting}
    /\ \A a \in Approval : memory.approvalToRun[a] = r => ctx[r].approval = a

\* A handler inside the engine has touched the rows of its own run only.
OthersUntouched ==
  /\ \A r \in Run : r # handler.run => tx.status[r] = db.status[r]
  /\ \A a \in Approval : tx.owner[a] # handler.run =>
       tx.owner[a] = db.owner[a] /\ tx.decision[a] = db.decision[a]

\* POST /runs inside the engine or before its commit.
NewRun ==
  LET r == handler.run
      c == ctx[r]
  IN /\ db.status[r] = "NONE"
     /\ tx.status[r] = c.state
     /\ c.state \in IF handler.pc = "engine" THEN {"PENDING", "IN_PROGRESS"}
                    ELSE {Waiting, "COMPLETED", "FAILED"}
     /\ c.state = Waiting =>
          /\ c.approval \in Approval
          /\ \A a \in Approval : tx.owner[a] = r <=> a = c.approval
          /\ tx.decision[c.approval] = "PENDING"
     /\ c.state # Waiting =>
          /\ r \notin memory.waiting
          /\ \A a \in Approval : tx.owner[a] # r /\ memory.approvalToRun[a] # r

\* POST /approvals/... inside the engine or before its second commit.
ResumedRun ==
  LET r == handler.run
      c == ctx[r]
  IN /\ db.status[r] = Waiting
     /\ tx.status[r] = c.state
     /\ db.owner[handler.approval] = r
     /\ tx.owner = db.owner
     /\ tx.decision = db.decision
     /\ r \notin memory.waiting
     /\ \/ /\ tx.decision[handler.approval] = "APPROVED"
           /\ IF handler.pc = "engine"
              THEN c.state = "IN_PROGRESS" /\ c.step \in {"generate_response", "complete"}
              ELSE c.state \in {"COMPLETED", "FAILED"}
        \/ /\ tx.decision[handler.approval] = "REJECTED"
           /\ handler.pc = "returned" /\ c.state = "CANCELED"

\* Before the commit of a decision.
DecisionPending ==
  LET a == handler.approval IN
  /\ db.owner[a] # NoRun
  /\ db.decision[a] = "PENDING"
  /\ tx.decision[a] \in Decided
  /\ \A b \in Approval : b # a => tx.decision[b] = db.decision[b]
  /\ tx.owner = db.owner
  /\ tx.status = db.status

HandlerInv ==
  /\ handler.pc \in {"idle", "lookup"} => tx = db
  /\ handler.pc = "decided" => DecisionPending
  /\ handler.pc = "lookup" =>
       db.owner[handler.approval] # NoRun /\ db.decision[handler.approval] \in Decided
  /\ handler.pc \in {"engine", "returned"} =>
       /\ handler.run \in used
       /\ OthersUntouched
       /\ IF handler.approval = NoApproval THEN NewRun ELSE ResumedRun

PlatformInv ==
  /\ TypeOK
  /\ CommittedRuns
  /\ Ownership
  /\ KeptContexts
  /\ HandlerInv

-----------------------------------------------------------------------------
(* The process's memory, while no handler aborts *)

\* The controller holds what it takes to resume a run.
Kept(r) ==
  /\ r \in memory.waiting
  /\ ctx[r].state = Waiting
  /\ ctx[r].approval \in Approval
  /\ tx.owner[ctx[r].approval] = r
  /\ memory.approvalToRun[ctx[r].approval] = r

\* The controller holds nothing of a run.
Forgotten(r) ==
  /\ r \notin memory.waiting
  /\ \A a \in Approval : memory.approvalToRun[a] # r

\* Nor does the heap.
Gone(r) == Forgotten(r) /\ ctx[r] = NoContext

\* The handler's run has its context; the controller holds it when it has paused, and
\* forgets it when it has ended.  Of the other runs it holds those that wait, but for those
\* of a process that died.
MemoryInv ==
  \A r \in Run :
    IF handler.pc \in {"engine", "returned"} /\ handler.run = r
    THEN handler.pc = "returned" => IF ctx[r].state = Waiting THEN Kept(r) ELSE Forgotten(r)
    ELSE IF db.status[r] = Waiting THEN Kept(r) \/ ("crash" \in Faults /\ Gone(r)) ELSE Gone(r)

\* No approval request exists, committed or not.
NothingAwaitsApproval == \A a \in Approval : tx.owner[a] = NoRun /\ db.owner[a] = NoRun

-----------------------------------------------------------------------------
(* Traces *)

\* What an event says: a tool asks for approval, the operator approves, an answer or a
\* completion is recorded, the run starts, it ends.
Asks(e) == e.type = "TOOL_RESULT_RECEIVED" /\ e.outcome = "APPROVAL_REQUIRED"
Approves(e) == e.type = "APPROVAL_RESOLVED" /\ e.outcome = "APPROVED"
Answers(e) == e.type \in {"MODEL_SELECTED", "RUN_COMPLETED"} /\ e.outcome # "CANCELED"
Starts(e) == e.type = "RUN_STARTED"
Ends(e) == e.type \in {"RUN_COMPLETED", "RUN_FAILED"}

NeverAsked(t) == \A i \in 1..Len(t) : ~Asks(t[i])

\* Whatever was asked has been approved since.
Cleared(t) ==
  \A i \in 1..Len(t) : Asks(t[i]) => \E k \in 1..Len(t) : i < k /\ Approves(t[k])

\* Whatever was asked was approved before the next answer.
Gated(t) ==
  \A i, j \in 1..Len(t) :
    Asks(t[i]) /\ Answers(t[j]) /\ i < j =>
      \E k \in 1..Len(t) : i < k /\ k < j /\ Approves(t[k])

Shaped(t) ==
  \A i \in 1..Len(t) :
    /\ Starts(t[i]) <=> i = 1
    /\ Ends(t[i]) => i = Len(t) /\ t[i].outcome \in Terminal

\* The trace of a run that has begun and not ended.
Running(t) == t # << >> /\ Shaped(t) /\ ~Ends(t[Len(t)])

Explained(v, r) ==
  /\ v.status[r] = StatusFromTrace(v.trace[r])
  /\ v.lastError[r] <=> v.status[r] = "FAILED"
  /\ Shaped(v.trace[r])

\* The rows of a run nobody is working on.
Recorded(v, r) ==
  /\ Explained(v, r)
  /\ Gated(v.trace[r])
  /\ \A a \in Approval :
       v.owner[a] = r /\ v.decision[a] = "APPROVED" => Cleared(v.trace[r])

BeforeTools(c) ==
  CurrentStep(c) \in {"classify", "retrieve_context", "decide_tools", "execute_tools"}

\* The rows of a run inside the engine.
UnderWay(r) ==
  /\ ~tx.lastError[r]
  /\ IF ctx[r].state = "PENDING" THEN tx.trace[r] = << >> ELSE Running(tx.trace[r])
  /\ Gated(tx.trace[r])
  /\ Cleared(tx.trace[r])
  /\ BeforeTools(ctx[r]) => NeverAsked(tx.trace[r])

TraceInv ==
  \A r \in Run :
    /\ Recorded(db, r)
    /\ IF handler.pc = "engine" /\ handler.run = r THEN UnderWay(r) ELSE Recorded(tx, r)

-----------------------------------------------------------------------------
(* The events of approvals *)

Says(e, type, a) == e.type = type /\ e.subject = a
Tells(t, type, a) == \E i \in 1..Len(t) : Says(t[i], type, a)
Once(t, type, a) ==
  \A i, j \in 1..Len(t) : Says(t[i], type, a) /\ Says(t[j], type, a) => i = j

\* What the rows say of approval a, the trace of run r says once, and nothing else: the owner
\* in APPROVAL_REQUESTED, a decision in APPROVAL_RESOLVED.
Accounts(t, r, owner, decision, a) ==
  /\ Tells(t, "APPROVAL_REQUESTED", a) <=> owner = r
  /\ Tells(t, "APPROVAL_RESOLVED", a) <=> owner = r /\ decision \in Decided
  /\ Once(t, "APPROVAL_REQUESTED", a)
  /\ Once(t, "APPROVAL_RESOLVED", a)
  /\ \A i \in 1..Len(t) : Says(t[i], "APPROVAL_RESOLVED", a) => t[i].outcome = decision

Accounted(v, r, a) == Accounts(v.trace[r], r, v.owner[a], v.decision[a], a)

ApprovalInv == \A r \in Run, a \in Approval : Accounted(db, r, a) /\ Accounted(tx, r, a)

-----------------------------------------------------------------------------
(* The events of tools *)

Calls(e) == e.type = "TOOL_CALLED"
Results(e) == e.type = "TOOL_RESULT_RECEIVED"
NoTools(t) == \A i \in 1..Len(t) : ~Calls(t[i]) /\ ~Results(t[i])

\* After p other events come n calls and the results of the first m of them.
Block(t, p, n, m) ==
  /\ m <= n
  /\ p + n + m <= Len(t)
  /\ \A i \in 1..Len(t) :
       /\ Calls(t[i]) <=> p < i /\ i <= p + n
       /\ Results(t[i]) <=> p + n < i /\ i <= p + n + m
  /\ \A k \in 1..m : t[p + k].subject = t[p + n + k].subject

\* Calls are left unanswered when the run has failed, or waits or waited for an approval.
Ordered(t, failed) ==
  \E p, n, m \in 0..Len(t) : Block(t, p, n, m) /\ (m < n => failed \/ ~NeverAsked(t))

ToolInv ==
  /\ \A r \in Run :
       /\ Ordered(db.trace[r], db.status[r] = "FAILED")
       /\ Ordered(tx.trace[r], tx.status[r] = "FAILED")
  /\ handler.pc = "engine" /\ BeforeTools(ctx[handler.run]) => NoTools(tx.trace[handler.run])

-----------------------------------------------------------------------------
(* What is answered *)

HasApproval(v, r) == \E a \in Approval : v.owner[a] = r

\* The answer that a run may have: the preview of what was approved, if anything was.
FitsApproval(text, v, r) ==
  IF HasApproval(v, r) THEN text = "approved_preview" ELSE text \in {"tool_output", "grounded"}

\* What the last event of a run says that has ended.
SaysHowItEnded(v, r) ==
  LET t == v.trace[r]
      last == t[Len(t)]
  IN t # << >> =>
       /\ last.type = "RUN_FAILED" => last.outcome = "FAILED"
       /\ last.type = "RUN_COMPLETED" =>
            \/ last.outcome = "CANCELED" /\ last.subject = "rejection"
            \/ last.outcome = "COMPLETED" /\ FitsApproval(last.subject, v, r)

\* A context in the engine answers what its approval lets it, and only in its last step.
Answering(r) ==
  LET c == ctx[r] IN
  /\ c.state = "PENDING" => BeforeTools(c)
  /\ IF CurrentStep(c) = "complete" THEN FitsApproval(c.response, tx, r)
     ELSE /\ c.response = Nothing
          /\ ~BeforeTools(c) =>
               /\ NeedsApproval(c.records) <=> HasApproval(tx, r)
               /\ HasApproval(tx, r) => c.approval # NoApproval

\* A context outside the engine has the answer that its trace ends with, or none.
Answered(r) ==
  LET t == tx.trace[r]
      c == ctx[r]
  IN c.response # Nothing =>
       c.state = "COMPLETED" /\ t[Len(t)] = RunCompleted(c.response, "COMPLETED")

TextInv ==
  /\ \A r \in Run :
       /\ SaysHowItEnded(db, r)
       /\ ~(handler.pc = "engine" /\ handler.run = r) => SaysHowItEnded(tx, r)
  /\ \A r \in memory.waiting : NeedsApproval(ctx[r].records) /\ ctx[r].response = Nothing
  /\ handler.pc = "engine" => Answering(handler.run)
  /\ handler.pc = "returned" => Answered(handler.run)
=============================================================================
