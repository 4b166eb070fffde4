---------------------------- MODULE ToolExecutor ----------------------------
(***************************************************************************)
(* ToolExecutor.execute (tools/executor.py): one call, validated and then  *)
(* attempted until an attempt ends without a retryable error.  Each        *)
(* attempt runs the tool's handler on the worker thread of a thread pool   *)
(* of its own; the calling thread waits for the future with a timeout and  *)
(* leaves the pool's with-block, which joins the worker.                   *)
(*                                                                         *)
(* Two threads interleave: the caller (caller, attempts, verdict, result)  *)
(* and the worker of each attempt (worker).                                *)
(***************************************************************************)
EXTENDS Naturals

CONSTANT MaxRetries       \* bound on the retry_count of a definition

ASSUME MaxRetriesAssumption == MaxRetries \in Nat

VARIABLES
  definition,     \* the ToolDefinition that is called
  caller,         \* where the calling thread is
  attempts,       \* attempts begun
  worker,         \* worker[k]: the future of attempt k
  verdict,        \* verdict[k]: what the caller saw of attempt k
  result          \* the ToolResult, NoResult while there is none

vars == <<definition, caller, attempts, worker, verdict, result>>

Attempt == 1..(MaxRetries + 1)

\* risk_level matters only as HIGH or not; a handler's exceptions only by except clause:
\* RetryableToolError and TimeoutError are retried, the others are not.
Definition == [retryCount: 0..MaxRetries, requiresApproval: BOOLEAN, highRisk: BOOLEAN]
Ending == {"output", "retryable", "error"}
Future == {"none", "queued", "running", "cancelled"} \cup Ending
Verdict == {"none", "timeout"} \cup Ending
Caller == {"validate", "attempt", "waiting", "cancelling", "joining", "deciding", "returned"}
ToolStatus == {"succeeded", "failed", "approval_required"}

\* A result and its metadata.attempts, metadata.retried.
Result == [status: ToolStatus, attempts: Nat, retried: BOOLEAN]
NoResult == [status |-> "none", attempts |-> 0, retried |-> FALSE]

TypeOK ==
  /\ definition \in Definition
  /\ caller \in Caller
  /\ attempts \in 0..(MaxRetries + 1)
  /\ worker \in [Attempt -> Future]
  /\ verdict \in [Attempt -> Verdict]
  /\ result \in Result \cup {NoResult}

Init ==
  /\ definition \in Definition
  /\ caller = "validate"
  /\ attempts = 0
  /\ worker = [k \in Attempt |-> "none"]
  /\ verdict = [k \in Attempt |-> "none"]
  /\ result = NoResult

\* can_execute_without_approval.
CanExecuteWithoutApproval(d) == ~d.requiresApproval /\ ~d.highRisk

Return(status, n) ==
  /\ caller' = "returned"
  /\ result' = [status |-> status, attempts |-> n, retried |-> n > 1]

-----------------------------------------------------------------------------
(* The calling thread *)

\* The arguments do not fit input_schema: metadata says one attempt, none was made.
RejectArguments ==
  /\ caller = "validate"
  /\ Return("failed", 1)
  /\ UNCHANGED <<definition, attempts, worker, verdict>>

AcceptArguments ==
  /\ caller = "validate"
  /\ caller' = "attempt"
  /\ UNCHANGED <<definition, attempts, worker, verdict, result>>

\* Mutant: retry_count counted from one.
AttemptsLeft_OneMore == attempts <= definition.retryCount + 1

\* attempts <= definition.retry_count, the condition of the loop and of each continue.
AttemptsLeft == attempts <= definition.retryCount

\* The head of the loop, and executor.submit on a fresh pool.
Submit ==
  /\ caller = "attempt"
  /\ AttemptsLeft
  /\ attempts' = attempts + 1
  /\ worker' = [worker EXCEPT ![attempts + 1] = "queued"]
  /\ caller' = "waiting"
  /\ UNCHANGED <<definition, verdict, result>>

\* future.result returns the output or raises what the handler raised.
GetResult ==
  /\ caller = "waiting"
  /\ worker[attempts] \in Ending
  /\ verdict' = [verdict EXCEPT ![attempts] = worker[attempts]]
  /\ caller' = "joining"
  /\ UNCHANGED <<definition, attempts, worker, result>>

\* The timeout expires first.
TimeOut ==
  /\ caller = "waiting"
  /\ worker[attempts] \notin Ending
  /\ verdict' = [verdict EXCEPT ![attempts] = "timeout"]
  /\ caller' = "cancelling"
  /\ UNCHANGED <<definition, attempts, worker, result>>

\* future.cancel stops a handler that has not begun, and no other.
Cancel ==
  /\ caller = "cancelling"
  /\ worker' = [worker EXCEPT ![attempts] = IF @ = "queued" THEN "cancelled" ELSE @]
  /\ caller' = "joining"
  /\ UNCHANGED <<definition, attempts, verdict, result>>

\* Mutant: waits for an ending that a cancelled future never has.
LeavePool_WaitsForEnding ==
  /\ caller = "joining"
  /\ worker[attempts] \in Ending
  /\ caller' = "deciding"
  /\ UNCHANGED <<definition, attempts, worker, verdict, result>>

\* Mutant: the pool is left without waiting for its thread.
LeavePool_NoWait ==
  /\ caller = "joining"
  /\ caller' = "deciding"
  /\ UNCHANGED <<definition, attempts, worker, verdict, result>>

\* Leaving the with-block is shutdown(wait=True): it waits for the handler to end.
LeavePool ==
  /\ caller = "joining"
  /\ worker[attempts] \notin {"queued", "running"}
  /\ caller' = "deciding"
  /\ UNCHANGED <<definition, attempts, worker, verdict, result>>

\* Mutant: the generic except clause retries, too.
MayRetry_AnyError(v) == v \in {"retryable", "timeout", "error"}

\* except (RetryableToolError, TimeoutError).
MayRetry(v) == v \in {"retryable", "timeout"}

Retry ==
  /\ caller = "deciding"
  /\ MayRetry(verdict[attempts])
  /\ AttemptsLeft
  /\ caller' = "attempt"
  /\ UNCHANGED <<definition, attempts, worker, verdict, result>>

GiveUp ==
  /\ caller = "deciding"
  /\ IF MayRetry(verdict[attempts]) THEN ~AttemptsLeft ELSE verdict[attempts] = "error"
  /\ Return("failed", attempts)
  /\ UNCHANGED <<definition, attempts, worker, verdict>>

\* Mutant: only requires_approval is looked at.
Deliver_IgnoresRisk ==
  /\ caller = "deciding"
  /\ verdict[attempts] = "output"
  /\ Return(IF definition.requiresApproval THEN "approval_required" ELSE "succeeded", attempts)
  /\ UNCHANGED <<definition, attempts, worker, verdict>>

\* The handler has run; only now is the approval requirement looked at.
Deliver ==
  /\ caller = "deciding"
  /\ verdict[attempts] = "output"
  /\ Return(IF CanExecuteWithoutApproval(definition) THEN "succeeded" ELSE "approval_required",
            attempts)
  /\ UNCHANGED <<definition, attempts, worker, verdict>>

-----------------------------------------------------------------------------
(* The worker thread of attempt k *)

Begin(k) ==
  /\ worker[k] = "queued"
  /\ worker' = [worker EXCEPT ![k] = "running"]
  /\ UNCHANGED <<definition, caller, attempts, verdict, result>>

\* The handler returns or raises; it may also never end.
End(k) ==
  /\ worker[k] = "running"
  /\ \E e \in Ending : worker' = [worker EXCEPT ![k] = e]
  /\ UNCHANGED <<definition, caller, attempts, verdict, result>>

-----------------------------------------------------------------------------
CallerStep ==
  \/ RejectArguments
  \/ AcceptArguments
  \/ Submit
  \/ GetResult
  \/ TimeOut
  \/ Cancel
  \/ LeavePool
  \/ Retry
  \/ GiveUp
  \/ Deliver

Next == CallerStep \/ \E k \in Attempt : Begin(k) \/ End(k)

Spec == Init /\ [][Next]_vars

\* Both threads are scheduled; a handler need not end.
FairSpec == Spec /\ WF_vars(CallerStep) /\ \A k \in Attempt : WF_vars(Begin(k))

\* Handlers end, like the registered ones, which only search seed data.
TerminatingSpec == FairSpec /\ \A k \in Attempt : WF_vars(End(k))

-----------------------------------------------------------------------------
(* Properties *)

\* A handler is active only during the latest attempt, while the caller is inside that
\* attempt's pool: attempts never overlap, and nothing runs on after execute returned,
\* although a timeout abandons the future (executor.py:163-171).
HandlersNeverOverlap ==
  \A k \in Attempt : worker[k] \in {"queued", "running"} =>
    k = attempts /\ caller \in {"waiting", "cancelling", "joining"}

\* An attempt is repeated only after a retryable error or a timeout.  So a handler that
\* delivered is repeated only if it delivered after its timeout: its effect may then
\* happen once more, which is why a tool with effects needs retry_count 0.
EffectsRepeatOnlyAfterTimeout ==
  \A k \in Attempt : k < attempts =>
    /\ verdict[k] \in {"retryable", "timeout"}
    /\ worker[k] = "output" => verdict[k] = "timeout"
    /\ k <= definition.retryCount

\* What the result says is what the last attempt did: an output of a tool that needs no
\* approval succeeds, an output of any other asks for approval (by flag or by risk), and
\* a failure was not an output seen in time.
ResultTellsLastAttempt ==
  caller = "returned" =>
    /\ result.status = "succeeded" =>
         verdict[attempts] = "output" /\ CanExecuteWithoutApproval(definition)
    /\ result.status = "approval_required" =>
         verdict[attempts] = "output" /\ ~CanExecuteWithoutApproval(definition)
    /\ (result.status = "failed" /\ attempts > 0) =>
         verdict[attempts] \in {"retryable", "timeout", "error"}
    /\ attempts > 0 => result.attempts = attempts

\* A call of a tool whose handler ends is answered.
CallReturns == <>(caller = "returned")

\* ARCHITECTURE.md, "Risk model": "Risky actions must not execute directly."  The handler of
\* a tool that may not execute without approval does not run before there is one.
RiskyHandlersWaitForApproval ==
  \A k \in Attempt : worker[k] \in {"running"} \cup Ending =>
    CanExecuteWithoutApproval(definition)

\* execute runs the handler "through validation, timeout, and retry wrappers": once the
\* timeout of its last attempt has expired, the call returns.
TimeoutEndsTheCall ==
  (caller = "cancelling" /\ attempts > definition.retryCount) ~> (caller = "returned")
=============================================================================
