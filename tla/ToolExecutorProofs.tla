------------------------- MODULE ToolExecutorProofs -------------------------
(***************************************************************************)
(* Proofs about ToolExecutor, for every retry bound.                       *)
(***************************************************************************)
EXTENDS ToolExecutor, TLAPS

Inside == {"waiting", "cancelling", "joining"}

\* A future's value, once the caller saw it, is what the worker ended with.
SeenIsReal ==
  /\ caller = "validate" => attempts = 0
  /\ caller \in Inside \cup {"deciding"} => attempts > 0
  /\ attempts <= definition.retryCount + 1
  /\ caller = "attempt" => AttemptsLeft
  /\ caller = "cancelling" => verdict[attempts] = "timeout"
  /\ \A k \in Attempt : verdict[k] \in Ending => worker[k] = verdict[k]

\* Every earlier attempt ended in a retryable way, so did the current one when the caller is
\* about to begin another, and no later one has begun.
EarlierAttempts ==
  \A k \in Attempt :
    /\ (k < attempts \/ (k = attempts /\ caller = "attempt")) =>
          verdict[k] \in {"retryable", "timeout"}
    /\ k > attempts => worker[k] = "none"

\* The inductive invariant.
ExecutorInv ==
  /\ TypeOK
  /\ SeenIsReal
  /\ EarlierAttempts
  /\ HandlersNeverOverlap
  /\ ResultTellsLastAttempt

\* The invariant holds when execute is called.
LEMMA InitExecutorInv == Init => ExecutorInv
BY MaxRetriesAssumption
   DEF Init, ExecutorInv, TypeOK, SeenIsReal, EarlierAttempts, HandlersNeverOverlap,
       ResultTellsLastAttempt, Definition, Caller, Future, Verdict, Attempt, Ending, Inside,
       AttemptsLeft

\* The calling thread keeps the invariant.
LEMMA CallerKeepsInv ==
  ASSUME ExecutorInv, CallerStep
  PROVE  ExecutorInv'
<1> USE MaxRetriesAssumption
    DEF ExecutorInv, TypeOK, SeenIsReal, EarlierAttempts, HandlersNeverOverlap,
        ResultTellsLastAttempt, Definition, Caller, Future, Verdict, Attempt, Ending, Inside,
        AttemptsLeft
<1>1. CASE RejectArguments
  BY <1>1 DEF RejectArguments, Return, Result, ToolStatus
<1>2. CASE AcceptArguments
  BY <1>2 DEF AcceptArguments
<1>3. CASE Submit
  BY <1>3 DEF Submit
<1>4. CASE GetResult
  BY <1>4 DEF GetResult
<1>5. CASE TimeOut
  BY <1>5 DEF TimeOut
<1>6. CASE Cancel
  BY <1>6 DEF Cancel
<1>7. CASE LeavePool
  BY <1>7 DEF LeavePool
<1>8. CASE Retry
  BY <1>8 DEF Retry, MayRetry
<1>9. CASE GiveUp
  BY <1>9 DEF GiveUp, MayRetry, Return, Result, ToolStatus
<1>10. CASE Deliver
  BY <1>10 DEF Deliver, Return, Result, ToolStatus
<1> QED
  BY <1>1, <1>2, <1>3, <1>4, <1>5, <1>6, <1>7, <1>8, <1>9, <1>10 DEF CallerStep

\* A worker thread keeps the invariant at every point it may interleave.
LEMMA WorkerKeepsInv ==
  ASSUME ExecutorInv, NEW k \in Attempt, Begin(k) \/ End(k)
  PROVE  ExecutorInv'
<1> USE MaxRetriesAssumption
    DEF ExecutorInv, TypeOK, SeenIsReal, EarlierAttempts, HandlersNeverOverlap,
        ResultTellsLastAttempt, Definition, Future, Verdict, Attempt, Ending, Inside,
        AttemptsLeft
<1>1. CASE Begin(k)
  BY <1>1 DEF Begin
<1>2. CASE End(k)
  BY <1>2 DEF End
<1> QED
  BY <1>1, <1>2

\* The inductive invariant holds during the whole call.
THEOREM ExecutorInvariant == Spec => []ExecutorInv
<1>1. ExecutorInv /\ UNCHANGED vars => ExecutorInv'
  BY DEF ExecutorInv, TypeOK, SeenIsReal, EarlierAttempts, HandlersNeverOverlap,
         ResultTellsLastAttempt, AttemptsLeft, vars
<1>2. ExecutorInv /\ [Next]_vars => ExecutorInv'
  BY <1>1, CallerKeepsInv, WorkerKeepsInv DEF Next
<1> QED
  BY <1>2, InitExecutorInv, PTL DEF Spec

\* The variables keep their types; in particular there are never more than retry_count + 1
\* attempts.
THEOREM ExecutorTypeCorrect == Spec => []TypeOK
<1>1. ExecutorInv => TypeOK
  BY DEF ExecutorInv
<1> QED
  BY <1>1, ExecutorInvariant, PTL

\* Attempts never overlap, and no handler runs on after execute returned: abandoning a future
\* at its timeout does not leave its thread behind (executor.py:163-171).
THEOREM AttemptsAreSequential == Spec => []HandlersNeverOverlap
<1>1. ExecutorInv => HandlersNeverOverlap
  BY DEF ExecutorInv
<1> QED
  BY <1>1, ExecutorInvariant, PTL

\* A handler that delivered is repeated only if it delivered after its timeout
\* (executor.py:57-143).
THEOREM RepeatsAreJustified == Spec => []EffectsRepeatOnlyAfterTimeout
<1>1. ExecutorInv => EffectsRepeatOnlyAfterTimeout
  BY MaxRetriesAssumption
     DEF ExecutorInv, TypeOK, SeenIsReal, EarlierAttempts, EffectsRepeatOnlyAfterTimeout,
         Attempt, Ending, Verdict, Definition
<1> QED
  BY <1>1, ExecutorInvariant, PTL

\* The result reports what the last attempt did and what the approval rule made of it
\* (executor.py:60-143).
THEOREM ResultIsHonest == Spec => []ResultTellsLastAttempt
<1>1. ExecutorInv => ResultTellsLastAttempt
  BY DEF ExecutorInv
<1> QED
  BY <1>1, ExecutorInvariant, PTL
=============================================================================
