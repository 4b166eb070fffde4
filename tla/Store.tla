------------------------------- MODULE Store -------------------------------
(***************************************************************************)
(* The rows a SQLAlchemy session sees and what the repositories do to      *)
(* them (db/repositories/run_repository.py, approval_repository.py).  A    *)
(* view is the value of the whole database as one session reads it; each   *)
(* repository method maps a view to the view after its flush.              *)
(***************************************************************************)
EXTENDS Sequences, FiniteSetsExt, StateMachine

CONSTANTS
  Run,            \* run ids
  Approval,       \* approval request ids
  NoRun,          \* not a run id
  ForeignKeys     \* the database enforces foreign keys: PostgreSQL does, the tests' SQLite does not

ASSUME NoRunAssumption == NoRun \notin Run
ASSUME ForeignKeysAssumption == ForeignKeys \in BOOLEAN

RunStatus == RunState \cup {"NONE"}                     \* "NONE": no such row
ApprovalStatus == {"PENDING", "APPROVED", "REJECTED", "EXPIRED"}
ApprovalDecision == ApprovalStatus \cup {"NONE"}

EventType ==
  {"RUN_STARTED", "MODEL_SELECTED", "RETRIEVAL_COMPLETED", "TOOL_CALLED",
   "TOOL_RESULT_RECEIVED", "APPROVAL_REQUESTED", "APPROVAL_RESOLVED",
   "RUN_COMPLETED", "RUN_FAILED"}

\* A run event; its payload is what it is about and what it says of it.
Event(type, subject, outcome) == [type |-> type, subject |-> subject, outcome |-> outcome]

EmptyView == [
  status    |-> [r \in Run |-> "NONE"],         \* Run.status
  lastError |-> [r \in Run |-> FALSE],          \* Run.last_error is not NULL
  trace     |-> [r \in Run |-> << >>],          \* RunEvent rows by sequence number
  owner     |-> [a \in Approval |-> NoRun],     \* ApprovalRequest.run_id
  decision  |-> [a \in Approval |-> "NONE"] ]   \* ApprovalRequest.status

CreateRun(v, r) == [v EXCEPT !.status[r] = "PENDING"]

\* Every call overwrites last_error, with NULL unless an error is passed.
UpdateRunStatus(v, r, status, isError) ==
  [v EXCEPT !.status[r] = status, !.lastError[r] = isError]

\* Mutant: the largest number of the table, whichever run's event it is.
NextSequence_AnyRun(v, r) == 1 + Max({0} \cup UNION {DOMAIN v.trace[q] : q \in Run})

\* _next_sequence: max(sequence) of the run's rows as the session reads them, plus one.
NextSequence(v, r) == 1 + Max({0} \cup DOMAIN v.trace[r])

\* One row per event, numbered from the next number on; every other row stays.
AppendRunEvents(v, r, es) ==
  LET first == NextSequence(v, r)
      new == first..(first + Len(es) - 1)
  IN [v EXCEPT !.trace[r] =
        [i \in DOMAIN @ \cup new |-> IF i \in new THEN es[i - first + 1] ELSE @[i]]]
AppendRunEvent(v, r, e) == AppendRunEvents(v, r, <<e>>)

\* The row names a tool invocation, under the uuid4 the adapter has just made up, and only
\* tests write rows of tool_invocations: where foreign keys are enforced its flush raises.
CanCreateApprovalRequest == ~ForeignKeys

CreateApprovalRequest(v, a, r) ==
  [v EXCEPT !.owner[a] = r, !.decision[a] = "PENDING"]

\* resolve_approval_request returns None, raises, or resolves.
Resolvable(v, a) == v.owner[a] # NoRun /\ v.decision[a] = "PENDING"
ResolveApprovalRequest(v, a, d) == [v EXCEPT !.decision[a] = d]
=============================================================================
