------------------------- MODULE RuntimeController -------------------------
(***************************************************************************)
(* InMemoryRuntimeController (runtime/engine.py): what the process         *)
(* remembers of the runs that wait for an approval.  The waiting contexts  *)
(* are references to RunContext objects, so "waiting" keeps the runs and   *)
(* the contexts stay on the engine's heap (Engine!ctx).  Each hook maps    *)
(* the controller's value to its next one.                                 *)
(***************************************************************************)
CONSTANTS Run, Approval, NoRun

Memory == [waiting: SUBSET Run,                          \* keys of _waiting_contexts
           approvalToRun: [Approval -> Run \cup {NoRun}]]    \* _approval_to_run

EmptyMemory == [waiting |-> {}, approvalToRun |-> [a \in Approval |-> NoRun]]

StoreWaitingContext(m, r, a) ==
  [m EXCEPT !.waiting = @ \cup {r}, !.approvalToRun[a] = r]

OnWaitingForApproval(m, r, a) == [m EXCEPT !.approvalToRun[a] = r]

\* Mutant: on_run_resumed does nothing.
OnRunResumed_KeepsContext(m, r) == m

OnRunResumed(m, r) == [m EXCEPT !.waiting = @ \ {r}]

\* Mutant: on_run_completed leaves the approval mapping behind.
OnRunCompleted_KeepsMapping(m, r) == [m EXCEPT !.waiting = @ \ {r}]

\* Mutant: on_run_completed clears both dictionaries.
OnRunCompleted_ClearsAll(m, r) == EmptyMemory

OnRunCompleted(m, r) ==
  [waiting       |-> m.waiting \ {r},
   approvalToRun |-> [a \in Approval |->
                        IF m.approvalToRun[a] = r THEN NoRun ELSE m.approvalToRun[a]]]

\* get_run_id_for_approval, then get_waiting_context: is there a context to resume?
HasWaitingContext(m, a) == m.approvalToRun[a] # NoRun /\ m.approvalToRun[a] \in m.waiting
=============================================================================
