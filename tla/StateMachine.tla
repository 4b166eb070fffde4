---------------------------- MODULE StateMachine ----------------------------
(***************************************************************************)
(* The orchestrator's transition table and step order                      *)
(* (orchestrator/state_machine.py, models.py).  Constant operators only.   *)
(***************************************************************************)

RunState ==
  {"PENDING", "IN_PROGRESS", "WAITING_FOR_APPROVAL", "COMPLETED", "FAILED", "CANCELED"}

Terminal == {"COMPLETED", "FAILED", "CANCELED"}

RunStep == {"classify", "retrieve_context", "decide_tools", "execute_tools",
            "request_approval_if_needed", "generate_response", "complete"}

NoStep == "none"      \* current_step is None

\* next_step: the successor of a step; "complete" has none.
NextStep(step) ==
  CASE step = NoStep                       -> "classify"
    [] step = "classify"                   -> "retrieve_context"
    [] step = "retrieve_context"           -> "decide_tools"
    [] step = "decide_tools"               -> "execute_tools"
    [] step = "execute_tools"              -> "request_approval_if_needed"
    [] step = "request_approval_if_needed" -> "generate_response"
    [] step = "generate_response"          -> "complete"

\* _ALLOWED_STATE_TRANSITIONS, as a relation.
AllowedTransitions ==
  ({"PENDING"} \X {"IN_PROGRESS", "CANCELED"})
    \cup ({"IN_PROGRESS"} \X {"WAITING_FOR_APPROVAL", "COMPLETED", "FAILED", "CANCELED"})
    \cup ({"WAITING_FOR_APPROVAL"} \X {"IN_PROGRESS", "FAILED", "CANCELED"})

\* transition_state raises unless the move is allowed.
CanTransition(current, target) == <<current, target>> \in AllowedTransitions
=============================================================================
