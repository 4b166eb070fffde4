------------------------------ MODULE MCEvals ------------------------------
(***************************************************************************)
(* Evals with one case of each kind of the shipped catalogue, or, where    *)
(* sessions interleave, with two: one that expects a citation, and one     *)
(* whose failing tool raises.                                              *)
(***************************************************************************)
EXTENDS Evals

DocsCase ==
  [key |-> "grounded_refund_policy:v1", words |-> {"refund"}, context |-> {},
   tool_name |-> "search_docs", requires_approval |-> FALSE, min_citations |-> 1,
   response_contains |-> {"snippet"}]

TicketCase ==
  [key |-> "ticket_lookup_summary:v1", words |-> {"ticket"}, context |-> {"ticket_id"},
   tool_name |-> "get_ticket", requires_approval |-> FALSE, min_citations |-> 0,
   response_contains |-> {"record"}]

RefundCase ==
  [key |-> "approval_required_refund:v1", words |-> {"draft", "refund", "customer", "ticket"},
   context |-> {"customer_id", "ticket_id", "amount", "reason"},
   tool_name |-> "draft_refund_request", requires_approval |-> TRUE, min_citations |-> 0,
   response_contains |-> {"approval_notice"}]

MCCatalogue == <<DocsCase, TicketCase, RefundCase>>
MCTwoCases == <<DocsCase, TicketCase>>
=============================================================================
