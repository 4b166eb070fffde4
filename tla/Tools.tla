------------------------------- MODULE Tools -------------------------------
(***************************************************************************)
(* The shipped tools (packages/tools) and the demo adapters that plan and  *)
(* run them (apps/api/app/demo.py): what is looked up for whom, and what   *)
(* a run's answer then shows.  Handlers are pure; how the executor calls   *)
(* them is module ToolExecutor, when module Engine.                        *)
(***************************************************************************)
EXTENDS Retrieval

CONSTANTS
  Customers, Tickets, Incidents,   \* data/seed: records with an id and a tenant_id
  Request,                         \* what clients may ask
  SearchTopK, ContextTopK          \* top_k of the search tool and of the demo's retrieval

ASSUME TopKAssumption == SearchTopK \in Nat \ {0} /\ ContextTopK \in Nat \ {0}

\* A request is the words and ids that plan_tools finds in the user's text, and the query the
\* text is for retrieval.
ASSUME RequestAssumption ==
  \A r \in Request :
    /\ DOMAIN r = {"tenant_id", "words", "ticket_id", "incident_id", "customer_id", "query"}
    /\ r.query \in DOMAIN Similarity

-----------------------------------------------------------------------------
(* The registered handlers *)

\* What a handler returns, by what it shows of the seed data, or the error it raises.
Output(shown) == [kind |-> "output", shown |-> shown]
Preview(shown) == [kind |-> "preview", shown |-> shown]
Error(kind) == [kind |-> kind, shown |-> {}]

\* find_record: the first record with the id, whosever it is.
FindRecord(collection, id) ==
  {collection[i] : i \in {j \in DOMAIN collection :
     collection[j].id = id /\ \A k \in DOMAIN collection : k < j => collection[k].id # id}}

\* Mutant: require_tenant_match is not called.
Lookup_TrustsIds(tenant, records, result) ==
  IF {} \in Range(records) THEN Error("not_found") ELSE result

\* find_record for each record a handler needs, then require_tenant_match for each.
Lookup(tenant, records, result) ==
  IF {} \in Range(records) THEN Error("not_found")
  ELSE IF \E r \in UNION Range(records) : r.tenant_id # tenant THEN Error("permission")
  ELSE result

GetRecord(collection, args) ==
  Lookup(args.tenant_id, <<FindRecord(collection, args.id)>>, Output(FindRecord(collection, args.id)))

DraftRefundRequest(args) ==
  LET customer == FindRecord(Customers, args.customer_id)
      ticket == FindRecord(Tickets, args.ticket_id)
  IN Lookup(args.tenant_id, <<customer, ticket>>, Preview(customer \cup ticket))

\* search_docs on the store's possible answers.
SearchDocs(chunks, args) ==
  {Output(Range(DocumentSearch(args.query, answer, args.optional_filters))) :
     answer \in Answers(chunks, args.query, Filter(args.tenant_id, "support_doc", SearchTopK))}

\* The handler of the named tool: what it may return.
Execute(chunks, call) ==
  CASE call.name = "search_docs" -> SearchDocs(chunks, call.arguments)
    [] call.name = "get_ticket" -> {GetRecord(Tickets, call.arguments)}
    [] call.name = "get_incident" -> {GetRecord(Incidents, call.arguments)}
    [] call.name = "get_customer" -> {GetRecord(Customers, call.arguments)}
    [] call.name = "draft_refund_request" -> {DraftRefundRequest(call.arguments)}

\* The call the evals make of it (_tool_arguments_for_case).
SearchCall(tenant, query) ==
  [name |-> "search_docs",
   arguments |-> [tenant_id |-> tenant, query |-> query,
                  optional_filters |-> [category |-> None, tags |-> {}]]]

-----------------------------------------------------------------------------
(* The demo adapters *)

GetCall(name, tenant, id) == [name |-> name, arguments |-> [tenant_id |-> tenant, id |-> id]]

\* plan_tools and _arguments_for: at most one call.  A refund's customer and ticket are fixed.
PlanTools(r) ==
  IF "refund" \in r.words /\ r.words \cap {"draft", "submit", "approve"} # {}
  THEN <<[name |-> "draft_refund_request",
          arguments |-> [tenant_id |-> r.tenant_id, customer_id |-> 100, ticket_id |-> 100]]>>
  ELSE IF r.ticket_id # None THEN <<GetCall("get_ticket", r.tenant_id, r.ticket_id)>>
  ELSE IF r.incident_id # None THEN <<GetCall("get_incident", r.tenant_id, r.incident_id)>>
  ELSE IF r.customer_id # None /\ "customer" \in r.words
       THEN <<GetCall("get_customer", r.tenant_id, r.customer_id)>>
  ELSE << >>

\* DemoRetrievalService.retrieve.
Retrieve(chunks, r) == Answers(chunks, r.query, Filter(r.tenant_id, "support_doc", ContextTopK))

\* What a run shows its client: the preview an operator is to approve, the record a tool has
\* found, or else the best chunk of the context, if there is one (generate_response).
Shown(chunks, r) ==
  {result.shown : result \in UNION {Execute(chunks, call) : call \in Range(PlanTools(r))}} \ {{}}

Grounding(chunks, r) ==
  {{context[i] : i \in DOMAIN context \cap {1}} : context \in Retrieve(chunks, r)}

AnswerShows(chunks, r) ==
  IF Shown(chunks, r) # {} THEN Shown(chunks, r) ELSE Grounding(chunks, r)
=============================================================================
