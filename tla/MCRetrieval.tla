---------------------------- MODULE MCRetrieval ----------------------------
(***************************************************************************)
(* Retrieval and the tools on two tenants, with documents that change and  *)
(* become shorter between feeds.                                           *)
(***************************************************************************)
EXTENDS RetrievalProperties, TLC

Doc(tenant, type, id, category, tags, texts) ==
  [tenant_id |-> tenant, source_type |-> type, doc_id |-> id, category |-> category,
   tags |-> tags, texts |-> texts]

\* Two versions of one document, the second shorter and in another category; another document
\* of the tenant; one of each kind that must not be found.
PolicyLong == Doc("tenant-1", "support_doc", 100, "policy", {"refund"}, <<"rules", "limits">>)
PolicyShort == Doc("tenant-1", "support_doc", 100, "runbook", {"refund", "ops"}, <<"limits">>)
Runbook == Doc("tenant-1", "support_doc", 101, "runbook", {"ops"}, <<"rules", "outage">>)
Memo == Doc("tenant-1", "memo", 102, "policy", {}, <<"limits">>)
Handbook == Doc("tenant-2", "support_doc", 200, "policy", {"refund"}, <<"limits">>)

MCDocument == {PolicyLong, PolicyShort, Runbook, Memo, Handbook}

\* The last names one document twice.
MCFeeds ==
  {<<PolicyLong, Runbook>>, <<Handbook, PolicyShort>>, <<Memo, Runbook, PolicyLong>>,
   <<PolicyLong, PolicyShort>>}

MCSimilarity ==
  "refund" :> ("rules" :> 1 @@ "limits" :> 2 @@ "outage" :> -1)
    @@ "incident" :> ("rules" :> -1 @@ "limits" :> -2 @@ "outage" :> 1)

Rec(tenant, id) == [tenant_id |-> tenant, id |-> id]
MCRecords == <<Rec("tenant-1", 100), Rec("tenant-2", 200)>>

Ask(tenant, words, ticket, incident, customer, query) ==
  [tenant_id |-> tenant, words |-> words, ticket_id |-> ticket, incident_id |-> incident,
   customer_id |-> customer, query |-> query]
MCRequest ==
  UNION {{Ask(t, {"draft", "refund"}, None, None, None, "refund"),
          Ask(t, {"refund"}, None, None, 100, "refund"),
          Ask(t, {}, 100, 200, None, "incident"),
          Ask(t, {}, None, 200, 100, "incident"),
          Ask(t, {"customer"}, None, None, 200, "refund"),
          Ask(t, {"customer"}, None, None, 300, "incident")} : t \in {"tenant-1", "tenant-2"}}

\* Sessions differ by nothing, and no property of the run is about liveness.
MCSymmetry == Permutations(Session)
=============================================================================
