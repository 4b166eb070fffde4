----------------------------- MODULE MCGateway -----------------------------
(***************************************************************************)
(* Gateway with every configuration of the routing, of all providers and   *)
(* of one, and requests of every kind.                                     *)
(***************************************************************************)
EXTENDS Gateway

\* One task and risk per way of select_tier.
Classes == {<<"general", "medium">>, <<"summarization", "low">>, <<"summarization", "high">>,
            <<"approval", "low">>}

MCConfigs == {c \in Config : c.providers \in {ProviderName, {"anthropic"}}}
MCRequests ==
  {[task_category |-> c[1], risk_level |-> c[2], allow_fallback |-> allow,
    preferred_provider |-> p, preferred_model |-> m] :
     c \in Classes, allow \in BOOLEAN, p \in {None, "anthropic"},
     m \in {NoModel, PreferredModel}}
MCBehaviors == {[non_retryable_failure_count |-> n, retryable_failure_count |-> n] : n \in {0, 1}}
=============================================================================
