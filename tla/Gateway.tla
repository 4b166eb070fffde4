------------------------------ MODULE Gateway ------------------------------
(***************************************************************************)
(* AIGateway (gateway/router.py) with its routing and fallback policies    *)
(* (gateway/policies.py) and its provider adapters (gateway/providers): a  *)
(* request is routed, the primary provider is asked, and after a retryable *)
(* error one fallback provider, if the request and the configuration allow *)
(* it.  The providers behind the HTTP adapters are the environment: they   *)
(* deliver, refuse with a status, break the connection, stay silent until  *)
(* the client's timeout, or deliver what the adapter cannot decode.        *)
(***************************************************************************)
EXTENDS Naturals, Sequences

CONSTANTS
  Configs,         \* the gateway configurations considered
  Requests,        \* the requests considered
  StatusCodes,     \* the statuses a provider refuses with
  Behaviors,       \* the failures a mock adapter is set to begin with
  MaxMockCalls     \* bound on the calls a mock adapter counts

VARIABLES
  config,          \* GatewayConfig
  adapters,        \* adapters[p]: is an adapter registered for p, and configured?
  behavior,        \* MockProviderBehavior of the mock adapter
  calls,           \* the calls the mock adapter has counted
  phase,           \* where generate is
  request,         \* the request generate was called with
  decision,        \* its RouteDecision
  recorded,        \* what the route decision recorder was given for it
  asked,           \* the providers asked for it, with the models they were asked for
  primaryError,    \* the error the primary provider's answer became, while it is handled
  outcome          \* what generate returned or raised

environment == <<config, adapters, behavior>>
vars == <<config, adapters, behavior, calls, phase, request, decision, recorded, asked,
          primaryError, outcome>>

-----------------------------------------------------------------------------
(* Types *)

None == "none"
ProviderName == {"openai", "anthropic", "mock"}
TaskCategory == {"general", "summarization", "action_planning", "approval"}
RiskLevel == {"low", "medium", "high"}
Tier == {"fast", "default", "strong"}

\* A model is a provider's model of a tier, or the one the request prefers.
PreferredModel == [provider |-> None, tier |-> "preferred"]
Model == [provider: ProviderName, tier: Tier] \cup {PreferredModel}
NoModel == [provider |-> None, tier |-> None]

Config == [default_provider: ProviderName, fallback_provider: ProviderName \cup {None},
           enable_fallback: BOOLEAN, providers: SUBSET ProviderName]
MockBehavior == [non_retryable_failure_count: Nat, retryable_failure_count: Nat]
ModelRequest ==
  [task_category: TaskCategory, risk_level: RiskLevel, allow_fallback: BOOLEAN,
   preferred_provider: ProviderName \cup {None}, preferred_model: {NoModel, PreferredModel}]
NoRequest ==
  [task_category |-> None, risk_level |-> None, allow_fallback |-> FALSE,
   preferred_provider |-> None, preferred_model |-> NoModel]

RouteDecision ==
  [primary_provider: ProviderName, primary_model: Model,
   fallback_provider: ProviderName \cup {None}, fallback_model: Model \cup {NoModel},
   fallback_allowed: BOOLEAN]
NoDecision ==
  [primary_provider |-> None, primary_model |-> NoModel, fallback_provider |-> None,
   fallback_model |-> NoModel, fallback_allowed |-> FALSE]

\* A ProviderError; status_code 0 stands for None.
ProviderError == [provider: ProviderName, retryable: BOOLEAN, status_code: Nat]
NoError == [provider |-> None, retryable |-> FALSE, status_code |-> 0]

\* generate returns a response with its route metadata, or raises a ProviderError or
\* another exception.
Response == [kind: {"response"}, provider: ProviderName, model: Model, fallback_used: BOOLEAN,
             primary_error: ProviderError \cup {NoError}]
Raised == [kind: {"provider_error"}, error: ProviderError] \cup [kind: {"exception"}]
NoOutcome == [kind |-> "none"]

Question == [provider: ProviderName, model: Model]
Waiting == {"primary_asked", "fallback_asked"}
Phase == {"idle", "routing", "routed", "falling_back"} \cup Waiting

ASSUME GatewayAssumption ==
  /\ Configs \subseteq Config
  /\ Requests \subseteq ModelRequest
  /\ StatusCodes \subseteq 300..599
  /\ Behaviors \subseteq MockBehavior
  /\ MaxMockCalls \in Nat

TypeOK ==
  /\ config \in Configs
  /\ adapters \in [ProviderName -> {"absent", "unconfigured", "configured"}]
  /\ behavior \in Behaviors
  /\ calls \in Nat
  /\ phase \in Phase
  /\ request \in Requests \cup {NoRequest}
  /\ decision \in RouteDecision \cup {NoDecision}
  /\ recorded \in Seq(RouteDecision)
  /\ asked \in Seq(Question)
  /\ primaryError \in ProviderError \cup {NoError}
  /\ outcome \in Response \cup Raised \cup {NoOutcome}

\* The gateway is built once.  The mock adapter is always configured.
Init ==
  /\ config \in Configs
  /\ adapters \in [ProviderName -> {"absent", "unconfigured", "configured"}]
  /\ adapters["mock"] # "unconfigured"
  /\ behavior \in Behaviors
  /\ calls = 0
  /\ phase = "idle"
  /\ request = NoRequest
  /\ decision = NoDecision
  /\ recorded = <<>>
  /\ asked = <<>>
  /\ primaryError = NoError
  /\ outcome = NoOutcome

-----------------------------------------------------------------------------
(* Policies *)

\* Mutant: summaries go to the fast model whatever their risk.
SelectTier_FastSummaries(r) ==
  CASE r.task_category = "summarization" -> "fast"
    [] r.task_category \in {"action_planning", "approval"} \/ r.risk_level = "high" -> "strong"
    [] OTHER -> "default"

\* CostLatencyTierPolicy.select_tier.
SelectTier(r) ==
  CASE r.task_category = "summarization" /\ r.risk_level = "low" -> "fast"
    [] r.task_category \in {"action_planning", "approval"} \/ r.risk_level = "high" -> "strong"
    [] OTHER -> "default"

\* ProviderConfig.model_for_tier.
ModelForTier(p, tier) == [provider |-> p, tier |-> tier]

PrimaryProvider(r) ==
  IF r.preferred_provider # None THEN r.preferred_provider ELSE config.default_provider

\* An adapter is registered for the provider and is_configured.
Configured(p) == adapters[p] = "configured"

\* Mutant: the fallback may be the provider that has just failed.
HasFallback_SameProvider(r) ==
  /\ r.allow_fallback
  /\ config.enable_fallback
  /\ config.fallback_provider # None
  /\ Configured(config.fallback_provider)

\* The condition of select_route for naming a fallback.
HasFallback(r) ==
  /\ r.allow_fallback
  /\ config.enable_fallback
  /\ config.fallback_provider \notin {None, PrimaryProvider(r)}
  /\ Configured(config.fallback_provider)

\* Mutant: the fallback's model is resolved although there is no fallback.
SelectRoute_ModelWithoutProvider(r) ==
  [primary_provider |-> PrimaryProvider(r),
   primary_model |-> IF r.preferred_model # NoModel THEN r.preferred_model
                     ELSE ModelForTier(PrimaryProvider(r), SelectTier(r)),
   fallback_provider |-> IF HasFallback(r) THEN config.fallback_provider ELSE None,
   fallback_model |-> ModelForTier(config.fallback_provider, SelectTier(r)),
   fallback_allowed |-> HasFallback(r)]

\* SimpleRoutingPolicy.select_route.
SelectRoute(r) ==
  [primary_provider |-> PrimaryProvider(r),
   primary_model |-> IF r.preferred_model # NoModel THEN r.preferred_model
                     ELSE ModelForTier(PrimaryProvider(r), SelectTier(r)),
   fallback_provider |-> IF HasFallback(r) THEN config.fallback_provider ELSE None,
   fallback_model |-> IF HasFallback(r)
                      THEN ModelForTier(config.fallback_provider, SelectTier(r))
                      ELSE NoModel,
   fallback_allowed |-> HasFallback(r)]

\* The providers whose ProviderConfig select_route looks up for a model.
NeededProviders(r) ==
  (IF r.preferred_model = NoModel THEN {PrimaryProvider(r)} ELSE {})
    \cup (IF HasFallback(r) THEN {config.fallback_provider} ELSE {})

\* SimpleFallbackPolicy.should_fallback.
ShouldFallback(error) ==
  /\ request.allow_fallback
  /\ decision.fallback_allowed
  /\ decision.fallback_provider # None
  /\ decision.fallback_model # NoModel
  /\ error.retryable

-----------------------------------------------------------------------------
(* AIGateway *)

\* The caller calls generate.
Receive ==
  /\ phase = "idle"
  /\ calls < MaxMockCalls
  /\ request' \in Requests
  /\ phase' = "routing"
  /\ decision' = NoDecision
  /\ recorded' = <<>>
  /\ asked' = <<>>
  /\ primaryError' = NoError
  /\ outcome' = NoOutcome
  /\ UNCHANGED <<environment, calls>>

\* select_route's _require_configured_adapter raises: no decision is recorded, and the
\* fallback provider is not considered.
RefuseRoute ==
  /\ phase = "routing"
  /\ ~Configured(PrimaryProvider(request))
  /\ outcome' = [kind |-> "provider_error",
                 error |-> [provider |-> PrimaryProvider(request), retryable |-> FALSE,
                            status_code |-> 0]]
  /\ phase' = "idle"
  /\ UNCHANGED <<environment, calls, request, decision, recorded, asked, primaryError>>

\* An adapter is registered for a provider that config.providers lacks: KeyError.
RouteUnknownProvider ==
  /\ phase = "routing"
  /\ Configured(PrimaryProvider(request))
  /\ ~(NeededProviders(request) \subseteq config.providers)
  /\ outcome' = [kind |-> "exception"]
  /\ phase' = "idle"
  /\ UNCHANGED <<environment, calls, request, decision, recorded, asked, primaryError>>

\* route: the decision is made and handed to the recorder.
Route ==
  /\ phase = "routing"
  /\ Configured(PrimaryProvider(request))
  /\ NeededProviders(request) \subseteq config.providers
  /\ decision' = SelectRoute(request)
  /\ recorded' = Append(recorded, decision')
  /\ phase' = "routed"
  /\ UNCHANGED <<environment, calls, request, asked, primaryError, outcome>>

\* An adapter's generate is called.  Routing has made sure that it is configured.
Ask(p, model) ==
  /\ asked' = Append(asked, [provider |-> p, model |-> model])
  /\ calls' = IF p = "mock" THEN calls + 1 ELSE calls
  /\ UNCHANGED <<environment, request, decision, recorded, primaryError, outcome>>

AskPrimary ==
  /\ phase = "routed"
  /\ Ask(decision.primary_provider, decision.primary_model)
  /\ phase' = "primary_asked"

\* Mutant: the fallback provider is asked for the primary provider's model.
AskFallback_PrimaryModel ==
  /\ phase = "falling_back"
  /\ Ask(decision.fallback_provider, decision.primary_model)
  /\ phase' = "fallback_asked"

AskFallback ==
  /\ phase = "falling_back"
  /\ Ask(decision.fallback_provider, decision.fallback_model)
  /\ phase' = "fallback_asked"

LastAsked == asked[Len(asked)]

\* generate's except clause: fall back, or let the error out.
TakeFallback(error) ==
  /\ phase = "primary_asked"
  /\ ShouldFallback(error)
  /\ primaryError' = error
  /\ phase' = "falling_back"
  /\ UNCHANGED <<environment, calls, request, decision, recorded, asked, outcome>>

RaiseError(error) ==
  /\ phase = "fallback_asked" \/ ~ShouldFallback(error)
  /\ outcome' = [kind |-> "provider_error", error |-> error]
  /\ phase' = "idle"
  /\ UNCHANGED <<environment, calls, request, decision, recorded, asked, primaryError>>

Fail(error) == phase \in Waiting /\ (TakeFallback(error) \/ RaiseError(error))

\* Mutant: the metadata is that of the primary route whoever answered.
Deliver_PrimaryRoute ==
  /\ phase \in Waiting
  /\ outcome' = [kind |-> "response", provider |-> decision.primary_provider,
                 model |-> decision.primary_model, fallback_used |-> phase = "fallback_asked",
                 primary_error |-> primaryError]
  /\ phase' = "idle"
  /\ UNCHANGED <<environment, calls, request, decision, recorded, asked, primaryError>>

\* The adapter's response with the route metadata of _attach_route_metadata.
Deliver ==
  /\ phase \in Waiting
  /\ outcome' = [kind |-> "response", provider |-> LastAsked.provider,
                 model |-> LastAsked.model, fallback_used |-> phase = "fallback_asked",
                 primary_error |-> primaryError]
  /\ phase' = "idle"
  /\ UNCHANGED <<environment, calls, request, decision, recorded, asked, primaryError>>

-----------------------------------------------------------------------------
(* Adapters *)

\* Mutant: an overloaded provider's refusal is taken for the request's fault.
RetryableStatus_ServerErrorsOnly(status) == status >= 500

\* Is the HTTP adapter's error for a refusal with this status retryable?
RetryableStatus(status) == status >= 500 \/ status = 429

\* The HTTP adapters (openai_provider.py, anthropic_provider.py).
HttpTimesOut ==
  /\ phase \in Waiting
  /\ LastAsked.provider # "mock"
  /\ Fail([provider |-> LastAsked.provider, retryable |-> TRUE, status_code |-> 0])

HttpRefuses ==
  /\ phase \in Waiting
  /\ LastAsked.provider # "mock"
  /\ \E status \in StatusCodes :
       Fail([provider |-> LastAsked.provider, retryable |-> RetryableStatus(status),
             status_code |-> status])

\* The body is not the JSON the adapter reads: the exception is not a ProviderError, and no
\* clause of generate catches it.
HttpGarbled ==
  /\ phase \in Waiting
  /\ LastAsked.provider # "mock"
  /\ outcome' = [kind |-> "exception"]
  /\ phase' = "idle"
  /\ UNCHANGED <<environment, calls, request, decision, recorded, asked, primaryError>>

HttpDelivers ==
  /\ phase \in Waiting
  /\ LastAsked.provider # "mock"
  /\ Deliver

\* MockProvider.generate: first the failures that are not retryable, then those that are.
MockCutoff == behavior.non_retryable_failure_count + behavior.retryable_failure_count

MockFails ==
  /\ phase \in Waiting
  /\ LastAsked.provider = "mock"
  /\ calls <= MockCutoff
  /\ Fail([provider |-> "mock", retryable |-> calls > behavior.non_retryable_failure_count,
           status_code |-> 0])

MockDelivers ==
  /\ phase \in Waiting
  /\ LastAsked.provider = "mock"
  /\ calls > MockCutoff
  /\ Deliver

Next ==
  \/ Receive
  \/ RefuseRoute
  \/ RouteUnknownProvider
  \/ Route
  \/ AskPrimary
  \/ AskFallback
  \/ HttpTimesOut
  \/ HttpRefuses
  \/ HttpGarbled
  \/ HttpDelivers
  \/ MockFails
  \/ MockDelivers

Spec == Init /\ [][Next]_vars

-----------------------------------------------------------------------------
(* Properties *)

\* The provider refused because of the request, not because of its own state.
BlamesRequest(error) == error.status_code \in (300..499) \ {429}

\* At most two different providers are asked for a request, and the second only when the
\* request and the configuration allow a fallback and the first one's error was transient.
\* (generate, should_fallback: no provider is paid twice, no refusal is shopped around.)
FallbackIsJustified ==
  /\ Len(asked) <= 2
  /\ Len(asked) = 2 =>
       /\ asked[2].provider = config.fallback_provider
       /\ asked[2].provider # asked[1].provider
       /\ request.allow_fallback /\ config.enable_fallback
       /\ primaryError.provider = asked[1].provider
       /\ primaryError.retryable /\ ~BlamesRequest(primaryError)

\* A transient error of the primary provider reaches the caller only when there was no
\* fallback to turn to.  (should_fallback, select_route, the adapters' except clauses.)
NoNeedlessFailure ==
  /\ outcome.kind = "provider_error"
  /\ Len(asked) = 1
  => LET fallback == config.fallback_provider
     IN \/ ~request.allow_fallback
        \/ ~config.enable_fallback
        \/ fallback \in {None, asked[1].provider}
        \/ adapters[fallback] # "configured"
        \/ BlamesRequest(outcome.error)
        \/ asked[1].provider = "mock" /\ ~outcome.error.retryable

\* Risky work is never done by a weaker model: what plans actions, decides approvals or is of
\* high risk asks strong models only, the fallback included, unless the request itself
\* prefers a model, and that preference is never carried over to another provider.
\* (select_tier, model_for_tier, select_route.)
StrongTierIsKept ==
  request.task_category \in {"action_planning", "approval"} \/ request.risk_level = "high" =>
    \A i \in 1..Len(asked) :
      \/ asked[i].model = [provider |-> asked[i].provider, tier |-> "strong"]
      \/ i = 1 /\ request.preferred_model # NoModel /\ asked[1].model = request.preferred_model

\* The recorder was given the one decision of a request before any provider is asked, and the
\* providers and models asked are those it names, in its order.  (route, generate.)
AsksFollowTheRecord ==
  asked # <<>> =>
    /\ recorded = <<decision>>
    /\ asked[1] = [provider |-> decision.primary_provider, model |-> decision.primary_model]
    /\ Len(asked) = 2 =>
         asked[2] = [provider |-> decision.fallback_provider, model |-> decision.fallback_model]

\* A response names the provider and model that produced it, and says that it is a fallback's,
\* and after which error, exactly when another provider had failed before.
\* (_attach_route_metadata, the adapters' ModelResponse.)
ResponseTellsItsRoute ==
  outcome.kind = "response" =>
    /\ outcome.provider = LastAsked.provider
    /\ outcome.model = LastAsked.model
    /\ outcome.fallback_used = (Len(asked) = 2)
    /\ outcome.fallback_used = (outcome.primary_error # NoError)
    /\ outcome.fallback_used => outcome.primary_error.provider = asked[1].provider

=============================================================================
