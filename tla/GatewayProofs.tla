--------------------------- MODULE GatewayProofs ---------------------------
(***************************************************************************)
(* Proofs about Gateway, for every configuration, set of adapters, request *)
(* and status of a provider.                                               *)
(***************************************************************************)
EXTENDS Gateway, SequenceTheorems, TLAPS

\* What the decision of a request has asked of the primary and of the fallback provider.
PrimaryQuestion == [provider |-> decision.primary_provider, model |-> decision.primary_model]
FallbackQuestion == [provider |-> decision.fallback_provider, model |-> decision.fallback_model]

\* Before the route there is nothing; afterwards the decision is select_route's.
RoutedInv ==
  IF asked = <<>> /\ phase # "routed"
  THEN asked = <<>> /\ recorded = <<>>
  ELSE /\ request \in Requests
       /\ decision = SelectRoute(request)
       /\ recorded = <<decision>>

\* Which questions have been asked in each phase, and that a second one had a reason.
AskedInv ==
  /\ phase = "routing" => request \in Requests
  /\ phase \in {"routing", "routed"} => asked = <<>>
  /\ phase \in {"primary_asked", "falling_back"} => asked = <<PrimaryQuestion>>
  /\ phase = "fallback_asked" => asked = <<PrimaryQuestion, FallbackQuestion>>
  /\ asked \in {<<>>, <<PrimaryQuestion>>, <<PrimaryQuestion, FallbackQuestion>>}
  /\ phase = "falling_back" \/ Len(asked) = 2 =>
       /\ ShouldFallback(primaryError)
       /\ primaryError.provider = decision.primary_provider
       /\ ~BlamesRequest(primaryError)

\* The inductive invariant.
GatewayInv ==
  /\ TypeOK
  /\ RoutedInv
  /\ AskedInv

\* A route decision is well formed whenever its primary provider is known.
LEMMA SelectRouteType ==
  ASSUME TypeOK, NEW r \in Requests
  PROVE  /\ SelectRoute(r) \in RouteDecision
         /\ SelectRoute(r).fallback_allowed =>
              /\ SelectRoute(r).fallback_provider \in ProviderName
              /\ SelectRoute(r).fallback_model \in Model
<1>1. r \in ModelRequest /\ config \in Config
  BY GatewayAssumption DEF TypeOK
<1>2. SelectTier(r) \in Tier
  BY DEF SelectTier, Tier
<1>3. PrimaryProvider(r) \in ProviderName
  BY <1>1 DEF PrimaryProvider, ModelRequest, Config
<1>4. HasFallback(r) \in BOOLEAN /\ (HasFallback(r) => config.fallback_provider \in ProviderName)
  BY <1>1 DEF HasFallback, Config, ModelRequest
<1>5. r.preferred_model # NoModel => r.preferred_model \in Model
  BY <1>1 DEF ModelRequest, Model
<1> QED
  BY <1>1, <1>2, <1>3, <1>4, <1>5 DEF SelectRoute, RouteDecision, ModelForTier, Model

\* The gateway starts idle.
LEMMA InitGatewayInv == Init => GatewayInv
BY DEF Init, GatewayInv, TypeOK, RoutedInv, AskedInv, Phase, ProviderName

\* The route of a request depends on nothing that changes after the gateway is built.
LEMMA RouteIsStable ==
  ASSUME UNCHANGED environment, NEW r
  PROVE  SelectRoute(r)' = SelectRoute(r)
BY DEF environment, SelectRoute, PrimaryProvider, HasFallback, Configured, ModelForTier, SelectTier

\* Raising or returning an outcome after the route leaves everything else as it is.
LEMMA EndingKeepsInv ==
  ASSUME GatewayInv, phase # "routing", phase # "routed",
         phase' = "idle",
         outcome' \in Response \cup Raised,
         UNCHANGED <<environment, calls, request, decision, recorded, asked, primaryError>>
  PROVE  GatewayInv'
<1>1. TypeOK'
  BY DEF GatewayInv, TypeOK, Phase, environment
<1>2. SelectRoute(request)' = SelectRoute(request)
  BY RouteIsStable DEF SelectRoute
<1>3. RoutedInv'
  BY <1>2 DEF GatewayInv, RoutedInv
<1>4. AskedInv'
  BY DEF GatewayInv, AskedInv, PrimaryQuestion, FallbackQuestion, ShouldFallback, BlamesRequest
<1> QED
  BY <1>1, <1>3, <1>4 DEF GatewayInv

\* Routing keeps the invariant: nothing is asked, and the recorder gets the decision.
LEMMA RoutingKeepsInv ==
  ASSUME GatewayInv, Receive \/ RefuseRoute \/ RouteUnknownProvider \/ Route
  PROVE  GatewayInv'
<1>1. CASE Receive
  BY <1>1 DEF Receive, GatewayInv, TypeOK, RoutedInv, AskedInv, Phase, environment
<1>2. CASE RefuseRoute
  <2>1. PrimaryProvider(request) \in ProviderName
    BY <1>2, GatewayAssumption
       DEF GatewayInv, TypeOK, AskedInv, RefuseRoute, PrimaryProvider, ModelRequest, Config
  <2>2. outcome' \in Raised
    BY <1>2, <2>1 DEF RefuseRoute, Raised, ProviderError
  <2>3. TypeOK'
    BY <1>2, <2>2 DEF RefuseRoute, GatewayInv, TypeOK, Phase, environment
  <2>4. asked = <<>> /\ recorded = <<>>
    BY <1>2 DEF RefuseRoute, GatewayInv, RoutedInv, AskedInv
  <2> QED
    BY <1>2, <2>3, <2>4 DEF RefuseRoute, GatewayInv, RoutedInv, AskedInv
<1>3. CASE Route
  <2>1. decision' \in RouteDecision
    BY <1>3, SelectRouteType DEF Route, GatewayInv, AskedInv
  <2>2. asked = <<>> /\ recorded = <<>> /\ request \in Requests
    BY <1>3 DEF Route, GatewayInv, RoutedInv, AskedInv
  <2>3. recorded' = <<decision'>>
    BY <1>3, <2>2 DEF Route
  <2>4. TypeOK'
    BY <1>3, <2>1, <2>3 DEF Route, GatewayInv, TypeOK, Phase, environment
  <2>5. SelectRoute(request)' = SelectRoute(request)
    BY <1>3, RouteIsStable DEF Route, SelectRoute
  <2> QED
    BY <1>3, <2>2, <2>3, <2>4, <2>5 DEF Route, GatewayInv, RoutedInv, AskedInv
<1>4. CASE RouteUnknownProvider
  <2>1. outcome' \in Raised
    BY <1>4 DEF RouteUnknownProvider, Raised
  <2>2. TypeOK'
    BY <1>4, <2>1 DEF RouteUnknownProvider, GatewayInv, TypeOK, Phase, environment
  <2>3. asked = <<>> /\ recorded = <<>>
    BY <1>4 DEF RouteUnknownProvider, GatewayInv, RoutedInv, AskedInv
  <2> QED
    BY <1>4, <2>2, <2>3 DEF RouteUnknownProvider, GatewayInv, RoutedInv, AskedInv
<1> QED
  BY <1>1, <1>2, <1>3, <1>4

\* The tuples of one and of two questions.
LEMMA Tuples ==
  ASSUME NEW a, NEW b
  PROVE  /\ Append(<<a>>, b) = <<a, b>>
         /\ Len(<<>>) = 0
         /\ Len(<<a>>) = 1 /\ <<a>>[1] = a
         /\ Len(<<a, b>>) = 2 /\ <<a, b>>[1] = a /\ <<a, b>>[2] = b
<1>1. <<a>> \in Seq({a, b}) /\ <<a, b>> \in Seq({a, b})
  OBVIOUS
<1>2. Len(<<>>) = 0 /\ Len(<<a>>) = 1 /\ <<a>>[1] = a
  OBVIOUS
<1>3. Len(<<a, b>>) = 2 /\ <<a, b>>[1] = a /\ <<a, b>>[2] = b
  OBVIOUS
<1>4. Append(<<a>>, b) = <<a, b>>
  <2> DEFINE one == <<a>>
             two == <<a, b>>
  <2>1. one \in Seq({a, b}) /\ two \in Seq({a, b}) /\ b \in {a, b}
    BY <1>1
  <2>2. Len(one) = 1 /\ one[1] = a /\ Len(two) = 2 /\ two[1] = a /\ two[2] = b
    BY <1>2, <1>3
  <2> HIDE DEF one, two
  <2>3. /\ Append(one, b) \in Seq({a, b})
        /\ Len(Append(one, b)) = Len(one) + 1
        /\ \A i \in 1..Len(one) : Append(one, b)[i] = one[i]
        /\ Append(one, b)[Len(one) + 1] = b
    BY <2>1, AppendProperties
  <2>4. Len(Append(one, b)) = Len(two) /\ \A i \in 1..Len(two) : Append(one, b)[i] = two[i]
    BY <2>2, <2>3
  <2>5. Append(one, b) = two
    BY <2>1, <2>3, <2>4, SeqEqual
  <2> QED
    BY <2>5 DEF one, two
<1> QED
  BY <1>2, <1>3, <1>4

\* Asking the primary provider of the route, and after its error the fallback provider.
LEMMA AskingKeepsInv ==
  ASSUME GatewayInv, AskPrimary \/ AskFallback
  PROVE  GatewayInv'
<1>1. request \in Requests /\ decision = SelectRoute(request) /\ recorded = <<decision>>
  BY DEF GatewayInv, RoutedInv, AskedInv, AskPrimary, AskFallback
<1>2. /\ decision \in RouteDecision
      /\ decision.fallback_allowed =>
           decision.fallback_provider \in ProviderName /\ decision.fallback_model \in Model
  BY <1>1, SelectRouteType DEF GatewayInv
<1>3. UNCHANGED <<environment, request, decision, recorded, primaryError, outcome>>
  BY DEF AskPrimary, AskFallback, Ask
<1>4. SelectRoute(request)' = SelectRoute(request)
  BY <1>3, RouteIsStable DEF SelectRoute
<1>5. calls' \in Nat
  BY DEF AskPrimary, AskFallback, Ask, GatewayInv, TypeOK
<1>6. CASE AskPrimary
  <2>1. asked' = <<PrimaryQuestion>> /\ phase' = "primary_asked"
    BY <1>6 DEF AskPrimary, Ask, GatewayInv, AskedInv, PrimaryQuestion
  <2>2. PrimaryQuestion \in Question
    BY <1>2 DEF PrimaryQuestion, Question, RouteDecision
  <2>3. TypeOK'
    BY <1>3, <1>5, <2>1, <2>2 DEF GatewayInv, TypeOK, Phase, Waiting, environment
  <2>4. RoutedInv'
    BY <1>1, <1>3, <1>4, <2>1 DEF RoutedInv
  <2>5. AskedInv'
    BY <1>3, <2>1 DEF AskedInv, PrimaryQuestion
  <2> QED
    BY <2>3, <2>4, <2>5 DEF GatewayInv
<1>7. CASE AskFallback
  <2>1. asked = <<PrimaryQuestion>> /\ ShouldFallback(primaryError)
    BY <1>7 DEF AskFallback, GatewayInv, AskedInv
  <2>2. asked' = <<PrimaryQuestion, FallbackQuestion>> /\ phase' = "fallback_asked"
    BY <1>7, <2>1, Tuples DEF AskFallback, Ask, FallbackQuestion
  <2>3. PrimaryQuestion \in Question /\ FallbackQuestion \in Question
    BY <1>2, <2>1 DEF PrimaryQuestion, FallbackQuestion, Question, RouteDecision, ShouldFallback
  <2>4. TypeOK'
    BY <1>3, <1>5, <2>2, <2>3 DEF GatewayInv, TypeOK, Phase, Waiting, environment
  <2>5. RoutedInv'
    BY <1>1, <1>3, <1>4, <2>2 DEF RoutedInv
  <2>6. AskedInv'
    BY <1>3, <1>7, <2>2
       DEF AskFallback, GatewayInv, AskedInv, PrimaryQuestion, FallbackQuestion, ShouldFallback,
           BlamesRequest
  <2> QED
    BY <2>4, <2>5, <2>6 DEF GatewayInv
<1> QED
  BY <1>6, <1>7

\* The provider asked last is a provider.
LEMMA LastAskedType ==
  ASSUME GatewayInv, phase \in Waiting
  PROVE  LastAsked \in Question /\ (phase = "primary_asked" => LastAsked = PrimaryQuestion)
<1>1. \/ phase = "primary_asked" /\ asked = <<PrimaryQuestion>>
      \/ phase = "fallback_asked" /\ asked = <<PrimaryQuestion, FallbackQuestion>>
  BY DEF GatewayInv, AskedInv, Waiting
<1>2. Len(asked) \in 1..2 /\ (phase = "primary_asked" => LastAsked = PrimaryQuestion)
  BY <1>1, Tuples DEF LastAsked
<1>3. asked \in Seq(Question)
  BY DEF GatewayInv, TypeOK
<1> QED
  BY <1>2, <1>3 DEF LastAsked

\* An adapter's error is turned into a fallback or let out.
LEMMA FailKeepsInv ==
  ASSUME GatewayInv, NEW error \in ProviderError, Fail(error),
         error.provider = LastAsked.provider,
         error.retryable => ~BlamesRequest(error)
  PROVE  GatewayInv'
<1>1. CASE TakeFallback(error)
  <2>1. asked = <<PrimaryQuestion>> /\ request \in Requests /\ decision = SelectRoute(request)
    BY <1>1 DEF TakeFallback, GatewayInv, RoutedInv, AskedInv
  <2>2. error.provider = decision.primary_provider
    BY <1>1, LastAskedType DEF TakeFallback, Waiting, PrimaryQuestion
  <2>3. TypeOK'
    BY <1>1 DEF TakeFallback, GatewayInv, TypeOK, Phase, environment
  <2>4. SelectRoute(request)' = SelectRoute(request)
    BY <1>1, RouteIsStable DEF TakeFallback, SelectRoute
  <2>5. RoutedInv'
    BY <1>1, <2>1, <2>4 DEF TakeFallback, GatewayInv, RoutedInv
  <2>6. AskedInv'
    BY <1>1, <2>1, <2>2
       DEF TakeFallback, AskedInv, PrimaryQuestion, FallbackQuestion, ShouldFallback, BlamesRequest
  <2> QED
    BY <2>3, <2>5, <2>6 DEF GatewayInv
<1>2. CASE RaiseError(error)
  <2>1. outcome' \in Raised
    BY <1>2 DEF RaiseError, Raised
  <2>2. phase \in Waiting
    BY DEF Fail
  <2> QED
    BY <1>2, <2>1, <2>2, EndingKeepsInv DEF RaiseError, Waiting
<1> QED
  BY <1>1, <1>2 DEF Fail

\* Every way an adapter answers keeps the invariant.
LEMMA AnsweringKeepsInv ==
  ASSUME GatewayInv,
         HttpTimesOut \/ HttpRefuses \/ HttpGarbled \/ HttpDelivers \/ MockFails \/ MockDelivers
  PROVE  GatewayInv'
<1>1. phase \in Waiting /\ LastAsked \in Question
  BY LastAskedType
     DEF HttpTimesOut, HttpRefuses, HttpGarbled, HttpDelivers, MockFails, MockDelivers
<1>2. CASE HttpTimesOut
  <2> DEFINE error == [provider |-> LastAsked.provider, retryable |-> TRUE, status_code |-> 0]
  <2>1. error \in ProviderError /\ ~BlamesRequest(error)
    BY <1>1 DEF ProviderError, Question, BlamesRequest
  <2> QED
    BY <1>2, <2>1, FailKeepsInv DEF HttpTimesOut
<1>3. CASE HttpRefuses
  <2>1. PICK status \in StatusCodes :
          Fail([provider |-> LastAsked.provider, retryable |-> RetryableStatus(status),
                status_code |-> status])
    BY <1>3 DEF HttpRefuses
  <2> DEFINE error == [provider |-> LastAsked.provider, retryable |-> RetryableStatus(status),
                       status_code |-> status]
  <2>2. status \in 300..599
    BY GatewayAssumption
  <2>3. error \in ProviderError
    BY <1>1, <2>2 DEF ProviderError, Question, RetryableStatus
  <2>4. RetryableStatus(status) => ~(status \in (300..499) \ {429})
    BY <2>2 DEF RetryableStatus
  <2>5. error.retryable => ~BlamesRequest(error)
    BY <2>4 DEF BlamesRequest
  <2> QED
    BY <2>1, <2>3, <2>5, FailKeepsInv
<1>4. CASE HttpGarbled
  <2>1. outcome' \in Raised
    BY <1>4 DEF HttpGarbled, Raised
  <2> QED
    BY <1>1, <1>4, <2>1, EndingKeepsInv DEF HttpGarbled, Waiting
<1>5. CASE Deliver
  <2>1. outcome' \in Response
    BY <1>1, <1>5 DEF Deliver, Response, Question, GatewayInv, TypeOK
  <2> QED
    BY <1>1, <1>5, <2>1, EndingKeepsInv DEF Deliver, Waiting
<1>6. CASE MockFails
  <2> DEFINE error == [provider |-> "mock",
                       retryable |-> calls > behavior.non_retryable_failure_count,
                       status_code |-> 0]
  <2>1. error \in ProviderError /\ ~BlamesRequest(error)
    BY DEF ProviderError, ProviderName, BlamesRequest
  <2> QED
    BY <1>6, <2>1, FailKeepsInv DEF MockFails
<1> QED
  BY <1>2, <1>3, <1>4, <1>5, <1>6 DEF HttpDelivers, MockDelivers

\* The inductive invariant holds at every step of every request.
THEOREM GatewayInvariant == Spec => []GatewayInv
<1>1. GatewayInv /\ UNCHANGED vars => GatewayInv'
  <2> SUFFICES ASSUME GatewayInv, UNCHANGED vars
               PROVE  GatewayInv'
    OBVIOUS
  <2>1. SelectRoute(request)' = SelectRoute(request)
    BY RouteIsStable DEF vars, environment, SelectRoute
  <2>2. TypeOK'
    BY DEF vars, GatewayInv, TypeOK
  <2>3. RoutedInv' /\ AskedInv'
    BY <2>1 DEF vars, GatewayInv, RoutedInv, AskedInv, PrimaryQuestion, FallbackQuestion,
                ShouldFallback, BlamesRequest
  <2> QED
    BY <2>2, <2>3 DEF GatewayInv
<1>2. GatewayInv /\ [Next]_vars => GatewayInv'
  BY <1>1, RoutingKeepsInv, AskingKeepsInv, AnsweringKeepsInv DEF Next
<1> QED
  BY <1>2, InitGatewayInv, PTL DEF Spec

\* Configuration, decision, questions and outcome keep their types.
THEOREM GatewayTypeCorrect == Spec => []TypeOK
BY GatewayInvariant, PTL DEF GatewayInv

\* For every configuration and request: at most two different providers, and the second only
\* after a transient error and with everyone's leave.
THEOREM FallbackNeedsAReason == Spec => []FallbackIsJustified
<1>1. GatewayInv => FallbackIsJustified
  <2> SUFFICES ASSUME GatewayInv
               PROVE  FallbackIsJustified
    OBVIOUS
  <2>1. Len(asked) <= 2
    <3>1. asked \in {<<>>, <<PrimaryQuestion>>, <<PrimaryQuestion, FallbackQuestion>>}
      BY DEF GatewayInv, AskedInv
    <3>2. Len(<<>>) = 0
      OBVIOUS
    <3>3. Len(<<PrimaryQuestion>>) = 1 /\ Len(<<PrimaryQuestion, FallbackQuestion>>) = 2
      BY Tuples
    <3>4. Len(asked) \in {0, 1, 2}
      BY <3>1, <3>2, <3>3, Zenon
    <3>5. \A n \in {0, 1, 2} : n <= 2
      OBVIOUS
    <3> QED
      BY <3>4, <3>5, Zenon
  <2>2. ASSUME Len(asked) = 2
        PROVE  /\ asked[2].provider = config.fallback_provider
               /\ asked[2].provider # asked[1].provider
               /\ request.allow_fallback /\ config.enable_fallback
               /\ primaryError.provider = asked[1].provider
               /\ primaryError.retryable /\ ~BlamesRequest(primaryError)
    <3>1. asked = <<PrimaryQuestion, FallbackQuestion>>
      BY <2>2 DEF GatewayInv, AskedInv
    <3>2. decision = SelectRoute(request)
      BY <2>2 DEF GatewayInv, RoutedInv, AskedInv
    <3>3. /\ ShouldFallback(primaryError)
          /\ primaryError.provider = decision.primary_provider
          /\ ~BlamesRequest(primaryError)
      BY <2>2 DEF GatewayInv, AskedInv
    <3>4. HasFallback(request)
      BY <3>2, <3>3 DEF ShouldFallback, SelectRoute
    <3> QED
      BY <3>1, <3>2, <3>3, <3>4
         DEF PrimaryQuestion, FallbackQuestion, SelectRoute, ShouldFallback, HasFallback
  <2> QED
    BY <2>1, <2>2 DEF FallbackIsJustified
<1> QED
  BY <1>1, GatewayInvariant, PTL

\* For every configuration: what needs a strong model gets one, from the fallback too.
THEOREM StrongWorkStaysStrong == Spec => []StrongTierIsKept
<1>1. GatewayInv => StrongTierIsKept
  <2> SUFFICES ASSUME GatewayInv,
                      request.task_category \in {"action_planning", "approval"}
                        \/ request.risk_level = "high",
                      NEW i \in 1..Len(asked)
               PROVE  \/ asked[i].model = [provider |-> asked[i].provider, tier |-> "strong"]
                      \/ /\ i = 1 /\ request.preferred_model # NoModel
                         /\ asked[1].model = request.preferred_model
    BY DEF StrongTierIsKept
  <2>1. asked \in {<<PrimaryQuestion>>, <<PrimaryQuestion, FallbackQuestion>>}
    BY DEF GatewayInv, AskedInv
  <2>2. decision = SelectRoute(request) /\ SelectTier(request) = "strong"
    BY <2>1 DEF GatewayInv, RoutedInv, SelectTier
  <2>3. CASE i = 1
    BY <2>1, <2>2, <2>3 DEF PrimaryQuestion, SelectRoute, ModelForTier
  <2>4. CASE i = 2
    <3>1. asked = <<PrimaryQuestion, FallbackQuestion>> /\ Len(asked) = 2
      BY <2>1, <2>4, Tuples
    <3>2. ShouldFallback(primaryError)
      BY <3>1 DEF GatewayInv, AskedInv
    <3> QED
      BY <2>2, <2>4, <3>1, <3>2, Tuples DEF FallbackQuestion, SelectRoute, ModelForTier, ShouldFallback
  <2> QED
    BY <2>1, <2>3, <2>4
<1> QED
  BY <1>1, GatewayInvariant, PTL

\* For every request: the recorder had the decision first, and the asks follow it.
THEOREM RecordPrecedesAsks == Spec => []AsksFollowTheRecord
<1>1. GatewayInv => AsksFollowTheRecord
  BY DEF GatewayInv, RoutedInv, AskedInv, AsksFollowTheRecord, PrimaryQuestion, FallbackQuestion
<1> QED
  BY <1>1, GatewayInvariant, PTL

-----------------------------------------------------------------------------
(* How a request ends *)

\* While a request is under way it has no outcome, and an error is remembered exactly once
\* the fallback is taken.
OutcomeInv ==
  /\ phase # "idle" => outcome = NoOutcome
  /\ phase \in {"routing", "routed", "primary_asked"} => primaryError = NoError
  /\ ResponseTellsItsRoute
  /\ NoNeedlessFailure

\* A request that ends with neither a response nor an adapter's error promises nothing.
LEMMA OtherOutcome ==
  ASSUME outcome' \in {NoOutcome, [kind |-> "exception"]} \/
           (asked' = <<>> /\ outcome'.kind = "provider_error"),
         phase' # "idle" => outcome' = NoOutcome,
         phase' \in {"routing", "routed", "primary_asked"} => primaryError' = NoError
  PROVE  OutcomeInv'
<1>1. Len(<<>>) = 0
  OBVIOUS
<1>2. asked' = <<>> \/ outcome'.kind # "provider_error"
  BY DEF NoOutcome
<1>3. asked' = <<>> => Len(asked') # 1
  BY <1>1
<1>4. NoNeedlessFailure'
  BY <1>2, <1>3 DEF NoNeedlessFailure
<1>5. ResponseTellsItsRoute'
  BY DEF NoOutcome, ResponseTellsItsRoute
<1> QED
  BY <1>4, <1>5 DEF OutcomeInv

\* The questions asked when an adapter answers.
LEMMA WhoAnswers ==
  ASSUME GatewayInv, phase \in Waiting
  PROVE  /\ phase = "primary_asked" => Len(asked) = 1 /\ LastAsked = asked[1]
         /\ phase = "fallback_asked" =>
              /\ Len(asked) = 2
              /\ primaryError.provider = asked[1].provider
              /\ primaryError.provider \in ProviderName
         /\ decision = SelectRoute(request)
         /\ asked[1].provider = PrimaryProvider(request)
<1>1. \/ phase = "primary_asked" /\ asked = <<PrimaryQuestion>>
      \/ phase = "fallback_asked" /\ asked = <<PrimaryQuestion, FallbackQuestion>>
  BY DEF GatewayInv, AskedInv, Waiting
<1>2. decision = SelectRoute(request) /\ request \in Requests
  BY <1>1 DEF GatewayInv, RoutedInv
<1>3. asked[1] = PrimaryQuestion
  BY <1>1, Tuples
<1>4. decision.primary_provider \in ProviderName
  BY <1>2, SelectRouteType DEF GatewayInv, RouteDecision
<1>5. phase = "fallback_asked" => Len(asked) = 2 /\ primaryError.provider = decision.primary_provider
  BY <1>1, Tuples DEF GatewayInv, AskedInv
<1>6. phase = "primary_asked" => Len(asked) = 1 /\ LastAsked = asked[1]
  BY <1>1, Tuples DEF LastAsked
<1> QED
  BY <1>2, <1>3, <1>4, <1>5, <1>6 DEF PrimaryQuestion, SelectRoute

\* A response is told as what it is.
LEMMA DeliverTellsRoute ==
  ASSUME GatewayInv, OutcomeInv, Deliver
  PROVE  OutcomeInv'
<1>1. /\ UNCHANGED <<asked, primaryError>>
      /\ phase' = "idle"
      /\ LastAsked' = LastAsked
      /\ outcome' = [kind |-> "response", provider |-> LastAsked.provider,
                     model |-> LastAsked.model, fallback_used |-> phase = "fallback_asked",
                     primary_error |-> primaryError]
  BY DEF Deliver, LastAsked
<1>2. phase = "primary_asked" \/ phase = "fallback_asked"
  BY DEF Deliver, Waiting
<1>3. CASE phase = "primary_asked"
  <2>1. Len(asked) = 1 /\ primaryError = NoError
    BY <1>3, WhoAnswers DEF Waiting, OutcomeInv
  <2>2. outcome'.fallback_used = FALSE /\ outcome'.primary_error = NoError
    BY <1>1, <1>3, <2>1
  <2>3. outcome'.provider = LastAsked'.provider /\ outcome'.model = LastAsked'.model
    BY <1>1
  <2>4. (Len(asked') = 2) = FALSE /\ (outcome'.primary_error # NoError) = FALSE
    BY <1>1, <2>1, <2>2
  <2>5. ResponseTellsItsRoute'
    BY <2>2, <2>3, <2>4, Zenon DEF ResponseTellsItsRoute
  <2> QED
    BY <1>1, <2>5 DEF OutcomeInv, NoNeedlessFailure
<1>4. CASE phase = "fallback_asked"
  <2>1. /\ Len(asked) = 2
        /\ primaryError.provider = asked[1].provider
        /\ primaryError.provider \in ProviderName
    BY <1>4, WhoAnswers DEF Waiting
  <2>2. primaryError # NoError
    BY <2>1 DEF NoError, ProviderName, None
  <2> QED
    BY <1>1, <1>4, <2>1, <2>2 DEF OutcomeInv, ResponseTellsItsRoute, NoNeedlessFailure
<1> QED
  BY <1>2, <1>3, <1>4

\* An error is let out only for a reason.
LEMMA FailHasReason ==
  ASSUME GatewayInv, OutcomeInv, NEW error \in ProviderError, Fail(error),
         error.provider = LastAsked.provider,
         error.retryable \/ BlamesRequest(error) \/ error.provider = "mock"
  PROVE  OutcomeInv'
<1>1. CASE TakeFallback(error)
  BY <1>1, OtherOutcome DEF TakeFallback, OutcomeInv
<1>2. CASE RaiseError(error)
  <2>1. /\ UNCHANGED <<environment, request, asked>>
        /\ phase' = "idle" /\ outcome' = [kind |-> "provider_error", error |-> error]
        /\ phase = "fallback_asked" \/ ~ShouldFallback(error)
    BY <1>2 DEF RaiseError
  <2>2. ResponseTellsItsRoute'
    BY <2>1 DEF ResponseTellsItsRoute
  <2>3. ASSUME Len(asked) = 1
        PROVE  \/ ~request.allow_fallback
               \/ ~config.enable_fallback
               \/ config.fallback_provider \in {None, asked[1].provider}
               \/ adapters[config.fallback_provider] # "configured"
               \/ BlamesRequest(error)
               \/ asked[1].provider = "mock" /\ ~error.retryable
    <3>1. /\ phase = "primary_asked" /\ LastAsked = asked[1]
          /\ decision = SelectRoute(request)
          /\ asked[1].provider = PrimaryProvider(request)
      BY <2>3, WhoAnswers DEF Fail, Waiting
    <3>2. ~ShouldFallback(error)
      BY <2>1, <3>1
    <3>3. request \in Requests
      BY <3>1 DEF GatewayInv, RoutedInv, AskedInv
    <3>4. HasFallback(request) => ~error.retryable \/ ~request.allow_fallback
      <4>1. SUFFICES ASSUME HasFallback(request)
                     PROVE  ~error.retryable \/ ~request.allow_fallback
        OBVIOUS
      <4>2. /\ decision.fallback_allowed
            /\ decision.fallback_provider = config.fallback_provider
            /\ decision.fallback_model \in Model
        BY <3>1, <3>3, <4>1, SelectRouteType DEF SelectRoute, GatewayInv
      <4>3. decision.fallback_provider # None /\ decision.fallback_model # NoModel
        BY <4>1, <4>2 DEF HasFallback, Model, PreferredModel, NoModel, ProviderName, Tier, None
      <4> QED
        BY <3>2, <4>2, <4>3 DEF ShouldFallback
    <3> QED
      BY <3>1, <3>4 DEF HasFallback, Configured
  <2>4. NoNeedlessFailure'
    BY <2>1, <2>3 DEF NoNeedlessFailure, environment, BlamesRequest
  <2> QED
    BY <2>1, <2>2, <2>4 DEF OutcomeInv
<1> QED
  BY <1>1, <1>2 DEF Fail

\* Every step keeps what is said of outcomes.
LEMMA OutcomeStep ==
  ASSUME GatewayInv, OutcomeInv, [Next]_vars
  PROVE  OutcomeInv'
<1>1. CASE UNCHANGED vars
  BY <1>1 DEF vars, environment, OutcomeInv, ResponseTellsItsRoute, NoNeedlessFailure, LastAsked,
     BlamesRequest
<1>2. CASE Receive
  BY <1>2, OtherOutcome DEF Receive
<1>3. CASE RefuseRoute
  BY <1>3, OtherOutcome DEF RefuseRoute, GatewayInv, AskedInv
<1>4. CASE Route
  BY <1>4, OtherOutcome DEF Route, OutcomeInv
<1>5. CASE AskPrimary
  BY <1>5, OtherOutcome DEF AskPrimary, Ask, OutcomeInv
<1>6. CASE AskFallback
  BY <1>6, OtherOutcome DEF AskFallback, Ask, OutcomeInv
<1>7. ASSUME phase \in Waiting
      PROVE  LastAsked \in Question
  BY <1>7, LastAskedType
<1>8. CASE HttpTimesOut
  <2>1. [provider |-> LastAsked.provider, retryable |-> TRUE, status_code |-> 0] \in ProviderError
    BY <1>7, <1>8 DEF HttpTimesOut, ProviderError, Question
  <2> QED
    BY <1>8, <2>1, FailHasReason DEF HttpTimesOut
<1>9. CASE HttpRefuses
  <2>1. PICK status \in StatusCodes :
          Fail([provider |-> LastAsked.provider, retryable |-> RetryableStatus(status),
                status_code |-> status])
    BY <1>9 DEF HttpRefuses
  <2> DEFINE error == [provider |-> LastAsked.provider, retryable |-> RetryableStatus(status),
                       status_code |-> status]
  <2>2. status \in 300..599
    BY GatewayAssumption
  <2>3. error \in ProviderError
    BY <1>7, <1>9, <2>2 DEF HttpRefuses, ProviderError, Question, RetryableStatus
  <2>4. RetryableStatus(status) \/ status \in (300..499) \ {429}
    BY <2>2 DEF RetryableStatus
  <2>5. error.retryable \/ BlamesRequest(error)
    BY <2>4 DEF BlamesRequest
  <2> QED
    BY <2>1, <2>3, <2>5, FailHasReason
<1>10. CASE HttpGarbled
  BY <1>10, OtherOutcome DEF HttpGarbled
<1>11. CASE MockFails
  <2>1. [provider |-> "mock", retryable |-> calls > behavior.non_retryable_failure_count,
         status_code |-> 0] \in ProviderError
    BY DEF ProviderError, ProviderName
  <2> QED
    BY <1>11, <2>1, FailHasReason DEF MockFails
<1>12. CASE RouteUnknownProvider
  BY <1>12, OtherOutcome DEF RouteUnknownProvider
<1> QED
  BY <1>1, <1>2, <1>3, <1>4, <1>5, <1>6, <1>8, <1>9, <1>10, <1>11, <1>12, DeliverTellsRoute
     DEF Next, HttpDelivers, MockDelivers

\* What a request answers is true of what it asked, at every moment.  (generate)
THEOREM OutcomesAreHonest == Spec => []OutcomeInv
<1>1. Init => OutcomeInv
  BY DEF Init, OutcomeInv, ResponseTellsItsRoute, NoNeedlessFailure, NoOutcome
<1>2. GatewayInv /\ OutcomeInv /\ [Next]_vars => OutcomeInv'
  BY OutcomeStep
<1> QED
  BY <1>1, <1>2, GatewayInvariant, PTL DEF Spec

\* For every configuration, request and status: a transient error is let out only when there was
\* no fallback.  (should_fallback, select_route, the adapters' except clauses)
THEOREM FailuresAreNeeded == Spec => []NoNeedlessFailure
BY OutcomesAreHonest, PTL DEF OutcomeInv

\* For every configuration and request: a response names who gave it and why.
\* (_attach_route_metadata)
THEOREM ResponsesTellTheirRoute == Spec => []ResponseTellsItsRoute
BY OutcomesAreHonest, PTL DEF OutcomeInv

=============================================================================
