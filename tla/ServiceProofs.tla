----------------------------- MODULE ServiceProofs -----------------------------
(***************************************************************************)
(* Theorems about a process of the service, for any set of environments it *)
(* is started in, requests it is sent and tokens it is asked about.        *)
(***************************************************************************)
EXTENDS Service, TLAPS

USE EnvsAreEnvs, TokensAreTokens, InputsAreInputs, RepliesAreReplies

-----------------------------------------------------------------------------
(* What building an application means *)

\* A guard that passes found no error of any kind.
LEMMA GuardFindsNothing ==
  ASSUME NEW e, NEW t, GuardPasses(e, t)
  PROVE  /\ e.terms # "badUrl"
         /\ Registered(e)
         /\ e.provider = "docusign" => ~EntryThrows(e, t, MintSettings(Mode(e)))
         /\ e.strict => Unverified(e) = {}
<1>1. /\ PrefillUrlErrors(e) = {} /\ ProviderErrors(e, t) = {}
      /\ StrictErrors(e) = {}
  BY DEF GuardPasses, ConfigErrors
<1>2. e.terms # "badUrl"
  BY <1>1 DEF PrefillUrlErrors
<1>3. Registered(e) /\ (e.provider = "docusign" => ~EntryThrows(e, t, MintSettings(Mode(e))))
  BY <1>1, Zenon DEF ProviderErrors, SelectionThrows
<1>4. e.strict => Unverified(e) = {}
  BY <1>1, Zenon DEF StrictErrors
<1>5. QED
  BY <1>2, <1>3, <1>4

\* The guard's list and the adapter's cover every operation a route reaches.
LEMMA BuiltCanMint ==
  ASSUME NEW e, NEW t, Builds(e, t), e.provider = "docusign"
  PROVE  /\ ~KeyThrows(e, t)
         /\ \A operation \in Reachable(e) : NeedsSetting(operation) \subseteq ServicePresent(e)
<1>1. ~KeyThrows(e, t) /\ MintSettings(Mode(e)) \subseteq Present(e)
  BY GuardFindsNothing DEF Builds, EntryThrows, Missing
<1>2. AdapterSettings(e) \subseteq ServicePresent(e)
  BY DEF Builds, AdapterRefuses, Missing
<1>3. Present(e) \subseteq ServicePresent(e) /\ "returnUrl" \in ServicePresent(e)
  BY DEF ServicePresent
<1>4. ASSUME Mode(e) = "webform"
      PROVE  NeedsSetting("createHostedFormInstance") \subseteq ServicePresent(e)
  BY <1>1, <1>3, <1>4 DEF MintSettings, NeedsSetting
<1>5. ASSUME Mode(e) # "webform"
      PROVE  NeedsSetting("createEnvelope") \subseteq ServicePresent(e)
  BY <1>1, <1>3, <1>5 DEF MintSettings, NeedsSetting
<1>6. ASSUME e.database
      PROVE  NeedsSetting("createEnvelope") \subseteq ServicePresent(e)
  BY <1>2, <1>3, <1>6 DEF AdapterSettings, NeedsSetting
<1>7. QED
  BY <1>1, <1>4, <1>5, <1>6 DEF Reachable

\* The adapter the application wraps is the one it is told to use, and does what
\* its routes ask of it.
LEMMA BuiltDoesIt ==
  ASSUME NEW e, NEW t, Builds(e, t)
  PROVE  /\ Selected(e).name = e.provider
         /\ \A operation \in Reachable(e) : Does(Selected(e).provider, operation)
<1>1. e.provider \in {"mock", "docusign"}
  BY GuardFindsNothing DEF Builds, Registered
<1>2. Selected(e).name = e.provider /\ Selected(e).provider = Instrumented(Adapter)
  BY <1>1 DEF Selected
<1>3. Does(Instrumented(Adapter), "createHostedFormInstance")
  BY DEF Does, MintsForms, HostedFormNames, Instrumented, Adapter
<1>4. Does(Instrumented(Adapter), "createEnvelope")
  BY DEF Does, HostedFormNames, Instrumented, Port
<1>5. \A operation \in Reachable(e) : operation \in {"createHostedFormInstance", "createEnvelope"}
  BY DEF Reachable
<1>6. QED
  BY <1>2, <1>3, <1>4, <1>5

\* A strict application leaves nothing unverified.
LEMMA BuiltStrictly ==
  ASSUME NEW e \in Env, NEW t, Builds(e, t), e.strict
  PROVE  /\ e.provider = "docusign" /\ DemoHosts(e) = {}
         /\ e.session # "none" /\ e.terms = "url"
         /\ e.database => e.hmac
<1>1. Unverified(e) = {} /\ e.terms # "badUrl"
  BY GuardFindsNothing DEF Builds
<1>2. /\ ~ProviderIsDemo(e) /\ SessionVerified(e)
      /\ PrefillVerified(e) /\ WebhookVerified(e)
  BY <1>1, Zenon DEF Unverified
<1>3. e.provider = "docusign" /\ DemoHosts(e) = {}
  BY <1>2 DEF ProviderIsDemo
<1>4. e.session # "none"
  BY <1>2 DEF SessionVerified
<1>5. e.database => e.hmac
  BY <1>2 DEF WebhookVerified
<1>6. e.terms # "none"
  BY <1>2 DEF PrefillVerified, AsksTerms
<1>7. e.terms \in {"none", "url", "badUrl"}
  BY DEF Env
<1>8. QED
  BY <1>1, <1>3, <1>4, <1>5, <1>6, <1>7

-----------------------------------------------------------------------------
(* The inductive invariant *)

\* What listens was built, and looked for its keys where it had to
WasBuilt ==
  /\ phase \in {"built"} \cup Up => Builds(env, target)
  /\ phase \in Up /\ env.strict /\ target = "container" /\ env.session = "jwks" =>
       keysAnswered

\* A request's status comes with its answer
StatusIsAnswer ==
  \A r \in Requests : request[r].pc \in {"free", "accepted", "waiting", "working"} =>
    request[r].status = "none"

\* A mint that is under way, or succeeded, is of a user the verifier knew
MintsAreVerified ==
  \A r \in Requests :
    /\ request[r].input.path = MintPath(env)
    /\ request[r].pc \in {"waiting", "working"} \/ request[r].status = "200"
    => Verifies(env, request[r].input.token, TRUE)

\* A webhook is worked on where there is a database, and is good once verified
WebhooksAreSigned ==
  \A r \in Requests : request[r].input.path = "/webhook/esign" =>
    /\ request[r].pc \in {"waiting", "working"} => RouteOf(r) = "webhook"
    /\ request[r].status = "200" =>
         env.database /\ SignatureHolds(env.hmac, request[r].input.delivery)

\* What is answered says of origins what the policy says
HeadersAreThePolicys ==
  \A r \in Requests : request[r].pc = "answered" =>
    request[r].status = "500" \/ request[r].headers = Cors(r)

\* The report is that of what was asked about
ReportIsOfItsSubject ==
  report # NoReport =>
    \/ /\ report.command = "session"
       /\ report.token \in Token
       /\ report.keys \in BOOLEAN
       /\ report.failing = FailingLines(env, report.token, report.keys)
    \/ /\ report.command = "prefill"
       /\ report.reply \in HostReply
       /\ report.failing = FailingTerms(env, report.reply)

Inv ==
  /\ TypeOK
  /\ WasBuilt
  /\ StatusIsAnswer
  /\ MintsAreVerified
  /\ WebhooksAreSigned
  /\ HeadersAreThePolicys
  /\ ReportIsOfItsSubject

LEMMA InitEstablishesInv == Init => Inv
<1> SUFFICES ASSUME Init
             PROVE  Inv
  OBVIOUS
<1>1. Nothing \in Input
  <2>1. Nothing.body \in Body
    BY DEF Nothing, Body, Prefill, Signer, NoSigner
  <2>2. QED
    BY <2>1 DEF Nothing, Input, Methods, Paths, Origin, Token, Unsigned, Delivery
<1>2. /\ request = [r \in Requests |-> Free]
      /\ phase = "off" /\ load = "off" /\ report = NoReport
      /\ env \in Envs /\ target \in Targets /\ heard = FALSE /\ keysAnswered = FALSE
  BY DEF Init
<1>3. Free \in Request /\ Free.pc = "free" /\ Free.status = "none"
  BY <1>1 DEF Free, Request, Headers, Bare
<1>4. TypeOK
  BY <1>2, <1>3 DEF TypeOK, Phases
<1>5. WasBuilt /\ ReportIsOfItsSubject
  BY <1>2 DEF WasBuilt, Up, ReportIsOfItsSubject
<1>6. StatusIsAnswer /\ MintsAreVerified /\ WebhooksAreSigned /\ HeadersAreThePolicys
  BY <1>2, <1>3 DEF StatusIsAnswer, MintsAreVerified, WebhooksAreSigned, HeadersAreThePolicys
<1>7. QED
  BY <1>4, <1>5, <1>6 DEF Inv

-----------------------------------------------------------------------------
(* The steps of the process *)

\* Steps that leave the requests alone, or lose some, keep what is about them.
LEMMA LosingKeepsRequests ==
  ASSUME Inv, UNCHANGED env, request' \in {request, Lost}
  PROVE  /\ request' \in [Requests -> Request]
         /\ StatusIsAnswer' /\ MintsAreVerified' /\ WebhooksAreSigned'
         /\ HeadersAreThePolicys'
<1>1. CASE request' = request
  BY <1>1 DEF Inv, TypeOK, StatusIsAnswer, MintsAreVerified, WebhooksAreSigned,
              HeadersAreThePolicys, Cors, RouteOf
<1>2. CASE request' = Lost
  <2>1. request \in [Requests -> Request]
    BY DEF Inv, TypeOK
  <2>2. \A r \in Requests :
          /\ request'[r] \in Request
          /\ request'[r].input = request[r].input
          /\ request'[r].status = request[r].status
          /\ request'[r].headers = request[r].headers
          /\ request'[r].pc = request[r].pc \/ request'[r].pc = "lost"
    BY <1>2, <2>1 DEF Lost, Request
  <2>3. request' \in [Requests -> Request]
    BY <1>2, <2>2 DEF Lost
  <2>4. StatusIsAnswer'
    BY <2>2 DEF Inv, StatusIsAnswer
  <2>5. MintsAreVerified'
    BY <2>2 DEF Inv, MintsAreVerified
  <2>6. WebhooksAreSigned'
    BY <2>2 DEF Inv, WebhooksAreSigned, RouteOf
  <2>7. HeadersAreThePolicys'
    BY <2>2 DEF Inv, HeadersAreThePolicys, Cors
  <2>8. QED
    BY <2>3, <2>4, <2>5, <2>6, <2>7
<1>3. QED
  BY <1>1, <1>2

LEMMA ProcessKeepsInv ==
  ASSUME Inv,
         \/ Build \/ Refuse \/ (\E answers \in BOOLEAN : Preflight(answers))
         \/ LoadEnds \/ (\E signal \in BOOLEAN : Close(signal))
         \/ Closed \/ Stop \/ ApolloKills \/ UNCHANGED vars
  PROVE  Inv'
<1>1. UNCHANGED <<env, target, report>> /\ request' \in {request, Lost}
  BY DEF Build, Refuse, Preflight, LoadEnds, Load, Close, Closed, Stop, ApolloKills, vars
<1>2. /\ request' \in [Requests -> Request]
      /\ StatusIsAnswer' /\ MintsAreVerified' /\ WebhooksAreSigned'
      /\ HeadersAreThePolicys'
  BY <1>1, LosingKeepsRequests
<1>3. phase' \in Phases /\ load' \in {"off", "pending", "ready", "failed"}
  BY DEF Inv, TypeOK, Phases, Build, Refuse, Preflight, LoadEnds, Load, Close, Closed,
         Stop, ApolloKills, vars
<1>4. heard' \in BOOLEAN
  BY DEF Inv, TypeOK, Build, Refuse, Preflight, LoadEnds, Load, Close, Closed,
         Stop, ApolloKills, vars
<1>5. keysAnswered' \in BOOLEAN
  BY DEF Inv, TypeOK, Build, Refuse, Preflight, LoadEnds, Load, Close, Closed,
         Stop, ApolloKills, vars
<1>6. WasBuilt'
  <2>1. CASE Build
    BY <1>1, <2>1 DEF Build, WasBuilt, Up
  <2>2. CASE \E answers \in BOOLEAN : Preflight(answers)
    BY <1>1, <2>2 DEF Inv, Preflight, WasBuilt, Up
  <2>3. CASE Refuse \/ Stop \/ ApolloKills
    BY <2>3 DEF Refuse, Stop, ApolloKills, WasBuilt, Up
  <2>4. CASE LoadEnds \/ UNCHANGED vars
    BY <1>1, <2>4 DEF Inv, LoadEnds, Load, vars, WasBuilt, Up
  <2>5. CASE Closed \/ \E signal \in BOOLEAN : Close(signal)
    BY <1>1, <2>5 DEF Inv, Closed, Close, WasBuilt, Up
  <2>6. QED
    BY <2>1, <2>2, <2>3, <2>4, <2>5
<1>7. ReportIsOfItsSubject'
  BY <1>1 DEF Inv, ReportIsOfItsSubject
<1>8. QED
  BY <1>1, <1>2, <1>3, <1>4, <1>5, <1>6, <1>7 DEF Inv, TypeOK

LEMMA CheckKeepsInv ==
  ASSUME Inv, Check
  PROVE  Inv'
<1>1. UNCHANGED <<env, target, load, heard, keysAnswered, request>> /\ phase' = "stopped"
  BY DEF Check
<1>2. ReportIsOfItsSubject'
  <2>1. CASE CheckSession
    <3>1. PICK token \in Tokens, keys \in BOOLEAN :
            report' = [command |-> "session", token |-> token, keys |-> keys,
                       failing |-> FailingLines(env, token, keys)]
      BY <2>1 DEF CheckSession
    <3>2. QED
      BY <1>1, <3>1 DEF ReportIsOfItsSubject
  <2>2. CASE CheckPrefill
    <3>1. PICK reply \in Replies :
            report' = [command |-> "prefill", reply |-> reply,
                       failing |-> FailingTerms(env, reply)]
      BY <2>2 DEF CheckPrefill
    <3>2. QED
      BY <1>1, <3>1 DEF ReportIsOfItsSubject
  <2>3. QED
    BY <2>1, <2>2 DEF Check
<1>3. TypeOK' /\ WasBuilt'
  BY <1>1 DEF Inv, TypeOK, WasBuilt, Up, Phases
<1>4. QED
  BY <1>1, <1>2, <1>3, LosingKeepsRequests DEF Inv

-----------------------------------------------------------------------------
(* The steps of a request *)

\* What a step of a request r makes of it, q, may be
Followed(r, q) ==
  /\ request' = [request EXCEPT ![r] = q]
  /\ q \in Request
  /\ q.pc \in {"free", "accepted", "waiting", "working"} => q.status = "none"
  /\ q.input.path = MintPath(env) /\ (q.pc \in {"waiting", "working"} \/ q.status = "200")
       => Verifies(env, q.input.token, TRUE)
  /\ q.pc = "answered" =>
       q.status = "500" \/ q.headers = CorsHeaders(env.origins, q.input.origin)
  /\ q.input.path = "/webhook/esign" =>
       /\ q.pc \in {"waiting", "working"} =>
            Route(env, q.input.method, q.input.path) = "webhook"
       /\ q.status = "200" => env.database /\ SignatureHolds(env.hmac, q.input.delivery)

LEMMA FollowedKeepsInv ==
  ASSUME Inv, NEW r \in Requests, NEW q, Followed(r, q),
         UNCHANGED <<env, target, phase, load, heard, keysAnswered, report>>
  PROVE  Inv'
<1>1. request \in [Requests -> Request]
  BY DEF Inv, TypeOK
<1>2. /\ request' \in [Requests -> Request] /\ request'[r] = q
      /\ \A d \in Requests \ {r} : request'[d] = request[d]
  BY <1>1 DEF Followed
<1>3. TypeOK' /\ WasBuilt' /\ ReportIsOfItsSubject'
  BY <1>2 DEF Inv, TypeOK, WasBuilt, ReportIsOfItsSubject
<1>4. StatusIsAnswer'
  BY <1>2 DEF Inv, StatusIsAnswer, Followed
<1>5. MintsAreVerified'
  BY <1>2 DEF Inv, MintsAreVerified, Followed
<1>6. WebhooksAreSigned'
  BY <1>2 DEF Inv, WebhooksAreSigned, Followed, RouteOf
<1>7. HeadersAreThePolicys'
  BY <1>2 DEF Inv, HeadersAreThePolicys, Followed, Cors
<1>8. QED
  BY <1>3, <1>4, <1>5, <1>6, <1>7 DEF Inv

LEMMA MintPathIsNoOther ==
  ASSUME NEW e
  PROVE  MintPath(e) \in {"/webform/instance", "/envelope/instance"}
BY DEF MintPath, PathOf

\* The policy is a set of headers, and applying it twice or to none is applying it.
LEMMA HeadersArePolicys ==
  ASSUME NEW r \in Requests
  PROVE  /\ Cors(r) \in Headers
         /\ WithDefaults(Bare, Cors(r)) = Cors(r)
         /\ AppHeaders(r) = Cors(r)
<1>1. PICK vary \in BOOLEAN, allow \in {"none", "echo", "any"} :
        Cors(r) = [vary |-> vary, allow |-> allow]
  BY DEF Cors, CorsHeaders
<1>2. Cors(r) \in Headers
  BY <1>1 DEF Headers
<1>3. WithDefaults(Bare, Cors(r)) = Cors(r)
  BY <1>1 DEF WithDefaults, Bare
<1>4. WithDefaults(Cors(r), Cors(r)) = Cors(r)
  BY <1>1 DEF WithDefaults
<1>5. QED
  BY <1>2, <1>3, <1>4 DEF AppHeaders

\* What is routed as a mint, an envelope route or a page is at a path of its own.
LEMMA RoutesOfPaths ==
  ASSUME NEW e, NEW method, NEW path
  PROVE  /\ path = MintPath(e) => Route(e, method, path) \in {"mint", "preflight", "notFound"}
         /\ path = "/webhook/esign" => Route(e, method, path) \in {"webhook", "notFound"}
         /\ Route(e, method, path) \in {"webhook", "graphql"} => e.database
         /\ Route(e, method, path) = "mint" => path = MintPath(e)
<1>1. PathOf(Mode(e)) \in {"/webform/instance", "/envelope/instance"}
  BY DEF PathOf
<1>2. FetchRoute(MintSurface(e), method, path) =
        CASE method = "OPTIONS" /\ path = PathOf(Mode(e)) /\ e.origins # "none" -> "preflight"
          [] method = "POST" /\ path = PathOf(Mode(e)) -> "mint"
          [] method = "GET" /\ path = "/signing/return" -> "bridge"
          [] OTHER -> "notFound"
  BY DEF FetchRoute, MintSurface
<1>3. QED
  BY <1>1, <1>2 DEF Route, MintPath, MockPage

\* A step that answers a request, with what may be answered
LEMMA AnsweredIsFollowed ==
  ASSUME Inv, NEW r \in Requests, NEW status \in Statuses, NEW headers \in Headers,
         Answer(r, status, headers),
         status = "500" \/ headers = Cors(r),
         status = "200" /\ request[r].input.path = MintPath(env) =>
           Verifies(env, request[r].input.token, TRUE),
         status = "200" /\ request[r].input.path = "/webhook/esign" =>
           env.database /\ SignatureHolds(env.hmac, request[r].input.delivery)
  PROVE  \E q : Followed(r, q)
<1> DEFINE q == [request[r] EXCEPT !.pc = "answered", !.status = status, !.headers = headers]
<1>1. request \in [Requests -> Request] /\ request[r] \in Request
  BY DEF Inv, TypeOK
<1>2. /\ q \in Request /\ q.pc = "answered" /\ q.status = status
      /\ q.input = request[r].input /\ q.headers = headers
  BY <1>1 DEF Request
<1>3. request' = [request EXCEPT ![r] = q]
  BY <1>1 DEF Answer, Request
<1> HIDE DEF q
<1>4. Followed(r, q)
  BY <1>2, <1>3 DEF Followed, Cors
<1>5. QED
  BY <1>4

\* A step that lets a request's work begin
LEMMA WorkingIsFollowed ==
  ASSUME Inv, NEW r \in Requests, request' = [request EXCEPT ![r].pc = "working"],
         request[r].pc \in {"accepted", "waiting"},
         request[r].pc = "accepted" =>
           request[r].input.path # MintPath(env) /\ env.database,
         request[r].input.path = "/webhook/esign" => RouteOf(r) = "webhook"
  PROVE  \E q : Followed(r, q)
<1> DEFINE q == [request[r] EXCEPT !.pc = "working"]
<1>1. request \in [Requests -> Request] /\ request[r] \in Request
  BY DEF Inv, TypeOK
<1>2. /\ q \in Request /\ q.pc = "working" /\ q.status = request[r].status
      /\ q.input = request[r].input
  BY <1>1 DEF Request
<1>3. request' = [request EXCEPT ![r] = q]
  BY <1>1 DEF Request
<1>4. request[r].status = "none"
  BY DEF Inv, StatusIsAnswer
<1> HIDE DEF q
<1>5. q.input.path = MintPath(env) => Verifies(env, q.input.token, TRUE)
  BY <1>2 DEF Inv, MintsAreVerified
<1>6. Followed(r, q)
  BY <1>2, <1>3, <1>4, <1>5 DEF Followed, RouteOf
<1>7. QED
  BY <1>6

LEMMA AcceptIsFollowed ==
  ASSUME Inv, NEW r \in Requests, Accept(r)
  PROVE  \E q : Followed(r, q)
<1>1. PICK input \in Inputs :
        request' = [request EXCEPT ![r].pc = "accepted", ![r].input = input]
  BY DEF Accept
<1> DEFINE q == [request[r] EXCEPT !.pc = "accepted", !.input = input]
<1>2. request \in [Requests -> Request] /\ request[r] \in Request /\ input \in Input
  BY DEF Inv, TypeOK
<1>3. q \in Request /\ q.pc = "accepted" /\ q.status = request[r].status
  BY <1>2 DEF Request
<1>4. request' = [request EXCEPT ![r] = q]
  BY <1>1, <1>2 DEF Request
<1>5. request[r].status = "none"
  BY DEF Accept, Inv, StatusIsAnswer
<1> HIDE DEF q
<1>6. Followed(r, q)
  BY <1>3, <1>4, <1>5 DEF Followed
<1>7. QED
  BY <1>6

\* Who is known with the keys that answer is known with all of them.
LEMMA MoreKeysKnowMore ==
  ASSUME NEW e, NEW token, NEW keys \in BOOLEAN, Verifies(e, token, keys)
  PROVE  Verifies(e, token, TRUE)
BY DEF Verifies, SignatureIsOurs

LEMMA DecideAnswersOrMints ==
  ASSUME NEW surface, NEW body \in Body, NEW user \in BOOLEAN, NEW reply
  PROVE  LET decided == Decide("fetch", surface, body, user, reply)
         IN /\ decided \in Refusals => decided \in {"400", "401", "502"}
            /\ decided \notin Refusals => user
<1>1. CASE body.holds = "noJson"
  BY <1>1 DEF Decide, Read, Refusals
<1>2. CASE body.holds # "noJson"
  <2>1. Decide("fetch", surface, body, user, reply)
          = MintInstanceHttp(surface, body.holds, body, user, reply)
    BY <1>2 DEF Decide, Read, Refusals, Body
  <2>2. \A signer : MintWithHook(surface, signer, reply) \in {"mint", "400", "502"}
    BY DEF MintWithHook
  <2>3. QED
    BY <2>1, <2>2 DEF MintInstanceHttp, Refusals
<1>3. QED
  BY <1>1, <1>2

LEMMA MintIsFollowed ==
  ASSUME Inv, NEW r \in Requests, NEW keys \in BOOLEAN, NEW reply \in Replies,
         Mint(r, keys, reply)
  PROVE  \E q : Followed(r, q)
<1> DEFINE user == Authenticates(r, keys)
           decided == Decide("fetch", MintSurface(env), request[r].input.body, user, reply)
           pc == IF Mode(env) = "envelope" /\ env.database THEN "waiting" ELSE "working"
           refused == [request[r] EXCEPT !.user = user, !.pc = "answered",
                                         !.status = decided, !.headers = AppHeaders(r)]
           minted == [request[r] EXCEPT !.user = user, !.pc = pc]
<1>1. request \in [Requests -> Request] /\ request[r] \in Request
  BY DEF Inv, TypeOK
<1>2. user \in BOOLEAN
  BY DEF Authenticates, Verifies, SignatureIsOurs, ClaimsHold
<1>3. /\ request[r].input.path = MintPath(env)
      /\ request[r].pc = "accepted"
      /\ request' = [request EXCEPT ![r] = IF decided \in Refusals THEN refused ELSE minted]
  BY <1>1, RoutesOfPaths DEF Mint, RouteOf
<1>4. /\ decided \in Refusals => decided \in {"400", "401", "502"}
      /\ decided \notin Refusals => user
  <2>1. request[r].input.body \in Body
    BY <1>1 DEF Request, Input
  <2>2. QED
    BY <1>2, <2>1, DecideAnswersOrMints
<1>5. user => Verifies(env, request[r].input.token, TRUE)
  BY MoreKeysKnowMore DEF Authenticates
<1>6. request[r].status = "none"
  BY <1>3 DEF Inv, StatusIsAnswer
<1> HIDE DEF user, decided
<1>7. CASE decided \in Refusals
  <2>1. /\ refused \in Request /\ refused.pc = "answered" /\ refused.status = decided
        /\ refused.input = request[r].input /\ refused.headers = Cors(r)
    BY <1>1, <1>2, <1>4, <1>7, HeadersArePolicys DEF Request, Statuses
  <2> HIDE DEF refused
  <2>2. Followed(r, refused)
    BY <1>3, <1>4, <1>7, <2>1, MintPathIsNoOther DEF Followed, Cors
  <2>3. QED
    BY <2>2
<1>8. CASE decided \notin Refusals
  <2>1. pc \in {"waiting", "working"}
    OBVIOUS
  <2> HIDE DEF pc
  <2>2. /\ minted \in Request /\ minted.pc = pc /\ minted.status = "none"
        /\ minted.input = request[r].input
    BY <1>1, <1>2, <1>6, <2>1 DEF Request
  <2> HIDE DEF minted
  <2>3. Followed(r, minted)
    BY <1>3, <1>4, <1>5, <1>8, <2>1, <2>2, MintPathIsNoOther DEF Followed
  <2>4. QED
    BY <2>3
<1>9. QED
  BY <1>7, <1>8

LEMMA WorkIsFollowed ==
  ASSUME Inv, NEW r \in Requests, NEW status \in {"200", "400", "401", "500", "502"},
         Work(r, status)
  PROVE  \E q : Followed(r, q)
<1> DEFINE input == request[r].input
           decided == DecideDelivery("fetch", env.hmac, input.delivery)
<1>1. request[r].pc = "working" /\ Answer(r, status, AppHeaders(r))
  BY DEF Work
<1>2. input.path = MintPath(env) => Verifies(env, input.token, TRUE)
  BY <1>1 DEF Inv, MintsAreVerified
<1>3. input.path = "/webhook/esign" => RouteOf(r) = "webhook" /\ env.database
  BY <1>1, RoutesOfPaths DEF Inv, WebhooksAreSigned, RouteOf
<1>4. RouteOf(r) = "webhook" => status \in (IF decided = "event" THEN {"200", "500"} ELSE {decided})
  BY DEF Work
<1>5. decided \in {"401", "400", "event"} /\ (decided = "event" => SignatureHolds(env.hmac, input.delivery))
  BY DEF DecideDelivery, ReadDelivery
<1>6. input.path = "/webhook/esign" /\ status = "200" => SignatureHolds(env.hmac, input.delivery)
  <2> HIDE DEF decided
  <2>1. QED
    BY <1>3, <1>4, <1>5
<1>7. QED
  BY <1>1, <1>2, <1>3, <1>6, AnsweredIsFollowed, HeadersArePolicys DEF Statuses

LEMMA HandleIsFollowed ==
  ASSUME Inv, NEW r \in Requests, Handle(r)
  PROVE  \E q : Followed(r, q)
<1>1. CASE Limit(r)
  BY <1>1, AnsweredIsFollowed, HeadersArePolicys DEF Limit, Statuses
<1>2. CASE Page(r)
  <2> DEFINE status == CASE RouteOf(r) = "preflight" -> "204"
                         [] RouteOf(r) = "notFound" -> "404"
                         [] OTHER -> "200"
  <2>1. RouteOf(r) \notin {"webhook", "graphql", "mint"} /\ Answer(r, status, AppHeaders(r))
    BY <1>2 DEF Page
  <2>2. request[r].input.path \in {MintPath(env), "/webhook/esign"} =>
          RouteOf(r) \in {"preflight", "notFound"}
    BY <2>1, RoutesOfPaths DEF RouteOf
  <2>3. status \in {"200", "204", "404"}
        /\ (request[r].input.path \in {MintPath(env), "/webhook/esign"} => status # "200")
    BY <2>2
  <2> HIDE DEF status
  <2>4. QED
    BY <2>1, <2>3, AnsweredIsFollowed, HeadersArePolicys DEF Statuses
<1>3. CASE Await(r)
  <2>1. request[r].pc = "accepted" /\ RouteOf(r) \in {"webhook", "graphql"}
    BY <1>3 DEF Await
  <2>2. /\ env.database /\ request[r].input.path # MintPath(env)
        /\ request[r].input.path = "/webhook/esign" => RouteOf(r) = "webhook"
    BY <2>1, RoutesOfPaths DEF RouteOf
  <2>3. CASE load = "ready"
    BY <1>3, <2>1, <2>2, <2>3, WorkingIsFollowed DEF Await
  <2>4. CASE load # "ready"
    <3>1. Answer(r, "500", Bare) /\ Bare \in Headers
      BY <1>3, <2>4 DEF Await, Bare, Headers
    <3>2. QED
      BY <3>1, AnsweredIsFollowed DEF Statuses
  <2>5. QED
    BY <2>3, <2>4
<1>4. CASE Domain(r)
  <2>1. request[r].pc = "waiting"
    BY <1>4 DEF Domain
  <2>2. CASE load = "ready"
    <3>1. request[r].input.path = "/webhook/esign" => RouteOf(r) = "webhook"
      BY <2>1 DEF Inv, WebhooksAreSigned
    <3>2. request' = [request EXCEPT ![r].pc = "working"]
      BY <1>4, <2>2 DEF Domain
    <3>3. QED
      BY <2>1, <3>1, <3>2, WorkingIsFollowed
  <2>3. CASE load # "ready"
    BY <1>4, <2>3, AnsweredIsFollowed, HeadersArePolicys DEF Domain, Statuses
  <2>4. QED
    BY <2>2, <2>3
<1>5. CASE \E keys \in BOOLEAN, reply \in Replies : Mint(r, keys, reply)
  BY <1>5, MintIsFollowed
<1>6. CASE \E status \in {"200", "400", "401", "500", "502"} : Work(r, status)
  BY <1>6, WorkIsFollowed
<1>7. QED
  BY <1>1, <1>2, <1>3, <1>4, <1>5, <1>6 DEF Handle

-----------------------------------------------------------------------------
(* The theorems *)

LEMMA StepKeepsInv == Inv /\ [Next]_vars => Inv'
<1> SUFFICES ASSUME Inv, [Next]_vars
             PROVE  Inv'
  OBVIOUS
<1>1. CASE Start \/ LoadEnds \/ (\E signal \in BOOLEAN : Close(signal)) \/ Shutdown
             \/ ApolloKills \/ UNCHANGED vars
  BY <1>1, ProcessKeepsInv DEF Start, Shutdown
<1>2. ASSUME NEW r \in Requests, Accept(r)
      PROVE  Inv'
  <2>1. PICK q : Followed(r, q)
    BY <1>2, AcceptIsFollowed
  <2>2. QED
    BY <1>2, <2>1, FollowedKeepsInv DEF Accept
<1>3. ASSUME NEW r \in Requests, Handle(r)
      PROVE  Inv'
  <2>1. PICK q : Followed(r, q)
    BY <1>3, HandleIsFollowed
  <2>2. QED
    BY <1>3, <2>1, FollowedKeepsInv DEF Handle
<1>4. CASE Check
  BY <1>4, CheckKeepsInv
<1>5. QED
  BY <1>1, <1>2, <1>3, <1>4 DEF Next

LEMMA Invariance == Spec => []Inv
<1>1. QED
  BY InitEstablishesInv, StepKeepsInv, PTL DEF Spec

\* The process, its load and its requests are what their states say they are.
THEOREM ServiceIsTyped == Spec => []TypeOK
<1>1. Inv => TypeOK
  BY DEF Inv
<1>2. QED
  BY <1>1, Invariance, PTL

\* A service that started mints with the provider it was told to, which has every
\* setting its routes can need, whatever set of environments it may have been
\* started in (config.ts, providers/index.ts, providers/docusign).
THEOREM StartedCanMint == Spec => []RunningCanMint
<1>1. Inv => RunningCanMint
  <2>1. SUFFICES ASSUME Inv, phase \in Up
                 PROVE  RunningCanMint
    BY DEF RunningCanMint
  <2>2. Builds(env, target)
    BY <2>1 DEF Inv, WasBuilt
  <2>3. QED
    BY <2>2, BuiltCanMint, BuiltDoesIt, Zenon DEF RunningCanMint
<1>2. QED
  BY <1>1, Invariance, PTL

\* Under ESIGN_STRICT nothing succeeds that was not verified, for any requests
\* and however their steps interleave (config.ts, app.ts, server.ts).
THEOREM StrictHolds == Spec => []StrictIsEnforced
<1>1. Inv => StrictIsEnforced
  <2>1. SUFFICES ASSUME Inv, phase \in Up, env.strict
                 PROVE  StrictIsEnforced
    BY DEF StrictIsEnforced
  <2>2. Builds(env, target) /\ env \in Env
    BY <2>1 DEF Inv, WasBuilt, TypeOK
  <2>3. /\ env.provider = "docusign" /\ DemoHosts(env) = {}
        /\ env.session # "none" /\ env.terms = "url"
        /\ env.database => env.hmac
    BY <2>1, <2>2, BuiltStrictly
  <2>4. target = "container" /\ env.session = "jwks" => keysAnswered
    BY <2>1 DEF Inv, WasBuilt
  <2>5. Source(env) # "unverified"
    BY <2>2, <2>3 DEF Source, Env
  <2>6. ASSUME NEW r \in Requests, request[r].status = "200",
               request[r].input.path = MintPath(env)
        PROVE  request[r].input.token.form = "jwt" /\ Verifies(env, request[r].input.token, TRUE)
    BY <2>1, <2>5, <2>6 DEF Inv, MintsAreVerified, Verifies, SignatureIsOurs
  <2>7. ASSUME NEW r \in Requests, request[r].status = "200",
               request[r].input.path = "/webhook/esign"
        PROVE  request[r].input.delivery.signature = "right"
    BY <2>1, <2>3, <2>7 DEF Inv, WebhooksAreSigned, SignatureHolds
  <2>8. QED
    BY <2>3, <2>4, <2>6, <2>7 DEF StrictIsEnforced
<1>2. QED
  BY <1>1, Invariance, PTL

\* The report of a check and the service agree: on every token, one that is taken
\* fails no line and the cause that is logged of one that is refused is among the
\* lines that fail; on every reply of a host, whether a form can be minted on it.
THEOREM ReportTellsTheVerdict == Spec => []CheckTellsTheVerdict
<1>1. Inv /\ report # NoReport /\ report.command = "session" /\ Source(env) # "unverified" =>
        LET taken  == Verifies(env, report.token, report.keys)
            causes == Causes(env, report.token, report.keys)
        IN /\ taken => report.failing = {}
           /\ ~taken => causes # {}
           /\ \A c \in causes :
                \/ LinesAbout(c) \cap report.failing # {}
                \/ c = "claim" /\ report.token.nbf = "future"
                \/ c = "issuer" /\ report.token.issuer = "list"
  <2> SUFFICES ASSUME Inv, report # NoReport, report.command = "session",
                      Source(env) # "unverified"
               PROVE  LET taken  == Verifies(env, report.token, report.keys)
                          causes == Causes(env, report.token, report.keys)
                      IN /\ taken => report.failing = {}
                         /\ ~taken => causes # {}
                         /\ \A c \in causes :
                              \/ LinesAbout(c) \cap report.failing # {}
                              \/ c = "claim" /\ report.token.nbf = "future"
                              \/ c = "issuer" /\ report.token.issuer = "list"
    OBVIOUS
  <2> DEFINE token == report.token
             keys == report.keys
             causes == Causes(env, token, keys)
  <2>1. token \in Token /\ keys \in BOOLEAN /\ report.failing = FailingLines(env, token, keys)
    BY DEF Inv, ReportIsOfItsSubject
  <2>2. Verifies(env, token, keys) => report.failing = {}
    BY <2>1 DEF Verifies, FailingLines, SignatureIsOurs, ClaimsHold, Matches
  <2>3. ~Verifies(env, token, keys) => causes # {}
    <3>1. CASE ~SignatureIsOurs(env, token, keys)
      BY <3>1 DEF Causes
    <3>2. CASE SignatureIsOurs(env, token, keys) /\ ~ClaimsHold(env, token)
      <4>1. token \in Jwt
        BY <2>1, <3>2 DEF SignatureIsOurs, Token, Unsigned
      <4>2. QED
        BY <3>2, <4>1 DEF Causes, ClaimsHold, Jwt
    <3>3. CASE SignatureIsOurs(env, token, keys) /\ ClaimsHold(env, token)
      BY <3>3 DEF Causes, Verifies
    <3>4. QED
      BY <3>1, <3>2, <3>3
  <2>4. ASSUME NEW c \in causes
        PROVE  \/ LinesAbout(c) \cap report.failing # {}
               \/ c = "claim" /\ token.nbf = "future"
               \/ c = "issuer" /\ token.issuer = "list"
    <3>1. CASE ~SignatureIsOurs(env, token, keys)
      BY <2>1, <2>4, <3>1 DEF Causes, LinesAbout, FailingLines
    <3>2. CASE SignatureIsOurs(env, token, keys) /\ ~ClaimsHold(env, token)
      <4>1. token \in Jwt
        BY <2>1, <3>2 DEF SignatureIsOurs, Token, Unsigned
      <4>2. QED
        BY <2>1, <2>4, <3>2, <4>1
           DEF Causes, LinesAbout, FailingLines, SignatureIsOurs, Matches, Jwt
    <3>3. CASE SignatureIsOurs(env, token, keys) /\ ClaimsHold(env, token)
      BY <2>1, <2>4, <3>3 DEF Causes, LinesAbout, FailingLines, SignatureIsOurs
    <3>4. QED
      BY <3>1, <3>2, <3>3
  <2>5. QED
    BY <2>2, <2>3, <2>4
<1>2. Inv /\ report # NoReport /\ report.command = "prefill" /\ env.terms # "none" =>
        /\ "reply" \notin report.failing <=> Terms("webform", report.reply)
        /\ "reply" \in report.failing => ~Terms("envelope", report.reply)
  BY DEF Inv, ReportIsOfItsSubject, FailingTerms, AsksTerms, Terms, ParsesReply, HostReply
<1>3. Inv => CheckTellsTheVerdict
  BY <1>1, <1>2, Zenon DEF CheckTellsTheVerdict
<1>4. QED
  BY <1>3, Invariance, PTL

\* Whichever layer answers, whoever asks from wherever: an answer can be read by
\* the pages of allowed origins and by no other (app.ts, server.ts, handlers.ts).
THEOREM OriginsAreHeld == Spec => []AllowedOriginsRead
<1>1. Inv => AllowedOriginsRead
  <2> SUFFICES ASSUME Inv, NEW r \in Requests, request[r].pc = "answered",
                      request[r].status # "500"
               PROVE  LET origin == request[r].input.origin IN
                      /\ request[r].headers.vary <=> env.origins # "none"
                      /\ request[r].headers.allow # "none" <=>
                           \/ env.origins = "any" /\ origin # "none"
                           \/ env.origins = "list" /\ origin = "allowed"
    BY DEF AllowedOriginsRead
  <2>1. request[r].headers = CorsHeaders(env.origins, request[r].input.origin)
    BY DEF Inv, HeadersAreThePolicys, Cors
  <2>2. env.origins \in Origins /\ request[r].input.origin \in Origin
    BY DEF Inv, TypeOK, Env, Origins, Request, Input
  <2>3. request[r].headers.vary <=> env.origins # "none"
    <3>1. request[r].headers.vary = (env.origins # "none")
      BY <2>1 DEF CorsHeaders
    <3>2. QED
      BY <3>1
  <2>4. request[r].headers.allow # "none" <=>
          \/ env.origins = "any" /\ request[r].input.origin # "none"
          \/ env.origins = "list" /\ request[r].input.origin = "allowed"
    BY <2>1, <2>2 DEF CorsHeaders, Origins, Origin
  <2>5. QED
    BY <2>3, <2>4
<1>2. QED
  BY <1>1, Invariance, PTL

\* What an Express router makes of a request, route by route.
LEMMA ExpressRoutes ==
  ASSUME NEW surface, NEW method, NEW path
  PROVE  ExpressRoute(surface, method, path) =
           IF method = "GET" /\ path = "/health" /\ surface.health THEN "health"
           ELSE IF method = "GET" /\ path = "/signing/return" THEN "bridge"
           ELSE IF method = "GET" /\ path = "/signing/mock-webform" /\ surface.mockPages
                THEN "mockPage"
           ELSE IF path # PathOf(surface.kind) THEN "next"
           ELSE IF method = "POST" THEN "mint"
           ELSE IF method = "OPTIONS" /\ surface.cors THEN "preflight" ELSE "next"
<1>1. PageRoute(surface, method, path) =
        IF method = "GET" /\ path = "/signing/return" THEN "bridge"
        ELSE IF method = "GET" /\ path = "/signing/mock-webform" /\ surface.mockPages
             THEN "mockPage" ELSE "next"
  BY DEF PageRoute
<1>2. MintRoute(surface, method, path) =
        IF path # PathOf(surface.kind) THEN "next"
        ELSE IF method = "POST" THEN "mint"
        ELSE IF method = "OPTIONS" /\ surface.cors THEN "preflight" ELSE "next"
  BY DEF MintRoute
<1>3. QED
  BY <1>1, <1>2 DEF ExpressRoute

\* A request the Fetch app has a route for has it on an Express router; what it
\* has none for, the router leaves to the host.
LEMMA RoutesAgree ==
  ASSUME NEW surface, surface.kind \in Kinds, ~surface.mockPages,
         NEW method, NEW path
  PROVE  LET fetch == FetchRoute(surface, method, path)
         IN ExpressRoute(surface, method, path) = IF fetch = "notFound" THEN "next" ELSE fetch
<1>1. PathOf(surface.kind) \in {"/webform/instance", "/envelope/instance"}
  BY DEF PathOf
<1>2. QED
  BY <1>1, ExpressRoutes DEF FetchRoute

\* createESignRouter has no route of its own that the service does not have.
LEMMA ESignAgrees ==
  ASSUME NEW e, Mode(e) = "webform", e.database, NEW method, NEW path,
         ESignRoute([MintSurface(e) EXCEPT !.mockPages = MockPages(e)], method, path) # "next"
  PROVE  ESignRoute([MintSurface(e) EXCEPT !.mockPages = MockPages(e)], method, path)
           = Route(e, method, path)
<1> DEFINE mounted == [MintSurface(e) EXCEPT !.mockPages = MockPages(e)]
           router == [mounted EXCEPT !.kind = "webform", !.health = TRUE]
<1>1. /\ router.kind = "webform" /\ router.health /\ router.cors = (e.origins # "none")
      /\ router.mockPages = MockPages(e) /\ mounted.mockPages = MockPages(e)
  BY DEF MintSurface
<1>2. PathOf("webform") = "/webform/instance"
  BY DEF PathOf
<1>3. FetchRoute(MintSurface(e), method, path) =
        IF method = "OPTIONS" /\ path = "/webform/instance" /\ e.origins # "none" THEN "preflight"
        ELSE IF method = "POST" /\ path = "/webform/instance" THEN "mint"
        ELSE IF method = "GET" /\ path = "/signing/return" THEN "bridge" ELSE "notFound"
  BY <1>2 DEF FetchRoute, MintSurface
<1>4. ESignRoute(mounted, method, path) =
        IF method = "GET" /\ path = "/signing/mock" /\ MockPages(e) THEN "mockPage"
        ELSE IF method = "POST" /\ path = "/webhook/esign" THEN "webhook"
        ELSE ExpressRoute(router, method, path)
  BY <1>1 DEF ESignRoute
<1> HIDE DEF mounted, router
<1>5. ExpressRoute(router, method, path) =
        IF method = "GET" /\ path = "/health" THEN "health"
        ELSE IF method = "GET" /\ path = "/signing/return" THEN "bridge"
        ELSE IF method = "GET" /\ path = "/signing/mock-webform" /\ MockPages(e) THEN "mockPage"
        ELSE IF path # "/webform/instance" THEN "next"
        ELSE IF method = "POST" THEN "mint"
        ELSE IF method = "OPTIONS" /\ e.origins # "none" THEN "preflight" ELSE "next"
  BY <1>1, <1>2, ExpressRoutes
<1>6. ESignRoute(mounted, method, path) # "next"
        => ESignRoute(mounted, method, path) = Route(e, method, path)
  BY <1>3, <1>4, <1>5 DEF Route, MockPage
<1>7. QED
  BY <1>6 DEF mounted

\* The same caller, host and JSON are answered alike.
LEMMA DecisionsAgree ==
  ASSUME NEW surface, NEW body \in Body, NEW user, NEW reply,
         body.typed, ~body.long, body.holds # "primitive"
  PROVE  Decide("fetch", surface, body, user, reply) = Decide("express", surface, body, user, reply)
<1>1. Read("fetch", body) = Read("express", body)
  BY DEF Read, Body
<1>2. QED
  BY <1>1 DEF Decide

\* So is the same delivery.
LEMMA DeliveriesAgree ==
  ASSUME NEW hmac, NEW delivery, delivery.typed, ~delivery.long
  PROVE  DecideDelivery("fetch", hmac, delivery) = DecideDelivery("express", hmac, delivery)
BY DEF DecideDelivery, ReadDelivery

\* Whatever is sent, the presets agree on it, as any environment would mount them
\* (express.ts, handlers.ts).
THEOREM PresetsAlwaysAgree == Spec => []PresetsAgree
<1>1. Inv => PresetsAgree
  <2> SUFFICES ASSUME Inv, NEW r \in Requests
               PROVE  LET input == request[r].input
                          mounted == MintSurface(env)
                          esign == ESignRoute([mounted EXCEPT !.mockPages = MockPages(env)],
                                              input.method, input.path)
                      IN /\ \A surface \in Surface : ~surface.mockPages =>
                              LET fetch == FetchRoute(surface, input.method, input.path)
                              IN ExpressRoute(surface, input.method, input.path)
                                   = IF fetch = "notFound" THEN "next" ELSE fetch
                         /\ Mode(env) = "webform" /\ env.database /\ esign # "next" =>
                              esign = RouteOf(r)
                         /\ input.body.typed /\ ~input.body.long
                              /\ input.body.holds # "primitive" =>
                              \A user \in BOOLEAN, reply \in Replies :
                                Decide("fetch", mounted, input.body, user, reply)
                                  = Decide("express", mounted, input.body, user, reply)
                         /\ input.delivery.typed /\ ~input.delivery.long =>
                              DecideDelivery("fetch", env.hmac, input.delivery)
                                = DecideDelivery("express", env.hmac, input.delivery)
    BY DEF PresetsAgree
  <2>1. request[r].input.body \in Body
    BY DEF Inv, TypeOK, Request, Input
  <2>2. \A surface \in Surface : surface.kind \in Kinds
    BY DEF Surface
  <2>3. QED
    BY <2>1, <2>2, RoutesAgree, ESignAgrees, DecisionsAgree, DeliveriesAgree DEF RouteOf
<1>2. QED
  BY <1>1, Invariance, PTL
=============================================================================
