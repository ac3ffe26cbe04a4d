------------------------------- MODULE Service -------------------------------
(***************************************************************************)
(* One process (or function, or Worker) of the service: what its           *)
(* environment makes of it, and its life.  It is built or refuses to start *)
(* (app.ts), asks whether its key set answers, listens, serves, and drains *)
(* on SIGTERM (server.ts), while the envelope module it may need loads     *)
(* beside it (envelopes.ts).  Requests are routed as app.ts routes them.   *)
(*                                                                         *)
(* What a request then does is other modules': a mint's is Mint's, an      *)
(* envelope's Envelopes', the limits are RateLimiter's.  The HTTP server,  *)
(* Apollo, DocuSign and the host are external.                             *)
(***************************************************************************)
EXTENDS Sessions, Endpoints

CONSTANTS
  Envs,      \* the environments it is started in
  Served,    \* those whose requests are followed
  Requests,  \* the requests
  Inputs,    \* what a request may be
  Replies,   \* what a host asked for the terms may reply
  Tokens,    \* the tokens check-session is given
  NoReport   \* no check has run

ASSUME EnvsAreEnvs == Envs \subseteq Env /\ Served \subseteq Envs
ASSUME TokensAreTokens == Tokens \subseteq Token
ASSUME RepliesAreReplies == Replies \subseteq HostReply

Input == [method : Methods, path : Paths, origin : Origin, token : Token,
          body : Body, delivery : Delivery]

ASSUME InputsAreInputs == Inputs \subseteq Input

VARIABLES
  env, target,  \* what the process was started with, and what it was built for
  phase,        \* how far it is
  load,         \* the promise of the envelope capability
  heard,        \* Apollo runs when the signal comes, and has heard it too
  keysAnswered, \* the preflight got a key set
  request,      \* the requests
  report        \* what a check reported

vars == <<env, target, phase, load, heard, keysAnswered, request, report>>

Phases == {"off", "refused", "built", "serving", "closing", "stopping",
           "stopped", "killed"}

\* Phases in which the process answers what it has accepted
Up == {"serving", "closing", "stopping"}

Statuses == {"200", "204", "400", "401", "404", "429", "500", "502"}

Request == [pc : {"free", "accepted", "waiting", "working", "answered", "lost"},
            input : Input,
            user : BOOLEAN,      \* authenticate answered a user
            status : Statuses \cup {"none"},
            headers : Headers]

Nothing == [method |-> "GET", path |-> "/other", origin |-> "none",
            token |-> [form |-> "none"],
            body |-> [typed |-> TRUE, long |-> FALSE, holds |-> "nothing",
                      prefill |-> [shape |-> "absent", many |-> FALSE, names |-> TRUE,
                                   values |-> {}],
                      signer |-> NoSigner],
            delivery |-> [typed |-> TRUE, long |-> FALSE, signature |-> "none", event |-> TRUE]]

Free == [pc |-> "free", input |-> Nothing, user |-> FALSE, status |-> "none",
         headers |-> Bare]

TypeOK ==
  /\ env \in Envs /\ target \in Targets
  /\ phase \in Phases
  /\ load \in {"off", "pending", "ready", "failed"}
  /\ heard \in BOOLEAN /\ keysAnswered \in BOOLEAN
  /\ request \in [Requests -> Request]

Init ==
  /\ env \in Envs /\ target \in Targets
  /\ phase = "off"
  /\ load = "off"
  /\ heard = FALSE /\ keysAnswered = FALSE
  /\ request = [r \in Requests |-> Free]
  /\ report = NoReport

-----------------------------------------------------------------------------
(* Starting *)

\* createESignApp: a container then looks at its key set; a function is imported
\* to serve, and a Worker builds its application on its first request
Build ==
  /\ phase = "off"
  /\ Builds(env, target)
  /\ phase' = IF target = "container" THEN "built" ELSE "serving"
  /\ load' = IF env.database THEN "pending" ELSE "off"
  /\ UNCHANGED <<env, target, heard, keysAnswered, request, report>>

Refuse ==
  /\ phase = "off"
  /\ ~Builds(env, target)
  /\ phase' = "refused"
  /\ UNCHANGED <<env, target, load, heard, keysAnswered, request, report>>

\* preflight, then the listener: only ESIGN_STRICT minds a key set that is silent
Preflight(answers) ==
  /\ phase = "built"
  /\ keysAnswered' = (answers /\ env.session = "jwks")
  /\ phase' = IF env.session = "jwks" /\ ~answers /\ env.strict THEN "refused"
              ELSE "serving"
  /\ UNCHANGED <<env, target, load, heard, request, report>>

\* loadEnvelopes, then createEnvelopeCapability: nothing waits for it but what
\* needs it, and it is never tried again
Load(outcome) ==
  /\ load = "pending"
  /\ phase \notin {"stopped", "killed"}
  /\ load' = outcome
  /\ UNCHANGED <<env, target, phase, heard, keysAnswered, request, report>>

-----------------------------------------------------------------------------
(* Routes *)

\* What the mode's preset is mounted with
MintSurface(e) == [kind |-> Mode(e), terms |-> AsksTerms(e),
                   cors |-> e.origins # "none", health |-> FALSE, mockPages |-> FALSE]

MintPath(e) == PathOf(Mode(e))

\* mockPageResponse, whatever the method
MockPage(e, path) == MockPages(e) /\ path \in {"/signing/mock", "/signing/mock-webform"}

\* fetch and route of createESignApp: what no route is for is the mint app's
Route(e, method, path) ==
  CASE method = "OPTIONS" /\ path = "/graphql" -> "preflight"
    [] method = "GET" /\ path = "/health" -> "health"
    [] e.database /\ method = "POST" /\ path = "/webhook/esign" -> "webhook"
    [] e.database /\ method # "OPTIONS" /\ path = "/graphql" -> "graphql"
    [] MockPage(e, path) -> "mockPage"
    [] OTHER -> FetchRoute(MintSurface(e), method, path)

RouteOf(r) == Route(env, request[r].input.method, request[r].input.path)

\* withDefaults: what the answer does not say already
WithDefaults(headers, defaults) ==
  [vary |-> headers.vary \/ defaults.vary,
   allow |-> IF headers.allow = "none" THEN defaults.allow ELSE headers.allow]

\* The application's policy on a request's origin
Cors(r) == CorsHeaders(env.origins, request[r].input.origin)

\* What an answer of the application says: the mint's own headers or none, and
\* the policy where it has not been applied
AppHeaders(r) ==
  WithDefaults(IF RouteOf(r) \in {"mint", "preflight"} THEN Cors(r) ELSE Bare, Cors(r))

-----------------------------------------------------------------------------
(* Requests *)

Answer(r, status, headers) ==
  request' = [request EXCEPT ![r].pc = "answered", ![r].status = status,
                             ![r].headers = headers]

Accept(r) ==
  /\ phase = "serving"
  /\ env \in Served
  /\ request[r].pc = "free"
  /\ \E input \in Inputs :
       request' = [request EXCEPT ![r].pc = "accepted", ![r].input = input]
  /\ UNCHANGED <<env, target, phase, load, heard, keysAnswered, report>>

LimitedPaths == {"/webform/instance", "/envelope/instance", "/webhook/esign", "/graphql"}

\* Mutant: what is refused over the limit says nothing of origins
LimitBare(r) ==
  /\ phase \in Up
  /\ target = "container"
  /\ request[r].pc = "accepted"
  /\ request[r].input.path \in LimitedPaths
  /\ Answer(r, "429", Bare)

\* A container's limiter answers before the application is reached, whatever the
\* method, and applies the application's policy itself
Limit(r) ==
  /\ phase \in Up
  /\ target = "container"
  /\ request[r].pc = "accepted"
  /\ request[r].input.path \in LimitedPaths
  /\ Answer(r, "429", WithDefaults(Bare, Cors(r)))

\* Routes that are answered at once
Page(r) ==
  /\ phase \in Up
  /\ request[r].pc = "accepted"
  /\ RouteOf(r) \notin {"webhook", "graphql", "mint"}
  /\ Answer(r, CASE RouteOf(r) = "preflight" -> "204"
                 [] RouteOf(r) = "notFound" -> "404"
                 [] OTHER -> "200",
            AppHeaders(r))

\* Mutant: a request waits for a capability that failed as for one that loads
AwaitForever(r) ==
  /\ phase \in Up
  /\ request[r].pc = "accepted"
  /\ RouteOf(r) \in {"webhook", "graphql"}
  /\ load = "ready"
  /\ request' = [request EXCEPT ![r].pc = "working"]

\* The routes that need the envelope capability before anything is read. A
\* rejected promise is the application's rejection, and the server's 500
Await(r) ==
  /\ phase \in Up
  /\ request[r].pc = "accepted"
  /\ RouteOf(r) \in {"webhook", "graphql"}
  /\ load # "pending"
  /\ IF load = "ready"
     THEN request' = [request EXCEPT ![r].pc = "working"]
     ELSE Answer(r, "500", Bare)

\* authenticate, which asks for the keys where they are elsewhere
Authenticates(r, keys) == Verifies(env, request[r].input.token, keys)

\* POST to the mint: read, authenticated and checked, with the terms the host
\* replies where it is asked; then minted, through the envelope domain where
\* there is one
Mint(r, keys, reply) ==
  LET user == Authenticates(r, keys)
      decided == Decide("fetch", MintSurface(env), request[r].input.body, user, reply)
  IN /\ phase \in Up
     /\ request[r].pc = "accepted"
     /\ RouteOf(r) = "mint"
     /\ request' = [request EXCEPT ![r] =
          IF decided \in Refusals
          THEN [@ EXCEPT !.user = user, !.pc = "answered", !.status = decided,
                         !.headers = AppHeaders(r)]
          ELSE [@ EXCEPT !.user = user,
                         !.pc = IF Mode(env) = "envelope" /\ env.database THEN "waiting"
                                ELSE "working"]]

\* storedEnvelopeMint awaits the domain; a failed one is the mint's 502
Domain(r) ==
  /\ phase \in Up
  /\ request[r].pc = "waiting"
  /\ load # "pending"
  /\ IF load = "ready"
     THEN request' = [request EXCEPT ![r].pc = "working"]
     ELSE Answer(r, "502", AppHeaders(r))

\* httpGraphQLRequestFrom: a POST's text, parsed where it is JSON
ReadGraphQL(input) == IF input.method = "POST" THEN input.body.holds ELSE "nothing"

\* Apollo answers a caller it knows and one it does not, if asked in an object
Apollo(input) ==
  IF input.method = "POST" /\ ReadGraphQL(input) # "object" THEN {"400"} ELSE {"200", "400"}

\* What a route's own work ends in; a webhook is verified, parsed and handled
Work(r, status) ==
  LET decided == DecideDelivery("fetch", env.hmac, request[r].input.delivery)
  IN /\ phase \in Up
     /\ request[r].pc = "working"
     /\ CASE RouteOf(r) = "webhook" ->
               status \in (IF decided = "event" THEN {"200", "500"} ELSE {decided})
          [] RouteOf(r) = "graphql" -> status \in Apollo(request[r].input)
          [] OTHER -> status \in {"200", "400", "502"}
     /\ Answer(r, status, AppHeaders(r))

Handle(r) ==
  /\ \/ Limit(r) \/ Page(r) \/ Await(r) \/ Domain(r)
     \/ \E keys \in BOOLEAN, reply \in Replies : Mint(r, keys, reply)
     \/ \E status \in {"200", "400", "401", "500", "502"} : Work(r, status)
  /\ UNCHANGED <<env, target, phase, load, heard, keysAnswered, report>>

-----------------------------------------------------------------------------
(* Stopping *)

InFlight == {r \in Requests : request[r].pc \in {"accepted", "waiting", "working"}}

\* SIGTERM closes the listener; an Apollo that runs by now hears it as well.
\* RunningServer.stop closes it with no signal
Close(signal) ==
  /\ phase = "serving"
  /\ target = "container"
  /\ phase' = "closing"
  /\ heard' = (signal /\ load = "ready")
  /\ UNCHANGED <<env, target, load, keysAnswered, request, report>>

\* server.close answers once every request has been
Closed ==
  /\ phase = "closing"
  /\ InFlight = {}
  /\ phase' = "stopping"
  /\ UNCHANGED <<env, target, load, heard, keysAnswered, request, report>>

\* What is not answered when the process goes is not answered at all
Lost == [r \in Requests |-> IF r \in InFlight THEN [request[r] EXCEPT !.pc = "lost"]
                            ELSE request[r]]

\* app.stop: a capability that failed is reported (shutdown), one that loads is
\* waited for; then nothing holds the process
Stop ==
  /\ phase = "stopping"
  /\ load # "pending"
  /\ phase' = "stopped"
  /\ request' = Lost
  /\ UNCHANGED <<env, target, load, heard, keysAnswered, report>>

\* External: an Apollo server that hears SIGTERM stops, and raises it again once
\* nobody else listens for it
ApolloKills ==
  /\ heard
  /\ phase \in {"closing", "stopping"}
  /\ phase' = "killed"
  /\ request' = Lost
  /\ UNCHANGED <<env, target, load, heard, keysAnswered, report>>

-----------------------------------------------------------------------------
(* The commands *)

\* check-session in the environment of a service; the key set it asks for now
\* need not be what the service finds
CheckSession ==
  \E token \in Tokens, keys \in BOOLEAN :
    /\ token.form # "none"
    /\ ~CheckThrows(env, token)
    /\ env.session = "badJwks" => ~keys
    /\ report' = [command |-> "session", token |-> token, keys |-> keys,
                  failing |-> FailingLines(env, token, keys)]

\* checkPrefill, the lines marked as failing: without a source nobody is asked
FailingTerms(e, reply) ==
  IF ~AsksTerms(e) THEN {"source"}
  ELSE (IF e.secret THEN {} ELSE {"secret"})
       \cup (IF \/ reply.answers \in {"none", "error", "notJson"}
                \/ reply.prefill.shape # "object"
             THEN {"reply"} ELSE {})

CheckPrefill ==
  \E reply \in Replies :
    /\ env.terms = "badUrl" => reply.answers = "none"
    /\ report' = [command |-> "prefill", reply |-> reply,
                  failing |-> FailingTerms(env, reply)]

\* runCheckCommand, in a process of its own
Check ==
  /\ phase = "off"
  /\ env \in Served
  /\ target = "container"
  /\ CheckSession \/ CheckPrefill
  /\ phase' = "stopped"
  /\ UNCHANGED <<env, target, load, heard, keysAnswered, request>>

-----------------------------------------------------------------------------

Start == Build \/ Refuse \/ \E answers \in BOOLEAN : Preflight(answers)
LoadEnds == \E outcome \in {"ready", "failed"} : Load(outcome)
Shutdown == Closed \/ Stop

Next ==
  \/ Start
  \/ LoadEnds
  \/ \E r \in Requests : Accept(r) \/ Handle(r)
  \/ \E signal \in BOOLEAN : Close(signal)
  \/ Shutdown
  \/ ApolloKills
  \/ Check

\* Code that has begun runs on: starting, loading, each request, and a shutdown
Spec ==
  /\ Init /\ [][Next]_vars
  /\ WF_vars(Start) /\ WF_vars(LoadEnds) /\ WF_vars(Shutdown)
  /\ \A r \in Requests : WF_vars(Handle(r))

-----------------------------------------------------------------------------
(* Properties *)

\* config.ts: the guard "refuses only for what is actually broken - credentials
\* a mint cannot do without". So a service that started mints with the provider
\* its environment names, wrapped or not; and whatever operation of it a request
\* can reach is there, and at DocuSign has all the settings it needs: two checks,
\* of two lists in two packages, cover the mint and GraphQL, on every target.
RunningCanMint ==
  phase \in Up =>
    /\ Selected(env).name = env.provider
    /\ \A operation \in Reachable(env) : Does(Selected(env).provider, operation)
    /\ env.provider = "docusign" =>
         /\ ~KeyThrows(env, target)
         /\ \A operation \in Reachable(env) :
              NeedsSetting(operation) \subseteq ServicePresent(env)

\* config.ts: ESIGN_STRICT "turns every such choice back into a refusal". In a
\* strict service a mint that succeeds was a verified user's, with the host's
\* terms, at a real provider; a webhook that is processed was signed; and a
\* container that takes keys from elsewhere found them before it listened.
StrictIsEnforced ==
  phase \in Up /\ env.strict =>
    /\ env.provider = "docusign" /\ DemoHosts(env) = {}
    /\ target = "container" /\ env.session = "jwks" => keysAnswered
    /\ \A r \in Requests :
         request[r].status = "200" =>
           /\ request[r].input.path = MintPath(env) =>
                /\ request[r].input.token.form = "jwt"
                /\ Verifies(env, request[r].input.token, TRUE)
                /\ env.terms = "url"
           /\ request[r].input.path = "/webhook/esign" =>
                request[r].input.delivery.signature = "right"

\* check.ts: the report's lines are checked independently, "so one run names
\* every problem". A token the verifier takes has no failing line; of one it
\* refuses, whatever the service logs as the cause is among the lines that fail -
\* but for a token that is not valid yet, or whose issuer is a list, which the
\* report has no line for. A host's reply passes if and only if a form could be
\* minted on it; one that fails is none an envelope could be minted on either.
CheckTellsTheVerdict ==
  report # NoReport =>
    /\ report.command = "session" /\ Source(env) # "unverified" =>
         LET taken  == Verifies(env, report.token, report.keys)
             causes == Causes(env, report.token, report.keys)
         IN /\ taken => report.failing = {}
            /\ ~taken => causes # {}
            /\ \A c \in causes :
                 \/ LinesAbout(c) \cap report.failing # {}
                 \/ c = "claim" /\ report.token.nbf = "future"
                 \/ c = "issuer" /\ report.token.issuer = "list"
    /\ report.command = "prefill" /\ env.terms # "none" =>
         /\ "reply" \notin report.failing <=> Terms("webform", report.reply)
         /\ "reply" \in report.failing => ~Terms("envelope", report.reply)

\* express.ts: the Express preset makes "the same decisions as the Fetch preset".
\* Whatever a host mounts (but for mock pages, which the Fetch app leaves to it),
\* a request the Fetch app has a route for has the same one on an Express router,
\* and what it has none for is left to the host there. The same caller, host and
\* JSON within the limit are answered alike, but for a body that is a bare value,
\* which Express refuses before it knows who sent it. And a service that mints
\* forms beside its envelopes is to its callers what createESignRouter is to a
\* host's, GraphQL and preflights apart.
PresetsAgree == \A r \in Requests :
  LET input == request[r].input
      mounted == MintSurface(env)
      esign == ESignRoute([mounted EXCEPT !.mockPages = MockPages(env)],
                          input.method, input.path)
  IN /\ \A surface \in Surface : ~surface.mockPages =>
          LET fetch == FetchRoute(surface, input.method, input.path)
          IN ExpressRoute(surface, input.method, input.path)
               = IF fetch = "notFound" THEN "next" ELSE fetch
     /\ Mode(env) = "webform" /\ env.database /\ esign # "next" => esign = RouteOf(r)
     /\ input.body.typed /\ ~input.body.long /\ input.body.holds # "primitive" =>
          \A user \in BOOLEAN, reply \in Replies :
            Decide("fetch", mounted, input.body, user, reply)
              = Decide("express", mounted, input.body, user, reply)
     /\ input.delivery.typed /\ ~input.delivery.long =>
          DecideDelivery("fetch", env.hmac, input.delivery)
            = DecideDelivery("express", env.hmac, input.delivery)

\* app.ts: the allowed origin is "echoed back, and the Vary that keeps a shared
\* cache from serving one origin's answer to another". Whichever layer answers,
\* the limiter, the application or the mint's own, a page of an allowed origin
\* can read the answer and no other can, and caches are told - but for the 500
\* the HTTP server makes of an application that failed.
AllowedOriginsRead == \A r \in Requests :
  request[r].pc = "answered" /\ request[r].status # "500" =>
    LET origin == request[r].input.origin IN
    /\ request[r].headers.vary <=> env.origins # "none"
    /\ request[r].headers.allow # "none" <=>
         \/ env.origins = "any" /\ origin # "none"
         \/ env.origins = "list" /\ origin = "allowed"

\* server.ts, "finish what is in flight": a request that was accepted is answered,
\* whatever became of the envelope module, and before the process goes (unless
\* Apollo ends it first); and a container told to stop does, though the module
\* it served without never loaded.
EveryRequestIsAnswered ==
  /\ \A r \in Requests :
       request[r].pc # "free" ~> request[r].pc = "answered" \/ phase = "killed"
  /\ phase = "closing" ~> phase \in {"stopped", "killed"}
=============================================================================
