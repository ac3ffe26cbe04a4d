------------------------------ MODULE Endpoints ------------------------------
(***************************************************************************)
(* The package's endpoints as both its presets mount them: over the Fetch  *)
(* API (handlers.ts) and as Express routers (express.ts).  A request is    *)
(* routed and read by its preset and decided by what they share,           *)
(* mintInstanceHttp and processWebhookHttp.  What a provider makes of a    *)
(* mint is Mint's; express itself and the host's middleware are external.  *)
(***************************************************************************)
EXTENDS Contract

Presets == {"fetch", "express"}

(***************************************************************************)
(* A surface a host mounts: the kind it mints, whether a hook computes the *)
(* terms, whether the host has a policy on origins, and which pages it has *)
(***************************************************************************)
Surface == [kind : Kinds, terms : BOOLEAN, cors : BOOLEAN, health : BOOLEAN,
            mockPages : BOOLEAN]

-----------------------------------------------------------------------------
(* Routes *)

Methods == {"GET", "POST", "OPTIONS"}

Paths == {"/health", "/webform/instance", "/envelope/instance", "/webhook/esign",
          "/graphql", "/signing/return", "/signing/mock", "/signing/mock-webform",
          "/other"}

PathOf(kind) == IF kind = "webform" THEN "/webform/instance" ELSE "/envelope/instance"

\* createMintApp
FetchRoute(surface, method, path) ==
  CASE method = "OPTIONS" /\ path = PathOf(surface.kind) /\ surface.cors -> "preflight"
    [] method = "POST" /\ path = PathOf(surface.kind) -> "mint"
    [] method = "GET" /\ path = "/signing/return" -> "bridge"
    [] method = "GET" /\ path = "/health" /\ surface.health -> "health"
    [] OTHER -> "notFound"

\* mountDocuSignPages
PageRoute(surface, method, path) ==
  CASE method = "GET" /\ path = "/signing/return" -> "bridge"
    [] method = "GET" /\ path = "/signing/mock-webform" /\ surface.mockPages -> "mockPage"
    [] OTHER -> "next"

\* mountMintRoute: without the host's policy, OPTIONS is Express's own answer
MintRoute(surface, method, path) ==
  CASE path = PathOf(surface.kind) /\ method = "POST" -> "mint"
    [] path = PathOf(surface.kind) /\ method = "OPTIONS" /\ surface.cors -> "preflight"
    [] OTHER -> "next"

\* createMintRouter: what no route is for is the host's
ExpressRoute(surface, method, path) ==
  IF method = "GET" /\ path = "/health" /\ surface.health THEN "health"
  ELSE IF PageRoute(surface, method, path) # "next" THEN PageRoute(surface, method, path)
  ELSE MintRoute(surface, method, path)

\* createESignRouter, which mints Web Forms and nothing else
ESignRoute(surface, method, path) ==
  CASE method = "GET" /\ path = "/signing/mock" /\ surface.mockPages -> "mockPage"
    [] method = "POST" /\ path = "/webhook/esign" -> "webhook"
    [] OTHER -> ExpressRoute([surface EXCEPT !.kind = "webform", !.health = TRUE],
                             method, path)

-----------------------------------------------------------------------------
(* Origins *)

\* The origins a host allows, and the one a request is from
Origins == {"none", "list", "any"}
Origin == {"none", "allowed", "foreign"}

\* What an answer says to a browser: vary on the origin; which origin may read it
Headers == [vary : BOOLEAN, allow : {"none", "echo", "any"}]

Bare == [vary |-> FALSE, allow |-> "none"]

\* corsHeaders
CorsHeaders(origins, origin) ==
  [vary |-> origins # "none",
   allow |-> IF origins = "none" \/ origin = "none" THEN "none"
             ELSE IF origins = "any" THEN "any"
             ELSE IF origin = "allowed" THEN "echo" ELSE "none"]

-----------------------------------------------------------------------------
(* The mint *)

(***************************************************************************)
(* A body: whether it is sent as application/json, is longer than          *)
(* BODY_LIMIT, what it holds, and the prefill and signer of an object.     *)
(***************************************************************************)
Body == [typed : BOOLEAN, long : BOOLEAN,
         holds : {"nothing", "noJson", "primitive", "array", "object"},
         prefill : Prefill, signer : Signer]

\* What a preset hands on: what the body holds, or the status it refuses it with.
\* express.json passes over another type, and parses objects and arrays alone
Read(preset, body) ==
  IF preset = "fetch"
  THEN IF body.holds = "noJson" THEN "400" ELSE body.holds
  ELSE IF ~body.typed \/ body.holds = "nothing" THEN "nothing"
  ELSE IF body.long THEN "413"
  ELSE IF body.holds \in {"noJson", "primitive"} THEN "400" ELSE body.holds

Refusals == {"400", "401", "413", "502"}

NoSigner == [shape |-> "absent", name |-> "fine", email |-> "valid"]

\* mintWithHook over the kind's mint: the host's terms where there is a hook, which
\* a failure of fails; then who signs
MintWithHook(surface, signer, reply) ==
  IF surface.terms /\ ~Terms(surface.kind, reply) THEN "502"
  ELSE IF CanBeMinted(surface.kind, IF surface.terms THEN reply.recipient ELSE signer)
  THEN "mint" ELSE "400"

\* mintInstanceHttp, up to the provider: "mint" is a request it is asked for.
\* user is whether the host's authentication knew the caller
MintInstanceHttp(surface, holds, body, user, reply) ==
  CASE ~user -> "401"
    [] user /\ holds = "nothing" -> MintWithHook(surface, NoSigner, reply)
    [] user /\ holds = "object" ->
         IF ParsesRequest(surface.kind, body.prefill, body.signer)
         THEN MintWithHook(surface, body.signer, reply) ELSE "400"
    [] OTHER -> "400"

\* Mutant: Express checks the object before anyone asks who sent it
DecideBeforeAuth(preset, surface, body, user, reply) ==
  LET read == Read(preset, body)
  IN IF read \in Refusals THEN read
     ELSE IF preset = "express" /\ read = "object"
             /\ ~ParsesRequest(surface.kind, body.prefill, body.signer) THEN "400"
     ELSE MintInstanceHttp(surface, read, body, user, reply)

\* POST to the mint
Decide(preset, surface, body, user, reply) ==
  LET read == Read(preset, body)
  IN IF read \in Refusals THEN read
     ELSE MintInstanceHttp(surface, read, body, user, reply)

-----------------------------------------------------------------------------
(* The webhook *)

\* What is posted: how, with which signature, over what
Delivery == [typed : BOOLEAN, long : BOOLEAN,
             signature : {"none", "wrong", "right"},
             event : BOOLEAN]

\* validateHmac under the service's policy: no key, nothing to check
SignatureHolds(hmac, delivery) == hmac => delivery.signature = "right"

\* The text a preset hands on: express.text passes over another type, and no
\* signature over what was sent is one over nothing
ReadDelivery(preset, delivery) ==
  IF preset = "express" /\ ~delivery.typed
  THEN [delivery EXCEPT !.event = FALSE,
                        !.signature = IF @ = "right" THEN "wrong" ELSE @]
  ELSE delivery

\* processWebhookHttp, up to the event: "event" is one for the envelope service
DecideDelivery(preset, hmac, delivery) ==
  LET read == ReadDelivery(preset, delivery)
  IN IF preset = "express" /\ read.typed /\ read.long THEN "413"
     ELSE IF ~SignatureHolds(hmac, read) THEN "401"
     ELSE IF read.event THEN "event" ELSE "400"
=============================================================================
