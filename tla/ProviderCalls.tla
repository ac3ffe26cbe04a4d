----------------------------- MODULE ProviderCalls -----------------------------
(***************************************************************************)
(* The DocuSign adapter (esign-node/src/providers/docusign/provider.ts,    *)
(* client.ts, webforms.ts) and the retries under every call of it          *)
(* (http.ts, withRetry).                                                   *)
(*                                                                         *)
(* An operation is one or two requests to DocuSign, each tried again after *)
(* a delay while its failure may pass. A creation is two: the envelope,    *)
(* then the URL to sign it at. A request that fails without an answer may  *)
(* have been carried out all the same, and nothing marks a retry as one.   *)
(* DocuSign is external; the token a request needs is TokenCache's.        *)
(***************************************************************************)
EXTENDS Naturals

CONSTANTS
  Ops,         \* the operations under way, each called once
  MaxAttempts  \* RETRY_CONFIG.maxAttempts

ASSUME AttemptsArePositive == MaxAttempts \in Nat \ {0}

VARIABLES
  missing,  \* the settings the configuration lacks
  op        \* the operations

callVars == <<missing, op>>

\* The settings an operation may need: the account, the document (template or
\* form), the URL the signer returns to, the credentials of the grant
Settings == {"account", "document", "returnUrl", "credentials"}

Operations == {"createEnvelope", "createHostedFormInstance", "getSigningUrl",
               "getEnvelopeStatus"}

\* The client's requests, and those that make something at DocuSign
Requests == {"envelope", "view", "status", "instance"}
Creations == {"envelope", "instance"}

\* 404, another 4xx but 429; then a setting, and all that may pass: 5xx, 429
\* and failures of the network or in reading the reply
ClientErrors == {"notFound", "client"}
Errors == ClientErrors \cup {"config", "transient"}

Answers == {"ok", "validationError", "envelopeCreationFailed",
            "envelopeNotFound", "providerUnavailable"}

\* "ready": about to try the request; "sent": awaiting its reply; "sleeping":
\* between two attempts
Op == [operation : Operations \cup {"none"},
       pc : {"idle", "ready", "sent", "sleeping", "done"},
       request : Requests \cup {"none"},
       attempt : 0..MaxAttempts,
       error : Errors \cup {"none"},
       answer : Answers \cup {"none"},
       \* what DocuSign made for it, and its creations whose reply did not
       \* tell (the program keeps neither; the properties do)
       made : Nat,
       unknown : Nat]

Idle == [operation |-> "none", pc |-> "idle", request |-> "none", attempt |-> 0,
         error |-> "none", answer |-> "none", made |-> 0, unknown |-> 0]

CallsTypeOK ==
  /\ missing \in SUBSET Settings
  /\ op \in [Ops -> Op]

Init ==
  /\ missing \in SUBSET Settings
  /\ op = [o \in Ops |-> Idle]

-----------------------------------------------------------------------------
(* The operations, up to their first request *)

Refused(k) ==
  [Idle EXCEPT !.operation = k, !.pc = "done", !.answer = "validationError"]

Started(k, r) ==
  [Idle EXCEPT !.operation = k, !.pc = "ready", !.request = r, !.attempt = 1]

\* A prefill outside the contract, or no account, template or form, is refused
\* at once
Create(o, k, r, valid) ==
  /\ op[o].pc = "idle"
  /\ op' = [op EXCEPT ![o] = IF valid /\ {"account", "document"} \cap missing = {}
                              THEN Started(k, r) ELSE Refused(k)]
  /\ UNCHANGED missing

CreateEnvelope(o, valid) == Create(o, "createEnvelope", "envelope", valid)

CreateHostedFormInstance(o, valid) ==
  Create(o, "createHostedFormInstance", "instance", valid)

GetSigningUrl(o) ==
  /\ op[o].pc = "idle"
  /\ op' = [op EXCEPT ![o] = Started("getSigningUrl", "view")]
  /\ UNCHANGED missing

GetEnvelopeStatus(o) ==
  /\ op[o].pc = "idle"
  /\ op' = [op EXCEPT ![o] = Started("getEnvelopeStatus", "status")]
  /\ UNCHANGED missing

-----------------------------------------------------------------------------
(* withRetry *)

\* Anything that is not a reply of DocuSign counts as worth another attempt,
\* a missing setting included
ShouldRetry(e) == e \notin ClientErrors

\* What each operation makes of the error that ended it
AnswerTo(k, e) ==
  CASE k = "getEnvelopeStatus" -> IF e = "notFound" THEN "envelopeNotFound"
                                  ELSE "providerUnavailable"
    [] k = "getSigningUrl" -> IF e \in ClientErrors THEN "envelopeNotFound"
                              ELSE "providerUnavailable"
    [] OTHER -> IF e = "config" THEN "validationError"
                ELSE IF e \in ClientErrors THEN "envelopeCreationFailed"
                ELSE "providerUnavailable"

\* An attempt of x failed with e
Failed(x, e) ==
  IF ShouldRetry(e) /\ x.attempt < MaxAttempts
  THEN [x EXCEPT !.pc = "sleeping", !.error = e]
  ELSE [x EXCEPT !.pc = "done", !.error = e, !.answer = AnswerTo(x.operation, e)]

\* Mutant: the next attempt starts from the operation's first request
WakeFromTheTop(o) ==
  /\ op[o].pc = "sleeping"
  /\ op' = [op EXCEPT ![o].pc = "ready", ![o].attempt = @ + 1,
                      ![o].request = IF op[o].operation = "createEnvelope"
                                     THEN "envelope" ELSE @]
  /\ UNCHANGED missing

\* Mutant: the last attempt is never made
WakeButLast(o) ==
  /\ op[o].pc = "sleeping"
  /\ op[o].attempt + 1 < MaxAttempts
  /\ op' = [op EXCEPT ![o].pc = "ready", ![o].attempt = @ + 1]
  /\ UNCHANGED missing

Wake(o) ==
  /\ op[o].pc = "sleeping"
  /\ op' = [op EXCEPT ![o].pc = "ready", ![o].attempt = @ + 1]
  /\ UNCHANGED missing

-----------------------------------------------------------------------------
(* One attempt *)

\* A request needs the account and the grant's credentials, and a signing URL
\* the URL to return to: looked at when it is about to be made, not before
Configured(o) ==
  /\ {"account", "credentials"} \cap missing = {}
  /\ op[o].request = "view" => "returnUrl" \notin missing

LacksSetting(o) ==
  /\ op[o].pc = "ready"
  /\ ~Configured(o)
  /\ op' = [op EXCEPT ![o] = Failed(@, "config")]
  /\ UNCHANGED missing

\* The access token cannot be had: refused, or no answer to the grant
TokenFails(o, e) ==
  /\ op[o].pc = "ready"
  /\ Configured(o)
  /\ op' = [op EXCEPT ![o] = Failed(@, e)]
  /\ UNCHANGED missing

Send(o) ==
  /\ op[o].pc = "ready"
  /\ Configured(o)
  /\ op' = [op EXCEPT ![o].pc = "sent"]
  /\ UNCHANGED missing

\* Done as asked, and the reply read. An envelope is then given its URL, with
\* attempts of its own
Accepted(x) ==
  CASE x.request = "envelope" ->
         [x EXCEPT !.pc = "ready", !.request = "view", !.attempt = 1, !.made = x.made + 1]
    [] x.request = "instance" ->
         [x EXCEPT !.pc = "done", !.answer = "ok", !.made = x.made + 1]
    [] OTHER -> [x EXCEPT !.pc = "done", !.answer = "ok"]

Accept(o) ==
  /\ op[o].pc = "sent"
  /\ op' = [op EXCEPT ![o] = Accepted(@)]
  /\ UNCHANGED missing

\* DocuSign says no
Reject(o, e) ==
  /\ op[o].pc = "sent"
  /\ op' = [op EXCEPT ![o] = Failed(@, e)]
  /\ UNCHANGED missing

\* A creation that may have happened
Unknown(x, carriedOut) ==
  [x EXCEPT !.made = IF carriedOut THEN x.made + 1 ELSE x.made,
            !.unknown = x.unknown + 1]

\* DocuSign fails, or its reply does not arrive: the request may have been
\* carried out
Lose(o, carriedOut) ==
  /\ op[o].pc = "sent"
  /\ op' = [op EXCEPT ![o] =
       Failed(IF @.request \in Creations THEN Unknown(@, carriedOut) ELSE @, "transient")]
  /\ UNCHANGED missing

-----------------------------------------------------------------------------

Call(o) ==
  \/ \E valid \in BOOLEAN : CreateEnvelope(o, valid) \/ CreateHostedFormInstance(o, valid)
  \/ GetSigningUrl(o)
  \/ GetEnvelopeStatus(o)

\* What an operation does once called
Proceed(o) ==
  \/ Wake(o)
  \/ LacksSetting(o)
  \/ \E e \in ClientErrors \cup {"transient"} : TokenFails(o, e)
  \/ Send(o)
  \/ Accept(o)
  \/ \E e \in ClientErrors : Reject(o, e)
  \/ \E carriedOut \in BOOLEAN : Lose(o, carriedOut)

Next == \E o \in Ops : Call(o) \/ Proceed(o)

Spec == Init /\ [][Next]_callVars

-----------------------------------------------------------------------------
(* Properties *)

\* An operation leaves an envelope (or a form's instance) behind at DocuSign
\* only where a creation's reply did not tell: retries of the URL, refusals and
\* answers that were read make no second one.
OneUnlessUnknown == \A o \in Ops : op[o].made <= op[o].unknown + 1

\* However its attempts end, an operation makes no more of them at DocuSign
\* than it has attempts.
MadeWithinAttempts == \A o \in Ops : op[o].made <= MaxAttempts

\* What the caller is told fits what happened: a definite refusal by DocuSign
\* ends the operation at once and is not called an outage; an outage is
\* reported after all attempts and not before (asking for a status reports
\* one for every refusal but a 404); a creation that succeeded made something.
AnswerFits(x) ==
  /\ x.error \in ClientErrors => x.pc = "done"
  /\ x.answer = "envelopeCreationFailed" => x.error \in ClientErrors
  /\ x.answer = "envelopeNotFound" =>
       /\ x.error \in ClientErrors
       /\ x.operation \in {"getSigningUrl", "getEnvelopeStatus"}
  /\ x.answer = "providerUnavailable" /\ x.operation # "getEnvelopeStatus" =>
       x.attempt = MaxAttempts /\ x.error \notin ClientErrors
  /\ x.answer = "ok" =>
       x.made > 0 \/ x.operation \in {"getSigningUrl", "getEnvelopeStatus"}

AnswersFit == \A o \in Ops : AnswerFits(op[o])

\* What provider.ts:190 and its test (provider.test.ts:314) say of a setting the
\* envelope cannot do without: it is reported "before any request", as the
\* caller's error. So an operation refused as such has made nothing. The code
\* asks for the return URL only once the envelope exists.
RefusedBeforeAnyRequest == \A o \in Ops :
  op[o].answer = "validationError" => op[o].made = 0
=============================================================================
