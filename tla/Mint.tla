---------------------------------- MODULE Mint ----------------------------------
(***************************************************************************)
(* The mint endpoints, POST /webform/instance and POST /envelope/instance, *)
(* as the service mounts them: reading, authenticating and validating a    *)
(* request, asking the host for the terms it locks, calling the provider,  *)
(* and what each failure is answered with (esign-node/src/handlers.ts;     *)
(* prefill.ts, mint.ts and app.ts of esign-service). The provider's        *)
(* operations are those of ProviderCalls: a request makes at most one, and *)
(* the operation has the request's name.                                   *)
(*                                                                         *)
(* A value minted is known by who gave it, the client or the host. The     *)
(* verifier of sessions and the host's terms endpoint are external.        *)
(***************************************************************************)
EXTENDS ProviderCalls

CONSTANTS
  Fields,   \* the fields (or tabs) of a document
  NoReply   \* the host has not answered

VARIABLES
  conf,          \* what the service was started with
  mint,          \* the requests
  termsFailures  \* those whose terms could not be had

mintVars == <<conf, mint, termsFailures>>
vars == <<missing, op, conf, mint, termsFailures>>

\* The mode; whether ESIGN_PREFILL_URL names a host to ask; whether envelopes
\* are minted through the envelope domain, which stores them. It is loaded once,
\* and where that failed it fails for every request
Conf == {c \in [mode : {"webform", "envelope"}, terms : BOOLEAN,
                domain : {"off", "ready", "failed"}] :
           c.domain # "off" => c.mode = "envelope"}

\* A request's body. "bad" is a recipient of strings the provider could not
\* address; one that is not an object of strings makes the body malformed, as
\* does a prefill outside the contract
Body == [shape : {"notJson", "notObject", "malformed", "fine"},
         prefill : SUBSET Fields,
         recipient : {"absent", "bad", "good"}]

\* The host's answer: a 2xx with a prefill object, within the contract or not
Reply == [valid : BOOLEAN,
          prefill : SUBSET Fields,
          recipient : {"malformed", "bad", "good"}]

ASSUME NoReplyIsNone == NoReply \notin Reply

\* status is that of the response, 0 before it
MintRequest ==
  [pc : {"free", "reading", "authenticating", "asking", "minting", "storing", "answered"},
   body : Body,
   verified : BOOLEAN,
   reply : Reply \cup {NoReply},
   prefill : [Fields -> {"none", "client", "host"}],
   signer : {"none", "user", "client", "host"},
   stored : BOOLEAN,
   status : {0, 200, 400, 401, 502}]

Empty == [shape |-> "fine", prefill |-> {}, recipient |-> "absent"]

Free == [pc |-> "free", body |-> Empty, verified |-> FALSE, reply |-> NoReply,
         prefill |-> [f \in Fields |-> "none"], signer |-> "none",
         stored |-> FALSE, status |-> 0]

MintTypeOK ==
  /\ CallsTypeOK
  /\ conf \in Conf
  /\ mint \in [Ops -> MintRequest]
  /\ termsFailures \in SUBSET Ops

MintInit ==
  /\ Init
  /\ conf \in Conf
  /\ mint = [o \in Ops |-> Free]
  /\ termsFailures = {}

-----------------------------------------------------------------------------
(* Up to the provider *)

Answered(m, status) == [m EXCEPT !.pc = "answered", !.status = status]

Post(o, body) ==
  /\ mint[o].pc = "free"
  /\ op[o].pc = "idle"
  /\ mint' = [mint EXCEPT ![o] = [@ EXCEPT !.pc = "reading", !.body = body]]
  /\ UNCHANGED <<missing, op, conf, termsFailures>>

\* A body that is not JSON is refused before anyone asks who sent it
Read(o) ==
  /\ mint[o].pc = "reading"
  /\ mint' = [mint EXCEPT ![o] =
       IF @.body.shape = "notJson" THEN Answered(@, 400)
       ELSE [@ EXCEPT !.pc = "authenticating"]]
  /\ UNCHANGED <<missing, op, conf, termsFailures>>

\* The provider is called for m, with a prefill within the contract or not, if
\* an envelope has someone to sign it: a recipient the provider can address.
\* A form is signed by the user. Where the domain failed to load, nothing is asked
Submit(o, m, recipient, valid) ==
  /\ \/ /\ conf.mode = "webform"
        /\ CreateHostedFormInstance(o, valid)
        /\ mint' = [mint EXCEPT ![o] = [m EXCEPT !.pc = "minting", !.signer = "user"]]
     \/ /\ conf.mode = "envelope"
        /\ recipient = "good"
        /\ conf.domain # "failed"
        /\ CreateEnvelope(o, valid)
        /\ mint' = [mint EXCEPT ![o] = [m EXCEPT !.pc = "minting"]]
     \/ /\ conf.mode = "envelope"
        /\ recipient = "good"
        /\ conf.domain = "failed"
        /\ mint' = [mint EXCEPT ![o] = Answered(m, 502)]
        /\ UNCHANGED callVars
     \/ /\ conf.mode = "envelope"
        /\ recipient # "good"
        /\ mint' = [mint EXCEPT ![o] = Answered(m, 400)]
        /\ UNCHANGED callVars
  /\ UNCHANGED conf

\* What the client sent, as it is minted where no host is asked
AsSent(m) ==
  [m EXCEPT !.prefill = [f \in Fields |-> IF f \in m.body.prefill THEN "client" ELSE "none"],
            !.signer = "client"]

Unverified(o) ==
  /\ mint[o].pc = "authenticating"
  /\ mint' = [mint EXCEPT ![o] = Answered(@, 401)]
  /\ UNCHANGED <<missing, op, conf, termsFailures>>

Verified(o) ==
  /\ mint[o].pc = "authenticating"
  /\ LET m == [mint[o] EXCEPT !.verified = TRUE]
     IN \/ /\ m.body.shape # "fine"
           /\ mint' = [mint EXCEPT ![o] = Answered(m, 400)]
           /\ UNCHANGED <<missing, op, conf>>
        \/ /\ m.body.shape = "fine"
           /\ conf.terms
           /\ mint' = [mint EXCEPT ![o] = [m EXCEPT !.pc = "asking"]]
           /\ UNCHANGED <<missing, op, conf>>
        \/ /\ m.body.shape = "fine"
           /\ ~conf.terms
           /\ Submit(o, AsSent(m), m.body.recipient, TRUE)
  /\ UNCHANGED termsFailures

-----------------------------------------------------------------------------
(* The host's terms *)

\* Mutant: the client's values are laid over the host's
MergedUnder(m, reply) ==
  [f \in Fields |-> IF f \in m.body.prefill THEN "client"
                    ELSE IF f \in reply.prefill THEN "host" ELSE "none"]

\* A form's prefill: the host's answer laid over the client's, key by key
Merged(m, reply) ==
  [f \in Fields |-> IF f \in reply.prefill THEN "host"
                    ELSE IF f \in m.body.prefill THEN "client" ELSE "none"]

\* An envelope's: the host's answer and nothing else
HostsOwn(reply) == [f \in Fields |-> IF f \in reply.prefill THEN "host" ELSE "none"]

\* Whether the hook takes a reply for an answer. A form's is not looked into
Acceptable(reply) ==
  conf.mode = "webform" \/ (reply.valid /\ reply.recipient # "malformed")

HostAnswers(o, reply) ==
  /\ mint[o].pc = "asking"
  /\ Acceptable(reply)
  /\ LET m == [mint[o] EXCEPT !.reply = reply]
     IN Submit(o,
               [m EXCEPT !.prefill = IF conf.mode = "webform" THEN Merged(m, reply)
                                     ELSE HostsOwn(reply),
                         !.signer = "host"],
               reply.recipient, reply.valid)
  /\ UNCHANGED termsFailures

\* Mutant: the request is not marked
HostFailsUnmarked(o) ==
  /\ mint[o].pc = "asking"
  /\ mint' = [mint EXCEPT ![o] = Answered(@, 502)]
  /\ UNCHANGED <<missing, op, conf, termsFailures>>

\* A non-2xx, a timeout, no prefill object, or a reply that is not acceptable:
\* the request is marked, and createESignApp rewrites its 502
HostFails(o) ==
  /\ mint[o].pc = "asking"
  /\ termsFailures' = termsFailures \cup {o}
  /\ mint' = [mint EXCEPT ![o] = Answered(@, 502)]
  /\ UNCHANGED <<missing, op, conf>>

-----------------------------------------------------------------------------
(* The provider's answer *)

\* Mutant: an outage is answered as the caller's error
StatusOfBlunt(answer) == IF answer = "ok" THEN 200 ELSE 400

\* mintFailure: what the caller can put right is a 400
StatusOf(answer) ==
  CASE answer = "ok" -> 200
    [] answer = "validationError" -> 400
    [] OTHER -> 502

\* Mutant: the mint answers as soon as the provider has, stored or not
DeliverUnstored(o) ==
  /\ mint[o].pc = "minting"
  /\ op[o].pc = "done"
  /\ mint' = [mint EXCEPT ![o] = Answered(@, StatusOf(op[o].answer))]
  /\ UNCHANGED <<missing, op, conf, termsFailures>>

Deliver(o) ==
  /\ mint[o].pc = "minting"
  /\ op[o].pc = "done"
  /\ mint' = [mint EXCEPT ![o] =
       IF op[o].answer = "ok" /\ conf.domain = "ready" THEN [@ EXCEPT !.pc = "storing"]
       ELSE Answered(@, StatusOf(op[o].answer))]
  /\ UNCHANGED <<missing, op, conf, termsFailures>>

\* Through the domain, the envelope is stored before the mint answers
Store(o) ==
  /\ mint[o].pc = "storing"
  /\ mint' = [mint EXCEPT ![o] = [Answered(@, 200) EXCEPT !.stored = TRUE]]
  /\ UNCHANGED <<missing, op, conf, termsFailures>>

StoreFails(o) ==
  /\ mint[o].pc = "storing"
  /\ mint' = [mint EXCEPT ![o] = Answered(@, 502)]
  /\ UNCHANGED <<missing, op, conf, termsFailures>>

-----------------------------------------------------------------------------

\* The bodies told apart: what is refused is refused whatever else it holds
Bodies == {b \in Body : b.shape = "fine" \/ b = [Empty EXCEPT !.shape = b.shape]}

\* Calls of the provider that no mint makes: the envelope domain's, or a host's own
CallDirectly(o) ==
  /\ mint[o].pc = "free"
  /\ GetSigningUrl(o) \/ GetEnvelopeStatus(o)
  /\ UNCHANGED mintVars

ProviderProceeds(o) == Proceed(o) /\ UNCHANGED mintVars

\* What the service does with a request it has received
Handle(o) ==
  \/ Read(o)
  \/ Unverified(o)
  \/ Verified(o)
  \/ \E reply \in Reply : HostAnswers(o, reply)
  \/ HostFails(o)
  \/ Deliver(o)
  \/ Store(o)
  \/ StoreFails(o)

MintNext ==
  \E o \in Ops :
    \/ \E body \in Bodies : Post(o, body)
    \/ CallDirectly(o)
    \/ Handle(o)
    \/ ProviderProceeds(o)

MintSpec == MintInit /\ [][MintNext]_vars

\* A request runs to its answer: the verifier, the host (within its timeout) and
\* the store answer or fail, a request to DocuSign gets a reply or an error, and
\* a delay ends
FairMintSpec ==
  MintSpec /\ \A o \in Ops : WF_vars(Handle(o) \/ ProviderProceeds(o))

-----------------------------------------------------------------------------
(* Properties *)

\* prefill.ts: "the client's prefill is intent, never a locked value". Whatever
\* the provider was asked to make was asked for by a verified caller; where a
\* host is to be asked, it did answer, each field it named has its value, and
\* of an envelope it gave every value and the signer.
MintedAsAllowed == \A o \in Ops :
  mint[o].signer # "none" =>
    /\ mint[o].verified
    /\ conf.terms =>
         /\ mint[o].reply # NoReply
         /\ \A f \in mint[o].reply.prefill : mint[o].prefill[f] = "host"
         /\ conf.mode = "envelope" =>
              /\ mint[o].signer = "host"
              /\ \A f \in Fields : mint[o].prefill[f] # "client"

\* prefill.ts, "Fail closed": a request whose terms could not be had is answered
\* 502 and never gets to the provider; and of the 502s these, which come before
\* any value is settled, are the ones blamed on the host.
TermsFailClosed == \A o \in Ops :
  o \in termsFailures <=>
    op[o].pc = "idle" /\ mint[o].status = 502 /\ mint[o].signer = "none"

\* A caller told that the request is at fault (400, 401) has left nothing behind
\* at the provider, not even by an attempt whose reply was lost. That is with the
\* return URL configured: RefusedBeforeAnyRequest is about the case without.
RefusedMeansUntouched == \A o \in Ops :
  mint[o].status \in {400, 401} /\ "returnUrl" \notin missing => op[o].made = 0

\* A 200 is about something that exists, with someone to sign it, and stored
\* where envelopes are; and what is stored was answered with a 200.
SuccessIsReal == \A o \in Ops :
  /\ mint[o].status = 200 =>
       /\ op[o].made > 0
       /\ op[o].answer = "ok"
       /\ mint[o].signer # "none"
       /\ conf.domain # "off" => mint[o].stored
  /\ mint[o].stored => mint[o].status = 200

\* Every request to the mint is answered in the end, through all retries, and
\* every other call of the provider too.
EveryoneIsAnswered == \A o \in Ops :
  /\ mint[o].pc # "free" ~> mint[o].pc = "answered"
  /\ op[o].pc # "idle" ~> op[o].pc = "done"
=============================================================================
