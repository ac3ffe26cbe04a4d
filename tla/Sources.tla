------------------------------ MODULE Sources ------------------------------
(***************************************************************************)
(* The signing sources of esign-core and esign-react: where a component's  *)
(* session comes from, and how what its page posts is read.                *)
(*                                                                         *)
(*   proxy    createProxySigningSource: the service's GraphQL API          *)
(*   hosted   createWebFormsSource: a mint endpoint, against a watchdog    *)
(*   sdk      createDocuSignWebFormsSource: the same, mounted by DocuSign  *)
(*   public   createPublicUrlSource: a published form's URL                *)
(*                                                                         *)
(* A source outlives the components that use it (the host memoises it), so *)
(* one component's start() may still be on its way when the next one asks. *)
(* The endpoint, the network and the signer are external; each may never   *)
(* answer.  What the component does with a session is SigningFlow's.       *)
(***************************************************************************)
EXTENDS Naturals

CONSTANTS Kinds,     \* of {"proxy", "hosted", "sdk", "public"}
          Pinned,    \* the kinds of source the host gave an allowedOrigin
          MaxCalls,  \* bound on the calls of start() and restart()
          None

ASSUME KindsAreKnown == Kinds \subseteq {"proxy", "hosted", "sdk", "public"}
ASSUME CallsAreCounted == MaxCalls \in Nat

Calls == 1..MaxCalls

\* What a page can have told a component
Meanings == {"complete", "cancel", "decline", "sessionExpired", "error"}

ASSUME NoneIsNone == None \notin Calls /\ None \notin Meanings

VARIABLES
  kind,         \* the source
  call,         \* the calls of start() and restart()
  asked,        \* how many there have been
  resolvedUrl,  \* sdk: the URL its last answered start() got
  overlapped,   \* ghost: a start was asked for while another was on its way
  waiting,      \* the call the component awaits
  session,      \* the component's session: the call it came from
  mountedUrl,   \* the URL its page shows
  posted,       \* what was posted to the window and nobody has read yet
  told,         \* the events the component was told, with what had happened
  script,       \* sdk: DocuSign's script, by its tag in the document
  mounting      \* the session whose mount() awaits the script or the SDK

scriptVars == <<script, mounting>>
vars == <<kind, call, asked, resolvedUrl, overlapped, waiting, session,
          mountedUrl, posted, told, scriptVars>>

-----------------------------------------------------------------------------
(* What pages post and how it is read.  A message is a function from the    *)
(* fields it has to words; one that is no JSON object has no field.         *)

\* interpretBridgeEvent: the five words of the bridge protocol, in `event`
BridgeWords ==
  [signing_complete |-> "complete", cancel |-> "cancel", decline |-> "decline",
   session_timeout |-> "sessionExpired", exception |-> "error"]

InterpretBridge(message) ==
  IF "event" \in DOMAIN message /\ message["event"] \in DOMAIN BridgeWords
  THEN BridgeWords[message["event"]] ELSE None

\* DOCUSIGN_OUTCOME, and with the word honoured inside a sessionEnd envelope only
DocuSignOutcome ==
  [signingResult |-> "complete", formConfirmation |-> "complete",
   signing_complete |-> "complete", signingComplete |-> "complete",
   sessionTimeout |-> "sessionExpired", session_timeout |-> "sessionExpired",
   ttl_expired |-> "sessionExpired", cancel |-> "cancel",
   signingCancel |-> "cancel", decline |-> "decline", exception |-> "error"]

EnvelopeOutcome ==
  [w \in DOMAIN DocuSignOutcome \cup {"error"} |->
     IF w = "error" THEN "error" ELSE DocuSignOutcome[w]]

IsSessionEnd(message) ==
  \E f \in {"event", "type"} \cap DOMAIN message : message[f] = "sessionEnd"

Outcomes(message) ==
  IF IsSessionEnd(message) THEN EnvelopeOutcome ELSE DocuSignOutcome

\* The fields that may name the outcome, the first that does deciding
Candidates(message) ==
  IF IsSessionEnd(message)
  THEN <<"type", "sessionEndType", "returnValue", "event", "status">>
  ELSE <<"type", "returnValue", "event">>

InterpretDocuSign(message) ==
  LET fields == Candidates(message)
      named  == {i \in DOMAIN fields :
                   /\ fields[i] \in DOMAIN message
                   /\ message[fields[i]] \in DOMAIN Outcomes(message)}
  IN IF named = {} THEN None
     ELSE Outcomes(message)[message[fields[CHOOSE i \in named :
                                             \A k \in named : i <= k]]]

Interpret(message) ==
  IF kind = "proxy" THEN InterpretBridge(message) ELSE InterpretDocuSign(message)

\* mapDocuSignReturnEvent: the service's page DocuSign returns the signer to
ReturnEvent(raw) ==
  CASE raw \in {"signing_complete", "cancel", "decline", "session_timeout"} -> raw
    [] raw = "ttl_expired" -> "session_timeout"
    [] OTHER -> "exception"

\* The `event` DocuSign's ceremony returns with, and what happened by it
CeremonyReturns ==
  [signing_complete |-> "complete", cancel |-> "cancel", decline |-> "decline",
   session_timeout |-> "sessionExpired", ttl_expired |-> "sessionExpired",
   exception |-> "error", id_check_failed |-> "error"]

\* The mock pages' buttons: renderMockSigningPage, renderMockWebFormPage
SigningButtons ==
  [signing_complete |-> "complete", cancel |-> "cancel", decline |-> "decline",
   session_timeout |-> "sessionExpired"]

FormButtons ==
  [signingResult |-> "complete", cancel |-> "cancel", decline |-> "decline",
   sessionTimeout |-> "sessionExpired"]

\* DocuSign's own forms: sessionEnd, with the outcome in some other field
FormOutcomes ==
  [w \in DOMAIN FormButtons \cup {"formConfirmation", "signingCancel", "error"} |->
     CASE w \in DOMAIN FormButtons -> FormButtons[w]
       [] w = "formConfirmation"   -> "complete"
       [] w = "signingCancel"      -> "cancel"
       [] w = "error"              -> "error"]

Discriminators == {"type", "sessionEndType", "returnValue", "status"}

\* A message of the session's page, with what it reports
FromPage(message, meant) == [message |-> message, meant |-> meant, origin |-> "page"]

\* A sessionEnd, said in field f, with its word in field g
SessionEnd(f, g, word) == [x \in {f, g} |-> IF x = f THEN "sessionEnd" ELSE word]

\* Everything the page of a session may report
Reports ==
  IF kind = "proxy"
  THEN {FromPage([event |-> ReturnEvent(raw)], CeremonyReturns[raw]) :
          raw \in DOMAIN CeremonyReturns}
       \cup {FromPage([event |-> w], SigningButtons[w]) : w \in DOMAIN SigningButtons}
  ELSE {FromPage(SessionEnd("event", g, w), FormOutcomes[w]) :
          g \in Discriminators, w \in DOMAIN FormOutcomes}
       \cup {FromPage(SessionEnd("type", g, w), FormOutcomes[w]) :
               g \in Discriminators \ {"type"}, w \in DOMAIN FormOutcomes}

\* Messages the window hears that report nothing: the page's own progress,
\* other embeds, extensions, text
Noise ==
  {FromPage(message, None) :
     message \in {[f \in {} |-> None], [event |-> "ready"], [type |-> "userActivity"],
                  [event |-> "viewing_complete"], [type |-> "error"], [status |-> "error"],
                  [event |-> "sessionEnd"], [status |-> "cancel"]}}

\* What other frames of the window post may be a signing page's too: that of
\* another component, or of a session that is over.  An SDK hears its own only
Foreign ==
  IF kind = "sdk" THEN {}
  ELSE {[r EXCEPT !.meant = None, !.origin = "elsewhere"] : r \in Reports}

\* isAllowedOrigin: a pinned origin is the only one listened to
IsAllowedOrigin(r) == kind \in Pinned => r.origin = "page"

-----------------------------------------------------------------------------
(* Calls                                                                    *)

\* A call: what was asked (restarts carry the envelope), how far run() is, the
\* watchdog, what start() or restart() settled with, and (a ghost) how it was
\* refused
Idle == [op |-> "none", of |-> None, run |-> "idle", timer |-> "none",
         outcome |-> "pending", code |-> None, refusal |-> None,
         url |-> None, envelope |-> None]

Init ==
  /\ kind \in Kinds
  /\ call = [c \in Calls |-> Idle]
  /\ asked = 0
  /\ resolvedUrl = None
  /\ overlapped = FALSE
  /\ waiting = None
  /\ session = None
  /\ mountedUrl = None
  /\ posted = {}
  /\ told = {}
  /\ script = "absent"
  /\ mounting = None

\* The codes of the wire contract, and those a client or its server adds
ErrorCodes == {"ENVELOPE_NOT_FOUND", "ENVELOPE_CREATION_FAILED",
               "PROVIDER_UNAVAILABLE", "SESSION_EXPIRED", "UNAUTHORIZED",
               "VALIDATION_ERROR", "PERSISTENCE_FAILED"}
Codes == ErrorCodes \cup {"NETWORK_ERROR", "RESTART_FAILED", "INTERNAL_SERVER_ERROR"}

ASSUME NoneIsNoCode == None \notin Codes

CallState ==
  [op : {"none", "start", "restart"},
   of : Calls \cup {None},
   run : {"idle", "token", "asked", "answered"},
   timer : {"none", "set", "cleared", "fired"},
   outcome : {"pending", "session", "failed"},
   code : Codes \cup {None},
   refusal : ErrorCodes \cup {"uncoded", "unanswered", None},
   url : Calls \cup {None},
   envelope : Calls \cup {None}]

InFlight(c) == call[c].run \in {"token", "asked"}

\* The session a call settles with
Settled(c, url, envelope) ==
  [call[c] EXCEPT !.outcome = "session", !.url = url, !.envelope = envelope]

\* getErrorMessage: the copy for a code; for any other, the server's own words
Message(code) ==
  CASE code = "ENVELOPE_CREATION_FAILED" -> "creation"
    [] code = "VALIDATION_ERROR"         -> "input"
    [] code = "PERSISTENCE_FAILED"       -> "saving"
    [] code = "PROVIDER_UNAVAILABLE"     -> "later"
    [] code = "SESSION_EXPIRED"          -> "expired"
    [] code = "UNAUTHORIZED"             -> "refused"
    [] code = "ENVELOPE_NOT_FOUND"       -> "lost"
    [] code = "NETWORK_ERROR"            -> "connection"
    [] OTHER                             -> "server"

Failed(c, code) == [call[c] EXCEPT !.outcome = "failed", !.code = code]

\* Mutant: the timer is cleared by an answer, not by a failure
OverIfAnswered(settled) ==
  [settled EXCEPT !.timer = IF settled.outcome = "session" THEN "cleared" ELSE @]

\* withTimeout: the race is over, and the timer cleared either way
Over(settled) ==
  [settled EXCEPT !.timer = IF @ = "set" THEN "cleared" ELSE @]

(***************************************************************************)
(* start().  The mint call asks the host for its token first; the watchdog *)
(* of a hosted source runs from here.  A public source has its URL.        *)
(***************************************************************************)
Start ==
  LET c == asked + 1 IN
  /\ c \in Calls
  /\ waiting = None /\ session = None
  /\ asked' = c
  /\ waiting' = c
  /\ call' = [call EXCEPT ![c] =
       IF kind = "public"
       THEN [Settled(c, c, None) EXCEPT !.op = "start", !.run = "answered"]
       ELSE [Idle EXCEPT !.op = "start", !.run = "token",
                         !.timer = IF kind = "hosted" THEN "set" ELSE "none"]]
  /\ told' = {}
  /\ overlapped' = (overlapped \/ \E d \in Calls : InFlight(d))
  /\ UNCHANGED <<kind, resolvedUrl, session, mountedUrl, posted, scriptVars>>

\* restart(previous): for the envelope of the session that expired, or whose
\* last restart failed; without one it rejects before it asks anything
Restart ==
  LET c == asked + 1 IN
  /\ c \in Calls
  /\ kind = "proxy"
  /\ waiting = None /\ session # None /\ mountedUrl = None
  /\ asked' = c
  /\ waiting' = c
  /\ call' = [call EXCEPT ![c] =
       IF call[session].envelope = None
       THEN [Failed(c, "SESSION_EXPIRED") EXCEPT !.op = "restart", !.run = "answered"]
       ELSE [Idle EXCEPT !.op = "restart", !.run = "token",
                         !.of = call[session].envelope]]
  /\ UNCHANGED <<kind, resolvedUrl, overlapped, session, mountedUrl, posted, told,
                 scriptVars>>

\* getAuthToken resolved: the request is on its way
TokenArrives(c) ==
  /\ call[c].run = "token"
  /\ call' = [call EXCEPT ![c].run = "asked"]
  /\ UNCHANGED <<kind, asked, resolvedUrl, overlapped, waiting, session, mountedUrl,
                 posted, told, scriptVars>>

\* Mutant: a restart's session is of the reply alone
GoodAnew(c) ==
  LET ids == IF kind = "proxy" THEN {c} ELSE {c, None}
  IN {Settled(c, c, id) : id \in ids}

(***************************************************************************)
(* The answer, if one comes.  Good: a URL and, of the mint, an envelope or *)
(* an instance id, or neither.  Whatever comes after the race is lost.     *)
(***************************************************************************)
Good(c) ==
  LET ids == IF call[c].op = "restart" THEN {call[c].of}
             ELSE IF kind = "proxy" THEN {c} ELSE {c, None}
  IN {Settled(c, c, id) : id \in ids}

FallbackCode(c) ==
  IF call[c].op = "restart" THEN "RESTART_FAILED" ELSE "ENVELOPE_CREATION_FAILED"

\* What createEnvelope and getSigningUrl reject with in the service.  An entry
\* or a read the store refuses has no code, but in the transaction of a creation
Rejections(op) ==
  {"UNAUTHORIZED", "VALIDATION_ERROR", "PROVIDER_UNAVAILABLE"} \cup
  (IF op = "restart" THEN {"ENVELOPE_NOT_FOUND", "uncoded"}
                     ELSE {"ENVELOPE_CREATION_FAILED", "PERSISTENCE_FAILED"})

\* extensions.code in the reply: the GraphQL server names an error without one
Wire(rejection) ==
  IF rejection = "uncoded" THEN "INTERNAL_SERVER_ERROR" ELSE rejection

\* How a call may be refused: by the service, by the host's createInstance with
\* a code of its own, or by no answer a code could be read from (the token, the
\* network, another status, a reply without a URL)
Refusals(c) ==
  {"unanswered"} \cup
  (IF kind = "proxy" THEN Rejections(call[c].op) ELSE {"PROVIDER_UNAVAILABLE"})

\* Mutant: the code of the reply is not looked at
CodeOfFallback(c, refusal) == FallbackCode(c)

\* The code it carries (getApolloErrorCode, isCodedObject), or else the fallback
CodeOf(c, refusal) ==
  IF refusal = "unanswered" THEN FallbackCode(c) ELSE Wire(refusal)

Refused(c, refusal) ==
  [Failed(c, CodeOf(c, refusal)) EXCEPT !.refusal = refusal]

Bad(c) == {Refused(c, refusal) : refusal \in Refusals(c)}

\* Mutant: the SDK source keeps the first URL it got
AnswerKeepsFirst(c) ==
  /\ call[c].run = "asked"
  /\ \E a \in Good(c) \cup Bad(c) :
       /\ call' = [call EXCEPT ![c] =
            [(IF call[c].outcome = "pending" THEN Over(a) ELSE call[c])
               EXCEPT !.run = "answered"]]
       /\ resolvedUrl' = IF kind = "sdk" /\ a.outcome = "session" /\ resolvedUrl = None
                         THEN a.url ELSE resolvedUrl
  /\ UNCHANGED <<kind, asked, overlapped, waiting, session, mountedUrl, posted, told,
                 scriptVars>>

Answer(c) ==
  /\ call[c].run = "asked"
  /\ \E a \in Good(c) \cup Bad(c) :
       /\ call' = [call EXCEPT ![c] =
            [(IF call[c].outcome = "pending" THEN Over(a) ELSE call[c])
               EXCEPT !.run = "answered"]]
       /\ resolvedUrl' = IF kind = "sdk" /\ a.outcome = "session"
                         THEN a.url ELSE resolvedUrl
  /\ UNCHANGED <<kind, asked, overlapped, waiting, session, mountedUrl, posted, told,
                 scriptVars>>

\* getAuthToken rejects
TokenFails(c) ==
  /\ call[c].run = "token"
  /\ call' = [call EXCEPT ![c] =
       [(IF call[c].outcome = "pending" THEN Over(Refused(c, "unanswered")) ELSE call[c])
          EXCEPT !.run = "answered"]]
  /\ UNCHANGED <<kind, asked, resolvedUrl, overlapped, waiting, session, mountedUrl,
                 posted, told, scriptVars>>

\* The watchdog fires: start() rejects, whatever run() does from here on
Watchdog(c) ==
  /\ call[c].timer = "set"
  /\ call' = [call EXCEPT ![c] = [Failed(c, "NETWORK_ERROR") EXCEPT !.timer = "fired"]]
  /\ UNCHANGED <<kind, asked, resolvedUrl, overlapped, waiting, session, mountedUrl,
                 posted, told, scriptVars>>

-----------------------------------------------------------------------------
(* The component                                                            *)

\* The call it awaited settled: a session's URL is embedded, or the SDK loads
Settle ==
  /\ waiting # None
  /\ call[waiting].outcome # "pending"
  /\ waiting' = None
  /\ told' = {}
  /\ IF call[waiting].outcome = "session"
     THEN /\ session' = waiting
          /\ mountedUrl' = IF kind = "sdk" THEN None ELSE call[waiting].url
     ELSE UNCHANGED <<session, mountedUrl>>
  /\ UNCHANGED <<kind, call, asked, resolvedUrl, overlapped, posted, scriptVars>>

\* A mount that fails is an error of the component's: it has no session any more
MountError ==
  /\ session' = None
  /\ told' = {[event |-> "error", meant |-> "error", origin |-> "page"]}

\* Mutant: with the tag there, the script is awaited that may never come
MountAwaitsTag ==
  /\ kind = "sdk"
  /\ session # None /\ mounting = None
  /\ mountedUrl = None /\ posted = {} /\ told = {}
  /\ script \in {"absent", "loaded"}
  /\ mounting' = session
  /\ script' = IF script = "absent" THEN "loading" ELSE script
  /\ UNCHANGED <<kind, call, asked, resolvedUrl, overlapped, waiting, session,
                 mountedUrl, posted, told>>

(***************************************************************************)
(* mount(), of a session that has no page yet.  Where the document has no  *)
(* tag of DocuSign's script it adds one and awaits it; where the script is *)
(* there it goes on to the SDK's own loading.  With a tag there the script *)
(* is taken to be: one that is on its way still, that failed (the tag      *)
(* stays) or that brought no SDK is an error at once.                      *)
(***************************************************************************)
Mount ==
  /\ kind = "sdk"
  /\ session # None /\ mounting = None
  /\ mountedUrl = None /\ posted = {} /\ told = {}
  /\ \/ /\ script \in {"absent", "loaded"}
        /\ mounting' = session
        /\ script' = IF script = "absent" THEN "loading" ELSE script
        /\ UNCHANGED <<session, told>>
     \/ /\ script \in {"loading", "failed"}
        /\ MountError
        /\ UNCHANGED scriptVars
  /\ UNCHANGED <<kind, call, asked, resolvedUrl, overlapped, waiting, mountedUrl, posted>>

\* The script arrives, or does not, or brings no SDK ("failed" too): then the
\* mount that awaited it throws, and else goes on to the SDK's loading
ScriptEnds ==
  /\ script = "loading"
  /\ script' \in {"loaded", "failed"}
  /\ IF script' = "failed" /\ mounting # None
     THEN MountError /\ mounting' = None
     ELSE UNCHANGED <<session, told, mounting>>
  /\ UNCHANGED <<kind, call, asked, resolvedUrl, overlapped, waiting, mountedUrl, posted>>

\* A mount awaits DocuSign's loadDocuSign, which nothing bounds
AwaitsSdk == script = "loaded" /\ mounting # None

\* loadDocuSign resolves: the page is the URL of the source's last start by then
SdkLoads ==
  /\ AwaitsSdk
  /\ mountedUrl' = resolvedUrl
  /\ mounting' = None
  /\ UNCHANGED <<kind, call, asked, resolvedUrl, overlapped, waiting, session, posted,
                 told, script>>

\* It rejects, or signing() or mount() of the SDK throws
SdkFails ==
  /\ AwaitsSdk
  /\ MountError
  /\ mounting' = None
  /\ UNCHANGED <<kind, call, asked, resolvedUrl, overlapped, waiting, mountedUrl, posted,
                 script>>

\* The host unmounts it, loading or signing; another is mounted, or it retries
Leave ==
  /\ waiting # None \/ session # None
  /\ waiting' = None
  /\ session' = None
  /\ mountedUrl' = None
  /\ posted' = {}
  /\ told' = {}
  /\ mounting' = None
  /\ UNCHANGED <<kind, call, asked, resolvedUrl, overlapped, script>>

\* Until it reports an outcome the page, or something else, posts
Post ==
  /\ mountedUrl # None /\ told = {} /\ posted = {}
  /\ posted' \in {{r} : r \in Reports \cup Noise \cup Foreign}
  /\ UNCHANGED <<kind, call, asked, resolvedUrl, overlapped, waiting, session,
                 mountedUrl, told, scriptVars>>

\* handleSigningMessage: what comes from elsewhere than the pinned origin, and
\* what the source makes nothing of, is dropped.  The page goes with its outcome;
\* an expired session is kept, for a restart.
Hear ==
  \E r \in posted :
    LET event == IF IsAllowedOrigin(r) THEN Interpret(r.message) ELSE None IN
    /\ posted' = posted \ {r}
    /\ IF event = None /\ r.meant = None THEN UNCHANGED <<told, session, mountedUrl>>
       ELSE /\ told' = {[event |-> event, meant |-> r.meant, origin |-> r.origin]}
            /\ mountedUrl' = IF event \in {None, "complete"} THEN mountedUrl ELSE None
            /\ session' = IF event \in {"cancel", "decline", "error"} THEN None ELSE session
    /\ UNCHANGED <<kind, call, asked, resolvedUrl, overlapped, waiting, scriptVars>>

Next ==
  \/ Start \/ Restart \/ Settle \/ Mount \/ ScriptEnds \/ SdkLoads \/ SdkFails
  \/ Leave \/ Post \/ Hear
  \/ \E c \in Calls :
       TokenArrives(c) \/ TokenFails(c) \/ Answer(c) \/ Watchdog(c)

\* A timer that is set fires, unless it is cleared; an effect of React's is run;
\* and a script loads or is given up by the browser.  Nothing is assumed of the
\* host's token, of the network, of the endpoint or of DocuSign's loadDocuSign.
Spec ==
  /\ Init /\ [][Next]_vars
  /\ \A c \in Calls : WF_vars(Watchdog(c))
  /\ WF_vars(Mount) /\ WF_vars(ScriptEnds)

-----------------------------------------------------------------------------
(* What the sources promise                                                 *)

TypeOK ==
  /\ kind \in Kinds
  /\ call \in [Calls -> CallState]
  /\ asked \in 0..MaxCalls
  /\ resolvedUrl \in Calls \cup {None}
  /\ overlapped \in BOOLEAN
  /\ waiting \in Calls \cup {None}
  /\ session \in Calls \cup {None}
  /\ mountedUrl \in Calls \cup {None}
  /\ script \in {"absent", "loading", "loaded", "failed"}
  /\ mounting \in Calls \cup {None}

\* A hosted source's start() settles though the host's token, the network or
\* the endpoint hang (hostedForm/source.ts:24-30: "a hung host fetch would leave
\* the component in `loading` forever"); and a component the SDK source gave a
\* session does not stay without a page, whatever became of DocuSign's script
\* and whoever asked for it: it shows one or is told, unless it is the SDK that
\* never loads (loadDocuSign has no watchdog, webFormsSource.ts:69).
WaitingEnds ==
  /\ \A c \in Calls :
       (kind = "hosted" /\ call[c].op = "start") ~> (call[c].outcome # "pending")
  /\ (kind = "sdk" /\ session # None)
       ~> (mountedUrl # None \/ told # {} \/ session = None \/ AwaitsSdk)

\* A timer is pending exactly as long as its call is: no handle is left behind
\* (withTimeout.ts:1-3), and no pending call is without its watchdog.
TimerGuardsTheCall ==
  \A c \in Calls :
    kind = "hosted" =>
      (call[c].timer = "set"
         <=> (call[c].op = "start" /\ call[c].outcome = "pending"))

\* A ceremony shows the form its component's session was minted for, whose id
\* completion reports.  The SDK source remembers one URL for all its callers, so
\* for it only as long as no two starts overlapped (webFormsSource.ts:109-128).
MountsItsSession ==
  mountedUrl # None =>
    (kind = "sdk" /\ overlapped) \/ mountedUrl = call[session].url

\* However often a session expires and is restarted, the component stays on the
\* envelope it started with, and its page is the newest one of that envelope.
RestartKeepsEnvelope ==
  [][(session # None /\ session' # None /\ session' # session) =>
       /\ call'[session'].envelope = call[session].envelope
       /\ call'[session'].url # call[session].url]_vars

\* The component is told what happened at its page, whichever page, field and
\* word says so; and nothing that reports no outcome drives it (bridge.ts:27-50,
\* events.ts:55-98, and the pages that post), nor, with a pinned origin, what any
\* other page says of a session of its own (origin.ts:8-12).
TellsTheOutcome ==
  \A e \in told : e.origin = "page" \/ kind \in Pinned => e.event = e.meant

\* And the signer reads why a call failed (messages.ts): the service's own
\* refusal; a lost connection only when nothing came in time; an expired
\* session only where there is no envelope to restart; and what no copy is
\* written for only when a restart failed.
SaysWhyItFailed ==
  \A c \in Calls : call[c].outcome = "failed" =>
    /\ call[c].refusal \in ErrorCodes => call[c].code = call[c].refusal
    /\ Message(call[c].code) = "connection" <=> call[c].timer = "fired"
    /\ Message(call[c].code) = "expired"
         <=> (call[c].op = "restart" /\ call[c].of = None)
    /\ Message(call[c].code) \in {"creation", "server"} =>
         (call[c].op = "restart" <=> Message(call[c].code) = "server")
    /\ Message(call[c].code) \in {"input", "saving", "refused", "lost"} =>
         call[c].refusal \in ErrorCodes

\* What the signer is told is what happened, of the page and of the call.
TellsWhatHappened == TellsTheOutcome /\ SaysWhyItFailed

=============================================================================
