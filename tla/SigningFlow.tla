----------------------------- MODULE SigningFlow -----------------------------
(***************************************************************************)
(* The signing hooks and their screens: useESignature and ESignature of    *)
(* esign-react (an iframe, or a ceremony mounted by DocuSign's SDK) and of *)
(* esign-react-native (a WebView), over SigningMachine.                    *)
(*                                                                         *)
(* The hook keeps the live state in a ref; React commits it later, and the *)
(* buttons, listeners and embedded pages are those of the state committed  *)
(* last.  An update made by a click is committed before the next event.    *)
(* The page, the network, the source and the signer are external.          *)
(***************************************************************************)
EXTENDS Naturals, Sequences

CONSTANTS
  Hosts,     \* of {"iframe", "sdk", "webview"}: how the page is embedded
  None,
  MaxStarts, \* bound on the sessions asked of the source
  MaxProbes, \* bound on the connectivity probes at once
  MaxPosts,  \* what one page posts: DocuSign's "deliver a single sessionEnd event"
  MaxRenders \* bound on the host's renders with other callbacks, on its signing screen

Sessions == 1 .. MaxStarts

ASSUME HostsAreKnown == Hosts \subseteq {"iframe", "sdk", "webview"}
ASSUME BoundsAreNatural == {MaxStarts, MaxProbes, MaxPosts, MaxRenders} \subseteq Nat
ASSUME NoneIsNone == None \notin Sessions /\ None \notin {"SESSION_EXPIRED", "other"}

VARIABLES
  host,        \* how this component embeds the page
  restartable, \* whether its source can restart a session
  m,           \* stateRef: the live state of the machine
  shown,       \* the state React committed last
  mounted,     \* mountedRef
  starts,      \* sessions asked for so far
  acquiring,   \* those not answered yet
  envelopeOf,  \* the envelope of each session (0: not asked for)
  probing,     \* sign() calls that await the connectivity probe (WebView)
  checking,    \* isCheckingConnection (WebView)
  timers,      \* success timers pending
  armed,       \* success timers armed so far; successTimeoutRef is the last
  inbox,       \* what pages posted and nobody has received yet
  posts,       \* what the page of each session has posted, in order
  sdk,         \* the mount of the current effect: "none", "mounting", "open", "failed"
  stale,       \* mounts under way whose effect was undone
  ceremonies,  \* SDK ceremonies open
  renders,     \* renders of the host so far that undid and redid the SDK effect
  told         \* the host callbacks made, in order

machineVars == <<m, shown, mounted>>
sourceVars == <<starts, acquiring, envelopeOf>>
probeVars == <<probing, checking>>
timerVars == <<timers, armed>>
pageVars == <<inbox, posts>>
sdkVars == <<sdk, stale, ceremonies>>
vars == <<host, restartable, machineVars, sourceVars, probeVars, timerVars, pageVars,
          sdkVars, renders, told>>

Core == INSTANCE SigningMachine

Envelopes == 0 .. MaxStarts
Message == [session : Sessions, type : Core!EventType, place : Nat]
Timer == [place : Nat, envelope : Envelopes]
Callback == [kind : {"complete", "error", "cancel"}, envelope : Envelopes]

TypeOK ==
  /\ host \in Hosts
  /\ restartable \in BOOLEAN
  /\ m \in Core!Machine
  /\ shown \in Core!Machine
  /\ mounted \in BOOLEAN
  /\ starts \in 0 .. MaxStarts
  /\ acquiring \subseteq Sessions
  /\ envelopeOf \in [Sessions -> Envelopes]
  /\ probing \in Nat
  /\ checking \in BOOLEAN
  /\ timers \subseteq Timer
  /\ armed \in Nat
  /\ inbox \subseteq Message
  /\ posts \in [Sessions -> Seq(Core!EventType)]
  /\ sdk \in {"none", "mounting", "open", "failed"}
  /\ stale \in Nat
  /\ ceremonies \in Nat
  /\ renders \in 0 .. MaxRenders
  /\ told \in Seq(Callback)

Init ==
  /\ host \in Hosts
  /\ restartable \in BOOLEAN
  /\ m = Core!InitialSigningState
  /\ shown = Core!InitialSigningState
  /\ mounted = TRUE
  /\ starts = 0
  /\ acquiring = {}
  /\ envelopeOf = [s \in Sessions |-> 0]
  /\ probing = 0
  /\ checking = FALSE
  /\ timers = {}
  /\ armed = 0
  /\ inbox = {}
  /\ posts = [s \in Sessions |-> <<>>]
  /\ sdk = "none"
  /\ stale = 0
  /\ ceremonies = 0
  /\ renders = 0
  /\ told = <<>>

-----------------------------------------------------------------------------
(* apply, beginSigning, and the commits of React *)

EnvelopeOf(s) == IF s = None THEN 0 ELSE envelopeOf[s]

\* apply: the next state, and its effect; a completion is of envelope e
Apply(outcome, e) ==
  /\ m' = outcome.state
  /\ IF outcome.effect = "complete"
     THEN /\ armed' = armed + 1
          /\ timers' = timers \cup {[place |-> armed + 1, envelope |-> e]}
     ELSE UNCHANGED timerVars
  /\ told' = IF outcome.effect \in {"error", "cancel"}
             THEN Append(told, [kind |-> outcome.effect, envelope |-> 0])
             ELSE told

\* beginSigning, up to its await: a new session is asked for, of a new
\* envelope or, by a restart, of an old one
BeginSigning(before, e) ==
  /\ starts < MaxStarts
  /\ starts' = starts + 1
  /\ acquiring' = acquiring \cup {starts + 1}
  /\ envelopeOf' = [envelopeOf EXCEPT ![starts + 1] = e]
  /\ Apply(Core!Acquire(before), 0)

\* The SDK effect is undone: an open ceremony is closed, and a mount still
\* under way will be
UndoneMount ==
  /\ stale' = IF sdk = "mounting" THEN stale + 1 ELSE stale
  /\ ceremonies' = IF sdk = "open" THEN ceremonies - 1 ELSE ceremonies

UndoMount == sdk' = "none" /\ UndoneMount

\* React commits state n; the SDK effect depends on its status
Show(n) ==
  /\ shown' = n
  /\ IF host = "sdk" /\ shown.status # "signing" /\ n.status = "signing"
     THEN sdk' = "mounting" /\ UNCHANGED <<stale, ceremonies>>
     ELSE IF host = "sdk" /\ shown.status = "signing" /\ n.status # "signing"
          THEN UndoMount
          ELSE UNCHANGED sdkVars

Commit ==
  /\ mounted
  /\ m # shown
  /\ Show(m)
  /\ UNCHANGED <<host, restartable, renders, m, mounted, sourceVars, probeVars, timerVars, pageVars, told>>

SessionExpired == shown.error = "SESSION_EXPIRED"

\* What each screen offers to press. (Cancel, on the first, only calls onCancel.)
Buttons ==
  [idle    |-> {"sign"},
   loading |-> {},
   signing |-> {},
   success |-> {},
   error   |-> {IF SessionExpired THEN "restart" ELSE "retry"},
   offline |-> IF host = "webview" /\ checking THEN {} ELSE {"checkConnection"}]

\* A press on a button of the screen; what it changes is committed at once
Click(button) ==
  /\ mounted
  /\ button \in Buttons[shown.status]
  /\ UNCHANGED <<host, restartable, renders, mounted, pageVars>>

-----------------------------------------------------------------------------
(* sign, checkConnection, retry, restart *)

\* navigator.onLine is read at once
SignOnline ==
  /\ host # "webview"
  /\ Click("sign")
  /\ BeginSigning(m, starts + 1)
  /\ Show(m')
  /\ UNCHANGED probeVars

SignOffline ==
  /\ host # "webview"
  /\ Click("sign")
  /\ Apply(Core!Offline(m), 0)
  /\ Show(m')
  /\ UNCHANGED <<sourceVars, probeVars>>

\* The WebView's hook asks NetInfo; the screen stays until it answers
SignProbes ==
  /\ host = "webview"
  /\ Click("sign")
  /\ probing < MaxProbes
  /\ probing' = probing + 1
  /\ UNCHANGED <<checking, m, shown, sourceVars, timerVars, sdkVars, told>>

ProbeOnline ==
  /\ probing > 0
  /\ probing' = probing - 1
  /\ BeginSigning(m, starts + 1)
  /\ UNCHANGED <<host, restartable, renders, shown, mounted, checking, pageVars, sdkVars>>

ProbeOffline ==
  /\ probing > 0
  /\ probing' = probing - 1
  /\ Apply(Core!Offline(m), 0)
  /\ UNCHANGED <<host, restartable, renders, shown, mounted, sourceVars, checking, pageVars, sdkVars>>

\* Still offline: nothing happens
CheckOnline ==
  /\ host # "webview"
  /\ Click("checkConnection")
  /\ Apply(Core!Online(m), 0)
  /\ Show(m')
  /\ UNCHANGED <<sourceVars, probeVars>>

\* The WebView's hook asks NetInfo here too
CheckProbes ==
  /\ host = "webview"
  /\ Click("checkConnection")
  /\ checking' = TRUE
  /\ UNCHANGED <<probing, m, shown, sourceVars, timerVars, sdkVars, told>>

CheckAnswered ==
  /\ checking
  /\ checking' = FALSE
  /\ \/ Apply(Core!Online(m), 0)
     \/ UNCHANGED <<m, timerVars, told>>
  /\ UNCHANGED <<host, restartable, renders, shown, mounted, sourceVars, probing, pageVars, sdkVars>>

\* resolveRestart: the source can restart, and a session was kept
CanRestart == restartable /\ m.session # None

\* A restart that cannot be falls back to a retry
RetrySigning ==
  /\ \/ Click("retry")
     \/ Click("restart") /\ ~CanRestart
  /\ Apply(Core!Retry(m), 0)
  /\ Show(m')
  /\ UNCHANGED <<sourceVars, probeVars>>

RestartSigning ==
  /\ Click("restart")
  /\ CanRestart
  /\ BeginSigning(Core!Restart(m).state, envelopeOf[m.session])
  /\ Show(m')
  /\ UNCHANGED probeVars

-----------------------------------------------------------------------------
(* The source answers *)

\* Mutant: the answer is applied whether or not the component is still there
AcquireEndsUnguarded(s, outcome) ==
  /\ s \in acquiring
  /\ acquiring' = acquiring \ {s}
  /\ Apply(outcome, 0)
  /\ UNCHANGED <<host, restartable, renders, shown, mounted, starts, envelopeOf, probeVars, pageVars,
                 sdkVars>>

\* A late answer changes nothing
AcquireEnds(s, outcome) ==
  /\ s \in acquiring
  /\ acquiring' = acquiring \ {s}
  /\ IF mounted THEN Apply(outcome, 0) ELSE UNCHANGED <<m, timerVars, told>>
  /\ UNCHANGED <<host, restartable, renders, shown, mounted, starts, envelopeOf, probeVars, pageVars,
                 sdkVars>>

SourceAnswers(s) ==
  \/ AcquireEnds(s, Core!Acquired(m, s))
  \/ \E code \in Core!Code : AcquireEnds(s, Core!AcquireFailed(m, code))

-----------------------------------------------------------------------------
(* The page and its messages *)

OnSigningScreen == mounted /\ shown.status = "signing"

\* The page of session s is on the screen
Embedded(s) ==
  /\ OnSigningScreen
  /\ shown.url = s
  /\ host = "sdk" => sdk = "open"

\* The page posts an event
Post(s, type) ==
  /\ Embedded(s)
  /\ Len(posts[s]) < MaxPosts
  /\ posts' = [posts EXCEPT ![s] = Append(@, type)]
  /\ inbox' = inbox \cup {[session |-> s, type |-> type, place |-> Len(posts[s]) + 1]}
  /\ UNCHANGED <<host, restartable, renders, machineVars, sourceVars, probeVars, timerVars, sdkVars, told>>

\* Messages of one page are received in order
Deliverable == {msg \in inbox : \A other \in inbox :
                  other.session = msg.session => msg.place <= other.place}

\* An iframe's message reaches the window, whose listener is there while the
\* screen is the signing one; a WebView's or a ceremony's goes with its view
Heard(s) ==
  /\ OnSigningScreen
  /\ host = "webview" => shown.url = s
  /\ host = "sdk" => sdk = "open"

\* A completion names the envelope it is of, or the live session's is taken
Receive(msg) ==
  /\ msg \in Deliverable
  /\ inbox' = inbox \ {msg}
  /\ Heard(msg.session)
  /\ \E e \in {envelopeOf[msg.session], EnvelopeOf(m.session)} :
       Apply(Core!OnEvent(m, msg.type), e)
  /\ UNCHANGED <<host, restartable, renders, shown, mounted, sourceVars, probeVars, posts, sdkVars>>

Ignore(msg) ==
  /\ msg \in Deliverable
  /\ inbox' = inbox \ {msg}
  /\ ~Heard(msg.session)
  /\ UNCHANGED <<host, restartable, renders, machineVars, sourceVars, probeVars, timerVars, posts,
                 sdkVars, told>>

-----------------------------------------------------------------------------
(* The SDK's mount *)

MountOpens ==
  /\ sdk = "mounting"
  /\ sdk' = "open"
  /\ ceremonies' = ceremonies + 1
  /\ UNCHANGED <<host, restartable, renders, machineVars, sourceVars, probeVars, timerVars, pageVars,
                 stale, told>>

\* Mutant: a mount that resolves after its effect was undone is left open
StaleMountStaysOpen ==
  /\ stale > 0
  /\ stale' = stale - 1
  /\ ceremonies' = ceremonies + 1
  /\ UNCHANGED <<host, restartable, renders, machineVars, sourceVars, probeVars, timerVars, pageVars,
                 sdk, told>>

\* One that resolves after its effect was undone is closed at once
StaleMountCloses ==
  /\ stale > 0
  /\ stale' = stale - 1
  /\ UNCHANGED <<host, restartable, renders, machineVars, sourceVars, probeVars, timerVars, pageVars,
                 sdk, ceremonies, told>>

\* One that fails is a signing error, whether or not its effect was undone
MountFails ==
  /\ \/ sdk = "mounting" /\ sdk' = "failed" /\ UNCHANGED stale
     \/ stale > 0 /\ stale' = stale - 1 /\ UNCHANGED sdk
  /\ Apply(Core!OnEvent(m, "error"), 0)
  /\ UNCHANGED <<host, restartable, renders, shown, mounted, sourceVars, probeVars, pageVars, ceremonies>>

\* The host renders with other callbacks: the effect is undone and done
\* again. (A render takes in what was to be committed.)
Rerender ==
  /\ host = "sdk"
  /\ OnSigningScreen
  /\ m = shown
  /\ renders < MaxRenders
  /\ renders' = renders + 1
  /\ sdk' = "mounting"
  /\ UndoneMount
  /\ UNCHANGED <<host, restartable, machineVars, sourceVars, probeVars, timerVars, pageVars, told>>

-----------------------------------------------------------------------------
(* The success timer, and the end *)

\* Mutant: the host is told only if the success screen is still shown
FireForScreen(t) ==
  /\ t \in timers
  /\ \A u \in timers : t.place <= u.place
  /\ timers' = timers \ {t}
  /\ told' = IF m.status = "success"
             THEN Append(told, [kind |-> "complete", envelope |-> t.envelope])
             ELSE told
  /\ m' = Core!Settled(m).state
  /\ UNCHANGED <<host, restartable, renders, shown, mounted, sourceVars, probeVars, armed,
                 pageVars, sdkVars>>

\* The oldest timer fires: onComplete, then settled
Fire(t) ==
  /\ t \in timers
  /\ \A u \in timers : t.place <= u.place
  /\ timers' = timers \ {t}
  /\ told' = Append(told, [kind |-> "complete", envelope |-> t.envelope])
  /\ m' = Core!Settled(m).state
  /\ UNCHANGED <<host, restartable, renders, shown, mounted, sourceVars, probeVars, armed, pageVars,
                 sdkVars>>

\* The host removes the component: the timer of the ref is cleared, the SDK
\* effect undone
Unmount ==
  /\ mounted
  /\ mounted' = FALSE
  /\ timers' = {t \in timers : t.place # armed}
  /\ IF host = "sdk" /\ shown.status = "signing" THEN UndoMount ELSE UNCHANGED sdkVars
  /\ UNCHANGED <<host, restartable, renders, m, shown, sourceVars, probeVars, armed, pageVars, told>>

-----------------------------------------------------------------------------
User == \/ SignOnline \/ SignOffline \/ SignProbes \/ CheckOnline \/ CheckProbes
        \/ RetrySigning \/ RestartSigning

Probes == ProbeOnline \/ ProbeOffline \/ CheckAnswered

Mounts == MountOpens \/ StaleMountCloses \/ MountFails

Next ==
  \/ Commit
  \/ User
  \/ Probes
  \/ \E s \in Sessions : SourceAnswers(s)
  \/ \E s \in Sessions, type \in Core!EventType : Post(s, type)
  \/ \E msg \in inbox : Receive(msg) \/ Ignore(msg)
  \/ Mounts
  \/ Rerender
  \/ \E t \in timers : Fire(t)
  \/ Unmount

Spec == Init /\ [][Next]_vars

\* React commits, probes and sources answer (the hosted-form source has a
\* watchdog, the others the timeouts of the network), timers fire. Nobody
\* has to click, nor a page to post.
Fairness ==
  /\ WF_vars(Commit)
  /\ WF_vars(Probes)
  /\ \A s \in 1 .. MaxStarts : WF_vars(SourceAnswers(s))
  /\ WF_vars(\E t \in timers : Fire(t))

FairSpec == Spec /\ Fairness

-----------------------------------------------------------------------------
(* Properties *)

\* A web component whose signing screen the host leaves alone: where it does
\* not, the failure of an undone mount is a signing error all the same.
OnWeb == host = "iframe" \/ (host = "sdk" /\ renders = 0)

\* The state flow of docs/architecture/mobile.md:107-116: from each status,
\* the statuses that may follow. The machine has no guards; the web screens
\* and listeners are what keeps to it.
Flow == [idle    |-> {"loading", "offline"},
         loading |-> {"signing", "error"},
         signing |-> {"success", "error", "idle"},
         success |-> {},
         error   |-> {"idle", "loading"},
         offline |-> {"idle"}]

FollowsStateFlow ==
  [][OnWeb /\ m'.status # m.status => m'.status \in Flow[m.status]]_vars

\* The envelope the host is told of is one whose page said it was signed,
\* also where the message does not name it and the live session must.
RightEnvelope ==
  OnWeb => \A i \in DOMAIN told : told[i].kind = "complete" =>
    \E s \in Sessions : /\ envelopeOf[s] = told[i].envelope
                        /\ \E j \in DOMAIN posts[s] : posts[s][j] = "complete"

\* A ceremony the SDK opened is closed when its screen goes, however late its
\* mount resolves and however often the host renders; two are never open.
CeremonyIsClosed ==
  ceremonies = IF sdk = "open" /\ mounted /\ shown.status = "signing" THEN 1 ELSE 0

\* "a late result must not update state or fire callbacks" (useESignature.ts:105),
\* for an iframe: nothing does once the component is gone.
IframeUnmountIsFinal == [][host = "iframe" /\ ~mounted => UNCHANGED <<m, told>>]_vars

\* The same of every host. "Lets async work detect unmount (in-flight
\* source.start(), connectivity)" (esign-react-native's useESignature.ts:70):
\* the probes of connectivity do not look.
UnmountIsFinal == [][~mounted => UNCHANGED <<m, told>>]_vars

\* The loading screen ends, on every host: the source's answer is applied.
LoadingEnds == m.status = "loading" ~> m.status # "loading" \/ ~mounted

\* A completion whose success screen is shown is reported to the host in the
\* end, unless the host leaves: a second one on its heels does not lose it.
CompletionIsTold ==
  \A e \in 0 .. MaxStarts :
    (\E t \in timers : t.envelope = e) ~>
      ~mounted \/ \E i \in DOMAIN told : told[i] = [kind |-> "complete", envelope |-> e]
=============================================================================
