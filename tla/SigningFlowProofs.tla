--------------------------- MODULE SigningFlowProofs ---------------------------
(***************************************************************************)
(* Theorems about SigningFlow, for every number of sessions, probes and    *)
(* renders and any set of hosts: the type invariant; that no SDK ceremony  *)
(* stays open; and, on the web and while a page posts one message, the     *)
(* documented state flow, the envelope the host is told of and that an     *)
(* iframe's unmount is final.                                              *)
(***************************************************************************)
EXTENDS SigningFlow, TLAPS

(* The machine's operators keep its type *)

LEMMA InitialIsMachine == Core!InitialSigningState \in Core!Machine
  BY DEF Core!InitialSigningState, Core!Machine, Core!Status, Core!Code

LEMMA OutcomesAreTyped ==
  ASSUME NEW n \in Core!Machine
  PROVE  /\ Core!Acquire(n) \in Core!Outcome
         /\ \A s \in Sessions : Core!Acquired(n, s) \in Core!Outcome
         /\ \A code \in Core!Code : Core!AcquireFailed(n, code) \in Core!Outcome
         /\ \A type \in Core!EventType : Core!OnEvent(n, type) \in Core!Outcome
         /\ Core!Settled(n) \in Core!Outcome
         /\ Core!Offline(n) \in Core!Outcome
         /\ Core!Online(n) \in Core!Outcome
         /\ Core!Retry(n) \in Core!Outcome
         /\ Core!Restart(n) \in Core!Outcome
<1>1. \A p \in Core!Machine : Core!Quietly(p) \in Core!Outcome
  BY DEF Core!Quietly, Core!Outcome, Core!Effect
<1>2. \A code \in Core!Code, s \in Sessions \cup {None} : Core!Failed(n, code, s) \in Core!Outcome
  BY DEF Core!Failed, Core!Outcome, Core!Effect, Core!Machine, Core!Status
<1>3. \A type \in Core!EventType : Core!OnEvent(n, type) \in Core!Outcome
  <2> SUFFICES ASSUME NEW type \in Core!EventType PROVE Core!OnEvent(n, type) \in Core!Outcome
    OBVIOUS
  <2>1. CASE type = "complete"
    BY <2>1 DEF Core!OnEvent, Core!Outcome, Core!Effect, Core!Machine, Core!Status
  <2>2. CASE type \in {"cancel", "decline"}
    BY <2>2 DEF Core!OnEvent, Core!Outcome, Core!Effect, Core!Machine, Core!Status
  <2>3. CASE type = "sessionExpired"
    BY <1>2, <2>3 DEF Core!OnEvent, Core!Code, Core!Machine
  <2>4. CASE type = "error"
    BY <1>2, <2>4 DEF Core!OnEvent, Core!Code
  <2>5. QED
    BY <2>1, <2>2, <2>3, <2>4 DEF Core!EventType
<1>4. \A code \in Core!Code : Core!AcquireFailed(n, code) \in Core!Outcome
  BY <1>2 DEF Core!AcquireFailed, Core!Machine
<1>5. /\ Core!Acquire(n) \in Core!Outcome
      /\ \A s \in Sessions : Core!Acquired(n, s) \in Core!Outcome
      /\ Core!Settled(n) \in Core!Outcome
      /\ Core!Offline(n) \in Core!Outcome
      /\ Core!Online(n) \in Core!Outcome
      /\ Core!Retry(n) \in Core!Outcome
      /\ Core!Restart(n) \in Core!Outcome
  BY <1>1 DEF Core!Acquire, Core!Acquired, Core!Settled, Core!Offline, Core!Online,
              Core!Retry, Core!Restart, Core!Machine, Core!Status
<1>6. QED
  BY <1>3, <1>4, <1>5

\* What apply leaves behind is typed
LEMMA ApplyIsTyped ==
  ASSUME NEW outcome \in Core!Outcome, NEW e \in Envelopes, TypeOK, Apply(outcome, e)
  PROVE  m' \in Core!Machine /\ timers' \subseteq Timer /\ armed' \in Nat /\ told' \in Seq(Callback)
<1>1. m' \in Core!Machine
  BY DEF Apply, Core!Outcome
<1>2. timers' \subseteq Timer /\ armed' \in Nat
  <2>1. [place |-> armed + 1, envelope |-> e] \in Timer
    BY DEF TypeOK, Timer
  <2>2. QED
    BY <2>1 DEF Apply, TypeOK, timerVars
<1>3. told' \in Seq(Callback)
  <2>1. outcome.effect \in {"error", "cancel"} =>
          [kind |-> outcome.effect, envelope |-> 0] \in Callback
    BY BoundsAreNatural DEF Callback, Envelopes
  <2>2. QED
    BY <2>1 DEF Apply, TypeOK
<1>4. QED
  BY <1>1, <1>2, <1>3

LEMMA BeginSigningIsTyped ==
  ASSUME NEW n \in Core!Machine, NEW e \in Envelopes, TypeOK, BeginSigning(n, e)
  PROVE  /\ m' \in Core!Machine /\ timers' \subseteq Timer /\ armed' \in Nat
         /\ told' \in Seq(Callback)
         /\ starts' \in 0 .. MaxStarts /\ acquiring' \subseteq Sessions
         /\ envelopeOf' \in [Sessions -> Envelopes]
<1>1. 0 \in Envelopes
  BY BoundsAreNatural DEF Envelopes
<1>2. m' \in Core!Machine /\ timers' \subseteq Timer /\ armed' \in Nat /\ told' \in Seq(Callback)
  BY <1>1, OutcomesAreTyped, ApplyIsTyped DEF BeginSigning
<1>3. starts + 1 \in Sessions /\ starts' \in 0 .. MaxStarts
  BY BoundsAreNatural DEF BeginSigning, TypeOK, Sessions
<1>4. QED
  BY <1>2, <1>3 DEF BeginSigning, TypeOK

(* A ceremony, or a mount under way, belongs to a signing screen *)

MountInv ==
  /\ sdk # "none" => host = "sdk" /\ mounted /\ shown.status = "signing"
  /\ ceremonies = IF sdk = "open" THEN 1 ELSE 0

IInv == TypeOK /\ MountInv

LEMMA ShowIsTyped ==
  ASSUME NEW n \in Core!Machine, IInv, mounted, mounted' = mounted, host' = host, Show(n)
  PROVE  /\ shown' \in Core!Machine
         /\ sdk' \in {"none", "mounting", "open", "failed"} /\ stale' \in Nat /\ ceremonies' \in Nat
         /\ MountInv'
  BY DEF IInv, TypeOK, MountInv, Show, UndoMount, UndoneMount, sdkVars

\* The steps that leave the SDK and the screen alone
LEMMA MountUntouched ==
  ASSUME MountInv, UNCHANGED <<host, mounted, shown, sdkVars>>
  PROVE  MountInv'
  BY DEF MountInv, sdkVars

-----------------------------------------------------------------------------
LEMMA InitHolds == Init => IInv
<1> SUFFICES ASSUME Init PROVE IInv
  OBVIOUS
<1>1. 0 \in 0 .. MaxStarts /\ 0 \in 0 .. MaxRenders /\ 0 \in Envelopes
  BY BoundsAreNatural DEF Envelopes
<1>2. /\ host \in Hosts /\ restartable \in BOOLEAN /\ mounted \in BOOLEAN
      /\ m \in Core!Machine /\ shown \in Core!Machine
  BY InitialIsMachine DEF Init
<1>3. /\ starts \in 0 .. MaxStarts /\ acquiring \subseteq Sessions
      /\ envelopeOf \in [Sessions -> Envelopes]
      /\ probing \in Nat /\ checking \in BOOLEAN
  BY <1>1 DEF Init
<1>4. timers \subseteq Timer /\ armed \in Nat /\ inbox \subseteq Message
  BY DEF Init
<1>5. posts \in [Sessions -> Seq(Core!EventType)]
  <2>1. <<>> \in Seq(Core!EventType)
    OBVIOUS
  <2>2. QED
    BY <2>1 DEF Init
<1>6. told \in Seq(Callback)
  BY DEF Init
<1>7. /\ sdk \in {"none", "mounting", "open", "failed"} /\ stale \in Nat /\ ceremonies \in Nat
      /\ renders \in 0 .. MaxRenders
  BY <1>1 DEF Init
<1>8. MountInv
  BY DEF Init, MountInv
<1>9. QED
  BY <1>2, <1>3, <1>4, <1>5, <1>6, <1>7, <1>8 DEF IInv, TypeOK

LEMMA Clicks == IInv /\ User => IInv'
<1> SUFFICES ASSUME IInv, User PROVE IInv'
  OBVIOUS
<1> USE DEF Click
<1>0. /\ m \in Core!Machine /\ 0 \in Envelopes /\ starts \in 0 .. MaxStarts
      /\ TypeOK /\ MountInv
  BY BoundsAreNatural DEF IInv, TypeOK, Envelopes
<1>1. CASE SignOnline
  <2>1. starts + 1 \in Envelopes
    BY <1>0, <1>1, BoundsAreNatural DEF SignOnline, BeginSigning, Envelopes
  <2>2. BeginSigning(m, starts + 1) /\ Show(m')
    BY <1>1 DEF SignOnline
  <2>3. /\ m' \in Core!Machine /\ timers' \subseteq Timer /\ armed' \in Nat
        /\ told' \in Seq(Callback)
        /\ starts' \in 0 .. MaxStarts /\ acquiring' \subseteq Sessions
        /\ envelopeOf' \in [Sessions -> Envelopes]
    BY <1>0, <2>1, <2>2, BeginSigningIsTyped
  <2>4. /\ shown' \in Core!Machine
        /\ sdk' \in {"none", "mounting", "open", "failed"} /\ stale' \in Nat /\ ceremonies' \in Nat
        /\ MountInv'
    BY <1>1, <2>2, <2>3, ShowIsTyped DEF SignOnline
  <2>5. QED
    BY <1>0, <1>1, <2>3, <2>4 DEF SignOnline, IInv, TypeOK, probeVars, pageVars
<1>2. CASE SignOffline
  <2>1. /\ m' \in Core!Machine /\ timers' \subseteq Timer /\ armed' \in Nat
        /\ told' \in Seq(Callback)
    BY <1>0, <1>2, OutcomesAreTyped, ApplyIsTyped DEF SignOffline
  <2>2. /\ shown' \in Core!Machine
        /\ sdk' \in {"none", "mounting", "open", "failed"} /\ stale' \in Nat /\ ceremonies' \in Nat
        /\ MountInv'
    BY <1>2, <2>1, ShowIsTyped DEF SignOffline
  <2>3. QED
    BY <1>0, <1>2, <2>1, <2>2 DEF SignOffline, IInv, TypeOK, sourceVars, probeVars, pageVars
<1>3. CASE SignProbes
  <2>1. MountInv'
    BY <1>0, <1>3, MountUntouched DEF SignProbes
  <2>2. QED
    BY <1>0, <1>3, <2>1
    DEF SignProbes, IInv, TypeOK, sourceVars, timerVars, pageVars, sdkVars
<1>4. CASE CheckOnline
  <2>1. /\ m' \in Core!Machine /\ timers' \subseteq Timer /\ armed' \in Nat
        /\ told' \in Seq(Callback)
    BY <1>0, <1>4, OutcomesAreTyped, ApplyIsTyped DEF CheckOnline
  <2>2. /\ shown' \in Core!Machine
        /\ sdk' \in {"none", "mounting", "open", "failed"} /\ stale' \in Nat /\ ceremonies' \in Nat
        /\ MountInv'
    BY <1>4, <2>1, ShowIsTyped DEF CheckOnline
  <2>3. QED
    BY <1>0, <1>4, <2>1, <2>2 DEF CheckOnline, IInv, TypeOK, sourceVars, probeVars, pageVars
<1>5. CASE CheckProbes
  <2>1. MountInv'
    BY <1>0, <1>5, MountUntouched DEF CheckProbes
  <2>2. QED
    BY <1>0, <1>5, <2>1
    DEF CheckProbes, IInv, TypeOK, sourceVars, timerVars, pageVars, sdkVars
<1>6. CASE RetrySigning
  <2>1. /\ m' \in Core!Machine /\ timers' \subseteq Timer /\ armed' \in Nat
        /\ told' \in Seq(Callback)
    BY <1>0, <1>6, OutcomesAreTyped, ApplyIsTyped DEF RetrySigning
  <2>2. /\ shown' \in Core!Machine
        /\ sdk' \in {"none", "mounting", "open", "failed"} /\ stale' \in Nat /\ ceremonies' \in Nat
        /\ MountInv'
    BY <1>6, <2>1, ShowIsTyped DEF RetrySigning
  <2>3. QED
    BY <1>0, <1>6, <2>1, <2>2 DEF RetrySigning, IInv, TypeOK, sourceVars, probeVars, pageVars
<1>7. CASE RestartSigning
  <2>1. Core!Restart(m).state \in Core!Machine
    BY <1>0, OutcomesAreTyped DEF Core!Outcome
  <2>2. envelopeOf[m.session] \in Envelopes
    BY <1>0, <1>7 DEF RestartSigning, CanRestart, TypeOK, Core!Machine
  <2>3. BeginSigning(Core!Restart(m).state, envelopeOf[m.session]) /\ Show(m')
    BY <1>7 DEF RestartSigning
  <2>4. /\ m' \in Core!Machine /\ timers' \subseteq Timer /\ armed' \in Nat
        /\ told' \in Seq(Callback)
        /\ starts' \in 0 .. MaxStarts /\ acquiring' \subseteq Sessions
        /\ envelopeOf' \in [Sessions -> Envelopes]
    BY <1>0, <2>1, <2>2, <2>3, BeginSigningIsTyped
  <2>5. /\ shown' \in Core!Machine
        /\ sdk' \in {"none", "mounting", "open", "failed"} /\ stale' \in Nat /\ ceremonies' \in Nat
        /\ MountInv'
    BY <1>7, <2>3, <2>4, ShowIsTyped DEF RestartSigning
  <2>6. QED
    BY <1>0, <1>7, <2>4, <2>5 DEF RestartSigning, IInv, TypeOK, probeVars, pageVars
<1>8. QED
  BY <1>1, <1>2, <1>3, <1>4, <1>5, <1>6, <1>7 DEF User

LEMMA ProbesAnswer == IInv /\ Probes => IInv'
<1> SUFFICES ASSUME IInv, Probes PROVE IInv'
  OBVIOUS
<1>0. /\ m \in Core!Machine /\ 0 \in Envelopes /\ starts \in 0 .. MaxStarts
      /\ TypeOK /\ MountInv
  BY BoundsAreNatural DEF IInv, TypeOK, Envelopes
<1>1. CASE ProbeOnline
  <2>1. starts + 1 \in Envelopes /\ probing' \in Nat
    BY <1>0, <1>1, BoundsAreNatural DEF ProbeOnline, BeginSigning, Envelopes, TypeOK
  <2>2. /\ m' \in Core!Machine /\ timers' \subseteq Timer /\ armed' \in Nat
        /\ told' \in Seq(Callback)
        /\ starts' \in 0 .. MaxStarts /\ acquiring' \subseteq Sessions
        /\ envelopeOf' \in [Sessions -> Envelopes]
    BY <1>0, <1>1, <2>1, BeginSigningIsTyped DEF ProbeOnline
  <2>3. MountInv'
    BY <1>0, <1>1, MountUntouched DEF ProbeOnline
  <2>4. QED
    BY <1>0, <1>1, <2>1, <2>2, <2>3 DEF ProbeOnline, IInv, TypeOK, pageVars, sdkVars
<1>2. CASE ProbeOffline
  <2>1. probing' \in Nat
    BY <1>0, <1>2 DEF ProbeOffline, TypeOK
  <2>2. /\ m' \in Core!Machine /\ timers' \subseteq Timer /\ armed' \in Nat
        /\ told' \in Seq(Callback)
    BY <1>0, <1>2, OutcomesAreTyped, ApplyIsTyped DEF ProbeOffline
  <2>3. MountInv'
    BY <1>0, <1>2, MountUntouched DEF ProbeOffline
  <2>4. QED
    BY <1>0, <1>2, <2>1, <2>2, <2>3 DEF ProbeOffline, IInv, TypeOK, sourceVars, pageVars, sdkVars
<1>3. CASE CheckAnswered
  <2>1. /\ m' \in Core!Machine /\ timers' \subseteq Timer /\ armed' \in Nat
        /\ told' \in Seq(Callback)
    <3>1. CASE Apply(Core!Online(m), 0)
      BY <1>0, <3>1, OutcomesAreTyped, ApplyIsTyped
    <3>2. CASE UNCHANGED <<m, timerVars, told>>
      BY <1>0, <3>2 DEF TypeOK, timerVars
    <3>3. QED
      BY <1>3, <3>1, <3>2 DEF CheckAnswered
  <2>2. MountInv'
    BY <1>0, <1>3, MountUntouched DEF CheckAnswered
  <2>3. QED
    BY <1>0, <1>3, <2>1, <2>2 DEF CheckAnswered, IInv, TypeOK, sourceVars, pageVars, sdkVars
<1>4. QED
  BY <1>1, <1>2, <1>3 DEF Probes

LEMMA Answers == \A s \in Sessions : IInv /\ SourceAnswers(s) => IInv'
<1> SUFFICES ASSUME NEW s \in Sessions, IInv, SourceAnswers(s) PROVE IInv'
  OBVIOUS
<1>0. m \in Core!Machine /\ 0 \in Envelopes /\ TypeOK /\ MountInv
  BY BoundsAreNatural DEF IInv, TypeOK, Envelopes
<1>1. PICK outcome \in Core!Outcome : AcquireEnds(s, outcome)
  BY <1>0, OutcomesAreTyped DEF SourceAnswers
<1>2. /\ m' \in Core!Machine /\ timers' \subseteq Timer /\ armed' \in Nat
      /\ told' \in Seq(Callback)
  <2>1. CASE mounted
    BY <1>0, <1>1, <2>1, ApplyIsTyped DEF AcquireEnds
  <2>2. CASE ~mounted
    BY <1>0, <1>1, <2>2 DEF AcquireEnds, TypeOK, timerVars
  <2>3. QED
    BY <2>1, <2>2
<1>3. MountInv'
  BY <1>0, <1>1, MountUntouched DEF AcquireEnds
<1>4. QED
  BY <1>0, <1>1, <1>2, <1>3 DEF AcquireEnds, IInv, TypeOK, probeVars, pageVars, sdkVars

LEMMA Posts == \A s \in Sessions, type \in Core!EventType : IInv /\ Post(s, type) => IInv'
<1> SUFFICES ASSUME NEW s \in Sessions, NEW type \in Core!EventType, IInv, Post(s, type)
             PROVE IInv'
  OBVIOUS
<1>0. TypeOK /\ MountInv /\ posts[s] \in Seq(Core!EventType)
  BY DEF IInv, TypeOK
<1>1. posts' \in [Sessions -> Seq(Core!EventType)]
  <2>1. Append(posts[s], type) \in Seq(Core!EventType)
    BY <1>0
  <2>2. QED
    BY <1>0, <2>1 DEF Post, TypeOK
<1>2. inbox' \subseteq Message
  <2>1. Len(posts[s]) + 1 \in Nat
    BY <1>0
  <2>2. [session |-> s, type |-> type, place |-> Len(posts[s]) + 1] \in Message
    BY <2>1 DEF Message
  <2>3. QED
    BY <1>0, <2>2 DEF Post, TypeOK
<1>3. MountInv'
  BY <1>0, MountUntouched DEF Post, machineVars
<1>4. QED
  BY <1>0, <1>1, <1>2, <1>3
  DEF Post, IInv, TypeOK, machineVars, sourceVars, probeVars, timerVars, sdkVars

LEMMA Messages == \A msg \in inbox : IInv /\ (Receive(msg) \/ Ignore(msg)) => IInv'
<1> SUFFICES ASSUME NEW msg \in inbox, IInv, Receive(msg) \/ Ignore(msg) PROVE IInv'
  OBVIOUS
<1>0. /\ m \in Core!Machine /\ 0 \in Envelopes /\ TypeOK /\ MountInv
      /\ msg.session \in Sessions /\ msg.type \in Core!EventType
  BY BoundsAreNatural DEF IInv, TypeOK, Envelopes, Message
<1>1. CASE Receive(msg)
  <2>1. PICK e \in {envelopeOf[msg.session], EnvelopeOf(m.session)} :
          Apply(Core!OnEvent(m, msg.type), e)
    BY <1>1 DEF Receive
  <2>2. e \in Envelopes
    BY <1>0, <2>1 DEF EnvelopeOf, Core!Machine, TypeOK
  <2>3. /\ m' \in Core!Machine /\ timers' \subseteq Timer /\ armed' \in Nat
        /\ told' \in Seq(Callback)
    BY <1>0, <2>1, <2>2, OutcomesAreTyped, ApplyIsTyped
  <2>4. MountInv'
    BY <1>0, <1>1, MountUntouched DEF Receive
  <2>5. inbox' \subseteq Message
    BY <1>0, <1>1 DEF Receive, TypeOK
  <2>6. QED
    BY <1>0, <1>1, <2>3, <2>4, <2>5
    DEF Receive, IInv, TypeOK, sourceVars, probeVars, sdkVars
<1>2. CASE Ignore(msg)
  <2>1. MountInv'
    BY <1>0, <1>2, MountUntouched DEF Ignore, machineVars
  <2>2. inbox' \subseteq Message
    BY <1>0, <1>2 DEF Ignore, TypeOK
  <2>3. QED
    BY <1>0, <1>2, <2>1, <2>2
    DEF Ignore, IInv, TypeOK, machineVars, sourceVars, probeVars, timerVars, sdkVars
<1>3. QED
  BY <1>1, <1>2

LEMMA MountsResolve == IInv /\ Mounts => IInv'
<1> SUFFICES ASSUME IInv, Mounts PROVE IInv'
  OBVIOUS
<1>0. /\ m \in Core!Machine /\ 0 \in Envelopes /\ TypeOK /\ MountInv
      /\ stale \in Nat /\ ceremonies \in Nat
      /\ "error" \in Core!EventType
  BY BoundsAreNatural DEF IInv, TypeOK, Envelopes, Core!EventType
<1>1. CASE MountOpens
  <2>1. MountInv'
    BY <1>0, <1>1 DEF MountOpens, MountInv, machineVars
  <2>2. sdk' = "open" /\ ceremonies' \in Nat
    BY <1>0, <1>1 DEF MountOpens
  <2>3. QED
    BY <1>0, <1>1, <2>1, <2>2
    DEF MountOpens, IInv, TypeOK, machineVars, sourceVars, probeVars, timerVars, pageVars
<1>2. CASE StaleMountCloses
  <2>1. MountInv'
    BY <1>0, <1>2 DEF StaleMountCloses, MountInv, machineVars
  <2>2. stale' \in Nat
    BY <1>0, <1>2 DEF StaleMountCloses
  <2>3. QED
    BY <1>0, <1>2, <2>1, <2>2
    DEF StaleMountCloses, IInv, TypeOK, machineVars, sourceVars, probeVars, timerVars, pageVars
<1>3. CASE MountFails
  <2>1. /\ m' \in Core!Machine /\ timers' \subseteq Timer /\ armed' \in Nat
        /\ told' \in Seq(Callback)
    BY <1>0, <1>3, OutcomesAreTyped, ApplyIsTyped DEF MountFails
  <2>2. MountInv' /\ sdk' \in {"none", "mounting", "open", "failed"} /\ stale' \in Nat
    BY <1>0, <1>3 DEF MountFails, MountInv, TypeOK
  <2>3. QED
    BY <1>0, <1>3, <2>1, <2>2 DEF MountFails, IInv, TypeOK, sourceVars, probeVars, pageVars
<1>4. QED
  BY <1>1, <1>2, <1>3 DEF Mounts

-----------------------------------------------------------------------------
LEMMA Inductive == IInv /\ [Next]_vars => IInv'
<1> SUFFICES ASSUME IInv, [Next]_vars PROVE IInv'
  OBVIOUS
<1>0. m \in Core!Machine /\ TypeOK /\ MountInv
  BY DEF IInv, TypeOK
<1>1. CASE Commit
  <2>1. /\ shown' \in Core!Machine
        /\ sdk' \in {"none", "mounting", "open", "failed"} /\ stale' \in Nat /\ ceremonies' \in Nat
        /\ MountInv'
    BY <1>0, <1>1, ShowIsTyped DEF Commit
  <2>2. QED
    BY <1>0, <1>1, <2>1 DEF Commit, IInv, TypeOK, sourceVars, probeVars, timerVars, pageVars
<1>2. CASE Rerender
  <2>1. /\ sdk' = "mounting" /\ stale' \in Nat /\ ceremonies' = 0
    BY <1>0, <1>2 DEF Rerender, UndoneMount, MountInv, TypeOK
  <2>2. MountInv'
    BY <1>0, <1>2, <2>1 DEF Rerender, OnSigningScreen, MountInv, machineVars
  <2>3. renders' \in 0 .. MaxRenders
    BY <1>0, <1>2, BoundsAreNatural DEF Rerender, TypeOK
  <2>4. QED
    BY <1>0, <1>2, <2>1, <2>2, <2>3
    DEF Rerender, IInv, TypeOK, machineVars, sourceVars, probeVars, timerVars, pageVars
<1>3. CASE \E t \in timers : Fire(t)
  <2>1. PICK t \in timers : Fire(t)
    BY <1>3
  <2>2. m' \in Core!Machine
    BY <1>0, <2>1, OutcomesAreTyped DEF Fire, Core!Outcome
  <2>3. [kind |-> "complete", envelope |-> t.envelope] \in Callback
    BY <1>0 DEF TypeOK, Timer, Callback
  <2>4. told' \in Seq(Callback) /\ timers' \subseteq Timer
    BY <1>0, <2>1, <2>3 DEF Fire, TypeOK
  <2>5. MountInv'
    BY <1>0, <2>1, MountUntouched DEF Fire
  <2>6. QED
    BY <1>0, <2>1, <2>2, <2>4, <2>5
    DEF Fire, IInv, TypeOK, sourceVars, probeVars, pageVars, sdkVars
<1>4. CASE Unmount
  <2>1. /\ sdk' \in {"none", "mounting", "open", "failed"} /\ stale' \in Nat /\ ceremonies' \in Nat
        /\ MountInv'
    BY <1>0, <1>4 DEF Unmount, UndoMount, UndoneMount, MountInv, TypeOK, sdkVars
  <2>2. QED
    BY <1>0, <1>4, <2>1 DEF Unmount, IInv, TypeOK, sourceVars, probeVars, pageVars
<1>5. CASE UNCHANGED vars
  <2>1. MountInv'
    BY <1>0, <1>5, MountUntouched DEF vars, machineVars
  <2>2. QED
    BY <1>0, <1>5, <2>1
    DEF IInv, TypeOK, vars, machineVars, sourceVars, probeVars, timerVars, pageVars, sdkVars
<1>6. QED
  BY <1>1, <1>2, <1>3, <1>4, <1>5, Clicks, ProbesAnswer, Answers, Posts, Messages, MountsResolve
  DEF Next

\* Every variable keeps its type, whichever host embeds the page and however
\* many sessions, posts and renders there are.
THEOREM TypeCorrect == Spec => []TypeOK
<1>1. IInv => TypeOK
  BY DEF IInv
<1>2. QED
  BY <1>1, InitHolds, Inductive, PTL DEF Spec

\* useMountedSession's promise: a ceremony is open exactly while its signing
\* screen is, however late a mount resolves or fails, and however often the
\* host's renders undo and redo the effect.
THEOREM CeremoniesAreClosed == Spec => []CeremonyIsClosed
<1>1. IInv => CeremonyIsClosed
  BY DEF IInv, MountInv, CeremonyIsClosed
<1>2. QED
  BY <1>1, InitHolds, Inductive, PTL DEF Spec
-----------------------------------------------------------------------------
(* On the web, while a page posts one message: who may move the machine *)

\* A session of envelope e had its page say that it was signed.
Signed(e) ==
  \E s \in Sessions : /\ envelopeOf[s] = e
                      /\ \E j \in DOMAIN posts[s] : posts[s][j] = "complete"

\* Connectivity is known at once.
NoProbes == probing = 0 /\ ~checking

\* The source is asked for one session at a time, behind the loading screen.
OneAnswer == \A s \in acquiring : m.status = "loading" /\ s = starts

\* The page to sign is that of the session kept.
OneSession ==
  m.status = "signing" => m.url \in Sessions /\ m.session = m.url /\ m.url <= starts

\* What is not committed yet is the source's answer to the loading screen, or the
\* end of the signing screen: by its page's one message, or by a mount that failed.
Committed ==
  \/ m = shown
  \/ m.status = "success" /\ shown.status = "success"
  \/ shown.status = "loading" /\ m.status \in {"signing", "error"}
  \/ /\ shown.status = "signing" /\ m.status \in {"success", "error", "idle"}
     /\ shown.url \in Sessions
     /\ ~mounted \/ sdk = "failed" \/ Len(posts[shown.url]) = 1

\* A message not received yet is its page's only one, and while the component is
\* there its page is the one on the screen.
Mail ==
  /\ \A s \in Sessions : Len(posts[s]) <= 1 /\ (posts[s] # <<>> => s <= starts)
  /\ \A msg \in inbox :
       /\ \E j \in DOMAIN posts[msg.session] : posts[msg.session][j] = msg.type
       /\ mounted => m = shown /\ m.status = "signing" /\ msg.session = m.url
       /\ mounted /\ host = "sdk" => sdk = "open"
  /\ \A a, b \in inbox : a.session = b.session => a = b

\* A mount is under way behind the signing screen, and undone only by unmounting.
MountsCommitted ==
  /\ sdk = "mounting" => m = shown
  /\ stale # 0 => host = "sdk" /\ ~mounted /\ stale = 1 /\ m.status = "signing"

\* The success timer is armed once, for an envelope that was signed.
OneTimer ==
  /\ IF armed = 0 THEN timers = {} ELSE armed = 1 /\ m.status = "success"
  /\ \A t \in timers : t.place = armed /\ Signed(t.envelope)
  /\ ~mounted => timers = {}

ToldIsSigned == \A i \in DOMAIN told : told[i].kind = "complete" => Signed(told[i].envelope)

WebInv ==
  /\ NoProbes /\ OneAnswer /\ OneSession /\ Committed /\ Mail
  /\ MountsCommitted /\ OneTimer /\ ToldIsSigned

\* One step of the machine in the documented flow.
Flows == m'.status # m.status => m'.status \in Flow[m.status]

LEMMA SignedStays ==
  ASSUME \A s \in Sessions : posts[s] # <<>> => envelopeOf'[s] = envelopeOf[s],
         \A s \in Sessions : \A j \in DOMAIN posts[s] :
           j \in DOMAIN posts'[s] /\ posts'[s][j] = posts[s][j],
         NEW e, Signed(e)
  PROVE  Signed(e)'
<1>1. PICK s \in Sessions : envelopeOf[s] = e /\ \E j \in DOMAIN posts[s] : posts[s][j] = "complete"
  BY DEF Signed
<1>2. posts[s] # <<>>
  BY <1>1
<1>3. QED
  BY <1>1, <1>2 DEF Signed

\* A callback other than a completion, or none.
LEMMA ToldStays ==
  ASSUME TypeOK, ToldIsSigned, \A e : Signed(e) => Signed(e)',
         \/ told' = told
         \/ \E c : c.kind # "complete" /\ told' = Append(told, c)
         \/ \E c : Signed(c.envelope) /\ told' = Append(told, c)
  PROVE  ToldIsSigned'
<1>1. told \in Seq(Callback)
  BY DEF TypeOK
<1>2. CASE told' = told
  BY <1>2 DEF ToldIsSigned
<1>3. ASSUME NEW c, c.kind # "complete" \/ Signed(c.envelope), told' = Append(told, c)
      PROVE  ToldIsSigned'
  <2>1. \A i \in DOMAIN told' : (i \in DOMAIN told /\ told'[i] = told[i]) \/ told'[i] = c
    BY <1>1, <1>3
  <2>2. QED
    BY <1>3, <2>1 DEF ToldIsSigned
<1>4. QED
  BY <1>2, <1>3

\* A press on a screen other than the signing one.
LEMMA PressesOnWeb ==
  ASSUME IInv, WebInv, mounted, m = shown, m.status \in {"idle", "error", "offline"},
         m'.status \in {"idle", "offline", "loading"}, shown' = m',
         \/ starts' = starts /\ acquiring' = acquiring /\ envelopeOf' = envelopeOf
         \/ /\ m'.status = "loading" /\ starts' = starts + 1 /\ acquiring' = acquiring \cup {starts + 1}
            /\ \E e : envelopeOf' = [envelopeOf EXCEPT ![starts + 1] = e],
         UNCHANGED <<host, mounted, probeVars, timerVars, pageVars, sdkVars, told>>
  PROVE  WebInv'
<1>0. /\ TypeOK /\ MountInv /\ starts \in Nat /\ envelopeOf \in [Sessions -> Envelopes]
      /\ acquiring = {} /\ inbox = {} /\ stale = 0 /\ armed = 0 /\ sdk = "none"
  BY DEF IInv, TypeOK, MountInv, WebInv, OneAnswer, Mail, MountsCommitted, OneTimer
<1>1. /\ host' = host /\ mounted' /\ probing' = probing /\ checking' = checking /\ timers' = timers
      /\ armed' = armed /\ inbox' = inbox /\ posts' = posts /\ sdk' = sdk /\ stale' = stale
      /\ told' = told
  BY DEF probeVars, timerVars, pageVars, sdkVars
<1>2. \A s \in Sessions : posts[s] # <<>> => envelopeOf'[s] = envelopeOf[s]
  BY <1>0 DEF WebInv, Mail
<1>3. \A e : Signed(e) => Signed(e)'
  BY <1>1, <1>2, SignedStays
<1>4. NoProbes' /\ OneAnswer' /\ OneSession' /\ Committed' /\ MountsCommitted'
  BY <1>0, <1>1 DEF WebInv, NoProbes, OneAnswer, OneSession, Committed, MountsCommitted
<1>5. Mail'
  <2>1. \A s \in Sessions : s \in Nat /\ Len(posts[s]) <= 1 /\ (posts[s] # <<>> => s <= starts)
    BY BoundsAreNatural DEF WebInv, Mail, Sessions
  <2>2. \A s \in Sessions : posts[s] # <<>> => s <= starts'
    BY <1>0, <2>1
  <2>3. QED
    BY <1>0, <1>1, <2>1, <2>2 DEF Mail
<1>6. OneTimer'
  BY <1>0, <1>1, <1>3 DEF WebInv, OneTimer
<1>7. ToldIsSigned'
  BY <1>0, <1>1, <1>3, ToldStays DEF WebInv
<1>8. QED
  BY <1>4, <1>5, <1>6, <1>7 DEF WebInv

\* Which screen offers which button.
LEMMA Offered ==
  ASSUME NEW st \in Core!Status
  PROVE  /\ "sign" \in Buttons[st] => st = "idle"
         /\ "checkConnection" \in Buttons[st] => st = "offline"
         /\ "retry" \in Buttons[st] \/ "restart" \in Buttons[st] => st = "error"
  BY DEF Buttons, Core!Status

LEMMA ClicksOnWeb ==
  ASSUME IInv, WebInv, OnWeb, User
  PROVE  WebInv' /\ Flows
<1>0. TypeOK /\ MountInv /\ m \in Core!Machine /\ host # "webview"
  BY DEF IInv, TypeOK, OnWeb
<1>1. ASSUME NEW button, Click(button), button \in {"sign", "checkConnection", "retry", "restart"}
      PROVE  /\ mounted /\ m = shown
             /\ button = "sign" => m.status = "idle"
             /\ button = "checkConnection" => m.status = "offline"
             /\ button \in {"retry", "restart"} => m.status = "error"
             /\ UNCHANGED <<host, mounted, pageVars>>
  <2>1. shown.status \in Core!Status /\ button \in Buttons[shown.status]
    BY <1>0, <1>1 DEF Click, IInv, TypeOK, Core!Machine
  <2>2. shown.status \in {"idle", "offline", "error"}
    BY <1>1, <2>1, Offered
  <2>3. m = shown
    BY <2>2 DEF WebInv, Committed
  <2>4. QED
    BY <1>1, <2>1, <2>3, Offered DEF Click
<1>2. ASSUME Show(m'), m = shown, m.status # "signing", m'.status # "signing"
      PROVE  shown' = m' /\ UNCHANGED sdkVars
  BY <1>2 DEF Show
<1>3. ASSUME NEW n \in {m, Core!Restart(m).state}, NEW e, BeginSigning(n, e)
      PROVE  /\ m'.status = "loading"
             /\ starts' = starts + 1 /\ acquiring' = acquiring \cup {starts + 1}
             /\ envelopeOf' = [envelopeOf EXCEPT ![starts + 1] = e]
             /\ UNCHANGED <<timerVars, told>>
  BY <1>0, <1>3 DEF BeginSigning, Apply, Core!Acquire, Core!Restart, Core!Quietly, Core!Machine
<1>4. CASE SignOnline
  <2>1. Click("sign") /\ BeginSigning(m, starts + 1) /\ Show(m') /\ UNCHANGED probeVars
    BY <1>4 DEF SignOnline
  <2>2. /\ mounted /\ m = shown /\ m.status = "idle" /\ m'.status = "loading"
        /\ UNCHANGED <<host, mounted, pageVars>>
    BY <1>1, <1>3, <2>1
  <2>3. shown' = m' /\ UNCHANGED sdkVars
    BY <1>2, <2>1, <2>2
  <2>4. WebInv'
    BY <1>3, <2>1, <2>2, <2>3, PressesOnWeb
  <2>5. QED
    BY <2>2, <2>4 DEF Flows, Flow
<1>5. CASE SignOffline
  <2>1. Click("sign") /\ Apply(Core!Offline(m), 0) /\ Show(m') /\ UNCHANGED <<sourceVars, probeVars>>
    BY <1>5 DEF SignOffline
  <2>2. /\ mounted /\ m = shown /\ m.status = "idle" /\ m'.status = "offline"
        /\ UNCHANGED <<host, mounted, pageVars, timerVars, told>>
    BY <1>0, <1>1, <2>1 DEF Apply, Core!Offline, Core!Quietly, Core!Machine
  <2>3. shown' = m' /\ UNCHANGED sdkVars
    BY <1>2, <2>1, <2>2
  <2>4. WebInv'
    BY <2>1, <2>2, <2>3, PressesOnWeb DEF sourceVars
  <2>5. QED
    BY <2>2, <2>4 DEF Flows, Flow
<1>6. CASE CheckOnline
  <2>1. /\ Click("checkConnection") /\ Apply(Core!Online(m), 0) /\ Show(m')
        /\ UNCHANGED <<sourceVars, probeVars>>
    BY <1>6 DEF CheckOnline
  <2>2. /\ mounted /\ m = shown /\ m.status = "offline" /\ m'.status = "idle"
        /\ UNCHANGED <<host, mounted, pageVars, timerVars, told>>
    BY <1>0, <1>1, <2>1 DEF Apply, Core!Online, Core!Quietly, Core!Machine
  <2>3. shown' = m' /\ UNCHANGED sdkVars
    BY <1>2, <2>1, <2>2
  <2>4. WebInv'
    BY <2>1, <2>2, <2>3, PressesOnWeb DEF sourceVars
  <2>5. QED
    BY <2>2, <2>4 DEF Flows, Flow
<1>7. CASE RetrySigning
  <2>1. /\ Click("retry") \/ Click("restart")
        /\ Apply(Core!Retry(m), 0) /\ Show(m') /\ UNCHANGED <<sourceVars, probeVars>>
    BY <1>7 DEF RetrySigning
  <2>2. /\ mounted /\ m = shown /\ m.status = "error" /\ m'.status = "idle"
        /\ UNCHANGED <<host, mounted, pageVars, timerVars, told>>
    BY <1>0, <1>1, <2>1 DEF Apply, Core!Retry, Core!Quietly, Core!Machine
  <2>3. shown' = m' /\ UNCHANGED sdkVars
    BY <1>2, <2>1, <2>2
  <2>4. WebInv'
    BY <2>1, <2>2, <2>3, PressesOnWeb DEF sourceVars
  <2>5. QED
    BY <2>2, <2>4 DEF Flows, Flow
<1>8. CASE RestartSigning
  <2>1. /\ Click("restart") /\ BeginSigning(Core!Restart(m).state, envelopeOf[m.session])
        /\ Show(m') /\ UNCHANGED probeVars
    BY <1>8 DEF RestartSigning
  <2>2. /\ mounted /\ m = shown /\ m.status = "error" /\ m'.status = "loading"
        /\ UNCHANGED <<host, mounted, pageVars>>
    BY <1>1, <1>3, <2>1
  <2>3. shown' = m' /\ UNCHANGED sdkVars
    BY <1>2, <2>1, <2>2
  <2>4. WebInv'
    BY <1>3, <2>1, <2>2, <2>3, PressesOnWeb
  <2>5. QED
    BY <2>2, <2>4 DEF Flows, Flow
<1>9. QED
  BY <1>0, <1>4, <1>5, <1>6, <1>7, <1>8 DEF User, SignProbes, CheckProbes

LEMMA CommitOnWeb ==
  ASSUME IInv, WebInv, OnWeb, Commit
  PROVE  WebInv' /\ Flows
<1>0. /\ TypeOK /\ MountInv /\ mounted /\ m # shown /\ shown' = m /\ Show(m) /\ m' = m
      /\ host' = host /\ mounted' = mounted /\ starts' = starts /\ acquiring' = acquiring
      /\ envelopeOf' = envelopeOf /\ probing' = probing /\ checking' = checking
      /\ timers' = timers /\ armed' = armed /\ inbox' = inbox /\ posts' = posts /\ told' = told
  BY DEF Commit, Show, sourceVars, probeVars, timerVars, pageVars, IInv
<1>1. sdk # "mounting" /\ inbox = {} /\ stale = 0
  BY <1>0 DEF WebInv, MountsCommitted, Mail
<1>2. stale' = 0 /\ (sdk' = "mounting" => m' = shown')
  BY <1>0, <1>1 DEF Show, UndoMount, UndoneMount, sdkVars
<1>3. \A e : Signed(e) => Signed(e)'
  BY <1>0, SignedStays
<1>4. NoProbes' /\ OneAnswer' /\ OneSession' /\ Committed' /\ MountsCommitted' /\ Mail'
  BY <1>0, <1>1, <1>2 DEF WebInv, NoProbes, OneAnswer, OneSession, Committed, MountsCommitted, Mail
<1>5. OneTimer' /\ ToldIsSigned'
  BY <1>0, <1>3, ToldStays DEF WebInv, OneTimer
<1>6. QED
  BY <1>0, <1>4, <1>5 DEF WebInv, Flows

LEMMA AnswersOnWeb ==
  ASSUME IInv, WebInv, OnWeb, NEW s \in Sessions, SourceAnswers(s)
  PROVE  WebInv' /\ Flows
<1>0. /\ TypeOK /\ MountInv /\ m \in Core!Machine
      /\ m.status = "loading" /\ s = starts /\ acquiring' = {} /\ armed = 0 /\ stale = 0
  BY DEF IInv, TypeOK, WebInv, OneAnswer, OneTimer, MountsCommitted, SourceAnswers, AcquireEnds
<1>1. /\ shown' = shown /\ host' = host /\ mounted' = mounted /\ starts' = starts
      /\ envelopeOf' = envelopeOf /\ probing' = probing /\ checking' = checking
      /\ inbox' = inbox /\ posts' = posts /\ sdk' = sdk /\ stale' = stale
  BY DEF SourceAnswers, AcquireEnds, probeVars, pageVars, sdkVars
<1>2. /\ timers' = timers /\ armed' = armed
      /\ told' = told \/ \E c : c.kind # "complete" /\ told' = Append(told, c)
      /\ IF mounted
         THEN \/ m'.status = "signing" /\ m'.url = s /\ m'.session = s
              \/ m'.status = "error"
         ELSE m' = m
  <2>1. CASE AcquireEnds(s, Core!Acquired(m, s))
    BY <1>0, <2>1 DEF AcquireEnds, Apply, Core!Acquired, Core!Quietly, Core!Machine, timerVars
  <2>2. ASSUME NEW code \in Core!Code, AcquireEnds(s, Core!AcquireFailed(m, code))
        PROVE  /\ timers' = timers /\ armed' = armed
               /\ told' = told \/ \E c : c.kind # "complete" /\ told' = Append(told, c)
               /\ IF mounted THEN m'.status = "error" ELSE m' = m
    <3>1. [kind |-> "error", envelope |-> 0].kind # "complete"
      OBVIOUS
    <3>2. QED
      BY <1>0, <2>2, <3>1
      DEF AcquireEnds, Apply, Core!AcquireFailed, Core!Failed, Core!Machine, timerVars
  <2>3. QED
    BY <2>1, <2>2 DEF SourceAnswers
<1>3. mounted => m = shown /\ sdk = "none" /\ inbox = {}
  BY <1>0 DEF WebInv, Committed, Mail, MountInv
<1>4. \A e : Signed(e) => Signed(e)'
  BY <1>1, SignedStays
<1>5. NoProbes' /\ OneAnswer' /\ OneSession'
  BY <1>0, <1>1, <1>2, BoundsAreNatural DEF WebInv, NoProbes, OneAnswer, OneSession, Sessions
<1>6. Committed' /\ MountsCommitted'
  BY <1>0, <1>1, <1>2, <1>3 DEF WebInv, Committed, MountsCommitted, MountInv
<1>7. Mail'
  BY <1>0, <1>1, <1>2, <1>3 DEF WebInv, Mail
<1>8. OneTimer' /\ ToldIsSigned'
  BY <1>0, <1>1, <1>2, <1>4, ToldStays DEF WebInv, OneTimer
<1>9. QED
  BY <1>0, <1>2, <1>5, <1>6, <1>7, <1>8 DEF WebInv, Flows, Flow

LEMMA PostsOnWeb ==
  ASSUME MaxPosts <= 1, IInv, WebInv, OnWeb, NEW s \in Sessions, NEW type \in Core!EventType, Post(s, type)
  PROVE  WebInv' /\ Flows
<1>0. /\ TypeOK /\ MountInv /\ mounted /\ shown.status = "signing" /\ shown.url = s
      /\ host = "sdk" => sdk = "open"
      /\ posts[s] \in Seq(Core!EventType) /\ Len(posts[s]) < 1
      /\ posts \in [Sessions -> Seq(Core!EventType)]
  BY BoundsAreNatural DEF IInv, TypeOK, Post, Embedded, OnSigningScreen
<1>1. /\ shown' = shown /\ m' = m /\ host' = host /\ mounted' = mounted /\ starts' = starts
      /\ acquiring' = acquiring /\ timers' = timers /\ armed' = armed /\ told' = told
      /\ envelopeOf' = envelopeOf /\ probing' = probing /\ checking' = checking
      /\ sdk' = sdk /\ stale' = stale
  BY DEF Post, machineVars, sourceVars, probeVars, timerVars, sdkVars
<1>2. posts[s] = <<>>
  BY <1>0
<1>3. /\ posts' = [posts EXCEPT ![s] = <<type>>]
      /\ inbox' = inbox \cup {[session |-> s, type |-> type, place |-> 1]}
  BY <1>0, <1>2 DEF Post
<1>4. /\ posts'[s] = <<type>> /\ Len(posts'[s]) = 1 /\ 1 \in DOMAIN posts'[s] /\ posts'[s][1] = type
      /\ \A r \in Sessions : r # s => posts'[r] = posts[r]
  BY <1>0, <1>3
<1>5. m = shown
  BY <1>0, <1>2 DEF WebInv, Committed, MountInv
<1>6. s <= starts
  BY <1>0, <1>5 DEF WebInv, OneSession
<1>7. \A e : Signed(e) => Signed(e)'
  <2>1. \A r \in Sessions : \A j \in DOMAIN posts[r] : j \in DOMAIN posts'[r] /\ posts'[r][j] = posts[r][j]
    BY <1>2, <1>4
  <2>2. QED
    BY <1>1, <2>1, SignedStays
<1>8. \A msg \in inbox : msg.session \in Sessions /\ msg.session # s
  BY <1>0, <1>2 DEF WebInv, Mail, TypeOK, Message
<1>9. Mail'
  <2>1. \A r \in Sessions : Len(posts'[r]) <= 1 /\ (posts'[r] # <<>> => r <= starts')
    <3> SUFFICES ASSUME NEW r \in Sessions
                 PROVE  Len(posts'[r]) <= 1 /\ (posts'[r] # <<>> => r <= starts')
      OBVIOUS
    <3>1. CASE r = s
      <4>1. Len(posts'[s]) <= 1
        BY <1>4
      <4>2. s <= starts'
        BY <1>1, <1>6
      <4>3. QED
        BY <3>1, <4>1, <4>2
    <3>2. CASE r # s
      BY <1>1, <1>4, <3>2 DEF WebInv, Mail
    <3>3. QED
      BY <3>1, <3>2
  <2>2. ASSUME NEW msg \in inbox'
        PROVE  /\ \E j \in DOMAIN posts'[msg.session] : posts'[msg.session][j] = msg.type
               /\ m = shown /\ m.status = "signing" /\ msg.session = m.url
               /\ host = "sdk" => sdk = "open"
    <3>1. CASE msg \in inbox
      BY <1>0, <1>4, <1>8, <3>1 DEF WebInv, Mail
    <3>2. CASE msg = [session |-> s, type |-> type, place |-> 1]
      BY <1>0, <1>4, <1>5, <3>2
    <3>3. QED
      BY <1>3, <3>1, <3>2
  <2>3. \A a, b \in inbox' : a.session = b.session => a = b
    BY <1>3, <1>8 DEF WebInv, Mail
  <2>4. QED
    BY <1>1, <2>1, <2>2, <2>3 DEF Mail
<1>10. NoProbes' /\ OneAnswer' /\ OneSession' /\ Committed' /\ MountsCommitted'
  BY <1>0, <1>1, <1>5 DEF WebInv, NoProbes, OneAnswer, OneSession, Committed, MountsCommitted
<1>11. OneTimer' /\ ToldIsSigned'
  BY <1>0, <1>1, <1>7, ToldStays DEF WebInv, OneTimer
<1>12. QED
  BY <1>1, <1>9, <1>10, <1>11 DEF WebInv, Flows

\* The message ends the signing screen, and a completion names its envelope.
LEMMA ReceivesOnWeb ==
  ASSUME IInv, WebInv, OnWeb, NEW msg \in inbox, Receive(msg)
  PROVE  WebInv' /\ Flows
<1>0. /\ TypeOK /\ MountInv /\ m \in Core!Machine /\ mounted
      /\ msg.session \in Sessions /\ msg.type \in Core!EventType
      /\ inbox' = inbox \ {msg}
  BY DEF IInv, TypeOK, Message, Receive, Heard, OnSigningScreen
<1>1. /\ shown' = shown /\ host' = host /\ mounted' = mounted /\ starts' = starts
      /\ acquiring' = acquiring
      /\ envelopeOf' = envelopeOf /\ probing' = probing /\ checking' = checking
      /\ posts' = posts /\ sdk' = sdk /\ stale' = stale
  BY DEF Receive, sourceVars, probeVars, sdkVars
<1>2. /\ m = shown /\ m.status = "signing" /\ msg.session = m.url /\ m.url = m.session
      /\ host = "sdk" => sdk = "open"
      /\ \E j \in DOMAIN posts[msg.session] : posts[msg.session][j] = msg.type
      /\ inbox' = {}
  BY <1>0 DEF WebInv, Mail, OneSession
<1>3. acquiring = {} /\ stale = 0 /\ armed = 0 /\ timers = {} /\ sdk # "mounting"
  BY <1>0, <1>2 DEF WebInv, OneAnswer, MountsCommitted, OneTimer, MountInv
<1>4. Len(posts[m.url]) = 1
  <2>1. posts[m.url] \in Seq(Core!EventType) /\ Len(posts[m.url]) <= 1
    BY <1>0, <1>2 DEF TypeOK, WebInv, Mail
  <2> DEFINE p == posts[m.url]
  <2>2. \E j : j \in DOMAIN p
    BY <1>2
  <2>3. p \in Seq(Core!EventType) /\ Len(p) <= 1
    BY <2>1
  <2> HIDE DEF p
  <2>4. DOMAIN p = 1 .. Len(p) /\ Len(p) \in Nat
    BY <2>3
  <2>5. Len(p) = 1
    BY <2>2, <2>3, <2>4
  <2>6. QED
    BY <2>5 DEF p
<1>5. PICK e \in {envelopeOf[msg.session], EnvelopeOf(m.session)} :
        Apply(Core!OnEvent(m, msg.type), e)
  BY DEF Receive
<1>6. e = envelopeOf[msg.session]
  BY <1>0, <1>2, NoneIsNone DEF EnvelopeOf
<1>7. \A f : Signed(f) => Signed(f)'
  BY <1>1, SignedStays
<1>8. CASE msg.type = "complete"
  <2>1. Core!OnEvent(m, msg.type) = [state |-> [m EXCEPT !.status = "success"], effect |-> "complete"]
    BY <1>8 DEF Core!OnEvent
  <2>2. /\ m'.status = "success" /\ told' = told
        /\ armed' = 1 /\ timers' = {[place |-> 1, envelope |-> e]}
    BY <1>0, <1>3, <1>5, <2>1 DEF Apply, Core!Machine
  <2>3. Signed(e)
    BY <1>0, <1>2, <1>6, <1>8 DEF Signed
  <2>4. NoProbes' /\ OneAnswer' /\ OneSession' /\ Committed' /\ MountsCommitted'
    BY <1>0, <1>1, <1>2, <1>3, <1>4, <2>2
    DEF WebInv, NoProbes, OneAnswer, OneSession, Committed, MountsCommitted
  <2>5. Mail'
    BY <1>1, <1>2 DEF WebInv, Mail
  <2>6. OneTimer' /\ ToldIsSigned'
    BY <1>0, <1>1, <1>7, <2>2, <2>3, ToldStays DEF WebInv, OneTimer
  <2>7. QED
    BY <1>2, <2>2, <2>4, <2>5, <2>6 DEF WebInv, Flows, Flow
<1>9. CASE msg.type # "complete"
  <2>1. /\ m'.status \in {"error", "idle"} /\ armed' = armed /\ timers' = timers
        /\ \E c : c.kind # "complete" /\ told' = Append(told, c)
    <3>1. /\ Core!OnEvent(m, msg.type).effect \in {"error", "cancel"}
          /\ Core!OnEvent(m, msg.type).state.status \in {"error", "idle"}
      <4>1. CASE msg.type \in {"cancel", "decline"}
        BY <1>0, <4>1 DEF Core!OnEvent, Core!Machine
      <4>2. CASE msg.type = "sessionExpired"
        BY <1>0, <4>2 DEF Core!OnEvent, Core!Failed, Core!Machine
      <4>3. CASE msg.type = "error"
        BY <1>0, <4>3 DEF Core!OnEvent, Core!Failed, Core!Machine
      <4>4. QED
        BY <1>0, <1>9, <4>1, <4>2, <4>3 DEF Core!EventType
    <3> DEFINE effect == Core!OnEvent(m, msg.type).effect
               c == [kind |-> effect, envelope |-> 0]
    <3>2. told' = Append(told, c) /\ c.kind # "complete"
      BY <1>5, <3>1 DEF Apply
    <3>3. m'.status \in {"error", "idle"} /\ armed' = armed /\ timers' = timers
      BY <1>5, <3>1 DEF Apply, timerVars
    <3>4. QED
      BY <3>2, <3>3
  <2>2. NoProbes' /\ OneAnswer' /\ OneSession' /\ Committed' /\ MountsCommitted'
    BY <1>0, <1>1, <1>2, <1>3, <1>4, <2>1
    DEF WebInv, NoProbes, OneAnswer, OneSession, Committed, MountsCommitted
  <2>3. Mail'
    BY <1>1, <1>2 DEF WebInv, Mail
  <2>4. OneTimer' /\ ToldIsSigned'
    BY <1>0, <1>1, <1>3, <1>7, <2>1, ToldStays DEF WebInv, OneTimer
  <2>5. QED
    BY <1>2, <2>1, <2>2, <2>3, <2>4 DEF WebInv, Flows, Flow
<1>10. QED
  BY <1>8, <1>9

LEMMA IgnoresOnWeb ==
  ASSUME IInv, WebInv, OnWeb, NEW msg \in inbox, Ignore(msg)
  PROVE  WebInv' /\ Flows
<1>0. TypeOK
  BY DEF IInv
<1>1. /\ shown' = shown /\ m' = m /\ host' = host /\ mounted' = mounted /\ starts' = starts
      /\ acquiring' = acquiring /\ timers' = timers /\ armed' = armed /\ told' = told
      /\ envelopeOf' = envelopeOf /\ probing' = probing /\ checking' = checking
      /\ posts' = posts /\ sdk' = sdk /\ stale' = stale /\ inbox' \subseteq inbox
  BY DEF Ignore, machineVars, sourceVars, probeVars, timerVars, sdkVars
<1>2. \A e : Signed(e) => Signed(e)'
  BY <1>1, SignedStays
<1>3. NoProbes' /\ OneAnswer' /\ OneSession' /\ Committed' /\ Mail' /\ MountsCommitted'
  BY <1>1 DEF WebInv, NoProbes, OneAnswer, OneSession, Committed, Mail, MountsCommitted
<1>4. OneTimer' /\ ToldIsSigned'
  BY <1>0, <1>1, <1>2, ToldStays DEF WebInv, OneTimer
<1>5. QED
  BY <1>1, <1>3, <1>4 DEF WebInv, Flows

LEMMA MountsOnWeb ==
  ASSUME IInv, WebInv, OnWeb, Mounts
  PROVE  WebInv' /\ Flows
<1>0. /\ TypeOK /\ MountInv /\ m \in Core!Machine /\ stale \in Nat
      /\ sdk = "mounting" => mounted /\ m = shown /\ m.status = "signing" /\ host = "sdk"
      /\ stale # 0 => host = "sdk" /\ ~mounted /\ stale = 1 /\ m.status = "signing"
  BY DEF IInv, TypeOK, MountInv, WebInv, MountsCommitted
<1>1. /\ shown' = shown /\ host' = host /\ mounted' = mounted /\ starts' = starts
      /\ acquiring' = acquiring
      /\ envelopeOf' = envelopeOf /\ probing' = probing /\ checking' = checking
      /\ inbox' = inbox /\ posts' = posts
  BY DEF Mounts, MountOpens, StaleMountCloses, MountFails, machineVars, sourceVars, probeVars, pageVars
<1>2. \A e : Signed(e) => Signed(e)'
  BY <1>1, SignedStays
<1>3. sdk = "mounting" => inbox = {}
  BY <1>0 DEF WebInv, Mail
<1>4. CASE MountOpens \/ StaleMountCloses
  <2>1. m' = m /\ timers' = timers /\ armed' = armed /\ told' = told
    BY <1>4 DEF MountOpens, StaleMountCloses, machineVars, timerVars
  <2>2. \/ sdk = "mounting" /\ sdk' = "open" /\ stale' = stale
        \/ sdk' = sdk /\ stale = 1 /\ stale' = 0
    BY <1>0, <1>4 DEF MountOpens, StaleMountCloses
  <2>3. NoProbes' /\ OneAnswer' /\ OneSession' /\ MountsCommitted'
    BY <1>0, <1>1, <2>1, <2>2 DEF WebInv, NoProbes, OneAnswer, OneSession, MountsCommitted
  <2>4. Committed'
    BY <1>0, <1>1, <2>1, <2>2 DEF WebInv, Committed
  <2>5. Mail'
    BY <1>0, <1>1, <1>3, <2>1, <2>2 DEF WebInv, Mail
  <2>6. OneTimer' /\ ToldIsSigned'
    BY <1>0, <1>1, <1>2, <2>1, ToldStays DEF WebInv, OneTimer
  <2>7. QED
    BY <2>1, <2>3, <2>4, <2>5, <2>6 DEF WebInv, Flows
<1>5. CASE MountFails
  <2>1. \/ sdk = "mounting" /\ sdk' = "failed" /\ stale' = stale
        \/ sdk' = sdk /\ stale = 1 /\ stale' = 0
    BY <1>0, <1>5 DEF MountFails
  <2>2. m.status = "signing" /\ acquiring = {} /\ armed = 0 /\ timers = {}
    BY <1>0, <2>1 DEF WebInv, OneAnswer, OneTimer
  <2>3. /\ m'.status = "error" /\ armed' = armed /\ timers' = timers
        /\ \E c : c.kind # "complete" /\ told' = Append(told, c)
    <3>1. [kind |-> "error", envelope |-> 0].kind # "complete"
      OBVIOUS
    <3>2. /\ Core!OnEvent(m, "error").effect = "error"
          /\ Core!OnEvent(m, "error").state.status = "error"
      BY <1>0 DEF Core!OnEvent, Core!Failed, Core!Machine
    <3>3. QED
      BY <1>5, <3>1, <3>2 DEF MountFails, Apply, timerVars
  <2>4. shown.status = "signing" /\ m = shown => shown.url \in Sessions
    BY DEF WebInv, OneSession
  <2>5. Committed'
    BY <1>0, <1>1, <2>1, <2>2, <2>3, <2>4 DEF WebInv, Committed
  <2>6. NoProbes' /\ OneAnswer' /\ OneSession' /\ MountsCommitted'
    BY <1>0, <1>1, <2>1, <2>2, <2>3 DEF WebInv, NoProbes, OneAnswer, OneSession, MountsCommitted
  <2>7. Mail'
    BY <1>0, <1>1, <1>3, <2>1 DEF WebInv, Mail
  <2>8. OneTimer' /\ ToldIsSigned'
    BY <1>0, <1>1, <1>2, <2>2, <2>3, ToldStays DEF WebInv, OneTimer
  <2>9. QED
    BY <2>2, <2>3, <2>5, <2>6, <2>7, <2>8 DEF WebInv, Flows, Flow
<1>6. QED
  BY <1>4, <1>5 DEF Mounts

LEMMA FiresOnWeb ==
  ASSUME IInv, WebInv, OnWeb, NEW t \in timers, Fire(t)
  PROVE  WebInv' /\ Flows
<1>0. /\ TypeOK /\ MountInv /\ m \in Core!Machine
      /\ mounted /\ m.status = "success" /\ armed = 1 /\ Signed(t.envelope)
  BY DEF IInv, TypeOK, WebInv, OneTimer
<1>1. /\ shown' = shown /\ host' = host /\ mounted' = mounted /\ starts' = starts
      /\ acquiring' = acquiring /\ armed' = armed
      /\ envelopeOf' = envelopeOf /\ probing' = probing /\ checking' = checking
      /\ inbox' = inbox /\ posts' = posts /\ sdk' = sdk /\ stale' = stale
      /\ timers' \subseteq timers
  BY DEF Fire, sourceVars, probeVars, pageVars, sdkVars
<1>2. m'.status = "success"
  BY <1>0 DEF Fire, Core!Settled, Core!Quietly, Core!Machine
<1>3. \E c : Signed(c.envelope) /\ told' = Append(told, c)
  <2> DEFINE c == [kind |-> "complete", envelope |-> t.envelope]
  <2>1. c.envelope = t.envelope /\ told' = Append(told, c)
    BY DEF Fire
  <2>2. QED
    BY <1>0, <2>1
<1>4. \A e : Signed(e) => Signed(e)'
  BY <1>1, SignedStays
<1>5. NoProbes' /\ OneAnswer' /\ OneSession' /\ Committed' /\ MountsCommitted'
  BY <1>0, <1>1, <1>2
  DEF WebInv, NoProbes, OneAnswer, OneSession, Committed, MountsCommitted, MountInv
<1>6. Mail'
  BY <1>0, <1>1 DEF WebInv, Mail
<1>7. OneTimer'
  BY <1>0, <1>1, <1>2, <1>4 DEF WebInv, OneTimer
<1>8. ToldIsSigned'
  BY <1>0, <1>3, <1>4, ToldStays DEF WebInv
<1>9. QED
  BY <1>0, <1>2, <1>5, <1>6, <1>7, <1>8 DEF WebInv, Flows

\* The one timer there may be is the one the ref keeps.
LEMMA UnmountsOnWeb ==
  ASSUME IInv, WebInv, OnWeb, Unmount
  PROVE  WebInv' /\ Flows
<1>0. TypeOK /\ MountInv /\ mounted /\ stale = 0 /\ ~mounted'
  BY DEF IInv, WebInv, MountsCommitted, Unmount
<1>1. /\ shown' = shown /\ m' = m /\ host' = host /\ starts' = starts
      /\ acquiring' = acquiring /\ armed' = armed /\ told' = told
      /\ envelopeOf' = envelopeOf /\ probing' = probing /\ checking' = checking
      /\ inbox' = inbox /\ posts' = posts
  BY DEF Unmount, sourceVars, probeVars, pageVars
<1>2. timers' = {}
  BY DEF Unmount, WebInv, OneTimer
<1>3. /\ sdk' # "mounting"
      /\ stale' # 0 => stale' = 1 /\ host = "sdk" /\ m.status = "signing"
  BY <1>0 DEF Unmount, UndoMount, UndoneMount, sdkVars, MountInv, WebInv, MountsCommitted
<1>4. \A e : Signed(e) => Signed(e)'
  BY <1>1, SignedStays
<1>5. NoProbes' /\ OneAnswer' /\ OneSession' /\ Committed' /\ MountsCommitted' /\ Mail'
  BY <1>0, <1>1, <1>3
  DEF WebInv, NoProbes, OneAnswer, OneSession, Committed, MountsCommitted, Mail
<1>6. OneTimer' /\ ToldIsSigned'
  BY <1>0, <1>1, <1>2, <1>4, ToldStays DEF WebInv, OneTimer
<1>7. QED
  BY <1>1, <1>5, <1>6 DEF WebInv, Flows

LEMMA InitOnWeb == Init => WebInv
<1> SUFFICES ASSUME Init PROVE WebInv
  OBVIOUS
<1>1. NoProbes /\ OneAnswer /\ OneSession /\ Committed /\ MountsCommitted
  BY DEF Init, NoProbes, OneAnswer, OneSession, Committed, MountsCommitted, Core!InitialSigningState
<1>2. Mail /\ OneTimer /\ ToldIsSigned
  BY DEF Init, Mail, OneTimer, ToldIsSigned
<1>3. QED
  BY <1>1, <1>2 DEF WebInv

\* Only the host's renders leave the web case, for good.
LEMMA StaysOnWeb ==
  ASSUME IInv, [Next]_vars, OnWeb'
  PROVE  OnWeb
<1>1. CASE Rerender
  BY <1>1, BoundsAreNatural DEF Rerender, OnWeb, IInv, TypeOK
<1>2. host' = host /\ (renders' = renders \/ Rerender)
  <2>1. CASE Commit \/ User
    BY <2>1 DEF Commit, User, SignOnline, SignOffline, SignProbes, CheckOnline, CheckProbes,
                RetrySigning, RestartSigning, Click
  <2>2. CASE Probes
    BY <2>2 DEF Probes, ProbeOnline, ProbeOffline, CheckAnswered
  <2>3. CASE \E s \in Sessions : SourceAnswers(s)
    BY <2>3 DEF SourceAnswers, AcquireEnds
  <2>4. CASE \E s \in Sessions, type \in Core!EventType : Post(s, type)
    BY <2>4 DEF Post
  <2>5. CASE \E msg \in inbox : Receive(msg) \/ Ignore(msg)
    BY <2>5 DEF Receive, Ignore
  <2>6. CASE Mounts
    BY <2>6 DEF Mounts, MountOpens, StaleMountCloses, MountFails
  <2>7. CASE (\E t \in timers : Fire(t)) \/ Unmount \/ UNCHANGED vars
    BY <2>7 DEF Fire, Unmount, vars
  <2>8. CASE Rerender
    BY <2>8 DEF Rerender
  <2>9. QED
    BY <2>1, <2>2, <2>3, <2>4, <2>5, <2>6, <2>7, <2>8 DEF Next
<1>3. QED
  BY <1>1, <1>2 DEF OnWeb

LEMMA StepOnWeb ==
  ASSUME MaxPosts <= 1, IInv, WebInv, OnWeb, [Next]_vars
  PROVE  (OnWeb' => WebInv') /\ Flows
<1>1. CASE Probes
  BY <1>1 DEF Probes, ProbeOnline, ProbeOffline, CheckAnswered, WebInv, NoProbes, IInv, TypeOK
<1>2. CASE Rerender
  BY <1>2, BoundsAreNatural DEF Rerender, machineVars, OnWeb, IInv, TypeOK, Flows
<1>3. CASE UNCHANGED vars
  <2>1. /\ shown' = shown /\ m' = m /\ host' = host /\ mounted' = mounted /\ starts' = starts
        /\ acquiring' = acquiring /\ timers' = timers /\ armed' = armed /\ told' = told
        /\ envelopeOf' = envelopeOf /\ probing' = probing /\ checking' = checking
        /\ posts' = posts /\ sdk' = sdk /\ stale' = stale /\ inbox' = inbox
    BY <1>3 DEF vars, machineVars, sourceVars, probeVars, timerVars, pageVars, sdkVars
  <2>2. QED
    BY <2>1 DEF WebInv, NoProbes, OneAnswer, OneSession, Committed, Mail, MountsCommitted, OneTimer,
                ToldIsSigned, Signed, Flows
<1>4. QED
  BY <1>1, <1>2, <1>3, CommitOnWeb, ClicksOnWeb, AnswersOnWeb, PostsOnWeb, ReceivesOnWeb,
     IgnoresOnWeb, MountsOnWeb, FiresOnWeb, UnmountsOnWeb DEF Next

\* Nothing of an iframe is left once the component is gone.
LEMMA NothingLeft ==
  ASSUME IInv, WebInv, [Next]_vars, host = "iframe", ~mounted
  PROVE  UNCHANGED <<m, told>>
<1>0. /\ probing = 0 /\ ~checking /\ timers = {} /\ stale = 0 /\ sdk = "none"
  BY DEF WebInv, NoProbes, OneTimer, MountsCommitted, IInv, MountInv
<1>1. ~Commit /\ ~User /\ ~Probes /\ ~Mounts /\ ~Unmount
  BY <1>0 DEF Commit, User, SignOnline, SignOffline, SignProbes, CheckOnline, CheckProbes, RetrySigning,
              RestartSigning, Click, Probes, ProbeOnline, ProbeOffline, CheckAnswered, Mounts,
              MountOpens, StaleMountCloses, MountFails, Unmount
<1>2. \A s \in Sessions : SourceAnswers(s) => UNCHANGED <<m, told>>
  BY DEF SourceAnswers, AcquireEnds
<1>3. \A s \in Sessions, type \in Core!EventType : ~Post(s, type)
  BY DEF Post, Embedded, OnSigningScreen
<1>4. \A msg \in inbox : ~Receive(msg) /\ (Ignore(msg) => UNCHANGED <<m, told>>)
  BY DEF Receive, Ignore, Heard, OnSigningScreen, machineVars
<1>5. ~Rerender /\ (UNCHANGED vars => UNCHANGED <<m, told>>)
  BY DEF Rerender, OnSigningScreen, vars, machineVars
<1>6. QED
  BY <1>0, <1>1, <1>2, <1>3, <1>4, <1>5 DEF Next

LEMMA WebIsGood ==
  ASSUME MaxPosts <= 1
  PROVE  Spec => [](IInv /\ (OnWeb => WebInv))
<1>1. Init => IInv /\ (OnWeb => WebInv)
  BY InitHolds, InitOnWeb
<1>2. IInv /\ (OnWeb => WebInv) /\ [Next]_vars => IInv' /\ (OnWeb => WebInv)'
  BY Inductive, StaysOnWeb, StepOnWeb
<1>3. QED
  BY <1>1, <1>2, PTL DEF Spec

\* While a page posts one message, as DocuSign's does, a web component whose
\* signing screen the host leaves alone keeps to the state flow of
\* docs/architecture/mobile.md, which the machine alone does not: the screens
\* offer no other button, the source answers one call at a time, and a message
\* or a mount's failure ends only the signing screen.
THEOREM WebFollowsStateFlow ==
  ASSUME MaxPosts <= 1
  PROVE  Spec => FollowsStateFlow
<1>1. IInv /\ (OnWeb => WebInv) /\ [Next]_vars =>
        [OnWeb /\ m'.status # m.status => m'.status \in Flow[m.status]]_vars
  BY StepOnWeb DEF Flows
<1>2. QED
  BY <1>1, WebIsGood, PTL DEF Spec, FollowsStateFlow

\* Likewise the completion the host is told of is of an envelope whose page said
\* that it was signed: no other session's message is received, and the live
\* session is that page's.
THEOREM WebTellsRightEnvelope ==
  ASSUME MaxPosts <= 1
  PROVE  Spec => []RightEnvelope
<1>1. IInv /\ (OnWeb => WebInv) => RightEnvelope
  BY DEF WebInv, ToldIsSigned, Signed, RightEnvelope
<1>2. QED
  BY <1>1, WebIsGood, PTL

\* And once an iframe's component is gone, neither a late result nor a timer
\* updates the state or calls the host back.
THEOREM IframeIsFinal ==
  ASSUME MaxPosts <= 1
  PROVE  Spec => IframeUnmountIsFinal
<1>1. IInv /\ (OnWeb => WebInv) /\ [Next]_vars =>
        [host = "iframe" /\ ~mounted => UNCHANGED <<m, told>>]_vars
  BY NothingLeft DEF OnWeb
<1>2. QED
  BY <1>1, WebIsGood, PTL DEF Spec, IframeUnmountIsFinal
=============================================================================
