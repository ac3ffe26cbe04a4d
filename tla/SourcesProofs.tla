----------------------------- MODULE SourcesProofs -----------------------------
(***************************************************************************)
(* Theorems about the signing sources, for any number of calls: no call of *)
(* a hosted source is without its watchdog and no watchdog outlives its    *)
(* call, a page is that of the component's session, a restart stays on the *)
(* envelope it is for, and the signer is told what happened.               *)
(***************************************************************************)
EXTENDS Sources, TLAPS

USE CallsAreCounted, NoneIsNone

-----------------------------------------------------------------------------
(* The inductive invariant *)

\* Only hosted sources have a watchdog
TimersAreHosted == \A c \in Calls : kind # "hosted" => call[c].timer = "none"

\* A call answers with a URL of its own, a restart for the envelope it is for
SessionsAreTheirOwn ==
  \A c \in Calls : call[c].outcome = "session" =>
    /\ call[c].url = c
    /\ call[c].op = "restart" => call[c].envelope = call[c].of

\* What the component has is the session of a call that was asked for
ComponentIsBehind ==
  /\ waiting # None => waiting <= asked
  /\ session # None => session <= asked /\ call[session].outcome = "session"
  /\ mountedUrl # None => session # None
  /\ kind # "sdk" /\ mountedUrl # None => mountedUrl = session
  /\ mounting # None =>
       /\ kind = "sdk" /\ mounting = session /\ waiting = None
       /\ mountedUrl = None /\ posted = {}

\* With a session the component only ever waits for a restart of it
OnlyRestartsReplace ==
  waiting # None /\ session # None =>
    /\ kind = "proxy" /\ waiting # session
    /\ call[waiting].op = "restart"
    /\ call[waiting].outcome # "failed" => call[waiting].of = call[session].envelope

\* While no two starts overlapped, the URL an SDK source keeps is its last one's
OneAtATime ==
  kind = "sdk" /\ ~overlapped =>
    /\ \A c \in Calls : InFlight(c) => c = asked
    /\ \A c \in Calls : c = asked /\ call[c].outcome = "session" => resolvedUrl = c
    /\ waiting # None => waiting = asked
    /\ session # None => session = asked
    /\ mountedUrl # None => mountedUrl = session

Inv ==
  /\ TypeOK
  /\ TimerGuardsTheCall
  /\ TimersAreHosted
  /\ SessionsAreTheirOwn
  /\ ComponentIsBehind
  /\ OnlyRestartsReplace
  /\ OneAtATime

-----------------------------------------------------------------------------
(* The steps of a call *)

\* What a call's own step makes of it, r, and of the rest
Moved(c, r) ==
  /\ call' = [call EXCEPT ![c] = r]
  /\ r \in CallState
  /\ r.op = call[c].op /\ r.of = call[c].of
  /\ call[c].timer = "none" => r.timer = "none"
  /\ call[c].outcome # "pending" =>
       /\ r.outcome = call[c].outcome
       /\ r.url = call[c].url /\ r.envelope = call[c].envelope
       /\ r.timer = call[c].timer
  /\ call[c].outcome = "pending" /\ r.outcome = "pending" => r.timer = call[c].timer
  /\ call[c].outcome = "pending" /\ r.outcome # "pending" => r.timer # "set"
  /\ call[c].outcome = "pending" /\ r.outcome = "session" =>
       /\ r.url = c
       /\ r.op = "restart" => r.envelope = r.of
       /\ kind = "sdk" => resolvedUrl' = c
  /\ r.run \in {"token", "asked"} => InFlight(c)
  /\ resolvedUrl' = resolvedUrl \/ (InFlight(c) /\ resolvedUrl' = c)
  /\ UNCHANGED <<kind, asked, overlapped, waiting, session, mountedUrl, posted, scriptVars>>

\* A race that is over leaves no timer set, and the rest as it was settled.
LEMMA OverLeavesNoTimer ==
  ASSUME NEW a \in CallState
  PROVE  LET r == [Over(a) EXCEPT !.run = "answered"]
         IN /\ r \in CallState
            /\ r.op = a.op /\ r.of = a.of /\ r.outcome = a.outcome
            /\ r.url = a.url /\ r.envelope = a.envelope /\ r.run = "answered"
            /\ r.timer # "set"
            /\ a.timer = "none" => r.timer = "none"
<1>1. CASE a.timer = "set"
  BY <1>1 DEF Over, CallState
<1>2. CASE a.timer # "set"
  BY <1>2 DEF Over, CallState
<1>3. QED
  BY <1>1, <1>2

\* Whatever refuses a call, it fails with a code of the contract.
LEMMA RefusalsAreCoded ==
  ASSUME NEW c, NEW refusal \in ErrorCodes \cup {"uncoded", "unanswered"}
  PROVE  CodeOf(c, refusal) \in Codes
<1>1. FallbackCode(c) \in Codes
  BY DEF FallbackCode, Codes, ErrorCodes
<1>2. Wire(refusal) \in Codes \/ refusal = "unanswered"
  BY DEF Wire, Codes
<1>3. QED
  BY <1>1, <1>2 DEF CodeOf

LEMMA MovesByToken ==
  ASSUME Inv, NEW c \in Calls, TokenArrives(c) \/ TokenFails(c)
  PROVE  \E r : Moved(c, r)
<1>1. /\ call[c] \in CallState
      /\ FallbackCode(c) \in Codes /\ CodeOf(c, "unanswered") = FallbackCode(c)
  BY DEF Inv, TypeOK, FallbackCode, CodeOf, Codes, ErrorCodes
<1>2. CASE TokenArrives(c)
  <2>1. Moved(c, [call[c] EXCEPT !.run = "asked"])
    BY <1>1, <1>2 DEF TokenArrives, Moved, CallState, InFlight
  <2>2. QED
    BY <2>1
<1>3. CASE TokenFails(c) /\ call[c].outcome = "pending"
  <2> DEFINE a == Refused(c, "unanswered")
             r == [Over(a) EXCEPT !.run = "answered"]
  <2>1. /\ a \in CallState /\ a.outcome = "failed"
        /\ a.op = call[c].op /\ a.of = call[c].of /\ a.timer = call[c].timer
    <3> HIDE DEF CodeOf
    <3>1. CodeOf(c, "unanswered") \in Codes
      BY <1>1
    <3>2. QED
      BY <1>1, <3>1 DEF Refused, Failed, CallState
  <2>2. call' = [call EXCEPT ![c] = r]
    BY <1>3 DEF TokenFails
  <2>3. InFlight(c) /\ UNCHANGED <<kind, asked, resolvedUrl, overlapped, waiting, session,
                                   mountedUrl, posted, scriptVars>>
    BY <1>3 DEF TokenFails, InFlight
  <2> HIDE DEF a
  <2>4. /\ r \in CallState
        /\ r.op = a.op /\ r.of = a.of /\ r.outcome = a.outcome
        /\ r.run = "answered" /\ r.timer # "set"
        /\ a.timer = "none" => r.timer = "none"
    BY <2>1, OverLeavesNoTimer
  <2> HIDE DEF r
  <2>5. Moved(c, r)
    BY <1>3, <2>1, <2>2, <2>3, <2>4 DEF Moved
  <2>6. QED
    BY <2>5
<1>4. CASE TokenFails(c) /\ call[c].outcome # "pending"
  <2>1. Moved(c, [call[c] EXCEPT !.run = "answered"])
    BY <1>1, <1>4 DEF TokenFails, Moved, CallState, InFlight
  <2>2. QED
    BY <2>1
<1>5. QED
  BY <1>2, <1>3, <1>4

LEMMA MovesByAnswer ==
  ASSUME Inv, NEW c \in Calls, Answer(c)
  PROVE  \E r : Moved(c, r)
<1>1. call[c] \in CallState /\ InFlight(c)
  BY DEF Inv, TypeOK, Answer, InFlight
<1>2. PICK a \in Good(c) \cup Bad(c) :
        /\ call' = [call EXCEPT ![c] =
             [(IF call[c].outcome = "pending" THEN Over(a) ELSE call[c])
                EXCEPT !.run = "answered"]]
        /\ resolvedUrl' = IF kind = "sdk" /\ a.outcome = "session"
                          THEN a.url ELSE resolvedUrl
  BY DEF Answer
<1>3. UNCHANGED <<kind, asked, overlapped, waiting, session, mountedUrl, posted, scriptVars>>
  BY DEF Answer
<1>4. CASE a \in Good(c)
  <2>1. PICK id \in Calls \cup {None} :
          a = Settled(c, c, id) /\ (call[c].op = "restart" => id = call[c].of)
    BY <1>1, <1>4 DEF Good, CallState
  <2>2. a \in CallState /\ a.url = c /\ a.envelope = id /\ a.outcome = "session"
    BY <1>1, <2>1 DEF Settled, CallState
  <2>3. a.op = call[c].op /\ a.of = call[c].of /\ a.timer = call[c].timer
    BY <1>1, <2>1 DEF Settled, CallState
  <2>4. CASE call[c].outcome = "pending"
    <3> DEFINE r == [Over(a) EXCEPT !.run = "answered"]
    <3>1. /\ r \in CallState
          /\ r.op = a.op /\ r.of = a.of /\ r.outcome = a.outcome
          /\ r.url = a.url /\ r.envelope = a.envelope /\ r.run = "answered"
          /\ r.timer # "set"
          /\ a.timer = "none" => r.timer = "none"
      BY <2>2, OverLeavesNoTimer
    <3>2. call' = [call EXCEPT ![c] = r]
      BY <1>2, <2>4
    <3> HIDE DEF r
    <3>3. Moved(c, r)
      BY <1>1, <1>2, <1>3, <2>1, <2>2, <2>3, <2>4, <3>1, <3>2 DEF Moved
    <3>4. QED
      BY <3>3
  <2>5. CASE call[c].outcome # "pending"
    <3>1. Moved(c, [call[c] EXCEPT !.run = "answered"])
      BY <1>1, <1>2, <1>3, <2>2, <2>5 DEF Moved, CallState
    <3>2. QED
      BY <3>1
  <2>6. QED
    BY <2>4, <2>5
<1>5. CASE a \in Bad(c)
  <2>1. PICK refusal \in Refusals(c) : a = Refused(c, refusal)
    BY <1>5 DEF Bad
  <2>2. refusal \in ErrorCodes \cup {"uncoded", "unanswered"}
    BY DEF Refusals, Rejections, ErrorCodes
  <2>3. CodeOf(c, refusal) \in Codes
    BY <2>2, RefusalsAreCoded
  <2> HIDE DEF CodeOf
  <2>4. /\ a \in CallState /\ a.outcome = "failed"
        /\ a.op = call[c].op /\ a.of = call[c].of /\ a.timer = call[c].timer
    BY <1>1, <2>1, <2>2, <2>3 DEF Refused, Failed, CallState
  <2>5. CASE call[c].outcome = "pending"
    <3> DEFINE r == [Over(a) EXCEPT !.run = "answered"]
    <3>1. /\ r \in CallState
          /\ r.op = a.op /\ r.of = a.of /\ r.outcome = a.outcome
          /\ r.url = a.url /\ r.envelope = a.envelope /\ r.run = "answered"
          /\ r.timer # "set"
          /\ a.timer = "none" => r.timer = "none"
      BY <2>4, OverLeavesNoTimer
    <3>2. call' = [call EXCEPT ![c] = r]
      BY <1>2, <2>5
    <3> HIDE DEF r
    <3>3. Moved(c, r)
      BY <1>1, <1>2, <1>3, <2>4, <2>5, <3>1, <3>2 DEF Moved
    <3>4. QED
      BY <3>3
  <2>6. CASE call[c].outcome # "pending"
    <3>1. Moved(c, [call[c] EXCEPT !.run = "answered"])
      BY <1>1, <1>2, <1>3, <2>4, <2>6 DEF Moved, CallState
    <3>2. QED
      BY <3>1
  <2>7. QED
    BY <2>5, <2>6
<1>6. QED
  BY <1>4, <1>5

LEMMA MovesByWatchdog ==
  ASSUME Inv, NEW c \in Calls, Watchdog(c)
  PROVE  \E r : Moved(c, r)
<1>1. call[c] \in CallState /\ "NETWORK_ERROR" \in Codes
  BY DEF Inv, TypeOK, Codes
<1>2. call[c].timer = "set" /\ call[c].outcome = "pending"
  BY DEF Inv, TimersAreHosted, TimerGuardsTheCall, Watchdog
<1>3. Moved(c, [Failed(c, "NETWORK_ERROR") EXCEPT !.timer = "fired"])
  BY <1>1, <1>2 DEF Watchdog, Moved, Failed, CallState, InFlight
<1>4. QED
  BY <1>3

\* A step of a call keeps the invariant.
LEMMA MovedKeepsInv ==
  ASSUME Inv, NEW c \in Calls, NEW r, Moved(c, r)
  PROVE  Inv'
<1>1. /\ call \in [Calls -> CallState] /\ call' \in [Calls -> CallState]
      /\ call'[c] = r
      /\ \A d \in Calls \ {c} : call'[d] = call[d]
  BY DEF Inv, TypeOK, Moved
<1>2. UNCHANGED <<kind, asked, overlapped, waiting, session, mountedUrl, posted, scriptVars>>
  BY DEF Moved
<1>3. TypeOK'
  BY <1>1, <1>2 DEF Inv, TypeOK, Moved, scriptVars
<1>4. TimerGuardsTheCall'
  BY <1>1, <1>2 DEF Inv, TimerGuardsTheCall, Moved, CallState
<1>5. TimersAreHosted'
  BY <1>1, <1>2 DEF Inv, TimersAreHosted, Moved
<1>6. SessionsAreTheirOwn'
  BY <1>1, <1>2 DEF Inv, SessionsAreTheirOwn, Moved
<1>7. ComponentIsBehind'
  BY <1>1, <1>2 DEF Inv, TypeOK, ComponentIsBehind, Moved, scriptVars
<1>8. OnlyRestartsReplace'
  <2>1. SUFFICES ASSUME waiting # None, session # None
                 PROVE  /\ call'[waiting].op = "restart"
                        /\ call'[waiting].outcome # "failed" =>
                             call'[waiting].of = call'[session].envelope
    BY <1>2 DEF Inv, OnlyRestartsReplace
  <2>2. waiting \in Calls /\ session \in Calls
    BY <2>1 DEF Inv, TypeOK
  <2>3. /\ call'[waiting].op = call[waiting].op /\ call'[waiting].of = call[waiting].of
        /\ call'[waiting].outcome # "failed" => call[waiting].outcome # "failed"
    BY <1>1, <2>2 DEF Moved
  <2>4. call'[session].envelope = call[session].envelope
    BY <1>1, <2>1, <2>2 DEF Inv, ComponentIsBehind, Moved
  <2>5. QED
    BY <2>1, <2>3, <2>4 DEF Inv, OnlyRestartsReplace
<1>9. OneAtATime'
  <2>1. SUFFICES ASSUME kind = "sdk", ~overlapped
                 PROVE  /\ \A d \in Calls : InFlight(d)' => d = asked
                        /\ \A d \in Calls : d = asked /\ call'[d].outcome = "session"
                                              => resolvedUrl' = d
    BY <1>2 DEF Inv, OneAtATime
  <2>2. \A d \in Calls : InFlight(d)' => InFlight(d)
    BY <1>1 DEF Moved, InFlight
  <2>3. \A d \in Calls : InFlight(d) => d = asked
    BY <2>1 DEF Inv, OneAtATime
  <2>4. ASSUME NEW d \in Calls, d = asked, call'[d].outcome = "session"
        PROVE  resolvedUrl' = d
    <3>1. CASE call[d].outcome = "session"
      BY <2>1, <2>3, <2>4, <3>1 DEF Inv, OneAtATime, Moved
    <3>2. CASE call[d].outcome # "session"
      BY <1>1, <2>1, <2>4, <3>2 DEF Moved
    <3>3. QED
      BY <3>1, <3>2
  <2>5. QED
    BY <2>2, <2>3, <2>4
<1>10. QED
  BY <1>3, <1>4, <1>5, <1>6, <1>7, <1>8, <1>9 DEF Inv

-----------------------------------------------------------------------------
(* The initial state and the steps of the component *)

LEMMA InitEstablishesInv == Init => Inv
<1> SUFFICES ASSUME Init
             PROVE  Inv
  OBVIOUS
<1>1. Idle \in CallState
  BY DEF Idle, CallState
<1>2. TypeOK
  <2>1. call \in [Calls -> CallState]
    BY <1>1 DEF Init
  <2>2. asked \in 0..MaxCalls
    BY DEF Init
  <2>3. overlapped \in BOOLEAN
    BY Zenon DEF Init
  <2>4. QED
    BY <2>1, <2>2, <2>3 DEF Init, TypeOK
<1>3. \A c \in Calls : call[c] = Idle
  BY DEF Init
<1>4. TimerGuardsTheCall /\ TimersAreHosted /\ SessionsAreTheirOwn
  BY <1>3 DEF TimerGuardsTheCall, TimersAreHosted, SessionsAreTheirOwn, Idle
<1>5. ComponentIsBehind /\ OnlyRestartsReplace
  BY DEF Init, ComponentIsBehind, OnlyRestartsReplace
<1>6. OneAtATime
  BY <1>3 DEF Init, OneAtATime, Idle, InFlight
<1>7. QED
  BY <1>2, <1>4, <1>5, <1>6 DEF Inv

\* The next call has not been asked for, and nothing is about it.
LEMMA NextCallIsFresh ==
  ASSUME Inv, asked + 1 \in Calls
  PROVE  /\ asked + 1 # waiting /\ asked + 1 # session /\ asked + 1 # asked
         /\ asked \in Nat
BY DEF Inv, TypeOK, ComponentIsBehind, Calls

LEMMA StartKeepsInv ==
  ASSUME Inv, Start
  PROVE  Inv'
<1> DEFINE c == asked + 1
           r == IF kind = "public"
                THEN [Settled(c, c, None) EXCEPT !.op = "start", !.run = "answered"]
                ELSE [Idle EXCEPT !.op = "start", !.run = "token",
                                  !.timer = IF kind = "hosted" THEN "set" ELSE "none"]
<1>1. /\ c \in Calls /\ waiting = None /\ session = None /\ mountedUrl = None
      /\ asked' = c /\ waiting' = c /\ call' = [call EXCEPT ![c] = r]
      /\ overlapped' = (overlapped \/ \E d \in Calls : InFlight(d))
      /\ UNCHANGED <<kind, resolvedUrl, session, mountedUrl, posted, script, mounting>>
  BY DEF Start, Inv, ComponentIsBehind, scriptVars
<1>2. call \in [Calls -> CallState] /\ Idle \in CallState
  BY DEF Inv, TypeOK, Idle, CallState
<1>3. /\ kind = "public" =>
           /\ r \in CallState /\ r.op = "start" /\ r.run = "answered"
           /\ r.outcome = "session" /\ r.url = c /\ r.timer = call[c].timer
      /\ kind # "public" =>
           /\ r \in CallState /\ r.op = "start" /\ r.run = "token"
           /\ r.outcome = "pending"
           /\ r.timer = IF kind = "hosted" THEN "set" ELSE "none"
  <2>1. CASE kind = "public"
    BY <1>1, <1>2, <2>1 DEF Settled, CallState
  <2>2. CASE kind = "hosted"
    BY <1>1, <1>2, <2>2 DEF Idle, CallState
  <2>3. CASE kind # "public" /\ kind # "hosted"
    BY <1>1, <1>2, <2>3 DEF Idle, CallState
  <2>4. QED
    BY <2>1, <2>2, <2>3
<1>4. c # asked /\ asked \in Nat /\ c \in Nat /\ asked < c
  BY <1>1, NextCallIsFresh
<1> HIDE DEF c, r
<1>5. call'[c] = r /\ \A d \in Calls \ {c} : call'[d] = call[d]
  BY <1>1, <1>2
<1>6. call' \in [Calls -> CallState]
  BY <1>1, <1>2, <1>3
<1>7. TypeOK'
  BY <1>1, <1>6 DEF Inv, TypeOK, Calls
<1>8. TimerGuardsTheCall'
  <2>1. ASSUME NEW d \in Calls, kind = "hosted"
        PROVE  call'[d].timer = "set"
                 <=> (call'[d].op = "start" /\ call'[d].outcome = "pending")
    BY <1>3, <1>5, <2>1 DEF Inv, TimerGuardsTheCall
  <2>2. QED
    BY <1>1, <2>1 DEF TimerGuardsTheCall
<1>9. TimersAreHosted'
  BY <1>1, <1>3, <1>5 DEF Inv, TimersAreHosted
<1>10. SessionsAreTheirOwn'
  BY <1>3, <1>5 DEF Inv, SessionsAreTheirOwn
<1>11. ComponentIsBehind' /\ OnlyRestartsReplace'
  BY <1>1, <1>4 DEF Inv, ComponentIsBehind, OnlyRestartsReplace
<1>12. OneAtATime'
  <2>1. SUFFICES ASSUME kind = "sdk", ~overlapped'
                 PROVE  /\ \A d \in Calls : InFlight(d)' => d = c
                        /\ \A d \in Calls : d = c => call'[d].outcome # "session"
    BY <1>1 DEF OneAtATime
  <2>2. \A d \in Calls : ~InFlight(d)
    BY <1>1, <2>1
  <2>3. QED
    BY <1>3, <1>5, <2>1, <2>2 DEF InFlight
<1>13. QED
  BY <1>7, <1>8, <1>9, <1>10, <1>11, <1>12 DEF Inv

LEMMA RestartKeepsInv ==
  ASSUME Inv, Restart
  PROVE  Inv'
<1> DEFINE c == asked + 1
           r == IF call[session].envelope = None
                THEN [Failed(c, "SESSION_EXPIRED")
                        EXCEPT !.op = "restart", !.run = "answered"]
                ELSE [Idle EXCEPT !.op = "restart", !.run = "token",
                                  !.of = call[session].envelope]
<1>1. /\ c \in Calls /\ kind = "proxy"
      /\ waiting = None /\ session # None /\ mountedUrl = None
      /\ asked' = c /\ waiting' = c /\ call' = [call EXCEPT ![c] = r]
      /\ UNCHANGED <<kind, resolvedUrl, overlapped, session, mountedUrl, posted, script, mounting>>
  BY DEF Restart, scriptVars
<1>2. /\ call \in [Calls -> CallState] /\ Idle \in CallState
      /\ session \in Calls /\ "SESSION_EXPIRED" \in Codes
  BY <1>1 DEF Inv, TypeOK, Idle, CallState, Codes, ErrorCodes
<1>3. call[session].envelope \in Calls \cup {None}
  BY <1>2 DEF CallState
<1>4. /\ r \in CallState /\ r.op = "restart" /\ r.outcome # "session"
      /\ r.timer \in {"none", call[c].timer}
      /\ r.outcome # "failed" => r.of = call[session].envelope
  <2>1. CASE call[session].envelope = None
    <3>1. /\ r = [Failed(c, "SESSION_EXPIRED") EXCEPT !.op = "restart", !.run = "answered"]
          /\ call[c] \in CallState /\ "SESSION_EXPIRED" \in Codes
      BY <1>1, <1>2, <2>1
    <3> HIDE DEF r
    <3>2. QED
      BY <3>1 DEF Failed, CallState
  <2>2. CASE call[session].envelope # None
    BY <1>1, <1>2, <1>3, <2>2 DEF Idle, CallState
  <2>3. QED
    BY <2>1, <2>2
<1>5. c # session /\ c # asked /\ asked \in Nat /\ asked < c /\ session <= asked
  BY <1>1, <1>2, NextCallIsFresh DEF Inv, ComponentIsBehind
<1> HIDE DEF c, r
<1>6. call'[c] = r /\ \A d \in Calls \ {c} : call'[d] = call[d]
  BY <1>1, <1>2
<1>7. TypeOK'
  BY <1>1, <1>2, <1>4 DEF Inv, TypeOK, Calls
<1>8. TimerGuardsTheCall'
  BY <1>1 DEF TimerGuardsTheCall
<1>9. TimersAreHosted'
  BY <1>1, <1>4, <1>6 DEF Inv, TimersAreHosted
<1>10. SessionsAreTheirOwn'
  BY <1>4, <1>6 DEF Inv, SessionsAreTheirOwn
<1>11. ComponentIsBehind'
  <2>1. session \in Nat /\ c \in Nat
    BY <1>1, <1>2 DEF Calls
  <2>2. call'[session].outcome = "session"
    BY <1>1, <1>2, <1>5, <1>6 DEF Inv, ComponentIsBehind
  <2>3. QED
    BY <1>1, <1>5, <2>1, <2>2 DEF Inv, ComponentIsBehind
<1>12. OnlyRestartsReplace'
  BY <1>1, <1>2, <1>4, <1>5, <1>6 DEF OnlyRestartsReplace
<1>13. OneAtATime'
  BY <1>1 DEF OneAtATime
<1>14. QED
  BY <1>7, <1>8, <1>9, <1>10, <1>11, <1>12, <1>13 DEF Inv

\* Steps that leave the calls alone keep what is about them.
LEMMA CallsAloneKeep ==
  ASSUME Inv, UNCHANGED <<kind, call, asked, resolvedUrl, overlapped>>
  PROVE  TimerGuardsTheCall' /\ TimersAreHosted' /\ SessionsAreTheirOwn'
BY DEF Inv, TimerGuardsTheCall, TimersAreHosted, SessionsAreTheirOwn

LEMMA SettleKeepsInv ==
  ASSUME Inv, Settle
  PROVE  Inv'
<1>1. /\ waiting \in Calls /\ waiting' = None
      /\ UNCHANGED <<kind, call, asked, resolvedUrl, overlapped, posted, script, mounting>>
  BY DEF Settle, Inv, TypeOK, scriptVars
<1>2. CASE call[waiting].outcome = "session"
  <2>1. /\ session' = waiting
        /\ mountedUrl' = IF kind = "sdk" THEN None ELSE call[waiting].url
    BY <1>2 DEF Settle
  <2>2. call[waiting].url = waiting
    BY <1>1, <1>2 DEF Inv, SessionsAreTheirOwn
  <2>3. TypeOK'
    BY <1>1, <2>1, <2>2 DEF Inv, TypeOK
  <2>4. ComponentIsBehind'
    BY <1>1, <1>2, <2>1, <2>2 DEF Inv, ComponentIsBehind
  <2>5. OnlyRestartsReplace'
    BY <1>1 DEF OnlyRestartsReplace
  <2>6. OneAtATime'
    BY <1>1, <2>1 DEF Inv, OneAtATime, InFlight
  <2>7. QED
    BY <1>1, <2>3, <2>4, <2>5, <2>6, CallsAloneKeep DEF Inv
<1>3. CASE call[waiting].outcome # "session"
  <2>1. UNCHANGED <<session, mountedUrl>>
    BY <1>3 DEF Settle
  <2>2. TypeOK' /\ ComponentIsBehind' /\ OnlyRestartsReplace'
    BY <1>1, <2>1 DEF Inv, TypeOK, ComponentIsBehind, OnlyRestartsReplace
  <2>3. OneAtATime'
    BY <1>1, <2>1 DEF Inv, OneAtATime, InFlight
  <2>4. QED
    BY <1>1, <2>2, <2>3, CallsAloneKeep DEF Inv
<1>4. QED
  BY <1>2, <1>3

\* A page that is shown now is of the URL the source keeps
LEMMA ShowingKeepsInv ==
  ASSUME Inv, kind = "sdk", session # None, mountedUrl' = resolvedUrl,
         mounting' = None, script' \in {"absent", "loading", "loaded", "failed"},
         UNCHANGED <<kind, call, asked, resolvedUrl, overlapped, waiting, session>>
  PROVE  Inv'
<1>1. TypeOK' /\ ComponentIsBehind' /\ OnlyRestartsReplace'
  BY DEF Inv, TypeOK, ComponentIsBehind, OnlyRestartsReplace
<1>2. ~overlapped => resolvedUrl = session
  BY DEF Inv, TypeOK, OneAtATime, ComponentIsBehind
<1>3. OneAtATime'
  BY <1>2 DEF Inv, OneAtATime, InFlight
<1>4. QED
  BY <1>1, <1>3, CallsAloneKeep DEF Inv

\* What the component drops, or keeps, of what it has
LEMMA DroppingKeepsInv ==
  ASSUME Inv, UNCHANGED <<kind, call, asked, resolvedUrl, overlapped>>,
         waiting' \in {waiting, None}, session' \in {session, None},
         mountedUrl' \in {mountedUrl, None}, mountedUrl' # None => session' # None,
         mounting' # None => UNCHANGED <<mounting, session, posted>>,
         script' \in {"absent", "loading", "loaded", "failed"}
  PROVE  Inv'
<1>1. TypeOK'
  BY DEF Inv, TypeOK
<1>2. ComponentIsBehind' /\ OnlyRestartsReplace'
  BY DEF Inv, ComponentIsBehind, OnlyRestartsReplace
<1>3. OneAtATime'
  BY DEF Inv, OneAtATime, ComponentIsBehind, InFlight
<1>4. QED
  BY <1>1, <1>2, <1>3, CallsAloneKeep DEF Inv

\* mount() asks for the script, goes on to the SDK, or fails; and what it asked
\* for comes or does not.
LEMMA MountKeepsInv ==
  ASSUME Inv, Mount \/ ScriptEnds \/ SdkLoads \/ SdkFails
  PROVE  Inv'
<1>1. /\ UNCHANGED <<kind, call, asked, resolvedUrl, overlapped, waiting>>
      /\ script' \in {"absent", "loading", "loaded", "failed"}
  BY DEF Mount, ScriptEnds, SdkLoads, SdkFails, Inv, TypeOK, scriptVars
<1>2. CASE Mount /\ mounting' = session
  <2>1. /\ kind = "sdk" /\ session # None /\ mountedUrl = None /\ posted = {}
        /\ UNCHANGED <<session, mountedUrl, posted>>
    BY <1>2 DEF Mount, MountError, scriptVars
  <2>2. waiting = None
    BY <1>1, <2>1 DEF Inv, OnlyRestartsReplace
  <2>3. TypeOK' /\ ComponentIsBehind' /\ OnlyRestartsReplace'
    BY <1>1, <1>2, <2>1, <2>2
    DEF Inv, TypeOK, ComponentIsBehind, OnlyRestartsReplace
  <2>4. OneAtATime'
    BY <1>1, <2>1 DEF Inv, OneAtATime, InFlight
  <2>5. QED
    BY <1>1, <2>3, <2>4, CallsAloneKeep DEF Inv
\* An error takes the session, and with it what was to become of it
<1>3. CASE MountError /\ mounting' = None /\ mountedUrl = None /\ UNCHANGED mountedUrl
  BY <1>1, <1>3, DroppingKeepsInv DEF MountError
<1>4. CASE Mount /\ mounting' # session
  BY <1>3, <1>4 DEF Mount, scriptVars
<1>5. mounting # None => kind = "sdk" /\ session # None /\ mountedUrl = None
  BY DEF Inv, ComponentIsBehind
<1>6. CASE ScriptEnds
  <2>1. CASE script' = "failed" /\ mounting # None
    BY <1>3, <1>5, <1>6, <2>1 DEF ScriptEnds
  <2>2. CASE ~(script' = "failed" /\ mounting # None)
    <3>1. UNCHANGED <<session, mountedUrl, mounting, posted>>
      BY <1>6, <2>2 DEF ScriptEnds
    <3>2. mountedUrl # None => session # None
      BY DEF Inv, ComponentIsBehind
    <3>3. QED
      BY <1>1, <3>1, <3>2, DroppingKeepsInv
  <2>3. QED
    BY <2>1, <2>2
<1>7. CASE SdkLoads
  BY <1>1, <1>5, <1>7, ShowingKeepsInv DEF SdkLoads, AwaitsSdk
<1>8. CASE SdkFails
  BY <1>3, <1>5, <1>8 DEF SdkFails, AwaitsSdk
<1>9. QED
  BY <1>2, <1>4, <1>6, <1>7, <1>8

LEMMA HearKeepsInv ==
  ASSUME Inv, Hear
  PROVE  Inv'
<1>1. PICK event \in {Interpret(p.message) : p \in posted} \cup {None}, p \in posted :
        /\ IF event = None /\ p.meant = None THEN UNCHANGED <<told, session, mountedUrl>>
           ELSE /\ told' = {[event |-> event, meant |-> p.meant, origin |-> p.origin]}
                /\ mountedUrl' = IF event \in {None, "complete"} THEN mountedUrl ELSE None
                /\ session' = IF event \in {"cancel", "decline", "error"} THEN None ELSE session
        /\ UNCHANGED <<kind, call, asked, resolvedUrl, overlapped, waiting, script, mounting>>
        /\ posted # {}
  BY DEF Hear, scriptVars
<1>2. event = None => event \notin {"cancel", "decline", "error"}
  BY DEF Meanings
<1>3. /\ session' \in {session, None} /\ mountedUrl' \in {mountedUrl, None}
      /\ mountedUrl' # None => session' # None
  BY <1>1, <1>2 DEF Inv, ComponentIsBehind
<1>4. mounting = None
  BY <1>1 DEF Inv, ComponentIsBehind
<1>5. QED
  BY <1>1, <1>3, <1>4, DroppingKeepsInv DEF Inv, TypeOK

-----------------------------------------------------------------------------
(* The theorems *)

LEMMA StepKeepsInv == Inv /\ [Next]_vars => Inv'
<1> SUFFICES ASSUME Inv, [Next]_vars
             PROVE  Inv'
  OBVIOUS
<1>1. CASE Start
  BY <1>1, StartKeepsInv
<1>2. CASE Restart
  BY <1>2, RestartKeepsInv
<1>3. CASE Settle
  BY <1>3, SettleKeepsInv
<1>4. CASE Mount \/ ScriptEnds \/ SdkLoads \/ SdkFails
  BY <1>4, MountKeepsInv
<1>5. CASE Leave
  BY <1>5, DroppingKeepsInv DEF Leave, Inv, TypeOK
<1>6. CASE Post \/ UNCHANGED vars
  BY <1>6, DroppingKeepsInv DEF Post, vars, scriptVars, Inv, TypeOK, ComponentIsBehind
<1>7. CASE Hear
  BY <1>7, HearKeepsInv
<1>8. ASSUME NEW c \in Calls, TokenArrives(c) \/ TokenFails(c)
      PROVE  Inv'
  BY <1>8, MovesByToken, MovedKeepsInv
<1>9. ASSUME NEW c \in Calls, Answer(c)
      PROVE  Inv'
  BY <1>9, MovesByAnswer, MovedKeepsInv
<1>10. ASSUME NEW c \in Calls, Watchdog(c)
       PROVE  Inv'
  BY <1>10, MovesByWatchdog, MovedKeepsInv
<1>11. QED
  BY <1>1, <1>2, <1>3, <1>4, <1>5, <1>6, <1>7, <1>8, <1>9, <1>10 DEF Next

LEMMA Invariance == Spec => []Inv
<1>1. QED
  BY InitEstablishesInv, StepKeepsInv, PTL DEF Spec

\* Every call has an operation, a progress, a timer and an outcome its state allows.
THEOREM SourcesAreTyped == Spec => []TypeOK
<1>1. Inv => TypeOK
  BY DEF Inv
<1>2. QED
  BY <1>1, Invariance, PTL

\* A hosted source's call has its watchdog for as long as it is pending, and no
\* timer is left when it is not (withTimeout.ts).
THEOREM WatchdogsGuard == Spec => []TimerGuardsTheCall
<1>1. Inv => TimerGuardsTheCall
  BY DEF Inv
<1>2. QED
  BY <1>1, Invariance, PTL

\* A page is that of its component's session, for any number of components that
\* use a source one after another, unless two starts of an SDK source overlapped.
THEOREM PagesAreTheirSessions == Spec => []MountsItsSession
<1>1. Inv => MountsItsSession
  <2>1. SUFFICES ASSUME Inv, mountedUrl # None, ~(kind = "sdk" /\ overlapped)
                 PROVE  mountedUrl = call[session].url
    BY DEF MountsItsSession
  <2>2. session \in Calls /\ call[session].outcome = "session"
    BY <2>1 DEF Inv, TypeOK, ComponentIsBehind
  <2>3. call[session].url = session
    BY <2>1, <2>2 DEF Inv, SessionsAreTheirOwn
  <2>4. mountedUrl = session
    BY <2>1 DEF Inv, ComponentIsBehind, OneAtATime
  <2>5. QED
    BY <2>3, <2>4
<1>2. QED
  BY <1>1, Invariance, PTL

\* What replaces a session is a restart of it: the same envelope, a new page.
LEMMA ReplacementKeepsEnvelope ==
  ASSUME Inv, [Next]_vars, session # None, session' # None, session' # session
  PROVE  /\ call'[session'].envelope = call[session].envelope
         /\ call'[session'].url # call[session].url
<1>1. Settle
  <2>1. ~(\/ Start \/ Restart \/ Mount \/ ScriptEnds \/ SdkLoads \/ SdkFails
          \/ Leave \/ Post \/ UNCHANGED vars)
    BY DEF Start, Restart, Mount, ScriptEnds, SdkLoads, SdkFails, MountError, Leave, Post, vars
  <2>2. ~Hear
    BY DEF Hear
  <2>3. \A c \in Calls : ~(TokenArrives(c) \/ TokenFails(c) \/ Answer(c) \/ Watchdog(c))
    BY DEF TokenArrives, TokenFails, Answer, Watchdog
  <2>4. QED
    BY <2>1, <2>2, <2>3 DEF Next
<1>2. /\ session' = waiting /\ call' = call
      /\ waiting # None /\ call[waiting].outcome = "session"
  BY <1>1 DEF Settle
<1>3. waiting \in Calls /\ session \in Calls /\ call[session].outcome = "session"
  BY <1>2 DEF Inv, TypeOK, ComponentIsBehind
<1>4. /\ call[waiting].op = "restart" /\ waiting # session
      /\ call[waiting].of = call[session].envelope
  BY <1>2 DEF Inv, OnlyRestartsReplace
<1>5. /\ call[waiting].envelope = call[waiting].of /\ call[waiting].url = waiting
      /\ call[session].url = session
  BY <1>2, <1>3, <1>4 DEF Inv, SessionsAreTheirOwn
<1>6. QED
  BY <1>2, <1>4, <1>5

\* However often it expires, a component stays on the envelope it started with.
THEOREM RestartsStay == Spec => RestartKeepsEnvelope
<1> DEFINE Stays == (session # None /\ session' # None /\ session' # session) =>
                      /\ call'[session'].envelope = call[session].envelope
                      /\ call'[session'].url # call[session].url
<1>1. Inv /\ [Next]_vars => [Stays]_vars
  BY ReplacementKeepsEnvelope
<1>2. QED
  BY <1>1, Invariance, PTL DEF Spec, RestartKeepsEnvelope

-----------------------------------------------------------------------------
(* How messages are read *)

\* A DocuSign message is read by the one field that names an outcome,
LEMMA ReadByTheField ==
  ASSUME NEW message, NEW i \in DOMAIN Candidates(message),
         \A j \in DOMAIN Candidates(message) :
           j = i <=> /\ Candidates(message)[j] \in DOMAIN message
                     /\ message[Candidates(message)[j]] \in DOMAIN Outcomes(message)
  PROVE  InterpretDocuSign(message) = Outcomes(message)[message[Candidates(message)[i]]]
<1> DEFINE fields == Candidates(message)
           named == {j \in DOMAIN fields : /\ fields[j] \in DOMAIN message
                                           /\ message[fields[j]] \in DOMAIN Outcomes(message)}
<1>1. named = {i}
  OBVIOUS
<1>2. i <= i
  <2>1. i \in Nat
    BY DEF Candidates
  <2>2. QED
    BY <2>1
<1>3. (CHOOSE j \in named : \A k \in named : j <= k) = i
  BY <1>1, <1>2
<1>4. QED
  BY <1>1, <1>3 DEF InterpretDocuSign

\* and says nothing if none does.
LEMMA ReadAsNothing ==
  ASSUME NEW message,
         \A j \in DOMAIN Candidates(message) :
           ~(/\ Candidates(message)[j] \in DOMAIN message
             /\ message[Candidates(message)[j]] \in DOMAIN Outcomes(message))
  PROVE  InterpretDocuSign(message) = None
BY DEF InterpretDocuSign

LEMMA DocuSignWords ==
  /\ DOMAIN DocuSignOutcome = {"signingResult", "formConfirmation", "signing_complete",
       "signingComplete", "sessionTimeout", "session_timeout", "ttl_expired", "cancel",
       "signingCancel", "decline", "exception"}
  /\ DOMAIN EnvelopeOutcome = DOMAIN DocuSignOutcome \cup {"error"}
BY DEF DocuSignOutcome, EnvelopeOutcome

LEMMA FormWords ==
  \A w \in DOMAIN FormOutcomes : w \in DOMAIN EnvelopeOutcome /\ EnvelopeOutcome[w] = FormOutcomes[w]
BY DEF FormOutcomes, FormButtons, EnvelopeOutcome, DocuSignOutcome

\* A sessionEnd is read by its other field, whichever that is.
LEMMA SessionEndIsRead ==
  ASSUME NEW f \in {"event", "type"}, NEW g \in Discriminators, f # g,
         NEW w \in DOMAIN EnvelopeOutcome
  PROVE  InterpretDocuSign(SessionEnd(f, g, w)) = EnvelopeOutcome[w]
<1> DEFINE message == SessionEnd(f, g, w)
<1>1. DOMAIN message = {f, g} /\ message[f] = "sessionEnd" /\ message[g] = w
  BY DEF SessionEnd
<1>2. "sessionEnd" \notin DOMAIN EnvelopeOutcome
  BY DocuSignWords
<1> HIDE DEF message
<1>3. /\ Candidates(message) = <<"type", "sessionEndType", "returnValue", "event", "status">>
      /\ Outcomes(message) = EnvelopeOutcome
  BY <1>1 DEF Candidates, Outcomes, IsSessionEnd
<1> DEFINE i == CASE g = "type" -> 1 [] g = "sessionEndType" -> 2 [] g = "returnValue" -> 3
                  [] g = "status" -> 5
<1>4. i \in DOMAIN Candidates(message) /\ Candidates(message)[i] = g
  BY <1>3 DEF Discriminators
<1>5. \A j \in DOMAIN Candidates(message) :
        j = i <=> /\ Candidates(message)[j] \in DOMAIN message
                  /\ message[Candidates(message)[j]] \in DOMAIN Outcomes(message)
  <2>1. \A j \in DOMAIN Candidates(message) : Candidates(message)[j] = g => j = i
    BY <1>3 DEF Discriminators
  <2> HIDE DEF i
  <2>2. QED
    BY <1>1, <1>2, <1>3, <1>4, <2>1
<1> HIDE DEF i
<1>6. InterpretDocuSign(message) = Outcomes(message)[message[Candidates(message)[i]]]
  BY <1>4, <1>5, ReadByTheField
<1>7. QED
  BY <1>1, <1>3, <1>4, <1>6 DEF message

LEMMA ReportsAreUnderstood == \A r \in Reports : r.origin = "page" /\ Interpret(r.message) = r.meant
<1> SUFFICES ASSUME NEW r \in Reports PROVE r.origin = "page" /\ Interpret(r.message) = r.meant
  OBVIOUS
<1>1. CASE kind = "proxy"
  <2>1. ASSUME NEW w \in DOMAIN BridgeWords
        PROVE  InterpretBridge([event |-> w]) = BridgeWords[w]
    BY <2>1 DEF InterpretBridge
  <2>2. ASSUME NEW raw \in DOMAIN CeremonyReturns
        PROVE  ReturnEvent(raw) \in DOMAIN BridgeWords /\ BridgeWords[ReturnEvent(raw)] = CeremonyReturns[raw]
    BY <2>2 DEF CeremonyReturns, ReturnEvent, BridgeWords
  <2>3. ASSUME NEW w \in DOMAIN SigningButtons
        PROVE  w \in DOMAIN BridgeWords /\ BridgeWords[w] = SigningButtons[w]
    BY <2>3 DEF SigningButtons, BridgeWords
  <2>4. CASE \E raw \in DOMAIN CeremonyReturns : r = FromPage([event |-> ReturnEvent(raw)], CeremonyReturns[raw])
    BY <1>1, <2>1, <2>2, <2>4 DEF FromPage, Interpret
  <2>5. CASE \E w \in DOMAIN SigningButtons : r = FromPage([event |-> w], SigningButtons[w])
    BY <1>1, <2>1, <2>3, <2>5 DEF FromPage, Interpret
  <2>6. QED
    BY <1>1, <2>4, <2>5 DEF Reports
<1>2. CASE kind # "proxy"
  <2>1. PICK f \in {"event", "type"}, g \in Discriminators, w \in DOMAIN FormOutcomes :
          f # g /\ r = FromPage(SessionEnd(f, g, w), FormOutcomes[w])
    BY <1>2 DEF Reports, Discriminators
  <2>2. InterpretDocuSign(SessionEnd(f, g, w)) = FormOutcomes[w]
    BY <2>1, FormWords, SessionEndIsRead
  <2>3. QED
    BY <1>2, <2>1, <2>2 DEF FromPage, Interpret
<1>3. QED
  BY <1>1, <1>2

LEMMA NoiseIsIgnored == \A r \in Noise : r.meant = None /\ Interpret(r.message) = None
<1> SUFFICES ASSUME NEW message \in {[f \in {} |-> None], [event |-> "ready"], [type |-> "userActivity"],
                  [event |-> "viewing_complete"], [type |-> "error"], [status |-> "error"],
                  [event |-> "sessionEnd"], [status |-> "cancel"]}
             PROVE  Interpret(message) = None
  BY DEF Noise, FromPage
<1>1. /\ DOMAIN message \in {{}, {"event"}, {"type"}, {"status"}}
      /\ "event" \in DOMAIN message => message["event"] \in {"ready", "viewing_complete", "sessionEnd"}
      /\ "type" \in DOMAIN message => message["type"] \in {"userActivity", "error"}
  OBVIOUS
<1>2. CASE kind = "proxy"
  <2>1. ~("event" \in DOMAIN message /\ message["event"] \in DOMAIN BridgeWords)
    BY <1>1 DEF BridgeWords
  <2>2. QED
    BY <1>2, <2>1 DEF Interpret, InterpretBridge
<1>3. CASE kind # "proxy"
  <2>1. \A j \in DOMAIN Candidates(message) :
           ~(/\ Candidates(message)[j] \in DOMAIN message
             /\ message[Candidates(message)[j]] \in DOMAIN Outcomes(message))
    <3>1. CASE IsSessionEnd(message)
      <4>1. DOMAIN message = {"event"} /\ message["event"] = "sessionEnd"
        BY <1>1, <3>1 DEF IsSessionEnd
      <4>2. Outcomes(message) = EnvelopeOutcome /\ "sessionEnd" \notin DOMAIN EnvelopeOutcome
        BY <3>1, DocuSignWords DEF Outcomes
      <4>3. QED
        BY <4>1, <4>2
    <3>2. CASE ~IsSessionEnd(message)
      <4>1. /\ Candidates(message) = <<"type", "returnValue", "event">>
            /\ Outcomes(message) = DocuSignOutcome
        BY <3>2 DEF Candidates, Outcomes
      <4>2. \A j \in DOMAIN Candidates(message) : Candidates(message)[j] \in {"type", "returnValue", "event"}
        BY <4>1
      <4>3. \A f \in {"type", "returnValue", "event"} :
              f \in DOMAIN message => message[f] \notin DOMAIN DocuSignOutcome
        BY <1>1, DocuSignWords
      <4>4. QED
        BY <4>1, <4>2, <4>3
    <3>3. QED
      BY <3>1, <3>2
  <2>2. QED
    BY <1>3, <2>1, ReadAsNothing DEF Interpret
<1>4. QED
  BY <1>2, <1>3

LEMMA FramesAreForeign ==
  \A r \in Foreign : r.meant = None /\ r.origin = "elsewhere"
<1> SUFFICES ASSUME kind # "sdk", NEW r \in Reports
             PROVE  LET s == [r EXCEPT !.meant = None, !.origin = "elsewhere"]
                    IN s.meant = None /\ s.origin = "elsewhere"
  BY DEF Foreign
<1>1. DOMAIN r = {"message", "meant", "origin"}
  BY DEF Reports, FromPage
<1>2. QED
  BY <1>1

-----------------------------------------------------------------------------
(* The component is told what happened at its page *)

\* What is posted is what some page posts, and what was told is what it meant
Heard ==
  /\ posted \subseteq Reports \cup Noise \cup Foreign
  /\ TellsTheOutcome

\* The vocabulary of a source is that of its kind, which stays.
LEMMA VocabularyStays ==
  ASSUME UNCHANGED kind
  PROVE  UNCHANGED <<Reports, Noise, Foreign>>
BY DEF Reports, Noise, Foreign

LEMMA HeardStaysHeard ==
  ASSUME Heard, [Next]_vars
  PROVE  Heard'
<1>1. UNCHANGED kind
  BY DEF Next, vars, Start, Restart, Settle, Mount, ScriptEnds, SdkLoads, SdkFails, Leave, Post,
         Hear, TokenArrives, TokenFails, Answer, Watchdog
<1>2. UNCHANGED <<Reports, Noise, Foreign>>
  BY <1>1, VocabularyStays
<1> HIDE DEF Reports, Noise, Foreign
<1>3. CASE UNCHANGED vars
  BY <1>1, <1>2, <1>3 DEF vars, Heard, TellsTheOutcome
<1>4. CASE \/ Restart
           \/ \E c \in Calls : TokenArrives(c) \/ TokenFails(c) \/ Answer(c) \/ Watchdog(c)
  BY <1>1, <1>2, <1>4 DEF Heard, TellsTheOutcome, Restart, TokenArrives, TokenFails,
                          Answer, Watchdog
<1>5. CASE Start \/ Settle \/ Leave
  BY <1>1, <1>2, <1>5 DEF Heard, TellsTheOutcome, Start, Settle, Leave
<1>6. CASE Mount \/ ScriptEnds \/ SdkLoads \/ SdkFails
  <2>1. UNCHANGED posted /\ (UNCHANGED told \/ MountError)
    BY <1>6 DEF Mount, ScriptEnds, SdkLoads, SdkFails
  <2>2. QED
    BY <1>1, <1>2, <2>1 DEF Heard, TellsTheOutcome, MountError
<1>7. CASE Post
  BY <1>1, <1>2, <1>7 DEF Heard, TellsTheOutcome, Post
<1>8. CASE Hear
  <2> DEFINE event(r) == IF IsAllowedOrigin(r) THEN Interpret(r.message) ELSE None
  <2>1. PICK r \in posted :
          /\ posted' = posted \ {r}
          /\ \/ UNCHANGED told
             \/ told' = {[event |-> event(r), meant |-> r.meant, origin |-> r.origin]}
    BY <1>8 DEF Hear
  <2>2. r.origin = "page" \/ kind \in Pinned => event(r) = r.meant
    <3>1. CASE r \in Reports
      BY <3>1, ReportsAreUnderstood DEF IsAllowedOrigin
    <3>2. CASE r \in Noise
      BY <3>2, NoiseIsIgnored
    <3>3. CASE r \in Foreign
      BY <3>3, FramesAreForeign DEF IsAllowedOrigin
    <3>4. QED
      BY <3>1, <3>2, <3>3 DEF Heard
  <2> HIDE DEF event
  <2>3. QED
    BY <1>1, <1>2, <2>1, <2>2 DEF Heard, TellsTheOutcome
<1>9. QED
  BY <1>3, <1>4, <1>5, <1>6, <1>7, <1>8 DEF Next

LEMMA AlwaysHeard == Spec => []Heard
<1>1. Init => Heard
  BY DEF Init, Heard, TellsTheOutcome
<1>2. Heard /\ [Next]_vars => Heard'
  BY HeardStaysHeard
<1>3. QED
  BY <1>1, <1>2, PTL DEF Spec

-----------------------------------------------------------------------------
(* The signer reads why a call failed *)

\* How a call k failed: in time, for want of an envelope, or refused
TimedOut(k) ==
  k.timer = "fired" /\ k.code = "NETWORK_ERROR" /\ k.refusal = None /\ k.op # "restart"

NothingToRestart(k) ==
  /\ k.timer # "fired" /\ k.code = "SESSION_EXPIRED" /\ k.refusal = None
  /\ k.op = "restart" /\ k.of = None

WasRefused(k) ==
  /\ k.timer # "fired" /\ (k.op = "restart" => k.of # None)
  /\ \/ /\ k.refusal = "unanswered"
        /\ k.code = IF k.op = "restart" THEN "RESTART_FAILED" ELSE "ENVELOPE_CREATION_FAILED"
     \/ k.refusal \in Rejections(k.op) /\ k.code = Wire(k.refusal)

Explained(k) ==
  /\ k.outcome = "pending" =>
       k.timer # "fired" /\ k.refusal = None /\ (k.op = "restart" => k.of # None)
  /\ k.outcome = "failed" => TimedOut(k) \/ NothingToRestart(k) \/ WasRefused(k)

WhyInv == \A c \in Calls : Explained(call[c])

\* What was not asked for has not begun
Unasked == \A c \in Calls : asked < c => call[c] = Idle

\* A pending call that is refused is explained, the race being over.
LEMMA RefusalExplains ==
  ASSUME NEW c \in Calls, call[c] \in CallState, Explained(call[c]),
         call[c].outcome = "pending",
         NEW refusal \in Rejections(call[c].op) \cup {"unanswered"}
  PROVE  Explained([Over(Refused(c, refusal)) EXCEPT !.run = "answered"])
<1> DEFINE a == Refused(c, refusal)
           r == [Over(a) EXCEPT !.run = "answered"]
<1>1. refusal \in ErrorCodes \cup {"uncoded", "unanswered"}
  BY DEF Rejections, ErrorCodes
<1>2. CodeOf(c, refusal) \in Codes
  BY <1>1, RefusalsAreCoded
<1>3. CodeOf(c, refusal) =
        IF refusal = "unanswered"
        THEN IF call[c].op = "restart" THEN "RESTART_FAILED" ELSE "ENVELOPE_CREATION_FAILED"
        ELSE Wire(refusal)
  BY DEF CodeOf, FallbackCode
<1> HIDE DEF CodeOf
<1>4. /\ a \in CallState /\ a.op = call[c].op /\ a.of = call[c].of
      /\ a.timer = call[c].timer /\ a.outcome = "failed"
      /\ a.refusal = refusal /\ a.code = CodeOf(c, refusal)
  BY <1>1, <1>2 DEF Refused, Failed, CallState
<1> HIDE DEF a
<1>5. /\ r.op = a.op /\ r.of = a.of /\ r.outcome = a.outcome
      /\ r.refusal = a.refusal /\ r.code = a.code
      /\ r.timer = IF a.timer = "set" THEN "cleared" ELSE a.timer
  BY <1>4 DEF Over, CallState
<1> HIDE DEF r
<1>6. WasRefused(r)
  BY <1>3, <1>4, <1>5 DEF WasRefused, Explained
<1>7. QED
  BY <1>4, <1>5, <1>6 DEF Explained, a, r

\* A call that was answered is explained as before, how far run() is aside.
LEMMA RunExplainsNothing ==
  ASSUME NEW k \in CallState, Explained(k), NEW run
  PROVE  Explained([k EXCEPT !.run = run])
BY DEF Explained, TimedOut, NothingToRestart, WasRefused, CallState

LEMMA UnaskedStaysIdle ==
  ASSUME Inv, Unasked, [Next]_vars
  PROVE  Unasked'
<1>1. call \in [Calls -> CallState] /\ asked \in Nat /\ \A c \in Calls : c \in Nat
  BY DEF Inv, TypeOK, Calls
<1>2. CASE Start \/ Restart
  <2>1. PICK r : asked' = asked + 1 /\ call' = [call EXCEPT ![asked + 1] = r]
    BY <1>2 DEF Start, Restart
  <2>2. \A c \in Calls : asked + 1 < c => asked < c /\ c # asked + 1
    BY <1>1
  <2>3. QED
    BY <1>1, <2>1, <2>2 DEF Unasked
<1>3. ASSUME NEW c \in Calls,
             TokenArrives(c) \/ TokenFails(c) \/ Answer(c) \/ Watchdog(c)
      PROVE  Unasked'
  <2>1. call[c].run \in {"token", "asked"} \/ call[c].timer = "set"
    BY <1>3 DEF TokenArrives, TokenFails, Answer, Watchdog
  <2>2. call[c] # Idle
    BY <2>1 DEF Idle
  <2>3. PICK r : asked' = asked /\ call' = [call EXCEPT ![c] = r]
    BY <1>3 DEF TokenArrives, TokenFails, Answer, Watchdog
  <2>4. QED
    BY <1>1, <2>2, <2>3 DEF Unasked
<1>4. CASE \/ UNCHANGED vars \/ Settle \/ Mount \/ ScriptEnds \/ SdkLoads \/ SdkFails
           \/ Leave \/ Post \/ Hear
  BY <1>4 DEF Unasked, vars, Settle, Mount, ScriptEnds, SdkLoads, SdkFails, Leave, Post, Hear
<1>5. QED
  BY <1>2, <1>3, <1>4 DEF Next

LEMMA FailuresAreExplained ==
  ASSUME Inv, WhyInv, Unasked, [Next]_vars
  PROVE  WhyInv'
<1>1. /\ call \in [Calls -> CallState] /\ \A c \in Calls : Explained(call[c])
      /\ None \notin Calls
  BY DEF Inv, TypeOK, WhyInv
<1>2. SUFFICES ASSUME NEW c \in Calls, NEW r, Explained(r),
                      call' = [call EXCEPT ![c] = r]
               PROVE  WhyInv'
  <2>1. ASSUME NEW c \in Calls, TokenArrives(c)
        PROVE  \E r : Explained(r) /\ call' = [call EXCEPT ![c] = r]
    BY <1>1, <2>1, RunExplainsNothing DEF TokenArrives
  <2>2. ASSUME NEW c \in Calls, TokenFails(c)
        PROVE  \E r : Explained(r) /\ call' = [call EXCEPT ![c] = r]
    <3>1. CASE call[c].outcome = "pending"
      <4>1. call' = [call EXCEPT ![c] =
                       [Over(Refused(c, "unanswered")) EXCEPT !.run = "answered"]]
        BY <2>2, <3>1 DEF TokenFails
      <4>2. Explained([Over(Refused(c, "unanswered")) EXCEPT !.run = "answered"])
        BY <1>1, <3>1, RefusalExplains
      <4>3. QED
        BY <4>1, <4>2
    <3>2. CASE call[c].outcome # "pending"
      BY <1>1, <2>2, <3>2, RunExplainsNothing DEF TokenFails
    <3>3. QED
      BY <3>1, <3>2
  <2>3. ASSUME NEW c \in Calls, Answer(c)
        PROVE  \E r : Explained(r) /\ call' = [call EXCEPT ![c] = r]
    <3>1. PICK a \in Good(c) \cup Bad(c) :
            call' = [call EXCEPT ![c] =
              [(IF call[c].outcome = "pending" THEN Over(a) ELSE call[c])
                 EXCEPT !.run = "answered"]]
      BY <2>3 DEF Answer
    <3>2. CASE call[c].outcome # "pending"
      BY <1>1, <3>1, <3>2, RunExplainsNothing
    <3>3. CASE call[c].outcome = "pending" /\ a \in Bad(c)
      <4>1. PICK refusal \in Refusals(c) : a = Refused(c, refusal)
        BY <3>3 DEF Bad
      <4>2. refusal \in Rejections(call[c].op) \cup {"unanswered"}
        BY DEF Refusals, Rejections
      <4>3. call' = [call EXCEPT ![c] =
                       [Over(Refused(c, refusal)) EXCEPT !.run = "answered"]]
        BY <3>1, <3>3, <4>1
      <4>4. Explained([Over(Refused(c, refusal)) EXCEPT !.run = "answered"])
        BY <1>1, <3>3, <4>2, RefusalExplains
      <4>5. QED
        BY <4>3, <4>4
    <3>4. CASE call[c].outcome = "pending" /\ a \in Good(c)
      <4>1. PICK id \in Calls \cup {None} : a = Settled(c, c, id)
        BY <1>1, <3>4 DEF Good, CallState
      <4>2. call[c] \in CallState
        BY <1>1
      <4>3. a \in CallState /\ a.outcome = "session"
        BY <4>1, <4>2 DEF Settled, CallState
      <4>4. [Over(a) EXCEPT !.run = "answered"].outcome = "session"
        BY <4>3, OverLeavesNoTimer
      <4>5. Explained([Over(a) EXCEPT !.run = "answered"])
        BY <4>4 DEF Explained
      <4>6. QED
        BY <3>1, <3>4, <4>5
    <3>5. QED
      BY <3>2, <3>3, <3>4
  <2>4. ASSUME NEW c \in Calls, Watchdog(c)
        PROVE  \E r : Explained(r) /\ call' = [call EXCEPT ![c] = r]
    <3> DEFINE r == [Failed(c, "NETWORK_ERROR") EXCEPT !.timer = "fired"]
    <3>1. call[c].op = "start" /\ call[c].outcome = "pending"
      BY <2>4 DEF Inv, TimersAreHosted, TimerGuardsTheCall, Watchdog
    <3>2. /\ r.op = "start" /\ r.outcome = "failed" /\ r.timer = "fired"
          /\ r.code = "NETWORK_ERROR" /\ r.refusal = None
      BY <1>1, <3>1 DEF Failed, CallState, Explained
    <3> HIDE DEF r
    <3>3. Explained(r)
      BY <3>2 DEF Explained, TimedOut
    <3>4. QED
      BY <2>4, <3>3 DEF Watchdog, r
  <2>5. CASE Start
    <3> DEFINE c == asked + 1
               r == IF kind = "public"
                    THEN [Settled(c, c, None) EXCEPT !.op = "start", !.run = "answered"]
                    ELSE [Idle EXCEPT !.op = "start", !.run = "token",
                                      !.timer = IF kind = "hosted" THEN "set" ELSE "none"]
    <3>1. c \in Calls /\ call' = [call EXCEPT ![c] = r]
      BY <2>5 DEF Start
    <3>2. Explained(r)
      <4>1. CASE kind = "public"
        <5>1. r.outcome = "session"
          BY <1>1, <3>1, <4>1 DEF Settled, CallState
        <5> HIDE DEF r
        <5>2. QED
          BY <5>1 DEF Explained
      <4>2. CASE kind # "public"
        <5>1. /\ r.outcome = "pending" /\ r.timer # "fired" /\ r.refusal = None
              /\ r.op = "start"
          BY <4>2 DEF Idle
        <5> HIDE DEF r
        <5>2. QED
          BY <5>1 DEF Explained
      <4>3. QED
        BY <4>1, <4>2
    <3> HIDE DEF c, r
    <3>3. QED
      BY <1>2, <3>1, <3>2
  <2>6. CASE Restart
    <3> DEFINE c == asked + 1
               r == IF call[session].envelope = None
                    THEN [Failed(c, "SESSION_EXPIRED") EXCEPT !.op = "restart",
                                                             !.run = "answered"]
                    ELSE [Idle EXCEPT !.op = "restart", !.run = "token",
                                      !.of = call[session].envelope]
    <3>1. c \in Calls /\ call' = [call EXCEPT ![c] = r]
      BY <2>6 DEF Restart
    <3>2. Explained(r)
      <4>1. /\ call[session] \in CallState
            /\ call[c] = Idle
        BY <1>1, <2>6, <3>1, NextCallIsFresh DEF Inv, TypeOK, Restart, Unasked
      <4>2. CASE call[session].envelope = None
        <5>1. /\ r.op = "restart" /\ r.of = None /\ r.outcome = "failed"
              /\ r.timer = "none" /\ r.code = "SESSION_EXPIRED" /\ r.refusal = None
          BY <4>1, <4>2 DEF Failed, Idle
        <5> HIDE DEF r
        <5>2. QED
          BY <5>1 DEF Explained, NothingToRestart
      <4>3. CASE call[session].envelope # None
        <5>1. /\ r.op = "restart" /\ r.of # None /\ r.outcome = "pending"
              /\ r.timer = "none" /\ r.refusal = None
          BY <4>3 DEF Idle
        <5> HIDE DEF r
        <5>2. QED
          BY <5>1 DEF Explained
      <4>4. QED
        BY <4>2, <4>3
    <3> HIDE DEF c, r
    <3>3. QED
      BY <1>2, <3>1, <3>2
  <2>7. QED
    BY <1>1, <1>2, <2>1, <2>2, <2>3, <2>4, <2>5, <2>6
       DEF Next, vars, WhyInv, Settle, Mount, ScriptEnds, SdkLoads, SdkFails, Leave, Post, Hear
<1>3. call'[c] = r /\ \A d \in Calls \ {c} : call'[d] = call[d]
  BY <1>1, <1>2
<1>4. QED
  BY <1>1, <1>2, <1>3 DEF WhyInv

LEMMA AlwaysExplained == Spec => []WhyInv
<1>1. Init => WhyInv /\ Unasked
  <2>1. Explained(Idle)
    BY DEF Explained, Idle
  <2>2. QED
    BY <2>1 DEF Init, WhyInv, Unasked
<1>2. Inv /\ WhyInv /\ Unasked /\ [Next]_vars => WhyInv' /\ Unasked'
  BY FailuresAreExplained, UnaskedStaysIdle
<1>3. QED
  BY <1>1, <1>2, Invariance, PTL DEF Spec

\* The copy the signer reads follows from how the call failed.
LEMMA ExplainedIsTold ==
  ASSUME Inv, WhyInv
  PROVE  SaysWhyItFailed
<1> SUFFICES ASSUME NEW c \in Calls, call[c].outcome = "failed"
             PROVE  /\ call[c].refusal \in ErrorCodes => call[c].code = call[c].refusal
                    /\ Message(call[c].code) = "connection" <=> call[c].timer = "fired"
                    /\ Message(call[c].code) = "expired"
                         <=> (call[c].op = "restart" /\ call[c].of = None)
                    /\ Message(call[c].code) \in {"creation", "server"} =>
                         (call[c].op = "restart" <=> Message(call[c].code) = "server")
                    /\ Message(call[c].code) \in {"input", "saving", "refused", "lost"} =>
                         call[c].refusal \in ErrorCodes
  BY DEF SaysWhyItFailed
<1>1. TimedOut(call[c]) \/ NothingToRestart(call[c]) \/ WasRefused(call[c])
  BY DEF WhyInv, Explained
<1>2. call[c].op \in {"none", "start", "restart"} /\ None \notin ErrorCodes
  BY NoneIsNoCode DEF Inv, TypeOK, CallState, Codes
<1>3. CASE TimedOut(call[c])
  BY <1>2, <1>3 DEF TimedOut, Message
<1>4. CASE NothingToRestart(call[c])
  BY <1>2, <1>4 DEF NothingToRestart, Message
<1>5. CASE WasRefused(call[c]) /\ call[c].refusal = "unanswered"
  BY <1>2, <1>5 DEF WasRefused, Message, Rejections, ErrorCodes
<1>6. CASE WasRefused(call[c]) /\ call[c].refusal # "unanswered"
  <2>1. call[c].refusal \in Rejections(call[c].op) /\ call[c].code = Wire(call[c].refusal)
    BY <1>6 DEF WasRefused
  <2>2. QED
    BY <1>2, <1>6, <2>1 DEF WasRefused, Message, Rejections, Wire, ErrorCodes
<1>7. QED
  BY <1>1, <1>3, <1>4, <1>5, <1>6

\* What the signer is told is what happened, of the page and of the call.
THEOREM SignersAreTold == Spec => []TellsWhatHappened
<1>1. Inv /\ WhyInv /\ Heard => TellsWhatHappened
  BY ExplainedIsTold DEF TellsWhatHappened, Heard
<1>2. QED
  BY <1>1, Invariance, AlwaysExplained, AlwaysHeard, PTL

=============================================================================
