--------------------------- MODULE TokenCacheProofs ---------------------------
(***************************************************************************)
(* Theorems about the token cache, for any number of callers and refreshes *)
(* and any lifetime, margin and latency that LatencyWithinMargin allows.   *)
(***************************************************************************)
EXTENDS TokenCache, TLAPS

USE TimesAreNatural, LatencyWithinMargin

LEMMA InitIsGood == Init => IInv
  BY NoneIsNone DEF Init, IInv, TypeOK, RefreshInv, CachedInv, WaiterInv, NoRefresh, IdleCaller,
         Refresh, Caller

\* The callers' steps touch no token.
LEMMA CallerStepIsGood ==
  ASSUME IInv, NEW c \in Callers, CallerStep(c)
  PROVE  IInv'
<1>0. /\ caller \in [Callers -> Caller] /\ refresh \in [Refreshes -> Refresh]
      /\ inFlight \in Refreshes \cup {None} /\ clears \in Nat
      /\ cached \in Cached \cup {None}
  BY DEF IInv, TypeOK
<1>1. CASE GetCached(c)
  <2>1. Returned(cached.token) \in Caller
    BY <1>0, <1>1 DEF GetCached, Fresh, Returned, Caller, Cached
  <2>2. TypeOK'
    BY <1>1, <2>1 DEF GetCached, IInv, TypeOK
  <2>3. WaiterInv'
    BY <1>0, <1>1 DEF GetCached, Returned, IInv, WaiterInv
  <2>4. QED
    BY <1>1, <2>2, <2>3 DEF GetCached, IInv, RefreshInv, CachedInv
<1>2. ASSUME NEW r \in Refreshes, StartRefresh(c, r) PROVE IInv'
  <2> DEFINE sent == [pc |-> "sent", era |-> clears, token |-> None]
  <2>1. sent \in Refresh /\ WaitsFor(r) \in Caller
    BY <1>0 DEF Refresh, Caller, WaitsFor
  <2>2. TypeOK'
    BY <1>2, <2>1 DEF StartRefresh, IInv, TypeOK
  <2>3. \A s \in Refreshes : refresh[s].pc # "free" => refresh'[s] = refresh[s]
    BY <1>0, <1>2 DEF StartRefresh
  <2>4. refresh'[r] = sent /\ inFlight' = r /\ r # None
    BY <1>0, <1>2, NoneIsNone DEF StartRefresh
  <2>5. WaiterInv'
    <3>1. ASSUME NEW d \in Callers, d # c PROVE caller'[d] = caller[d]
      BY <1>2, <3>1 DEF StartRefresh
    <3>2. caller'[c] = WaitsFor(r)
      BY <1>0, <1>2 DEF StartRefresh
    <3>3. clears' = clears
      BY <1>2 DEF StartRefresh
    <3>4. QED
      BY <2>3, <2>4, <3>1, <3>2, <3>3 DEF IInv, WaiterInv, WaitsFor
  <2>6. \A s \in Refreshes : RefreshInv(s)'
    BY <1>0, <1>2, <2>4 DEF StartRefresh, IInv, RefreshInv
  <2>7. QED
    BY <1>2, <2>2, <2>5, <2>6 DEF StartRefresh, IInv, CachedInv
<1>3. CASE JoinRefresh(c)
  <2>1. inFlight \in Refreshes /\ WaitsFor(inFlight) \in Caller
    BY <1>0, <1>3 DEF JoinRefresh, Caller, WaitsFor
  <2>2. TypeOK'
    BY <1>3, <2>1 DEF JoinRefresh, IInv, TypeOK
  <2>3. WaiterInv'
    BY <1>0, <1>3, <2>1 DEF JoinRefresh, IInv, WaiterInv, WaitsFor
  <2>4. QED
    BY <1>3, <2>2, <2>3 DEF JoinRefresh, IInv, RefreshInv, CachedInv
<1>4. CASE Done(c)
  <2>1. TypeOK'
    BY <1>4 DEF Done, IInv, TypeOK, IdleCaller, Caller
  <2>2. WaiterInv'
    BY <1>0, <1>4 DEF Done, IInv, WaiterInv, IdleCaller
  <2>3. QED
    BY <1>4, <2>1, <2>2 DEF Done, IInv, RefreshInv, CachedInv
<1>5. QED
  BY <1>1, <1>2, <1>3, <1>4 DEF CallerStep

\* What a refresh that is over leaves behind is well formed.
LEMMA AnswerType ==
  ASSUME IInv, NEW r \in Refreshes, refresh[r].pc \in {"resolved", "rejected"}
  PROVE  AnswerOf(r) \in Caller /\ AnswerOf(r).pc # "waiting" /\ AnswerOf(r).refresh = None
  BY DEF IInv, TypeOK, Refresh, Caller, AnswerOf, Returned

LEMMA RefreshStepIsGood ==
  ASSUME IInv, NEW r \in Refreshes, RefreshStep(r)
  PROVE  IInv'
<1>0. /\ caller \in [Callers -> Caller] /\ refresh \in [Refreshes -> Refresh] /\ now \in Nat
      /\ inFlight \in Refreshes \cup {None} /\ cached \in Cached \cup {None}
      /\ refresh[r] \in Refresh /\ RefreshInv(r)
  BY DEF IInv, TypeOK
<1>1. CASE Grant(r) \/ Resolve(r) \/ Reject(r)
  <2>1. /\ \E q \in Refresh : /\ refresh' = [refresh EXCEPT ![r] = q]
                              /\ q.pc # "free" /\ q.era = refresh[r].era
                              /\ q.pc \in {"granted", "resolved"} =>
                                   /\ q.token # None /\ q.token.issued <= now
                                   /\ now <= q.token.issued + MaxLatency
        /\ refresh[r].pc # "free"
        /\ UNCHANGED <<now, inFlight, caller, clears>>
    <3> DEFINE Q(q) == /\ refresh' = [refresh EXCEPT ![r] = q]
                       /\ q.pc # "free" /\ q.era = refresh[r].era
                       /\ q.pc \in {"granted", "resolved"} =>
                            /\ q.token # None /\ q.token.issued <= now
                            /\ now <= q.token.issued + MaxLatency
    <3>1. CASE Grant(r)
      <4> DEFINE t == [issued |-> now, era |-> refresh[r].era]
                 q == [pc |-> "granted", era |-> refresh[r].era, token |-> t]
      <4>1. t \in Token /\ t # None
        BY <1>0, NoneIsNone DEF Token, Refresh
      <4>2. q \in Refresh
        BY <1>0, <4>1 DEF Refresh
      <4>3. Q(q)
        BY <1>0, <3>1, <4>1 DEF Grant
      <4>4. QED
        BY <3>1, <4>2, <4>3 DEF Grant
    <3>2. CASE Resolve(r)
      <4> DEFINE q == [pc |-> "resolved", era |-> refresh[r].era, token |-> refresh[r].token]
      <4>1. q \in Refresh
        BY <1>0 DEF Refresh
      <4>2. Q(q)
        BY <1>0, <3>2 DEF Resolve, RefreshInv
      <4>3. QED
        BY <3>2, <4>1, <4>2 DEF Resolve
    <3>3. CASE Reject(r)
      <4> DEFINE q == [pc |-> "rejected", era |-> refresh[r].era, token |-> None]
      <4>1. q \in Refresh
        BY <1>0 DEF Refresh
      <4>2. Q(q)
        BY <1>0, <3>3 DEF Reject
      <4>3. QED
        BY <3>3, <4>1, <4>2 DEF Reject
    <3>4. QED
      BY <1>1, <3>1, <3>2, <3>3
  <2>2. PICK q \in Refresh : /\ refresh' = [refresh EXCEPT ![r] = q]
                             /\ q.pc # "free" /\ q.era = refresh[r].era
                             /\ q.pc \in {"granted", "resolved"} =>
                                  /\ q.token # None /\ q.token.issued <= now
                                  /\ now <= q.token.issued + MaxLatency
    BY <2>1
  <2>3. refresh' \in [Refreshes -> Refresh]
        /\ \A s \in Refreshes : refresh'[s] = IF s = r THEN q ELSE refresh[s]
    BY <1>0, <2>2
  <2>4. cached' \in Cached \cup {None} /\ CachedInv'
    <3>1. CASE Resolve(r)
      <4>1. refresh[r].token \in Token /\ now + Lifetime \in Nat
        BY <1>0, <3>1 DEF Resolve, RefreshInv, Refresh
      <4>2. cached' = [token |-> refresh[r].token, expiresAt |-> now + Lifetime]
        BY <3>1 DEF Resolve
      <4>3. now <= refresh[r].token.issued + MaxLatency /\ refresh[r].token.issued \in Nat
        BY <1>0, <3>1, <4>1 DEF Resolve, RefreshInv, Token
      <4>4. QED
        BY <1>0, <4>1, <4>2, <4>3 DEF Cached, CachedInv
    <3>2. CASE Grant(r) \/ Reject(r)
      BY <1>0, <3>2 DEF Grant, Reject, IInv, CachedInv
    <3>3. QED
      BY <1>1, <3>1, <3>2
  <2>5. TypeOK'
    BY <2>1, <2>3, <2>4 DEF IInv, TypeOK
  <2>6. \A s \in Refreshes : RefreshInv(s)'
    BY <2>1, <2>2, <2>3 DEF IInv, RefreshInv
  <2>7. WaiterInv'
    BY <1>0, <2>1, <2>2, <2>3 DEF IInv, WaiterInv
  <2>8. QED
    BY <2>4, <2>5, <2>6, <2>7 DEF IInv
<1>2. CASE Finally(r)
  <2>1. /\ inFlight' = None /\ UNCHANGED <<now, cached, clears>>
        /\ refresh' = [refresh EXCEPT ![r] = NoRefresh] /\ NoRefresh \in Refresh
        /\ caller' = [c \in Callers |-> IF caller[c].refresh = r THEN AnswerOf(r) ELSE caller[c]]
        /\ AnswerOf(r) \in Caller /\ AnswerOf(r).pc # "waiting" /\ AnswerOf(r).refresh = None
    BY <1>2, AnswerType DEF Finally, NoRefresh, Refresh
  <2>2. TypeOK'
    BY <1>0, <2>1 DEF IInv, TypeOK
  <2>3. \A s \in Refreshes : RefreshInv(s)'
    BY <1>0, <2>1 DEF IInv, RefreshInv, NoRefresh
  <2>4. WaiterInv'
    <3>1. ASSUME NEW c \in Callers
          PROVE  IF caller'[c].pc = "waiting"
                 THEN /\ caller'[c].refresh \in Refreshes
                      /\ refresh'[caller'[c].refresh].pc # "free"
                      /\ refresh'[caller'[c].refresh].era = caller'[c].era
                 ELSE caller'[c].refresh = None
      <4>1. CASE caller[c].refresh = r
        BY <2>1, <4>1
      <4>2. CASE caller[c].refresh # r
        <5>1. caller'[c] = caller[c]
              /\ \A s \in Refreshes \ {r} : refresh'[s] = refresh[s]
          BY <1>0, <2>1, <4>2
        <5>2. QED
          BY <4>2, <5>1 DEF IInv, WaiterInv
      <4>3. QED
        BY <4>1, <4>2
    <3>2. QED
      BY <2>1, <3>1 DEF WaiterInv
  <2>5. QED
    BY <2>1, <2>2, <2>3, <2>4 DEF IInv, CachedInv
<1>3. QED
  BY <1>1, <1>2 DEF RefreshStep

LEMMA StepIsGood ==
  ASSUME IInv, [Next]_vars
  PROVE  IInv'
<1>1. CASE ClearTokenCache
  <2>1. WaiterInv'
    BY <1>1 DEF ClearTokenCache, IInv, WaiterInv
  <2>2. QED
    BY <1>1, <2>1 DEF ClearTokenCache, IInv, TypeOK, RefreshInv, CachedInv
<1>2. CASE Tick
  <2>1. TypeOK' /\ WaiterInv' /\ CachedInv'
    BY <1>2 DEF Tick, IInv, TypeOK, WaiterInv, CachedInv
  <2>2. ASSUME NEW r \in Refreshes PROVE RefreshInv(r)'
    <3>1. /\ refresh[r] \in Refresh /\ RefreshInv(r) /\ now \in Nat
          /\ now' = now + 1 /\ refresh' = refresh
          /\ refresh[r].pc \notin {"resolved", "rejected"}
          /\ refresh[r].pc = "granted" => now < refresh[r].token.issued + MaxLatency
      BY <1>2 DEF Tick, IInv, TypeOK
    <3>2. refresh[r].pc = "granted" => refresh[r].token.issued \in Nat
      BY <3>1 DEF RefreshInv, Refresh, Token
    <3>3. QED
      BY <3>1, <3>2 DEF RefreshInv
  <2>3. QED
    BY <2>1, <2>2 DEF IInv
<1>3. CASE UNCHANGED vars
  BY <1>3 DEF vars, IInv, TypeOK, RefreshInv, CachedInv, WaiterInv
<1>4. QED
  BY <1>1, <1>2, <1>3, CallerStepIsGood, RefreshStepIsGood DEF Next

LEMMA Inductive == Spec => []IInv
<1>1. QED
  BY InitIsGood, StepIsGood, PTL DEF Spec

\* Every variable keeps its type.
THEOREM TypeCorrect == Spec => []TypeOK
<1>1. IInv => TypeOK
  BY DEF IInv
<1>2. QED
  BY <1>1, Inductive, PTL

\* No caller waits for a refresh begun before the last clear that preceded it,
\* and what callers join is not over.
THEOREM JoinsAreFresh == Spec => [](JoinIsFresh /\ InFlightIsPending)
<1>1. IInv => JoinIsFresh /\ InFlightIsPending
  BY DEF IInv, WaiterInv, JoinIsFresh, InFlightIsPending
<1>2. QED
  BY <1>1, Inductive, PTL

\* The margin makes up for the latency: no caller is given an expired token.
THEOREM TokensAreLive == Spec => HandedTokenIsLive
<1> DEFINE Good == \A c \in Callers :
       caller[c].pc # "returned" /\ caller'[c].pc = "returned" => Live(caller'[c].token)
<1>1. IInv /\ [Next]_vars => [Good]_vars
  <2> SUFFICES ASSUME IInv, Next, NEW c \in Callers,
                      caller[c].pc # "returned", caller'[c].pc = "returned"
               PROVE  Live(caller'[c].token)
    BY DEF vars
  <2>0. caller \in [Callers -> Caller] /\ now \in Nat
    BY DEF IInv, TypeOK
  <2>1. ASSUME NEW d \in Callers, CallerStep(d) PROVE Live(caller'[c].token)
    <3>1. GetCached(c)
      BY <2>0, <2>1 DEF CallerStep, GetCached, StartRefresh, JoinRefresh, Done, WaitsFor, IdleCaller
    <3>2. cached \in Cached /\ CachedInv /\ caller'[c].token = cached.token
      BY <2>0, <3>1 DEF GetCached, Fresh, Returned, IInv, TypeOK
    <3>3. cached.token.issued \in Nat /\ cached.expiresAt \in Nat /\ cached.expiresAt > now + Margin
          /\ cached.expiresAt <= cached.token.issued + MaxLatency + Lifetime
      BY <3>1, <3>2 DEF GetCached, Fresh, Cached, Token, CachedInv
    <3>4. QED
      BY <2>0, <3>2, <3>3 DEF Live
  <2>2. ASSUME NEW r \in Refreshes, RefreshStep(r) PROVE Live(caller'[c].token)
    <3>1. Finally(r) /\ caller[c].refresh = r /\ caller'[c] = AnswerOf(r)
      BY <2>0, <2>2 DEF RefreshStep, Grant, Resolve, Reject, Finally
    <3>2. refresh[r].pc = "resolved" /\ caller'[c].token = refresh[r].token
      BY <3>1 DEF AnswerOf, Returned
    <3>3. refresh[r].token.issued \in Nat /\ now <= refresh[r].token.issued + MaxLatency
      BY <3>2 DEF IInv, TypeOK, RefreshInv, Refresh, Token
    <3>4. QED
      BY <2>0, <3>2, <3>3 DEF Live
  <2>3. ~ClearTokenCache /\ ~Tick
    BY DEF ClearTokenCache, Tick
  <2>4. QED
    BY <2>1, <2>2, <2>3 DEF Next
<1>2. QED
  BY <1>1, Inductive, PTL DEF Spec, HandedTokenIsLive

\* Until someone clears the cache, all callers share one request.
THEOREM SharedUntilCleared == Spec => []OneRefresh
<1> DEFINE Shared == clears = 0 => \A r \in Refreshes : Outstanding(r) => inFlight = r
<1>1. Init => Shared
  BY DEF Init, Outstanding, NoRefresh
<1>2. IInv /\ Shared /\ [Next]_vars => Shared'
  <2> SUFFICES ASSUME IInv, Shared, [Next]_vars, clears' = 0,
                      NEW s \in Refreshes, Outstanding(s)'
               PROVE  inFlight' = s
    OBVIOUS
  <2>0. refresh \in [Refreshes -> Refresh] /\ clears \in Nat /\ None \notin Refreshes
    BY NoneIsNone DEF IInv, TypeOK
  <2>1. ~ClearTokenCache
    BY <2>0 DEF ClearTokenCache
  <2>2. ASSUME NEW c \in Callers, CallerStep(c) PROVE inFlight' = s
    <3>1. clears = 0
      BY <2>2 DEF CallerStep, GetCached, StartRefresh, JoinRefresh, Done
    <3>2. QED
      BY <2>0, <2>2, <3>1 DEF CallerStep, GetCached, StartRefresh, JoinRefresh, Done, Outstanding
  <2>3. ASSUME NEW r \in Refreshes, RefreshStep(r) PROVE inFlight' = s
    <3>1. clears = 0
      BY <2>3 DEF RefreshStep, Grant, Resolve, Reject, Finally
    <3>2. QED
      BY <2>0, <2>3, <3>1 DEF RefreshStep, Grant, Resolve, Reject, Finally, Outstanding, NoRefresh
  <2>4. QED
    BY <2>1, <2>2, <2>3 DEF Next, Tick, vars, Outstanding
<1>3. Shared => OneRefresh
  BY DEF OneRefresh
<1>4. QED
  BY <1>1, <1>2, <1>3, Inductive, PTL DEF Spec
=============================================================================
