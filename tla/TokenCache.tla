------------------------------ MODULE TokenCache ------------------------------
(***************************************************************************)
(* The access token cache of the DocuSign client                           *)
(* (esign-node/src/providers/docusign/auth.ts, createTokenProvider): one   *)
(* cached token, one shared refresh, and a way to forget the token.        *)
(*                                                                         *)
(* A refresh is split at its awaits. What JavaScript does in one turn of   *)
(* its event loop is one step; the microtask of the promise's "finally"    *)
(* is a step of its own, because other callers may run before it.          *)
(* DocuSign's authorization server is external.                            *)
(***************************************************************************)
EXTENDS Naturals

CONSTANTS
  Callers,     \* concurrent users of getAccessToken
  Refreshes,   \* refreshes that can be outstanding at once
  None,        \* no token, no refresh
  Lifetime,    \* expires_in of every token granted
  Margin,      \* EXPIRY_MARGIN_MS
  MaxLatency,  \* the longest a granted token is under way to us
  MaxTime,     \* bound on the clock
  MaxClears    \* bound on the calls of clearTokenCache

ASSUME TimesAreNatural ==
  {Lifetime, Margin, MaxLatency, MaxTime, MaxClears} \subseteq Nat
\* The margin is there to absorb the reply's latency, and a token is worth asking for
ASSUME LatencyWithinMargin == MaxLatency <= Margin /\ MaxLatency < Lifetime

VARIABLES
  now,       \* the clock
  cached,    \* the cached token and when it is taken to expire, or None
  inFlight,  \* the refresh new callers join, or None
  refresh,   \* the refreshes
  caller,    \* the callers
  clears     \* calls of clearTokenCache so far

vars == <<now, cached, inFlight, refresh, caller, clears>>

\* A token: when it was granted, and how often the cache had been cleared when
\* it was asked for (the program keeps neither; the properties do)
Token == [issued : Nat, era : Nat]

Cached == [token : Token, expiresAt : Nat]

\* "sent": the assertion is under way; "granted": the token is; then the
\* promise is settled, and "finally" has yet to run
Refresh == [pc : {"free", "sent", "granted", "resolved", "rejected"},
            era : Nat,
            token : Token \cup {None}]

Caller == [pc : {"idle", "waiting", "returned", "failed"},
           era : Nat,
           refresh : Refreshes \cup {None},
           token : Token \cup {None}]

ASSUME NoneIsNone == None \notin Refreshes \cup Token \cup Cached

NoRefresh == [pc |-> "free", era |-> 0, token |-> None]
IdleCaller == [pc |-> "idle", era |-> 0, refresh |-> None, token |-> None]

TypeOK ==
  /\ now \in Nat
  /\ cached \in Cached \cup {None}
  /\ inFlight \in Refreshes \cup {None}
  /\ refresh \in [Refreshes -> Refresh]
  /\ caller \in [Callers -> Caller]
  /\ clears \in Nat

Init ==
  /\ now = 0
  /\ cached = None
  /\ inFlight = None
  /\ refresh = [r \in Refreshes |-> NoRefresh]
  /\ caller = [c \in Callers |-> IdleCaller]
  /\ clears = 0

-----------------------------------------------------------------------------
(* getAccessToken *)

\* Mutant: the token is used until the moment it expires
FreshWithoutMargin == cached # None /\ cached.expiresAt > now

\* The cached token is valid for the margin at least
Fresh == cached # None /\ cached.expiresAt > now + Margin

Returned(t) == [pc |-> "returned", era |-> 0, refresh |-> None, token |-> t]
WaitsFor(r) == [pc |-> "waiting", era |-> clears, refresh |-> r, token |-> None]

GetCached(c) ==
  /\ caller[c].pc = "idle"
  /\ Fresh
  /\ caller' = [caller EXCEPT ![c] = Returned(cached.token)]
  /\ UNCHANGED <<now, cached, inFlight, refresh, clears>>

\* Mutant: the caller that finds none starts a refresh and keeps it to itself
StartRefreshUnshared(c, r) ==
  /\ caller[c].pc = "idle"
  /\ ~Fresh
  /\ inFlight = None
  /\ refresh[r].pc = "free"
  /\ refresh' = [refresh EXCEPT ![r] = [pc |-> "sent", era |-> clears, token |-> None]]
  /\ caller' = [caller EXCEPT ![c] = WaitsFor(r)]
  /\ UNCHANGED <<now, cached, inFlight, clears>>

\* None is in flight: the caller starts the one that others will share
StartRefresh(c, r) ==
  /\ caller[c].pc = "idle"
  /\ ~Fresh
  /\ inFlight = None
  /\ refresh[r].pc = "free"
  /\ refresh' = [refresh EXCEPT ![r] = [pc |-> "sent", era |-> clears, token |-> None]]
  /\ inFlight' = r
  /\ caller' = [caller EXCEPT ![c] = WaitsFor(r)]
  /\ UNCHANGED <<now, cached, clears>>

JoinRefresh(c) ==
  /\ caller[c].pc = "idle"
  /\ ~Fresh
  /\ inFlight # None
  /\ caller' = [caller EXCEPT ![c] = WaitsFor(inFlight)]
  /\ UNCHANGED <<now, cached, inFlight, refresh, clears>>

\* The caller is done with its answer and may ask again
Done(c) ==
  /\ caller[c].pc \in {"returned", "failed"}
  /\ caller' = [caller EXCEPT ![c] = IdleCaller]
  /\ UNCHANGED <<now, cached, inFlight, refresh, clears>>

-----------------------------------------------------------------------------
(* refresh *)

\* The authorization server grants a token, which is now under way
Grant(r) ==
  /\ refresh[r].pc = "sent"
  /\ refresh' = [refresh EXCEPT ![r] =
       [pc |-> "granted", era |-> refresh[r].era,
        token |-> [issued |-> now, era |-> refresh[r].era]]]
  /\ UNCHANGED <<now, cached, inFlight, caller, clears>>

\* The token arrives: its lifetime is counted from here, not from the grant
Resolve(r) ==
  /\ refresh[r].pc = "granted"
  /\ cached' = [token |-> refresh[r].token, expiresAt |-> now + Lifetime]
  /\ refresh' = [refresh EXCEPT ![r] =
       [pc |-> "resolved", era |-> refresh[r].era, token |-> refresh[r].token]]
  /\ UNCHANGED <<now, inFlight, caller, clears>>

\* The configuration does not yield an assertion, the server refuses it, or
\* the reply is lost or unreadable
Reject(r) ==
  /\ refresh[r].pc \in {"sent", "granted"}
  /\ refresh' = [refresh EXCEPT ![r] =
       [pc |-> "rejected", era |-> refresh[r].era, token |-> None]]
  /\ UNCHANGED <<now, cached, inFlight, caller, clears>>

\* What a caller that waits for r is given when r is over
AnswerOf(r) ==
  IF refresh[r].pc = "resolved"
  THEN Returned(refresh[r].token)
  ELSE [pc |-> "failed", era |-> 0, refresh |-> None, token |-> None]

\* Mutant: the callers are answered through the shared promise, which a clear
\* may have dropped
FinallyThroughInFlight(r) ==
  /\ refresh[r].pc \in {"resolved", "rejected"}
  /\ inFlight' = None
  /\ refresh' = [refresh EXCEPT ![r] = NoRefresh]
  /\ caller' = [c \in Callers |->
       IF caller[c].refresh = r /\ inFlight = r THEN AnswerOf(r) ELSE caller[c]]
  /\ UNCHANGED <<now, cached, clears>>

\* "finally": whatever is in flight by now is no longer shared, be it r or a
\* later refresh; the callers that wait for r resume in the next microtasks
Finally(r) ==
  /\ refresh[r].pc \in {"resolved", "rejected"}
  /\ inFlight' = None
  /\ refresh' = [refresh EXCEPT ![r] = NoRefresh]
  /\ caller' = [c \in Callers |->
       IF caller[c].refresh = r THEN AnswerOf(r) ELSE caller[c]]
  /\ UNCHANGED <<now, cached, clears>>

-----------------------------------------------------------------------------
(* clearTokenCache, and the clock *)

\* Mutant: only the cached token is dropped
ClearCachedOnly ==
  /\ clears < MaxClears
  /\ clears' = clears + 1
  /\ cached' = None
  /\ UNCHANGED <<now, inFlight, refresh, caller>>

\* The token is dropped, and the refresh is no longer shared; it goes on
ClearTokenCache ==
  /\ clears < MaxClears
  /\ clears' = clears + 1
  /\ cached' = None
  /\ inFlight' = None
  /\ UNCHANGED <<now, refresh, caller>>

\* Time passes: not during microtasks, nor beyond the latency of a reply
Tick ==
  /\ now < MaxTime
  /\ \A r \in Refreshes :
       /\ refresh[r].pc \notin {"resolved", "rejected"}
       /\ refresh[r].pc = "granted" => now < refresh[r].token.issued + MaxLatency
  /\ now' = now + 1
  /\ UNCHANGED <<cached, inFlight, refresh, caller, clears>>

CallerStep(c) ==
  \/ GetCached(c)
  \/ \E r \in Refreshes : StartRefresh(c, r)
  \/ JoinRefresh(c)
  \/ Done(c)

RefreshStep(r) == Grant(r) \/ Resolve(r) \/ Reject(r) \/ Finally(r)

Next ==
  \/ \E c \in Callers : CallerStep(c)
  \/ \E r \in Refreshes : RefreshStep(r)
  \/ ClearTokenCache
  \/ Tick

Spec == Init /\ [][Next]_vars

\* Every request to the server ends (fetch gives up in the end), and the event
\* loop runs its microtasks. Nobody has to call, clear, or succeed.
Fairness ==
  \A r \in Refreshes : WF_vars(Reject(r) \/ Resolve(r)) /\ WF_vars(Finally(r))

FairSpec == Spec /\ Fairness

-----------------------------------------------------------------------------
(* Properties *)

\* The server honours the token still
Live(t) == now < t.issued + Lifetime

\* No caller is ever given a token that has expired, though the cache counts
\* its lifetime from the wrong moment: the margin makes up for it.
HandedTokenIsLive ==
  [][\A c \in Callers :
       caller[c].pc # "returned" /\ caller'[c].pc = "returned" => Live(caller'[c].token)]_vars

\* A caller never waits for a refresh that began before the cache was cleared
\* and the caller called: what is forgotten is not shared either.
JoinIsFresh ==
  \A c \in Callers : caller[c].pc = "waiting" =>
    refresh[caller[c].refresh].era = caller[c].era

\* A refresh that is over is not shared: after a failure the next caller
\* starts another, instead of being given the old error for ever.
InFlightIsPending == inFlight # None => refresh[inFlight].pc # "free"

Outstanding(r) == refresh[r].pc # "free"

\* "Concurrent callers share one refresh instead of each requesting a token"
\* (auth.ts:92), as long as the cache was never cleared. (A refresh that
\* outlives a clear drops the next one on its way out, and a third is made.)
OneRefresh ==
  clears = 0 => \A r, s \in Refreshes : Outstanding(r) /\ Outstanding(s) => r = s

\* Whoever asks is answered, also across a clear.
EveryCallerIsAnswered ==
  \A c \in Callers : caller[c].pc = "waiting" ~> caller[c].pc \in {"returned", "failed"}

(* The strengthening that makes the invariants above inductive *)

\* A token under way or just arrived is no older than the latency.
RefreshInv(r) ==
  refresh[r].pc \in {"granted", "resolved"} =>
    /\ refresh[r].token # None
    /\ refresh[r].token.issued <= now
    /\ now <= refresh[r].token.issued + MaxLatency

\* The cache errs by the latency at most.
CachedInv == cached # None => cached.expiresAt <= cached.token.issued + MaxLatency + Lifetime

\* A caller waits for a refresh that is not over and began in its own era;
\* the shared refresh is of the current one.
WaiterInv ==
  /\ inFlight # None => refresh[inFlight].pc # "free" /\ refresh[inFlight].era = clears
  /\ \A c \in Callers :
       IF caller[c].pc = "waiting"
       THEN /\ caller[c].refresh \in Refreshes
            /\ refresh[caller[c].refresh].pc # "free"
            /\ refresh[caller[c].refresh].era = caller[c].era
       ELSE caller[c].refresh = None

IInv ==
  /\ TypeOK
  /\ \A r \in Refreshes : RefreshInv(r)
  /\ CachedInv
  /\ WaiterInv
=============================================================================
