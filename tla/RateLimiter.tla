------------------------------ MODULE RateLimiter ------------------------------
(***************************************************************************)
(* The container's rate limiter (esign-service/src/server.ts): a fixed     *)
(* window per route and client, and a cap on the windows kept.  A decision *)
(* is one synchronous step.  A route whose limit is 0, or that is none of  *)
(* the limited ones, keeps no window and is not modelled.                  *)
(***************************************************************************)
EXTENDS Naturals, Sequences, FiniteSets

CONSTANTS
  Routes,       \* the limited routes with a limit other than 0
  Clients,      \* client addresses
  None,         \* no window
  Limit,        \* requests allowed per window and client, by route
  WindowMs,     \* RATE_LIMIT_WINDOW_MS
  MaxWindows,   \* RATE_LIMIT_MAX_WINDOWS
  MaxTime,      \* bound on the clock
  MaxRequests   \* bound on the requests of a behaviour

ASSUME LimitsArePositive == Limit \in [Routes -> Nat \ {0}]
ASSUME WindowIsPositive == WindowMs \in Nat \ {0}
ASSUME CapIsPositive == MaxWindows \in Nat \ {0}
ASSUME BoundsAreNatural == MaxTime \in Nat /\ MaxRequests \in Nat
ASSUME FinitelyManyClients == IsFiniteSet(Routes \X Clients)

Keys == Routes \X Clients

VARIABLES
  now,        \* the clock
  windows,    \* the Map: key -> its window, with its place in insertion order
  nextPlace,  \* the place of the next key that is added
  log,        \* every request decided, in order (for the properties)
  evicted     \* the keys whose live window was dropped (for the properties)

vars == <<now, windows, nextPlace, log, evicted>>

Window == [count : Nat, resetAt : Nat, place : Nat]
Decision == [key : Keys, at : Nat, allowed : BOOLEAN]

ASSUME NoneIsNoWindow == None \notin Window

TypeOK ==
  /\ now \in Nat
  /\ windows \in [Keys -> Window \cup {None}]
  /\ nextPlace \in Nat
  /\ log \in Seq(Decision)
  /\ evicted \subseteq Keys

Init ==
  /\ now = 0
  /\ windows = [k \in Keys |-> None]
  /\ nextPlace = 0
  /\ log = <<>>
  /\ evicted = {}

-----------------------------------------------------------------------------
\* The keys the map holds
Held(ws) == {k \in Keys : ws[k] # None}

\* Mutant: a window lasts through the moment it ends
ElapsedLate(w) == w.resetAt < now

Elapsed(w) == w.resetAt <= now

Live == {k \in Held(windows) : ~Elapsed(windows[k])}

\* The live keys that were added no earlier than k
NoEarlier(k) == {j \in Live : windows[j].place >= windows[k].place}

\* Mutant: the sweep drops what has elapsed, and no more
SurvivorsUncapped == Live

\* sweepWindows: the live windows, or the MaxWindows - 1 added last of them
Survivors ==
  IF Cardinality(Live) < MaxWindows
  THEN Live
  ELSE {k \in Live : Cardinality(NoEarlier(k)) < MaxWindows}

\* The map a request finds: swept if it is at its cap
Swept ==
  IF Cardinality(Held(windows)) < MaxWindows
  THEN windows
  ELSE [k \in Keys |-> IF k \in Survivors THEN windows[k] ELSE None]

\* The bookkeeping of the properties
Decide(k, allowed) ==
  /\ Len(log) < MaxRequests
  /\ log' = Append(log, [key |-> k, at |-> now, allowed |-> allowed])
  /\ evicted' = evicted \cup {j \in Live : Swept[j] = None}
  /\ UNCHANGED now

\* No window: one is added at the map's end; the request is allowed
OpenWindow(k) ==
  /\ Swept[k] = None
  /\ windows' = [Swept EXCEPT ![k] =
       [count |-> 1, resetAt |-> now + WindowMs, place |-> nextPlace]]
  /\ nextPlace' = nextPlace + 1
  /\ Decide(k, TRUE)

\* One that has elapsed and was not swept is replaced, and a Map keeps a
\* replaced key where it was; the request is allowed
RenewWindow(k) ==
  /\ Swept[k] # None
  /\ Elapsed(Swept[k])
  /\ windows' = [Swept EXCEPT ![k] =
       [count |-> 1, resetAt |-> now + WindowMs, place |-> Swept[k].place]]
  /\ UNCHANGED nextPlace
  /\ Decide(k, TRUE)

\* Mutant: the count is compared before this request is counted
CountRequestLate(k) ==
  /\ Swept[k] # None
  /\ ~Elapsed(Swept[k])
  /\ windows' = [Swept EXCEPT ![k] =
       [count |-> Swept[k].count + 1, resetAt |-> Swept[k].resetAt, place |-> Swept[k].place]]
  /\ UNCHANGED nextPlace
  /\ Decide(k, Swept[k].count <= Limit[k[1]])

\* A live one counts the request, and allows it up to the limit
CountRequest(k) ==
  /\ Swept[k] # None
  /\ ~Elapsed(Swept[k])
  /\ windows' = [Swept EXCEPT ![k] =
       [count |-> Swept[k].count + 1, resetAt |-> Swept[k].resetAt, place |-> Swept[k].place]]
  /\ UNCHANGED nextPlace
  /\ Decide(k, Swept[k].count + 1 <= Limit[k[1]])

Tick ==
  /\ now < MaxTime
  /\ now' = now + 1
  /\ UNCHANGED <<windows, nextPlace, log, evicted>>

Next ==
  \/ \E k \in Keys : OpenWindow(k) \/ RenewWindow(k) \/ CountRequest(k)
  \/ Tick

Spec == Init /\ [][Next]_vars

-----------------------------------------------------------------------------
(* Properties *)

\* "A flood from many source addresses must not grow the heap without bound"
\* (server.ts:84): the map never holds more windows than the cap.
MemoryBounded == Cardinality(Held(windows)) <= MaxWindows

\* The requests of k allowed from time a on, before time b
Allowed(k, a, b) ==
  {i \in DOMAIN log : log[i].key = k /\ log[i].allowed /\ a <= log[i].at /\ log[i].at < b}

\* Wherever a minute is put, a client whose window was not evicted is allowed
\* less than twice the limit in it: a window's first request is not within a
\* minute of the next window's.
BurstBounded ==
  \A k \in Keys \ evicted, a \in 0 .. MaxTime :
    Cardinality(Allowed(k, a, a + WindowMs)) < 2 * Limit[k[1]]

\* A client is refused only when it was allowed its limit within the minute
\* before: no window outlasts its minute, no other client's requests count.
RefusedOnlyOverLimit ==
  \A i \in DOMAIN log : ~log[i].allowed =>
    Cardinality({j \in 1 .. i - 1 : /\ log[j].key = log[i].key /\ log[j].allowed
                                    /\ log[j].at + WindowMs > log[i].at})
      >= Limit[log[i].key[1]]

=============================================================================
