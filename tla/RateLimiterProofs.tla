--------------------------- MODULE RateLimiterProofs ---------------------------
(***************************************************************************)
(* Theorems about the rate limiter, for any routes, clients, limits and    *)
(* cap: its memory is bounded, a refusal is never early, and a burst stays *)
(* under twice the limit.                                                  *)
(***************************************************************************)
EXTENDS RateLimiter, FiniteSetTheorems, WellFoundedInduction, TLAPS

USE LimitsArePositive, WindowIsPositive, CapIsPositive, BoundsAreNatural

\* Among windows there is one that was added first.
LEMMA FirstAdded ==
  ASSUME NEW K \in SUBSET Keys, K # {}, NEW ws, \A k \in K : ws[k].place \in Nat
  PROVE  \E m \in K : \A j \in K : ws[j].place >= ws[m].place
<1> DEFINE T == {ws[k].place : k \in K}
           R == OpToRel(<, Nat)
<1>1. T \subseteq Nat /\ T # {}
  OBVIOUS
<1>2. PICK x \in T : \A y \in T : ~(<<y, x>> \in R)
  BY <1>1, NatLessThanWellFounded, WFMin
<1>3. PICK m \in K : ws[m].place = x
  OBVIOUS
<1>4. \A j \in K : ~(ws[j].place < x)
  BY <1>2, <1>1 DEF OpToRel
<1>5. QED
  BY <1>3, <1>4

\* A sweep leaves room for one more window.
LEMMA SweepMakesRoom ==
  ASSUME TypeOK
  PROVE  /\ Survivors \subseteq Live
         /\ IsFiniteSet(Survivors)
         /\ Cardinality(Survivors) < MaxWindows
<1>1. Survivors \subseteq Live /\ Live \subseteq Keys
  BY DEF Survivors, Live, Held
<1>2. IsFiniteSet(Live) /\ IsFiniteSet(Survivors)
  BY <1>1, FinitelyManyClients, FS_Subset DEF Keys
<1>3. CASE Cardinality(Live) < MaxWindows
  BY <1>1, <1>2, <1>3 DEF Survivors
<1>4. CASE Survivors = {}
  BY <1>2, <1>4, FS_EmptySet
<1>5. CASE ~(Cardinality(Live) < MaxWindows) /\ Survivors # {}
  <2>1. \A k \in Live : windows[k].place \in Nat
    BY DEF TypeOK, Live, Held, Window
  <2>2. PICK m \in Survivors : \A j \in Survivors : windows[j].place >= windows[m].place
    BY <1>1, <1>5, <2>1, FirstAdded
  <2>3. Survivors \subseteq NoEarlier(m) /\ NoEarlier(m) \subseteq Live
    BY <1>1, <2>2 DEF NoEarlier
  <2>4. IsFiniteSet(NoEarlier(m)) /\ Cardinality(NoEarlier(m)) \in Nat
    BY <1>2, <2>3, FS_Subset, FS_CardinalityType
  <2>5. Cardinality(Survivors) <= Cardinality(NoEarlier(m))
    BY <2>3, <2>4, FS_Subset
  <2>6. Cardinality(NoEarlier(m)) < MaxWindows
    BY <1>5, <2>2 DEF Survivors
  <2>7. Cardinality(Survivors) \in Nat
    BY <1>2, FS_CardinalityType
  <2>8. QED
    BY <1>1, <1>2, <2>4, <2>5, <2>6, <2>7
<1>6. QED
  BY <1>1, <1>2, <1>3, <1>4, <1>5

\* So does the map as a request finds it.
LEMMA RoomForOne ==
  ASSUME TypeOK
  PROVE  /\ Swept \in [Keys -> Window \cup {None}]
         /\ IsFiniteSet(Held(Swept))
         /\ Cardinality(Held(Swept)) < MaxWindows
<1>1. Swept \in [Keys -> Window \cup {None}]
  BY DEF TypeOK, Swept
<1>2. IsFiniteSet(Held(Swept))
  BY FinitelyManyClients, FS_Subset DEF Held, Keys
<1>3. Cardinality(Held(Swept)) < MaxWindows
  <2>1. CASE Cardinality(Held(windows)) < MaxWindows
    BY <2>1 DEF Swept
  <2>2. CASE ~(Cardinality(Held(windows)) < MaxWindows)
    <3>1. \A k \in Keys : Swept[k] = IF k \in Survivors THEN windows[k] ELSE None
      BY <2>2 DEF Swept
    <3>2. \A k \in Survivors : k \in Keys /\ windows[k] # None
      BY SweepMakesRoom DEF Live, Held
    <3>3. Held(Swept) = Survivors
      BY <3>1, <3>2 DEF Held
    <3>4. QED
      BY <3>3, SweepMakesRoom
  <2>3. QED
    BY <2>1, <2>2
<1>4. QED
  BY <1>1, <1>2, <1>3

\* A request puts one window in the map it finds, whatever the decision.
LEMMA RequestStep ==
  ASSUME TypeOK, NEW k \in Keys, OpenWindow(k) \/ RenewWindow(k) \/ CountRequest(k)
  PROVE  /\ \E w \in Window : windows' = [Swept EXCEPT ![k] = w]
         /\ nextPlace' \in Nat
         /\ \E allowed \in BOOLEAN : Decide(k, allowed)
<1>0. /\ Swept[k] # None => Swept[k] \in Window
      /\ now + WindowMs \in Nat /\ nextPlace \in Nat
  BY RoomForOne DEF TypeOK
<1> DEFINE Goal == /\ \E w \in Window : windows' = [Swept EXCEPT ![k] = w]
                   /\ nextPlace' \in Nat
                   /\ \E allowed \in BOOLEAN : Decide(k, allowed)
<1>1. CASE OpenWindow(k)
  <2> DEFINE w == [count |-> 1, resetAt |-> now + WindowMs, place |-> nextPlace]
  <2>1. w \in Window /\ windows' = [Swept EXCEPT ![k] = w]
    BY <1>0, <1>1 DEF OpenWindow, Window
  <2>2. nextPlace' \in Nat
    BY <1>0, <1>1 DEF OpenWindow
  <2>3. Decide(k, TRUE)
    BY <1>1 DEF OpenWindow
  <2>4. QED
    BY <2>1, <2>2, <2>3
<1>2. CASE RenewWindow(k)
  <2> DEFINE w == [count |-> 1, resetAt |-> now + WindowMs, place |-> Swept[k].place]
  <2>1. w \in Window /\ windows' = [Swept EXCEPT ![k] = w]
    BY <1>0, <1>2 DEF RenewWindow, Window
  <2>2. nextPlace' \in Nat /\ Decide(k, TRUE)
    BY <1>0, <1>2 DEF RenewWindow
  <2>3. QED
    BY <2>1, <2>2
<1>3. CASE CountRequest(k)
  <2> DEFINE w == [count |-> Swept[k].count + 1, resetAt |-> Swept[k].resetAt,
                   place |-> Swept[k].place]
             allowed == Swept[k].count + 1 <= Limit[k[1]]
  <2>1. w \in Window /\ windows' = [Swept EXCEPT ![k] = w]
    BY <1>0, <1>3 DEF CountRequest, Window
  <2>2. nextPlace' \in Nat /\ Decide(k, allowed)
    BY <1>0, <1>3 DEF CountRequest
  <2>3. allowed \in BOOLEAN
    OBVIOUS
  <2>4. QED
    BY <2>1, <2>2, <2>3
<1>4. QED
  BY <1>1, <1>2, <1>3

LEMMA StepIsGood ==
  ASSUME TypeOK, MemoryBounded, [Next]_vars
  PROVE  TypeOK' /\ MemoryBounded'
<1>1. ASSUME NEW k \in Keys, OpenWindow(k) \/ RenewWindow(k) \/ CountRequest(k)
      PROVE  TypeOK' /\ MemoryBounded'
  <2>1. PICK w \in Window : windows' = [Swept EXCEPT ![k] = w]
    BY <1>1, RequestStep
  <2>2. PICK allowed \in BOOLEAN : Decide(k, allowed)
    BY <1>1, RequestStep
  <2>3. windows' \in [Keys -> Window \cup {None}]
    BY <2>1, RoomForOne
  <2>4. log' \in Seq(Decision) /\ evicted' \subseteq Keys /\ now' \in Nat
    BY <2>2 DEF Decide, TypeOK, Decision, Live, Held
  <2>5. Held(windows') \subseteq Held(Swept) \cup {k}
    BY <2>1, RoomForOne DEF Held
  <2>6. IsFiniteSet(Held(Swept) \cup {k})
        /\ Cardinality(Held(Swept) \cup {k}) <= Cardinality(Held(Swept)) + 1
        /\ Cardinality(Held(Swept)) \in Nat
    <3> DEFINE H == Held(Swept)
    <3>1. IsFiniteSet(H) /\ Cardinality(H) \in Nat
      BY RoomForOne, FS_CardinalityType
    <3> HIDE DEF H
    <3>2. /\ IsFiniteSet(H \cup {k})
          /\ Cardinality(H \cup {k}) = IF k \in H THEN Cardinality(H) ELSE Cardinality(H) + 1
      BY <3>1, FS_AddElement
    <3>3. QED
      BY <3>1, <3>2 DEF H
  <2>7. Cardinality(Held(windows')) <= MaxWindows
    <3>1. /\ IsFiniteSet(Held(windows'))
          /\ Cardinality(Held(windows')) <= Cardinality(Held(Swept) \cup {k})
      BY <2>5, <2>6, FS_Subset
    <3>2. Cardinality(Held(windows')) \in Nat /\ Cardinality(Held(Swept) \cup {k}) \in Nat
      BY <2>6, <3>1, FS_CardinalityType
    <3>3. QED
      BY <2>6, <3>1, <3>2, RoomForOne
  <2>8. QED
    BY <1>1, <2>3, <2>4, <2>7, RequestStep DEF TypeOK, MemoryBounded, Held
<1>2. CASE Tick
  BY <1>2 DEF Tick, TypeOK, MemoryBounded, Held
<1>3. CASE UNCHANGED vars
  BY <1>3 DEF vars, TypeOK, MemoryBounded, Held
<1>4. QED
  BY <1>1, <1>2, <1>3 DEF Next

\* Every variable keeps its type, and "a flood from many source addresses must
\* not grow the heap without bound": the map stays within its cap.
THEOREM MemoryIsBounded == Spec => [](TypeOK /\ MemoryBounded)
<1>1. Init => TypeOK /\ MemoryBounded
  <2> SUFFICES ASSUME Init PROVE TypeOK /\ MemoryBounded
    OBVIOUS
  <2>1. Held(windows) = {}
    BY DEF Init, Held
  <2>2. MemoryBounded
    BY <2>1, FS_EmptySet DEF MemoryBounded
  <2>3. TypeOK
    BY DEF Init, TypeOK
  <2>4. QED
    BY <2>2, <2>3
<1>2. TypeOK /\ MemoryBounded /\ [Next]_vars => TypeOK' /\ MemoryBounded'
  BY StepIsGood
<1>3. QED
  BY <1>1, <1>2, PTL DEF Spec
-----------------------------------------------------------------------------
(* What a window says of the requests decided in it *)

\* The requests of k that a log l allows from time a on, and before time b.
Since(l, k, a) == {i \in DOMAIN l : l[i].key = k /\ l[i].allowed /\ a <= l[i].at}

Between(l, k, a, b) == {i \in Since(l, k, a) : l[i].at < b}

Opened(w) == w.resetAt - WindowMs

\* Of n requests of k within one window, those allowed.
UpTo(n, k) == IF n <= Limit[k[1]] THEN n ELSE Limit[k[1]]

\* A window of k was opened, and allowed as many requests as it has counted, up
\* to the limit. (That many at least: the same moment may have seen another
\* window of k end by eviction.)
Counts(l, k, w) ==
  /\ w.resetAt >= WindowMs
  /\ Opened(w) <= now
  /\ w.count > 0
  /\ UpTo(w.count, k) <= Cardinality(Since(l, k, Opened(w)))

\* No window of k ever lasts past its end, or is dropped before: while none is
\* open at time t, the last minute saw less than the limit,
Quiet(l, k, t) ==
  /\ Since(l, k, t) = {}
  /\ \A a \in Nat : a + WindowMs > t => Cardinality(Since(l, k, a)) < Limit[k[1]]

\* and while w is, so did the minute before it was opened, by a request that
\* was allowed.
Kept(l, k, w) ==
  /\ Since(l, k, w.resetAt) = {}
  /\ Cardinality(Since(l, k, Opened(w))) <= UpTo(w.count, k)
  /\ \E i \in Since(l, k, Opened(w)) : l[i].at = Opened(w)
  /\ \A a \in Nat : a + WindowMs > Opened(w) =>
       Cardinality(Between(l, k, a, Opened(w))) < Limit[k[1]]

Burst(l, k) == \A a \in Nat : Cardinality(Between(l, k, a, a + WindowMs)) < 2 * Limit[k[1]]

KeyInv(k) ==
  /\ windows[k] # None => Counts(log, k, windows[k])
  /\ k \notin evicted =>
       /\ Burst(log, k)
       /\ IF windows[k] = None THEN Quiet(log, k, now) ELSE Kept(log, k, windows[k])

LogInv == TypeOK /\ RefusedOnlyOverLimit /\ \A k \in Keys : KeyInv(k)

\* Counting in a log.
LEMMA LogSetsAreFinite ==
  ASSUME NEW l \in Seq(Decision), NEW k, NEW a, NEW b
  PROVE  /\ Since(l, k, a) \subseteq 1 .. Len(l)
         /\ IsFiniteSet(Since(l, k, a)) /\ Cardinality(Since(l, k, a)) \in Nat
         /\ IsFiniteSet(Between(l, k, a, b)) /\ Cardinality(Between(l, k, a, b)) \in Nat
<1>1. Since(l, k, a) \subseteq 1 .. Len(l) /\ Between(l, k, a, b) \subseteq Since(l, k, a)
  BY DEF Since, Between
<1>2. IsFiniteSet(1 .. Len(l))
  BY FS_Interval
<1>3. IsFiniteSet(Since(l, k, a)) /\ IsFiniteSet(Between(l, k, a, b))
  BY <1>1, <1>2, FS_Subset
<1>4. QED
  BY <1>1, <1>3, FS_CardinalityType

LEMMA SmallerSet ==
  ASSUME NEW S, IsFiniteSet(S), NEW T \in SUBSET S
  PROVE  Cardinality(T) \in Nat /\ Cardinality(S) \in Nat /\ Cardinality(T) <= Cardinality(S)
BY FS_Subset, FS_CardinalityType

LEMMA UnionAtMost ==
  ASSUME NEW S, IsFiniteSet(S), NEW T, IsFiniteSet(T)
  PROVE  /\ IsFiniteSet(S \cup T) /\ Cardinality(S \cup T) \in Nat
         /\ Cardinality(S \cup T) <= Cardinality(S) + Cardinality(T)
<1>1. Cardinality(S) \in Nat /\ Cardinality(T) \in Nat
  BY FS_CardinalityType
<1>2. Cardinality(S \cap T) \in Nat
  BY FS_Subset, FS_CardinalityType
<1>3. /\ IsFiniteSet(S \cup T)
      /\ Cardinality(S \cup T) = Cardinality(S) + Cardinality(T) - Cardinality(S \cap T)
  BY FS_Union
<1>4. Cardinality(S \cup T) \in Nat
  BY <1>3, FS_CardinalityType
<1>5. QED
  BY <1>1, <1>2, <1>3, <1>4

LEMMA OneMoreAtMost ==
  ASSUME NEW S, IsFiniteSet(S), NEW x
  PROVE  /\ IsFiniteSet(S \cup {x}) /\ Cardinality(S \cup {x}) \in Nat
         /\ Cardinality(S \cup {x}) <= Cardinality(S) + 1
<1>1. IsFiniteSet({x}) /\ Cardinality({x}) = 1
  BY FS_Singleton
<1> DEFINE T == {x}
<1> HIDE DEF T
<1>2. QED
  BY <1>1, UnionAtMost DEF T

LEMMA LogEntries ==
  ASSUME NEW l \in Seq(Decision)
  PROVE  /\ DOMAIN l = 1 .. Len(l) /\ Len(l) \in Nat
         /\ \A i \in DOMAIN l : l[i] \in Decision /\ l[i].at \in Nat
<1>1. DOMAIN l = 1 .. Len(l) /\ Len(l) \in Nat /\ \A i \in 1 .. Len(l) : l[i] \in Decision
  OBVIOUS
<1>2. QED
  BY <1>1 DEF Decision

\* One more decision in a log.
LEMMA LoggedTyped ==
  ASSUME NEW l \in Seq(Decision), NEW d \in Decision
  PROVE  /\ Len(l) + 1 \in Nat /\ Append(l, d) \in Seq(Decision)
         /\ DOMAIN Append(l, d) = 1 .. Len(l) + 1
         /\ Append(l, d)[Len(l) + 1] = d
         /\ \A i \in 1 .. Len(l) : Append(l, d)[i] = l[i]
OBVIOUS

\* It adds to what is allowed at most itself, and only where it is allowed and
\* its key and time are asked about.
LEMMA OneMoreSince ==
  ASSUME NEW l \in Seq(Decision), NEW d \in Decision, NEW j \in Keys, NEW a \in Nat
  PROVE  /\ d.key = j /\ d.allowed /\ a <= d.at =>
              Since(Append(l, d), j, a) = Since(l, j, a) \cup {Len(l) + 1}
         /\ ~(d.key = j /\ d.allowed /\ a <= d.at) =>
              Since(Append(l, d), j, a) = Since(l, j, a)
<1> DEFINE r == Append(l, d)
           n == Len(l) + 1
           S == Since(r, j, a)
           T == Since(l, j, a)
<1>1. /\ n \in Nat /\ DOMAIN r = 1 .. n /\ DOMAIN l = 1 .. Len(l) /\ Len(l) \in Nat
      /\ r[n] = d
      /\ \A i \in 1 .. Len(l) : r[i] = l[i]
  BY LoggedTyped, LogEntries
<1>2. 1 .. n = (1 .. Len(l)) \cup {n} /\ n \notin 1 .. Len(l)
  BY <1>1
<1> HIDE DEF r, n
<1>3. \A i : i \in S <=> i \in T \/ (i = n /\ d.key = j /\ d.allowed /\ a <= d.at)
  BY <1>1, <1>2 DEF Since
<1> HIDE DEF S, T
<1>4. d.key = j /\ d.allowed /\ a <= d.at => S = T \cup {n}
  BY <1>3
<1>5. ~(d.key = j /\ d.allowed /\ a <= d.at) => S = T
  BY <1>3
<1>6. QED
  BY <1>4, <1>5 DEF S, T, r, n

LEMMA OneMoreBetween ==
  ASSUME NEW l \in Seq(Decision), NEW d \in Decision, NEW j \in Keys, NEW a \in Nat, NEW b \in Nat
  PROVE  /\ d.key = j /\ d.allowed /\ a <= d.at /\ d.at < b =>
              Between(Append(l, d), j, a, b) = Between(l, j, a, b) \cup {Len(l) + 1}
         /\ ~(d.key = j /\ d.allowed /\ a <= d.at /\ d.at < b) =>
              Between(Append(l, d), j, a, b) = Between(l, j, a, b)
<1> DEFINE r == Append(l, d)
           n == Len(l) + 1
           S == Between(r, j, a, b)
           T == Between(l, j, a, b)
<1>1. /\ n \in Nat /\ DOMAIN r = 1 .. n /\ DOMAIN l = 1 .. Len(l) /\ Len(l) \in Nat
      /\ r[n] = d
      /\ \A i \in 1 .. Len(l) : r[i] = l[i]
  BY LoggedTyped, LogEntries
<1>2. 1 .. n = (1 .. Len(l)) \cup {n} /\ n \notin 1 .. Len(l)
  BY <1>1
<1> HIDE DEF r, n
<1>3. \A i : i \in S <=> i \in T \/ (i = n /\ d.key = j /\ d.allowed /\ a <= d.at /\ d.at < b)
  BY <1>1, <1>2 DEF Since, Between
<1> HIDE DEF S, T
<1>4. d.key = j /\ d.allowed /\ a <= d.at /\ d.at < b => S = T \cup {n}
  BY <1>3
<1>5. ~(d.key = j /\ d.allowed /\ a <= d.at /\ d.at < b) => S = T
  BY <1>3
<1>6. QED
  BY <1>4, <1>5 DEF S, T, r, n

\* A window that has ended by time t leaves the key quiet: the request that opened
\* it is more than a minute old.
LEMMA EndedIsQuiet ==
  ASSUME NEW l \in Seq(Decision), NEW k \in Keys, NEW w \in Window, NEW t \in Nat,
         Kept(l, k, w), w.resetAt >= WindowMs, w.resetAt <= t
  PROVE  Quiet(l, k, t)
<1> DEFINE o == Opened(w)
           lim == Limit[k[1]]
<1>0. /\ w.resetAt \in Nat /\ w.count \in Nat /\ o \in Nat /\ o + WindowMs = w.resetAt
      /\ lim \in Nat
  BY DEF Window, Opened, Keys
<1>1. \A i \in DOMAIN l : l[i].at \in Nat
  BY LogEntries
<1>2. Since(l, k, t) = {}
  <2>1. Since(l, k, t) \subseteq Since(l, k, w.resetAt)
    BY <1>0, <1>1 DEF Since
  <2>2. QED
    BY <2>1 DEF Kept
<1>3. ASSUME NEW a \in Nat, a + WindowMs > t
      PROVE  Cardinality(Since(l, k, a)) < lim
  <2>1. a > o
    BY <1>0, <1>3
  <2>2. PICK i \in Since(l, k, o) : l[i].at = o
    BY DEF Kept
  <2>3. Since(l, k, a) \subseteq Since(l, k, o) /\ i \notin Since(l, k, a)
    <3> HIDE DEF o
    <3>1. QED
      BY <1>0, <1>1, <2>1, <2>2 DEF Since
  <2>4. /\ IsFiniteSet(Since(l, k, o))
        /\ Cardinality(Since(l, k, a)) \in Nat /\ Cardinality(Since(l, k, o)) \in Nat
    BY <1>0, LogSetsAreFinite
  <2>5. /\ Cardinality(Since(l, k, a)) <= Cardinality(Since(l, k, o))
        /\ Cardinality(Since(l, k, a)) # Cardinality(Since(l, k, o))
    <3> HIDE DEF o
    <3>1. QED
      BY <2>2, <2>3, <2>4, FS_Subset
  <2>6. Cardinality(Since(l, k, o)) <= lim
    BY <1>0, <2>4 DEF Kept, UpTo
  <2> HIDE DEF o, lim
  <2>7. QED
    BY <1>0, <2>4, <2>5, <2>6
<1>4. QED
  BY <1>2, <1>3 DEF Quiet

\* A window that is opened while the key is quiet.
LEMMA OpeningKeeps ==
  ASSUME NEW l \in Seq(Decision), NEW k \in Keys, NEW t \in Nat, Burst(l, k), Quiet(l, k, t),
         NEW d \in Decision, d.key = k, d.at = t, d.allowed,
         NEW w \in Window, w.count = 1, w.resetAt = t + WindowMs
  PROVE  Burst(Append(l, d), k) /\ Kept(Append(l, d), k, w)
<1> DEFINE r == Append(l, d)
           n == Len(l) + 1
           lim == Limit[k[1]]
<1> HIDE DEF r, n
<1>0. lim \in Nat \ {0} /\ Opened(w) = t
  BY DEF Opened, Keys
<1>1. r[n].at = t
  BY LoggedTyped DEF r, n
<1>2. \A a \in Nat :
        /\ a <= t => Since(r, k, a) = Since(l, k, a) \cup {n}
        /\ ~(a <= t) => Since(r, k, a) = Since(l, k, a)
  BY OneMoreSince DEF r, n
<1>3. \A a \in Nat, b \in Nat :
        /\ a <= t /\ t < b => Between(r, k, a, b) = Between(l, k, a, b) \cup {n}
        /\ ~(a <= t /\ t < b) => Between(r, k, a, b) = Between(l, k, a, b)
  BY OneMoreBetween DEF r, n
<1>4. \A a \in Nat, b \in Nat :
        /\ IsFiniteSet(Since(l, k, a)) /\ Cardinality(Since(l, k, a)) \in Nat
        /\ IsFiniteSet(Between(l, k, a, b)) /\ Cardinality(Between(l, k, a, b)) \in Nat
        /\ Between(l, k, a, b) \subseteq Since(l, k, a)
        /\ Cardinality(Between(l, k, a, b)) <= Cardinality(Since(l, k, a))
  <2> TAKE a \in Nat, b \in Nat
  <2>1. /\ IsFiniteSet(Since(l, k, a)) /\ Cardinality(Since(l, k, a)) \in Nat
        /\ IsFiniteSet(Between(l, k, a, b)) /\ Cardinality(Between(l, k, a, b)) \in Nat
    BY LogSetsAreFinite
  <2>2. Between(l, k, a, b) \subseteq Since(l, k, a)
    BY DEF Between
  <2>3. QED
    BY <2>1, <2>2, SmallerSet
<1> HIDE DEF lim
<1>5. Since(r, k, w.resetAt) = {}
  <2>1. Since(l, k, w.resetAt) \subseteq Since(l, k, t)
    <3>1. \A i \in DOMAIN l : l[i].at \in Nat
      BY LogEntries
    <3>2. QED
      BY <3>1 DEF Since
  <2>2. w.resetAt \in Nat /\ ~(w.resetAt <= t)
    OBVIOUS
  <2>3. QED
    BY <1>2, <2>1, <2>2 DEF Quiet
<1>6. /\ Since(r, k, Opened(w)) = {n}
      /\ Cardinality(Since(r, k, Opened(w))) = 1
  <2>1. Since(r, k, t) = {n}
    BY <1>2 DEF Quiet
  <2>2. QED
    BY <1>0, <2>1, FS_Singleton
<1>7. Cardinality(Since(r, k, Opened(w))) <= UpTo(w.count, k)
  BY <1>0, <1>6 DEF UpTo, lim
<1>8. \E i \in Since(r, k, Opened(w)) : r[i].at = Opened(w)
  BY <1>0, <1>1, <1>6
<1>9. ASSUME NEW a \in Nat, a + WindowMs > Opened(w)
      PROVE  Cardinality(Between(r, k, a, Opened(w))) < lim
  <2>1. Between(r, k, a, t) = Between(l, k, a, t)
    BY <1>3
  <2>2. Cardinality(Since(l, k, a)) < lim
    BY <1>0, <1>9 DEF Quiet, lim
  <2>3. /\ Cardinality(Between(l, k, a, t)) <= Cardinality(Since(l, k, a))
        /\ Cardinality(Between(l, k, a, t)) \in Nat /\ Cardinality(Since(l, k, a)) \in Nat
    BY <1>4
  <2>4. Cardinality(Between(l, k, a, t)) < lim
    BY <1>0, <2>2, <2>3
  <2>5. QED
    BY <1>0, <2>1, <2>4
<1>10. ASSUME NEW a \in Nat
       PROVE  Cardinality(Between(r, k, a, a + WindowMs)) < 2 * lim
  <2> DEFINE b == a + WindowMs
             S == Between(l, k, a, b)
  <2>0. b \in Nat
    OBVIOUS
  <2>1. CASE a <= t /\ t < b
    <3>1. Between(r, k, a, b) = S \cup {n}
      BY <1>3, <2>0, <2>1
    <3>2. /\ Cardinality(S) \in Nat /\ IsFiniteSet(S)
          /\ Cardinality(S) <= Cardinality(Since(l, k, a)) /\ Cardinality(Since(l, k, a)) \in Nat
      BY <1>4, <2>0
    <3>3. Cardinality(Since(l, k, a)) < lim
      BY <2>1 DEF Quiet, lim
    <3> HIDE DEF S
    <3>4. Cardinality(S \cup {n}) <= Cardinality(S) + 1
      BY <3>2, OneMoreAtMost
    <3>5. Cardinality(S \cup {n}) \in Nat
      BY <3>2, OneMoreAtMost
    <3>6. Cardinality(S \cup {n}) < 2 * lim
      BY <1>0, <3>2, <3>3, <3>4, <3>5
    <3>7. QED
      BY <3>1, <3>6
  <2>2. CASE ~(a <= t /\ t < b)
    <3>1. Between(r, k, a, b) = S
      BY <1>3, <2>0, <2>2
    <3>2. QED
      BY <3>1 DEF Burst, lim
  <2>3. QED
    BY <2>1, <2>2
<1>11. QED
  BY <1>5, <1>7, <1>8, <1>9, <1>10 DEF Kept, Burst, lim, r

\* A request counted in a window that is open.
LEMMA CountingKeeps ==
  ASSUME NEW l \in Seq(Decision), NEW k \in Keys, NEW t \in Nat, NEW w \in Window,
         Burst(l, k), Kept(l, k, w), w.resetAt >= WindowMs, Opened(w) <= t, t < w.resetAt,
         NEW v \in Window, v.count = w.count + 1, v.resetAt = w.resetAt,
         NEW d \in Decision, d.key = k, d.at = t, d.allowed <=> v.count <= Limit[k[1]]
  PROVE  Burst(Append(l, d), k) /\ Kept(Append(l, d), k, v)
<1> DEFINE lim == Limit[k[1]]
           r == Append(l, d)
           n == Len(l) + 1
           o == Opened(w)
<1> HIDE DEF r, n
<1>0. /\ lim \in Nat \ {0} /\ Opened(v) = o
      /\ w.resetAt \in Nat /\ w.count \in Nat /\ v.count \in Nat /\ o \in Nat
  BY DEF Opened, Keys, Window
<1>1. r \in Seq(Decision) /\ \A i \in 1 .. Len(l) : r[i] = l[i]
  BY <1>0, LoggedTyped DEF r
<1>2. \A a \in Nat :
        /\ d.allowed /\ a <= t => Since(r, k, a) = Since(l, k, a) \cup {n}
        /\ ~(d.allowed /\ a <= t) => Since(r, k, a) = Since(l, k, a)
  BY <1>0, OneMoreSince DEF r, n
<1>3. \A a \in Nat, b \in Nat :
        /\ d.allowed /\ a <= t /\ t < b => Between(r, k, a, b) = Between(l, k, a, b) \cup {n}
        /\ ~(d.allowed /\ a <= t /\ t < b) => Between(r, k, a, b) = Between(l, k, a, b)
  BY <1>0, OneMoreBetween DEF r, n
<1>4. \A a \in Nat, b \in Nat :
        /\ Since(l, k, a) \subseteq 1 .. Len(l)
        /\ IsFiniteSet(Since(l, k, a)) /\ Cardinality(Since(l, k, a)) \in Nat
        /\ IsFiniteSet(Between(l, k, a, b)) /\ Cardinality(Between(l, k, a, b)) \in Nat
  BY LogSetsAreFinite
<1>5. \A a \in Nat, b \in Nat :
        /\ IsFiniteSet(Since(r, k, a)) /\ Cardinality(Since(r, k, a)) \in Nat
        /\ IsFiniteSet(Between(r, k, a, b)) /\ Cardinality(Between(r, k, a, b)) \in Nat
  BY <1>1, LogSetsAreFinite
<1>6. o <= t /\ t < w.resetAt /\ o + WindowMs = w.resetAt
  BY <1>0 DEF Opened
<1>7. /\ Since(l, k, w.resetAt) = {}
      /\ Cardinality(Since(l, k, o)) <= UpTo(w.count, k)
      /\ \E i \in Since(l, k, o) : l[i].at = o
      /\ \A a \in Nat : a + WindowMs > o => Cardinality(Between(l, k, a, o)) < lim
  BY DEF Kept
<1>8. lim = Limit[k[1]]
  OBVIOUS
<1> HIDE DEF lim, o
<1>9. Since(r, k, v.resetAt) = {}
  BY <1>0, <1>2, <1>6, <1>7
<1>10. Cardinality(Since(r, k, o)) <= UpTo(v.count, k)
  <2>1. CASE d.allowed
    <3>1. Since(r, k, o) = Since(l, k, o) \cup {n}
      BY <1>0, <1>2, <1>6, <2>1
    <3>2. Cardinality(Since(l, k, o) \cup {n}) <= Cardinality(Since(l, k, o)) + 1
      BY <1>0, <1>4, OneMoreAtMost
    <3>3. UpTo(v.count, k) = w.count + 1 /\ UpTo(w.count, k) = w.count
      BY <1>0, <1>8, <2>1 DEF UpTo
    <3>4. /\ Cardinality(Since(l, k, o)) <= w.count
          /\ Cardinality(Since(l, k, o)) \in Nat /\ Cardinality(Since(r, k, o)) \in Nat
      BY <1>0, <1>4, <1>5, <1>7, <3>3
    <3>5. QED
      BY <1>0, <3>1, <3>2, <3>3, <3>4
  <2>2. CASE ~d.allowed
    <3>1. Since(r, k, o) = Since(l, k, o)
      BY <1>0, <1>2, <2>2
    <3>2. UpTo(v.count, k) = lim /\ UpTo(w.count, k) <= lim /\ UpTo(w.count, k) \in Nat
      BY <1>0, <1>8, <2>2 DEF UpTo
    <3>3. Cardinality(Since(l, k, o)) <= UpTo(w.count, k) /\ Cardinality(Since(l, k, o)) \in Nat
      BY <1>0, <1>4, <1>7
    <3>4. QED
      BY <1>0, <3>1, <3>2, <3>3
  <2>3. QED
    BY <2>1, <2>2
<1>11. \E i \in Since(r, k, o) : r[i].at = o
  <2>1. PICK i \in Since(l, k, o) : l[i].at = o
    BY <1>7
  <2>2. i \in 1 .. Len(l) /\ i \in Since(r, k, o)
    BY <1>0, <1>2, <1>4, <2>1
  <2>3. QED
    BY <1>1, <2>1, <2>2
<1>12. ASSUME NEW a \in Nat, a + WindowMs > o
       PROVE  Cardinality(Between(r, k, a, o)) < lim
  <2>1. Between(r, k, a, o) = Between(l, k, a, o)
    BY <1>0, <1>3, <1>6
  <2>2. QED
    BY <1>7, <1>12, <2>1
<1>13. ASSUME NEW a \in Nat
       PROVE  Cardinality(Between(r, k, a, a + WindowMs)) < 2 * lim
  <2> DEFINE b == a + WindowMs
             S == Between(r, k, a, o)
             T == Since(r, k, o)
  <2>0. b \in Nat
    OBVIOUS
  <2>1. CASE b > o
    <3>1. Between(r, k, a, b) \subseteq S \cup T
      <4>1. \A i \in DOMAIN r : r[i].at \in Nat
        BY <1>1, LogEntries
      <4>2. QED
        BY <1>0, <2>0, <4>1 DEF Between, Since
    <3>2. /\ IsFiniteSet(S) /\ IsFiniteSet(T)
          /\ Cardinality(S) \in Nat /\ Cardinality(T) \in Nat
          /\ Cardinality(Between(r, k, a, b)) \in Nat
      BY <1>0, <1>5, <2>0
    <3>3. Cardinality(S) < lim
      BY <1>12, <2>1
    <3>4. Cardinality(T) <= lim
      BY <1>0, <1>8, <1>10, <3>2 DEF UpTo
    <3> HIDE DEF S, T
    <3>5. /\ IsFiniteSet(S \cup T) /\ Cardinality(S \cup T) \in Nat
          /\ Cardinality(S \cup T) <= Cardinality(S) + Cardinality(T)
      BY <3>2, UnionAtMost
    <3>6. Cardinality(Between(r, k, a, b)) <= Cardinality(S \cup T)
      BY <3>1, <3>5, FS_Subset
    <3> HIDE DEF b
    <3>7. QED
      BY <1>0, <3>2, <3>3, <3>4, <3>5, <3>6 DEF b
  <2>2. CASE ~(b > o)
    <3>1. Between(r, k, a, b) = Between(l, k, a, b)
      BY <1>0, <1>3, <1>6, <2>0, <2>2
    <3>2. QED
      BY <1>8, <3>1 DEF Burst
  <2>3. QED
    BY <2>1, <2>2
<1>14. QED
  BY <1>0, <1>8, <1>9, <1>10, <1>11, <1>12, <1>13 DEF Kept, Burst, r, o

\* What is said of a key outlives the requests of the others,
LEMMA AnothersRequest ==
  ASSUME NEW l \in Seq(Decision), NEW d \in Decision, NEW j \in Keys, d.key # j
  PROVE  /\ Burst(l, j) => Burst(Append(l, d), j)
         /\ \A t \in Nat : Quiet(l, j, t) => Quiet(Append(l, d), j, t)
         /\ \A w \in Window : w.resetAt >= WindowMs =>
              /\ Counts(l, j, w) => Counts(Append(l, d), j, w)
              /\ Kept(l, j, w) => Kept(Append(l, d), j, w)
<1> DEFINE r == Append(l, d)
<1> HIDE DEF r
<1>1. \A a \in Nat, b \in Nat : Since(r, j, a) = Since(l, j, a) /\ Between(r, j, a, b) = Between(l, j, a, b)
  BY OneMoreSince, OneMoreBetween DEF r
<1>2. \A i \in DOMAIN l : r[i] = l[i]
  BY LoggedTyped, LogEntries DEF r
<1>3. Burst(l, j) => Burst(r, j)
  BY <1>1 DEF Burst
<1>4. \A t \in Nat : Quiet(l, j, t) => Quiet(r, j, t)
  BY <1>1 DEF Quiet
<1>5. ASSUME NEW w \in Window, w.resetAt >= WindowMs
      PROVE  /\ Counts(l, j, w) => Counts(r, j, w)
             /\ Kept(l, j, w) => Kept(r, j, w)
  <2>1. w.resetAt \in Nat /\ Opened(w) \in Nat
    BY <1>5 DEF Window, Opened
  <2>2. /\ Since(r, j, w.resetAt) = Since(l, j, w.resetAt)
        /\ Since(r, j, Opened(w)) = Since(l, j, Opened(w))
        /\ \A a \in Nat : Between(r, j, a, Opened(w)) = Between(l, j, a, Opened(w))
    BY <1>1, <2>1
  <2>3. \A i \in Since(l, j, Opened(w)) : r[i] = l[i]
    BY <1>2 DEF Since
  <2>4. QED
    BY <2>2, <2>3 DEF Counts, Kept
<1>6. QED
  BY <1>3, <1>4, <1>5 DEF r

\* and the passing of time.
LEMMA QuietLasts ==
  ASSUME NEW l \in Seq(Decision), NEW k \in Keys, NEW t \in Nat, Quiet(l, k, t), NEW u \in Nat, u >= t
  PROVE  Quiet(l, k, u)
<1>1. Since(l, k, u) \subseteq Since(l, k, t)
  BY LogEntries DEF Since
<1>2. QED
  BY <1>1 DEF Quiet

\* A window counts the request that opens it, and every one after.
LEMMA OpeningCounts ==
  ASSUME NEW l \in Seq(Decision), NEW k \in Keys, now \in Nat,
         NEW d \in Decision, d.key = k, d.at = now, d.allowed,
         NEW w \in Window, w.count = 1, w.resetAt = now + WindowMs
  PROVE  Counts(Append(l, d), k, w)
<1> DEFINE S == Since(l, k, now)
<1>1. Since(Append(l, d), k, now) = S \cup {Len(l) + 1}
  BY OneMoreSince
<1>a. IsFiniteSet(S) /\ Cardinality(S) \in Nat /\ S \subseteq 1 .. Len(l)
  BY LogSetsAreFinite
<1> HIDE DEF S
<1>2. IsFiniteSet(S) /\ Cardinality(S) \in Nat /\ Len(l) + 1 \notin S
  BY <1>a
<1>3. Cardinality(S \cup {Len(l) + 1}) = Cardinality(S) + 1
  BY <1>2, FS_AddElement
<1>4. Opened(w) = now /\ UpTo(w.count, k) = 1
  BY DEF Opened, UpTo, Keys
<1>5. 1 <= Cardinality(Since(Append(l, d), k, now))
  BY <1>1, <1>2, <1>3
<1>6. QED
  BY <1>4, <1>5 DEF Counts

LEMMA CountingCounts ==
  ASSUME NEW l \in Seq(Decision), NEW k \in Keys, now \in Nat, NEW w \in Window, Counts(l, k, w),
         NEW v \in Window, v.count = w.count + 1, v.resetAt = w.resetAt,
         NEW d \in Decision, d.key = k, d.at = now, d.allowed <=> v.count <= Limit[k[1]]
  PROVE  Counts(Append(l, d), k, v)
<1> DEFINE o == Opened(w)
           S == Since(l, k, o)
<1>0. /\ Opened(v) = o /\ o \in Nat /\ o <= now /\ Limit[k[1]] \in Nat \ {0}
      /\ w.resetAt \in Nat /\ w.count \in Nat /\ v.count \in Nat
      /\ UpTo(w.count, k) <= Cardinality(S)
  BY DEF Window, Counts, Opened, Keys
<1>a. IsFiniteSet(S) /\ Cardinality(S) \in Nat /\ S \subseteq 1 .. Len(l)
  BY <1>0, LogSetsAreFinite
<1>1. IsFiniteSet(S) /\ Cardinality(S) \in Nat /\ Len(l) + 1 \notin S
  BY <1>a
<1>2. UpTo(v.count, k) <= Cardinality(Since(Append(l, d), k, o))
  <2>1. CASE d.allowed
    <3>1. Since(Append(l, d), k, o) = S \cup {Len(l) + 1}
      BY <1>0, <2>1, OneMoreSince
    <3> HIDE DEF S
    <3>2. Cardinality(S \cup {Len(l) + 1}) = Cardinality(S) + 1
      BY <1>1, FS_AddElement
    <3>3. UpTo(v.count, k) = w.count + 1 /\ UpTo(w.count, k) = w.count
      BY <1>0, <2>1 DEF UpTo
    <3>4. QED
      BY <1>0, <1>1, <3>1, <3>2, <3>3
  <2>2. CASE ~d.allowed
    <3>1. Since(Append(l, d), k, o) = S
      BY <1>0, <2>2, OneMoreSince
    <3>2. UpTo(v.count, k) = Limit[k[1]] /\ UpTo(w.count, k) = Limit[k[1]]
      BY <1>0, <2>2 DEF UpTo
    <3>3. QED
      BY <1>0, <3>1, <3>2
  <2>3. QED
    BY <2>1, <2>2
<1>3. QED
  BY <1>0, <1>2 DEF Counts

\* The map as a request finds it, said of k as KeyInv says it of the map before:
\* what the sweep drops has elapsed, or its key is evicted.
LEMMA SweptKeeps ==
  ASSUME LogInv, NEW k \in Keys, NEW e, e = evicted \cup {j \in Live : Swept[j] = None}
  PROVE  /\ Swept[k] # None => Swept[k] \in Window /\ Counts(log, k, Swept[k])
         /\ k \notin e =>
              /\ Burst(log, k)
              /\ IF Swept[k] = None THEN Quiet(log, k, now) ELSE Kept(log, k, Swept[k])
<1>0. KeyInv(k) /\ TypeOK
  BY DEF LogInv
<1>1. Swept[k] = windows[k] \/ Swept[k] = None
  BY DEF Swept, TypeOK, LogInv
<1>2. Swept[k] # None => Swept[k] \in Window
  BY <1>0, RoomForOne
<1>3. ASSUME k \notin e
      PROVE  /\ Burst(log, k)
             /\ IF Swept[k] = None THEN Quiet(log, k, now) ELSE Kept(log, k, Swept[k])
  <2>1. /\ k \notin evicted /\ Burst(log, k)
        /\ IF windows[k] = None THEN Quiet(log, k, now) ELSE Kept(log, k, windows[k])
    BY <1>0, <1>3 DEF KeyInv
  <2>2. CASE Swept[k] = None /\ windows[k] # None
    <3>1. windows[k] \in Window /\ now \in Nat /\ log \in Seq(Decision)
      BY <1>0, <2>2 DEF TypeOK
    <3>2. Elapsed(windows[k])
      BY <1>3, <2>2 DEF Live, Held
    <3>3. Counts(log, k, windows[k]) /\ Kept(log, k, windows[k])
      BY <1>0, <2>1, <2>2 DEF KeyInv
    <3>4. Quiet(log, k, now)
      BY <3>1, <3>2, <3>3, EndedIsQuiet DEF Elapsed, Counts
    <3>5. QED
      BY <2>1, <2>2, <3>4
  <2>3. CASE ~(Swept[k] = None /\ windows[k] # None)
    BY <1>1, <2>1, <2>3
  <2>4. QED
    BY <2>2, <2>3
<1>4. Swept[k] # None => Counts(log, k, Swept[k])
  BY <1>0, <1>1 DEF KeyInv
<1>5. QED
  BY <1>2, <1>3, <1>4

\* What a request of k does to the log and the map.
Opens(k, d, w) ==
  /\ Swept[k] # None => Elapsed(Swept[k])
  /\ d.allowed
  /\ w.count = 1 /\ w.resetAt = now + WindowMs

CountsIn(k, d, w) ==
  /\ Swept[k] # None /\ ~Elapsed(Swept[k])
  /\ d.allowed <=> w.count <= Limit[k[1]]
  /\ w.count = Swept[k].count + 1 /\ w.resetAt = Swept[k].resetAt

Request(k, d, w) ==
  /\ d.key = k /\ d.at = now
  /\ windows' = [Swept EXCEPT ![k] = w]
  /\ log' = Append(log, d)
  /\ evicted' = evicted \cup {j \in Live : Swept[j] = None}
  /\ now' = now
  /\ Opens(k, d, w) \/ CountsIn(k, d, w)

LEMMA ARequest ==
  ASSUME TypeOK, NEW k \in Keys, OpenWindow(k) \/ RenewWindow(k) \/ CountRequest(k)
  PROVE  \E d \in Decision, w \in Window : Request(k, d, w)
<1>0. /\ Swept[k] # None => Swept[k] \in Window
      /\ now + WindowMs \in Nat /\ nextPlace \in Nat /\ now \in Nat
  BY RoomForOne DEF TypeOK
<1>1. CASE OpenWindow(k)
  <2> DEFINE w == [count |-> 1, resetAt |-> now + WindowMs, place |-> nextPlace]
             d == [key |-> k, at |-> now, allowed |-> TRUE]
  <2>1. w \in Window /\ d \in Decision
    BY <1>0 DEF Window, Decision
  <2>2. Request(k, d, w)
    BY <1>1 DEF OpenWindow, Decide, Request, Opens
  <2>3. QED
    BY <2>1, <2>2
<1>2. CASE RenewWindow(k)
  <2> DEFINE w == [count |-> 1, resetAt |-> now + WindowMs, place |-> Swept[k].place]
             d == [key |-> k, at |-> now, allowed |-> TRUE]
  <2>1. w \in Window /\ d \in Decision
    BY <1>0, <1>2 DEF Window, Decision, RenewWindow
  <2>2. Request(k, d, w)
    BY <1>2 DEF RenewWindow, Decide, Request, Opens
  <2>3. QED
    BY <2>1, <2>2
<1>3. CASE CountRequest(k)
  <2> DEFINE w == [count |-> Swept[k].count + 1, resetAt |-> Swept[k].resetAt,
                   place |-> Swept[k].place]
             d == [key |-> k, at |-> now, allowed |-> Swept[k].count + 1 <= Limit[k[1]]]
  <2>1. w \in Window /\ d \in Decision
    BY <1>0, <1>3 DEF Window, Decision, CountRequest
  <2>2. Request(k, d, w)
    BY <1>3 DEF CountRequest, Decide, Request, CountsIn
  <2>3. QED
    BY <2>1, <2>2
<1>4. QED
  BY <1>1, <1>2, <1>3

LEMMA RequestKeepsKeys ==
  ASSUME LogInv, NEW k \in Keys, NEW d \in Decision, NEW w \in Window, Request(k, d, w), NEW j \in Keys
  PROVE  KeyInv(j)'
<1>0. /\ now \in Nat /\ log \in Seq(Decision) /\ Swept \in [Keys -> Window \cup {None}]
      /\ evicted' = evicted \cup {i \in Live : Swept[i] = None}
      /\ log' = Append(log, d) /\ now' = now
      /\ d.key = k /\ d.at = now
      /\ windows' = [Swept EXCEPT ![k] = w]
  BY RoomForOne DEF LogInv, TypeOK, Request
<1>1. /\ Swept[j] # None => Swept[j] \in Window /\ Counts(log, j, Swept[j])
      /\ j \notin evicted' =>
           /\ Burst(log, j)
           /\ IF Swept[j] = None THEN Quiet(log, j, now) ELSE Kept(log, j, Swept[j])
  BY <1>0, SweptKeeps
<1>2. CASE j # k
  <2>1. windows'[j] = Swept[j]
    BY <1>0, <1>2
  <2>2. Swept[j] # None => Swept[j].resetAt >= WindowMs
    BY <1>1 DEF Counts
  <2>3. /\ Burst(log, j) => Burst(Append(log, d), j)
        /\ Quiet(log, j, now) => Quiet(Append(log, d), j, now)
        /\ Swept[j] # None =>
             /\ Counts(log, j, Swept[j]) => Counts(Append(log, d), j, Swept[j])
             /\ Kept(log, j, Swept[j]) => Kept(Append(log, d), j, Swept[j])
    BY <1>0, <1>1, <1>2, <2>2, AnothersRequest
  <2>4. QED
    BY <1>0, <1>1, <2>1, <2>3 DEF KeyInv, Counts
<1>3. CASE j = k
  <2>0. windows'[k] = w /\ w # None
    BY <1>0, NoneIsNoWindow
  <2>1. CASE Opens(k, d, w)
    <3>1. Counts(Append(log, d), k, w)
      BY <1>0, <2>1, OpeningCounts DEF Opens
    <3>2. ASSUME k \notin evicted'
          PROVE  Burst(Append(log, d), k) /\ Kept(Append(log, d), k, w)
      <4>1. Burst(log, k) /\ Quiet(log, k, now)
        <5>1. CASE Swept[k] = None
          BY <1>1, <1>3, <3>2, <5>1
        <5>2. CASE Swept[k] # None
          BY <1>0, <1>1, <1>3, <2>1, <3>2, <5>2, EndedIsQuiet DEF Opens, Elapsed, Counts
        <5>3. QED
          BY <5>1, <5>2
      <4>2. QED
        BY <1>0, <2>1, <4>1, OpeningKeeps DEF Opens
    <3>3. QED
      BY <1>0, <1>3, <2>0, <3>1, <3>2 DEF KeyInv, Counts
  <2>2. CASE CountsIn(k, d, w)
    <3>0. /\ Swept[k] \in Window /\ Counts(log, k, Swept[k]) /\ now < Swept[k].resetAt
          /\ d.allowed <=> w.count <= Limit[k[1]]
          /\ w.count = Swept[k].count + 1 /\ w.resetAt = Swept[k].resetAt
      BY <1>0, <1>1, <1>3, <2>2 DEF CountsIn, Elapsed, Window
    <3>1. Counts(Append(log, d), k, w)
      BY <1>0, <3>0, CountingCounts
    <3>2. ASSUME k \notin evicted'
          PROVE  Burst(Append(log, d), k) /\ Kept(Append(log, d), k, w)
      <4>1. Burst(log, k) /\ Kept(log, k, Swept[k])
        BY <1>1, <1>3, <2>2, <3>2 DEF CountsIn
      <4>2. Swept[k].resetAt >= WindowMs /\ Opened(Swept[k]) <= now
        BY <3>0 DEF Counts
      <4>3. QED
        BY <1>0, <3>0, <4>1, <4>2, CountingKeeps
    <3>3. QED
      BY <1>0, <1>3, <2>0, <3>1, <3>2 DEF KeyInv, Counts
  <2>3. QED
    BY <2>1, <2>2 DEF LogInv, Request
<1>4. QED
  BY <1>2, <1>3

\* The requests of the key that the i-th decision is about, allowed within the
\* minute before it: as RefusedOnlyOverLimit counts them.
Lately(l, i) == {j \in 1 .. i - 1 : /\ l[j].key = l[i].key /\ l[j].allowed
                                    /\ l[j].at + WindowMs > l[i].at}

LEMMA RefusalsStayDue ==
  ASSUME LogInv, NEW k \in Keys, NEW d \in Decision, NEW w \in Window, Request(k, d, w)
  PROVE  RefusedOnlyOverLimit'
<1> DEFINE n == Len(log) + 1
           r == Append(log, d)
<1>0. /\ now \in Nat /\ log \in Seq(Decision) /\ log' = r
      /\ d.key = k /\ d.at = now /\ evicted' = evicted \cup {j \in Live : Swept[j] = None}
      /\ RefusedOnlyOverLimit
  BY DEF LogInv, TypeOK, Request
<1>1. /\ n \in Nat /\ DOMAIN r = 1 .. n /\ DOMAIN log = 1 .. Len(log) /\ Len(log) \in Nat
      /\ r[n] = d
      /\ \A i \in 1 .. Len(log) : r[i] = log[i]
  BY <1>0, LoggedTyped, LogEntries
<1>2. \A i \in DOMAIN log : log[i].at \in Nat
  BY <1>0, LogEntries
<1> HIDE DEF r
<1>3. ASSUME NEW i \in 1 .. Len(log), ~r[i].allowed
      PROVE  Cardinality(Lately(r, i)) >= Limit[r[i].key[1]]
  <2>1. 1 .. i - 1 \subseteq 1 .. Len(log)
    BY <1>1
  <2>2. Lately(r, i) = Lately(log, i)
    BY <1>1, <2>1 DEF Lately
  <2>3. QED
    BY <1>0, <1>1, <1>3, <2>2 DEF RefusedOnlyOverLimit, Lately
<1>4. ASSUME ~d.allowed
      PROVE  Cardinality(Lately(r, n)) >= Limit[k[1]]
  <2>1. CountsIn(k, d, w)
    BY <1>4 DEF Request, Opens
  <2>2. Swept[k] \in Window /\ Counts(log, k, Swept[k])
    BY <1>0, <2>1, SweptKeeps DEF CountsIn
  <2> DEFINE o == Opened(Swept[k])
             S == Since(log, k, o)
  <2>3. o \in Nat /\ o + WindowMs > now /\ Limit[k[1]] \in Nat
    BY <1>0, <2>1, <2>2 DEF Counts, Opened, CountsIn, Elapsed, Window, Keys
  <2>4. UpTo(Swept[k].count, k) = Limit[k[1]]
    BY <1>4, <2>1, <2>2, <2>3 DEF CountsIn, UpTo, Window
  <2>5. Cardinality(S) >= Limit[k[1]]
    BY <2>2, <2>4 DEF Counts
  <2>6. IsFiniteSet(S) /\ Cardinality(S) \in Nat /\ S \subseteq 1 .. Len(log)
    BY <1>0, <2>3, LogSetsAreFinite
  <2>7. S \subseteq Lately(r, n)
    <3> SUFFICES ASSUME NEW i \in S PROVE i \in Lately(r, n)
      OBVIOUS
    <3>1. i \in 1 .. n - 1 /\ r[i] = log[i] /\ log[i].key = k /\ log[i].allowed
      BY <1>1, <2>6 DEF Since
    <3>2. log[i].at \in Nat /\ o <= log[i].at
      BY <1>2 DEF Since
    <3> HIDE DEF o
    <3>3. log[i].at + WindowMs > now
      BY <1>0, <2>3, <3>2
    <3>4. QED
      BY <1>0, <1>1, <3>1, <3>3 DEF Lately
  <2>8. IsFiniteSet(Lately(r, n))
    <3>1. Lately(r, n) \subseteq 1 .. n - 1
      BY DEF Lately
    <3>2. IsFiniteSet(1 .. n - 1)
      BY <1>1, FS_Interval
    <3>3. QED
      BY <3>1, <3>2, FS_Subset
  <2> HIDE DEF S
  <2>9. /\ Cardinality(S) <= Cardinality(Lately(r, n)) /\ Cardinality(Lately(r, n)) \in Nat
    BY <2>7, <2>8, SmallerSet
  <2>10. QED
    BY <2>3, <2>5, <2>6, <2>9
<1>5. \A i \in DOMAIN r : i = n \/ i \in 1 .. Len(log)
  BY <1>1
<1>6. \A i \in DOMAIN r : ~r[i].allowed => Cardinality(Lately(r, i)) >= Limit[r[i].key[1]]
  BY <1>0, <1>1, <1>3, <1>4, <1>5
<1>7. QED
  BY <1>0, <1>6 DEF RefusedOnlyOverLimit, Lately

LEMMA LogInvStep ==
  ASSUME LogInv, MemoryBounded, [Next]_vars
  PROVE  LogInv'
<1>0. TypeOK'
  BY StepIsGood DEF LogInv
<1>1. ASSUME NEW k \in Keys, OpenWindow(k) \/ RenewWindow(k) \/ CountRequest(k)
      PROVE  LogInv'
  <2>1. PICK d \in Decision, w \in Window : Request(k, d, w)
    BY <1>1, ARequest DEF LogInv
  <2>2. RefusedOnlyOverLimit'
    BY <2>1, RefusalsStayDue
  <2>3. \A j \in Keys : KeyInv(j)'
    BY <2>1, RequestKeepsKeys
  <2>4. QED
    BY <1>0, <2>2, <2>3 DEF LogInv
<1>2. CASE Tick
  <2>1. /\ now' = now + 1 /\ now \in Nat /\ log \in Seq(Decision)
        /\ windows' = windows /\ log' = log /\ evicted' = evicted
        /\ windows \in [Keys -> Window \cup {None}]
    BY <1>2 DEF Tick, LogInv, TypeOK
  <2>2. ASSUME NEW k \in Keys
        PROVE  KeyInv(k)'
    <3>1. KeyInv(k)
      BY DEF LogInv
    <3>2. Quiet(log, k, now) => Quiet(log, k, now + 1)
      BY <2>1, QuietLasts
    <3>3. windows[k] # None => Counts(log, k, windows[k])'
      <4>1. windows[k] # None => Opened(windows[k]) <= now /\ Opened(windows[k]) \in Int
        BY <2>1, <3>1 DEF KeyInv, Counts, Opened, Window
      <4>2. windows[k] # None => Opened(windows[k]) <= now + 1
        BY <2>1, <4>1
      <4>3. QED
        BY <2>1, <3>1, <4>2 DEF KeyInv, Counts
    <3>4. QED
      BY <2>1, <3>1, <3>2, <3>3 DEF KeyInv, Counts
  <2>3. RefusedOnlyOverLimit'
    BY <2>1 DEF LogInv, RefusedOnlyOverLimit
  <2>4. QED
    BY <1>0, <2>2, <2>3 DEF LogInv
<1>3. CASE UNCHANGED vars
  BY <1>0, <1>3 DEF vars, LogInv, KeyInv, Counts, RefusedOnlyOverLimit
<1>4. QED
  BY <1>1, <1>2, <1>3 DEF Next

LEMMA LogInvInit == Init => LogInv
<1> SUFFICES ASSUME Init PROVE LogInv
  OBVIOUS
<1>1. TypeOK /\ log = <<>> /\ windows = [k \in Keys |-> None]
  BY DEF Init, TypeOK
<1>2. RefusedOnlyOverLimit
  BY <1>1 DEF RefusedOnlyOverLimit
<1>3. ASSUME NEW k \in Keys
      PROVE  KeyInv(k)
  <2>1. \A a, b : Since(log, k, a) = {} /\ Between(log, k, a, b) = {}
    BY <1>1 DEF Since, Between
  <2>2. Cardinality({}) = 0 /\ Limit[k[1]] \in Nat \ {0}
    BY FS_EmptySet DEF Keys
  <2> DEFINE lim == Limit[k[1]]
  <2>3. 0 < lim /\ 0 < 2 * lim
    BY <2>2
  <2> HIDE DEF lim
  <2>4. Burst(log, k)
    BY <2>1, <2>2, <2>3 DEF Burst, lim
  <2>5. Quiet(log, k, now)
    BY <2>1, <2>2, <2>3 DEF Quiet, lim
  <2>6. QED
    BY <1>1, <2>4, <2>5 DEF KeyInv
<1>4. QED
  BY <1>1, <1>2, <1>3 DEF LogInv

LEMMA LogIsGood == Spec => []LogInv
<1>1. LogInv /\ MemoryBounded /\ [Next]_vars => LogInv'
  BY LogInvStep
<1>2. QED
  BY <1>1, LogInvInit, MemoryIsBounded, PTL DEF Spec

\* A client is refused only when it was allowed its limit within the minute
\* before: neither a window kept past its end, nor one renewed in place, nor the
\* sweep of the others' makes it pay for requests it did not make.
THEOREM RefusedOnlyWhenOver == Spec => []RefusedOnlyOverLimit
<1>1. LogInv => RefusedOnlyOverLimit
  BY DEF LogInv
<1>2. QED
  BY <1>1, LogIsGood, PTL

\* Wherever a minute is put, a client whose window was never dropped alive is
\* allowed less than twice the limit in it.
THEOREM BurstsAreBounded == Spec => []BurstBounded
<1>1. ASSUME LogInv, NEW k \in Keys \ evicted, NEW a \in 0 .. MaxTime
      PROVE  Cardinality(Allowed(k, a, a + WindowMs)) < 2 * Limit[k[1]]
  <2>1. Burst(log, k) /\ a \in Nat
    BY <1>1 DEF LogInv, KeyInv
  <2>2. Allowed(k, a, a + WindowMs) = Between(log, k, a, a + WindowMs)
    BY DEF Allowed, Between, Since
  <2>3. QED
    BY <2>1, <2>2 DEF Burst
<1>2. LogInv => BurstBounded
  BY <1>1 DEF BurstBounded
<1>3. QED
  BY <1>2, LogIsGood, PTL
=============================================================================
