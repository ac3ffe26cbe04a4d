------------------------------- MODULE MintProofs -------------------------------
(* Proofs about the operations of the DocuSign adapter and about the endpoints  *)
(* made of them, for any operations, requests, fields and number of attempts.   *)
(* The first part is about ProviderCalls alone: what an operation asks, repeats *)
(* and leaves at the provider.  The second is about Mint: what the endpoints do *)
(* at the provider is what ProviderCalls says, and what is minted is what the   *)
(* host's terms allow.                                                          *)
EXTENDS Mint, TLAPS

-----------------------------------------------------------------------------
(* The operations of the adapter *)

\* While the creation is still to be answered, what DocuSign made for it was made
\* by attempts whose reply did not tell, and by no more of them than were made.
Counted(x) ==
  /\ x.made <= x.unknown + 1
  /\ x.made <= MaxAttempts
  /\ x.pc \in {"ready", "sent"} /\ x.request \in Creations =>
       x.made <= x.unknown /\ x.made + 1 <= x.attempt
  /\ x.pc = "sleeping" /\ x.request \in Creations =>
       x.made <= x.unknown /\ x.made <= x.attempt

\* Which request an operation is at, and what its parts say of one another.
Coherent(x) ==
  /\ x.pc \in {"ready", "sent", "sleeping"} =>
       x.answer = "none" /\ x.attempt > 0 /\ x.request \in Requests
  /\ x.pc = "sleeping" => x.attempt < MaxAttempts
  /\ x.pc \in {"ready", "sent"} => x.error \notin ClientErrors
  /\ x.operation = "createEnvelope" /\ x.request = "view" => x.made > 0
  /\ x.request = "envelope" => x.operation = "createEnvelope"
  /\ x.request = "instance" => x.operation = "createHostedFormInstance"
  /\ x.request = "status" => x.operation = "getEnvelopeStatus"
  /\ x.request = "view" => x.operation \in {"createEnvelope", "getSigningUrl"}

Good(x) == x \in Op /\ Counted(x) /\ Coherent(x) /\ AnswerFits(x)

CallsInv == missing \in SUBSET Settings /\ op \in [Ops -> Op] /\ \A o \in Ops : Good(op[o])

\* An operation that awaits a reply or is about to ask for one is left good by an
\* attempt that failed, if what was made and lost before is accounted for.
LEMMA FailedIsGood ==
  ASSUME NEW x \in Op, NEW e \in Errors, Coherent(x),
         x.pc \in {"ready", "sent"},
         x.made <= x.unknown + 1, x.made <= MaxAttempts,
         x.request \in Creations => x.made <= x.unknown /\ x.made <= x.attempt
  PROVE  Good(Failed(x, e))
<1> USE AttemptsArePositive
<1>1. AnswerTo(x.operation, e) \in Answers
  BY DEF AnswerTo, Answers, ClientErrors
<1>2. CASE ShouldRetry(e) /\ x.attempt < MaxAttempts
  <2> DEFINE y == [x EXCEPT !.pc = "sleeping", !.error = e]
  <2>1. Failed(x, e) = y
    BY <1>2 DEF Failed
  <2>2. y \in Op
    BY DEF Op
  <2>3. Counted(y)
    BY <1>2 DEF Op, Counted
  <2>4. Coherent(y)
    BY <1>2 DEF Op, Coherent
  <2>5. AnswerFits(y)
    BY <1>2 DEF Op, AnswerFits, Coherent, ShouldRetry
  <2> QED BY <2>1, <2>2, <2>3, <2>4, <2>5 DEF Good
<1>3. CASE ~(ShouldRetry(e) /\ x.attempt < MaxAttempts)
  <2> DEFINE y == [x EXCEPT !.pc = "done", !.error = e,
                            !.answer = AnswerTo(x.operation, e)]
  <2>1. Failed(x, e) = y
    BY <1>3 DEF Failed
  <2>2. y \in Op
    BY <1>1 DEF Op
  <2>3. Counted(y)
    BY DEF Op, Counted
  <2>4. Coherent(y)
    BY DEF Op, Coherent
  <2>5. AnswerFits(y)
    <3>1. x.attempt <= MaxAttempts
      BY DEF Op
    <3>2. e \notin ClientErrors => x.attempt = MaxAttempts
      BY <1>3, <3>1 DEF Op, ShouldRetry
    <3>0. x.operation \in Operations
      BY DEF Coherent, Op, Operations, Requests
    <3>3. /\ AnswerTo(x.operation, e) = "envelopeCreationFailed" => e \in ClientErrors
          /\ AnswerTo(x.operation, e) = "envelopeNotFound" =>
               e \in ClientErrors /\ x.operation \in {"getSigningUrl", "getEnvelopeStatus"}
          /\ AnswerTo(x.operation, e) = "providerUnavailable"
             /\ x.operation # "getEnvelopeStatus" => e \notin ClientErrors
          /\ AnswerTo(x.operation, e) # "ok"
      BY <3>0 DEF AnswerTo, ClientErrors, Operations
    <3> QED BY <3>2, <3>3 DEF Op, AnswerFits
  <2> QED BY <2>1, <2>2, <2>3, <2>4, <2>5 DEF Good
<1> QED BY <1>2, <1>3

\* Replacing one operation by a good one keeps the invariant.
LEMMA OneReplaced ==
  ASSUME CallsInv, NEW o \in Ops, NEW y, Good(y),
         op' = [op EXCEPT ![o] = y], UNCHANGED missing
  PROVE  CallsInv'
<1>1. y \in Op
  BY DEF Good
<1>2. op' \in [Ops -> Op]
  BY <1>1 DEF CallsInv
<1>3. ASSUME NEW p \in Ops PROVE Good(op'[p])
  BY DEF CallsInv
<1> QED BY <1>2, <1>3 DEF CallsInv

LEMMA IdleIsGood == Good(Idle)
<1>1. Idle \in Op
  BY AttemptsArePositive DEF Idle, Op
<1> QED BY <1>1, AttemptsArePositive DEF Idle, Good, Counted, Coherent, AnswerFits, ClientErrors, Creations

\* An operation begins good, whatever it is and whether or not it is refused.
LEMMA CallKeepsInv ==
  ASSUME CallsInv, NEW o \in Ops, Call(o)
  PROVE  CallsInv'
<1> USE AttemptsArePositive
<1>0. Idle \in Op
  BY IdleIsGood DEF Good
<1>1. ASSUME NEW k \in {"createEnvelope", "createHostedFormInstance"}
      PROVE  Good(Refused(k))
  <2> DEFINE y == Refused(k)
  <2>1. y \in Op
    BY <1>0 DEF Refused, Op, Operations, Answers
  <2>2. /\ y.operation = k /\ y.pc = "done" /\ y.request = "none" /\ y.error = "none"
        /\ y.answer = "validationError" /\ y.made = 0 /\ y.unknown = 0
    BY <1>0 DEF Refused, Op, Idle
  <2> HIDE DEF y
  <2>3. Counted(y)
    BY <2>2 DEF Counted
  <2>4. Coherent(y)
    BY <2>2 DEF Coherent
  <2>5. AnswerFits(y)
    <3>1. y.error \notin ClientErrors /\ y.answer \notin {"ok", "envelopeCreationFailed",
            "envelopeNotFound", "providerUnavailable"}
      BY <2>2 DEF ClientErrors
    <3> QED BY <3>1, Zenon DEF AnswerFits
  <2> QED BY <2>1, <2>3, <2>4, <2>5 DEF Good, y
<1>2. ASSUME NEW k \in Operations, NEW r \in Requests,
             <<k, r>> \in {<<"createEnvelope", "envelope">>,
                           <<"createHostedFormInstance", "instance">>,
                           <<"getSigningUrl", "view">>, <<"getEnvelopeStatus", "status">>}
      PROVE  Good(Started(k, r))
  <2> DEFINE y == Started(k, r)
  <2>0. 1 \in 0..MaxAttempts
    OBVIOUS
  <2>1. y \in Op
    BY <1>0, <2>0 DEF Started, Op
  <2>2. /\ y.operation = k /\ y.pc = "ready" /\ y.request = r /\ y.error = "none"
        /\ y.answer = "none" /\ y.attempt = 1 /\ y.made = 0 /\ y.unknown = 0
    BY <1>0 DEF Started, Op, Idle
  <2> HIDE DEF y
  <2>3. Counted(y)
    BY <2>2 DEF Counted
  <2>4. Coherent(y)
    BY <1>2, <2>2 DEF Coherent, ClientErrors
  <2>5. AnswerFits(y)
    <3>1. y.error \notin ClientErrors /\ y.answer \notin {"ok", "envelopeCreationFailed",
            "envelopeNotFound", "providerUnavailable"}
      BY <2>2 DEF ClientErrors
    <3> QED BY <3>1, Zenon DEF AnswerFits
  <2> QED BY <2>1, <2>3, <2>4, <2>5 DEF Good, y
<1>3. ASSUME NEW valid, NEW k, NEW r, Create(o, k, r, valid),
             <<k, r>> \in {<<"createEnvelope", "envelope">>,
                           <<"createHostedFormInstance", "instance">>}
      PROVE  CallsInv'
  <2>1. Good(Started(k, r))
    BY <1>2, <1>3 DEF Operations, Requests
  <2>2. Good(Refused(k))
    BY <1>1, <1>3
  <2> QED BY <1>3, <2>1, <2>2, OneReplaced DEF Create
<1>4. CASE \E valid \in BOOLEAN : CreateEnvelope(o, valid)
  BY <1>4, <1>3 DEF CreateEnvelope
<1>5. CASE \E valid \in BOOLEAN : CreateHostedFormInstance(o, valid)
  BY <1>5, <1>3 DEF CreateHostedFormInstance
<1>6. CASE GetSigningUrl(o)
  <2>1. Good(Started("getSigningUrl", "view"))
    BY <1>2 DEF Operations, Requests
  <2> QED BY <1>6, <2>1, OneReplaced DEF GetSigningUrl
<1>7. CASE GetEnvelopeStatus(o)
  <2>1. Good(Started("getEnvelopeStatus", "status"))
    BY <1>2 DEF Operations, Requests
  <2> QED BY <1>7, <2>1, OneReplaced DEF GetEnvelopeStatus
<1> QED BY <1>4, <1>5, <1>6, <1>7 DEF Call

\* So does every step of one under way.
LEMMA ProceedKeepsInv ==
  ASSUME CallsInv, NEW o \in Ops, Proceed(o)
  PROVE  CallsInv'
<1> USE AttemptsArePositive
<1> DEFINE x == op[o]
<1>1. x \in Op /\ Counted(x) /\ Coherent(x) /\ AnswerFits(x)
  BY DEF CallsInv, Good
<1>2. ASSUME NEW e \in Errors, x.pc \in {"ready", "sent"}
      PROVE  Good(Failed(x, e))
  <2>1. x.request \in Creations => x.made <= x.unknown /\ x.made <= x.attempt
    BY <1>1, <1>2 DEF Counted, Op
  <2>2. x.made <= x.unknown + 1 /\ x.made <= MaxAttempts
    BY <1>1 DEF Counted
  <2> QED BY <1>1, <1>2, <2>1, <2>2, FailedIsGood
<1>3. CASE Wake(o)
  <2> DEFINE n == x.attempt + 1
  <2> DEFINE y == [x EXCEPT !.pc = "ready", !.attempt = n]
  <2>1. op' = [op EXCEPT ![o] = y] /\ x.pc = "sleeping" /\ UNCHANGED missing
    BY <1>3 DEF Wake, CallsInv
  <2>a. x.attempt \in 0..MaxAttempts
    BY <1>1 DEF Op
  <2>b. n \in 0..MaxAttempts
    BY <1>1, <2>1, <2>a DEF Coherent
  <2>2. y \in Op
    <3> HIDE DEF n
    <3> QED BY <1>1, <2>b DEF Op
  <2>3. Counted(y)
    BY <1>1, <2>1 DEF Op, Counted
  <2>4. Coherent(y) /\ AnswerFits(y)
    BY <1>1, <2>1 DEF Op, Coherent, AnswerFits
  <2> QED BY <2>1, <2>2, <2>3, <2>4, OneReplaced DEF Good
<1>4. CASE LacksSetting(o)
  <2>1. Good(Failed(x, "config"))
    BY <1>4, <1>2 DEF LacksSetting, Errors
  <2> QED BY <1>4, <2>1, OneReplaced DEF LacksSetting
<1>5. CASE \E e \in ClientErrors \cup {"transient"} : TokenFails(o, e)
  <2>1. PICK e \in ClientErrors \cup {"transient"} : TokenFails(o, e)
    BY <1>5
  <2>2. Good(Failed(x, e))
    BY <2>1, <1>2 DEF TokenFails, Errors
  <2> QED BY <2>1, <2>2, OneReplaced DEF TokenFails
<1>6. CASE Send(o)
  <2> DEFINE y == [x EXCEPT !.pc = "sent"]
  <2>1. op' = [op EXCEPT ![o] = y] /\ x.pc = "ready" /\ UNCHANGED missing
    BY <1>6 DEF Send, CallsInv
  <2>2. y \in Op
    BY <1>1 DEF Op
  <2>3. Counted(y)
    BY <1>1, <2>1 DEF Op, Counted
  <2>4. Coherent(y) /\ AnswerFits(y)
    BY <1>1, <2>1 DEF Op, Coherent, AnswerFits
  <2> QED BY <2>1, <2>2, <2>3, <2>4, OneReplaced DEF Good
<1>7. CASE Accept(o)
  <2>0. x.pc = "sent" /\ x.made \in Nat /\ x.made + 1 \in Nat /\ 1 \in 0..MaxAttempts
    BY <1>1, <1>7 DEF Accept, Op
  <2>1. CASE x.request = "envelope"
    <3> DEFINE n == x.made + 1
    <3> DEFINE y == [x EXCEPT !.pc = "ready", !.request = "view", !.attempt = 1, !.made = n]
    <3>1. Accepted(x) = y
      BY <2>1 DEF Accepted
    <3>2. y \in Op
      <4> HIDE DEF n
      <4> QED BY <1>1, <2>0 DEF Op, Requests, n
    <3>3. Counted(y)
      BY <1>1, <2>0, <2>1 DEF Op, Counted, Creations
    <3>4. Coherent(y)
      <4>1. n > 0 /\ x.operation = "createEnvelope" /\ x.error \notin ClientErrors /\ x.answer = "none"
        BY <1>1, <2>0, <2>1 DEF Op, Coherent
      <4>2. /\ y.pc = "ready" /\ y.request = "view" /\ y.operation = "createEnvelope"
            /\ y.attempt = 1 /\ y.answer = "none" /\ y.error = x.error /\ y.made = n
        BY <1>1, <4>1 DEF Op
      <4> HIDE DEF y, n
      <4> QED BY <4>1, <4>2 DEF Coherent, Requests
    <3>5. AnswerFits(y)
      BY <1>1, <2>0 DEF Op, Coherent, AnswerFits
    <3> QED BY <3>1, <3>2, <3>3, <3>4, <3>5, <1>7, OneReplaced DEF Good, Accept
  <2>2. CASE x.request = "instance"
    <3> DEFINE n == x.made + 1
    <3> DEFINE y == [x EXCEPT !.pc = "done", !.answer = "ok", !.made = n]
    <3>1. Accepted(x) = y
      BY <2>2 DEF Accepted
    <3>2. y \in Op
      <4> HIDE DEF n
      <4> QED BY <1>1, <2>0 DEF Op, Answers, n
    <3>3. Counted(y)
      BY <1>1, <2>0, <2>2 DEF Op, Counted, Creations
    <3>4. Coherent(y)
      BY <1>1, <2>0, <2>2 DEF Op, Coherent
    <3>5. AnswerFits(y)
      BY <1>1, <2>0 DEF Op, Coherent, AnswerFits
    <3> QED BY <3>1, <3>2, <3>3, <3>4, <3>5, <1>7, OneReplaced DEF Good, Accept
  <2>3. CASE x.request \notin Creations
    <3> DEFINE y == [x EXCEPT !.pc = "done", !.answer = "ok"]
    <3>1. Accepted(x) = y
      BY <2>3 DEF Accepted, Creations
    <3>2. y \in Op
      BY <1>1 DEF Op, Answers
    <3>3. Counted(y)
      BY <1>1 DEF Op, Counted
    <3>4. Coherent(y)
      BY <1>1 DEF Op, Coherent
    <3>5. x.made > 0 \/ x.operation \in {"getSigningUrl", "getEnvelopeStatus"}
      BY <1>1, <2>0, <2>3 DEF Op, Coherent, Creations, Requests, Operations
    <3>6. AnswerFits(y)
      BY <1>1, <2>0, <3>5 DEF Op, Coherent, AnswerFits
    <3> QED BY <3>1, <3>2, <3>3, <3>4, <3>6, <1>7, OneReplaced DEF Good, Accept
  <2> QED BY <2>1, <2>2, <2>3 DEF Creations
<1>8. CASE \E e \in ClientErrors : Reject(o, e)
  <2>1. PICK e \in ClientErrors : Reject(o, e)
    BY <1>8
  <2>2. Good(Failed(x, e))
    BY <2>1, <1>2 DEF Reject, Errors
  <2> QED BY <2>1, <2>2, OneReplaced DEF Reject
<1>9. CASE \E carriedOut \in BOOLEAN : Lose(o, carriedOut)
  <2>1. PICK carriedOut \in BOOLEAN : Lose(o, carriedOut)
    BY <1>9
  <2>2. CASE x.request \in Creations
    <3> DEFINE n == IF carriedOut THEN x.made + 1 ELSE x.made
    <3> DEFINE k == x.unknown + 1
    <3> DEFINE y == [x EXCEPT !.made = n, !.unknown = k]
    <3>1. x.pc = "sent"
      BY <2>1 DEF Lose
    <3>2. n \in Nat /\ n <= x.made + 1 /\ k \in Nat /\ k = x.unknown + 1
      BY <1>1 DEF Op
    <3>3. n <= k /\ n <= x.attempt /\ n <= MaxAttempts
      BY <1>1, <2>2, <3>1, <3>2 DEF Op, Counted
    <3>4. Unknown(x, carriedOut) = y
      BY DEF Unknown
    <3> HIDE DEF n, k
    <3>5. y \in Op
      BY <1>1, <3>2 DEF Op
    <3>6. /\ y.pc = "sent" /\ y.request = x.request /\ y.operation = x.operation
          /\ y.attempt = x.attempt /\ y.answer = x.answer /\ y.error = x.error
          /\ y.made = n /\ y.unknown = k
      BY <1>1, <3>1 DEF Op
    <3> HIDE DEF y
    <3>7. Coherent(y)
      BY <1>1, <2>2, <3>1, <3>6 DEF Coherent, Creations
    <3>8. y.made <= y.unknown + 1 /\ y.made <= y.unknown /\ y.made <= y.attempt /\ y.made <= MaxAttempts
      BY <3>2, <3>3, <3>6
    <3>9. Good(Failed(y, "transient"))
      BY <3>5, <3>6, <3>7, <3>8, FailedIsGood DEF Errors
    <3> QED BY <2>1, <2>2, <3>4, <3>9, OneReplaced DEF Lose
  <2>3. CASE x.request \notin Creations
    <3>1. Good(Failed(x, "transient"))
      BY <2>1, <1>2 DEF Lose, Errors
    <3> QED BY <2>1, <2>3, <3>1, OneReplaced DEF Lose
  <2> QED BY <2>2, <2>3
<1> QED BY <1>3, <1>4, <1>5, <1>6, <1>7, <1>8, <1>9 DEF Proceed

LEMMA CallsInvKept ==
  ASSUME CallsInv, [Next]_callVars
  PROVE  CallsInv'
<1>1. CASE Next
  BY <1>1, CallKeepsInv, ProceedKeepsInv DEF Next
<1>2. CASE UNCHANGED callVars
  BY <1>2 DEF CallsInv, callVars
<1> QED BY <1>1, <1>2

LEMMA CallsInvAtInit == Init => CallsInv
BY IdleIsGood DEF Init, CallsInv, Good

LEMMA CallsInvHolds == Spec => []CallsInv
BY CallsInvAtInit, CallsInvKept, PTL DEF Spec

\* What follows from the invariant in every state.
LEMMA CallsInvImplies ==
  CallsInv => CallsTypeOK /\ OneUnlessUnknown /\ MadeWithinAttempts /\ AnswersFit
BY DEF CallsInv, CallsTypeOK, Good, Counted, OneUnlessUnknown, MadeWithinAttempts, AnswersFit

-----------------------------------------------------------------------------
(* What a refusal leaves behind *)

\* Something was asked of DocuSign only with the account and the credentials at
\* hand; a refusal then is about the return URL.
Untouched(x) ==
  /\ x.pc = "idle" => x.made = 0
  /\ x.pc = "sent" \/ x.made > 0 => {"account", "credentials"} \cap missing = {}
  /\ x.answer = "validationError" /\ "returnUrl" \notin missing => x.made = 0

UntouchedInv == CallsInv /\ \A o \in Ops : Untouched(op[o])

\* Only a missing setting is the caller's error.
LEMMA OnlyConfigIsTheCallers ==
  ASSUME NEW k, NEW e \in Errors, AnswerTo(k, e) = "validationError"
  PROVE  e = "config"
BY DEF AnswerTo

LEMMA FailedLeavesNothing ==
  ASSUME NEW x \in Op, NEW e \in Errors, Untouched(x), x.pc \in {"ready", "sent"},
         x.answer = "none",
         e = "config" /\ "returnUrl" \notin missing => x.made = 0
  PROVE  Untouched(Failed(x, e))
<1>1. CASE ShouldRetry(e) /\ x.attempt < MaxAttempts
  <2> DEFINE y == [x EXCEPT !.pc = "sleeping", !.error = e]
  <2>1. Failed(x, e) = y /\ y.pc = "sleeping" /\ y.made = x.made /\ y.answer = "none"
    BY <1>1 DEF Failed, Op
  <2> QED BY <2>1 DEF Untouched
<1>2. CASE ~(ShouldRetry(e) /\ x.attempt < MaxAttempts)
  <2> DEFINE y == [x EXCEPT !.pc = "done", !.error = e,
                            !.answer = AnswerTo(x.operation, e)]
  <2>1. /\ Failed(x, e) = y /\ y.pc = "done" /\ y.made = x.made
        /\ y.answer = AnswerTo(x.operation, e)
    BY <1>2 DEF Failed, Op
  <2>2. y.answer = "validationError" => e = "config"
    BY <2>1, OnlyConfigIsTheCallers
  <2> QED BY <2>1, <2>2 DEF Untouched
<1> QED BY <1>1, <1>2

LEMMA UntouchedReplaced ==
  ASSUME UntouchedInv, CallsInv', NEW o \in Ops, NEW y, Untouched(y),
         op' = [op EXCEPT ![o] = y], UNCHANGED missing
  PROVE  UntouchedInv'
<1>1. ASSUME NEW p \in Ops PROVE Untouched(op[p])'
  <2>1. op'[p] = y \/ op'[p] = op[p]
    BY DEF UntouchedInv, CallsInv
  <2>2. Untouched(op[p])
    BY DEF UntouchedInv
  <2> QED BY <2>1, <2>2 DEF Untouched
<1> QED BY <1>1 DEF UntouchedInv

\* A call makes nothing yet.
LEMMA CallLeavesNothing ==
  ASSUME UntouchedInv, CallsInv', NEW o \in Ops, Call(o)
  PROVE  UntouchedInv'
<1>1. ASSUME NEW y, op' = [op EXCEPT ![o] = y], UNCHANGED missing, y.made = 0,
             y.pc \in {"ready", "done"}
      PROVE  UntouchedInv'
  <2>1. Untouched(y)
    BY <1>1 DEF Untouched
  <2> QED BY <1>1, <2>1, UntouchedReplaced
<1>2. ASSUME NEW k, NEW r
      PROVE  /\ Started(k, r).made = 0 /\ Started(k, r).pc = "ready"
             /\ Refused(k).made = 0 /\ Refused(k).pc = "done"
  BY DEF Started, Refused, Idle
<1>3. ASSUME NEW k, NEW r, NEW valid, Create(o, k, r, valid)
      PROVE  UntouchedInv'
  BY <1>1, <1>2, <1>3 DEF Create
<1>4. CASE GetSigningUrl(o) \/ GetEnvelopeStatus(o)
  BY <1>1, <1>2, <1>4 DEF GetSigningUrl, GetEnvelopeStatus
<1> QED BY <1>3, <1>4 DEF Call, CreateEnvelope, CreateHostedFormInstance

LEMMA ProceedLeavesNothing ==
  ASSUME UntouchedInv, CallsInv', NEW o \in Ops, Proceed(o)
  PROVE  UntouchedInv'
<1> DEFINE x == op[o]
<1>1. /\ op \in [Ops -> Op] /\ x \in Op /\ Coherent(x) /\ Untouched(x)
  BY DEF UntouchedInv, CallsInv, Good
<1>2. x.pc \in {"ready", "sent", "sleeping"} => x.answer = "none"
  BY <1>1 DEF Coherent
<1>3. ASSUME NEW e \in Errors, x.pc \in {"ready", "sent"},
             e = "config" /\ "returnUrl" \notin missing => x.made = 0,
             op' = [op EXCEPT ![o] = Failed(x, e)], UNCHANGED missing
      PROVE  UntouchedInv'
  <2>1. Untouched(Failed(x, e))
    BY <1>1, <1>2, <1>3, FailedLeavesNothing
  <2> HIDE DEF x
  <2> QED BY <1>3, <2>1, UntouchedReplaced
<1>4. CASE Wake(o)
  <2> DEFINE y == [x EXCEPT !.pc = "ready", !.attempt = @ + 1]
  <2>1. op' = [op EXCEPT ![o] = y] /\ x.pc = "sleeping" /\ UNCHANGED missing
    BY <1>1, <1>4 DEF Wake
  <2>2. y.pc = "ready" /\ y.made = x.made /\ y.answer = x.answer
    BY <1>1 DEF Op
  <2>3. Untouched(y)
    BY <1>1, <2>2 DEF Untouched
  <2> QED BY <2>1, <2>3, UntouchedReplaced
<1>5. CASE LacksSetting(o)
  <2>1. x.pc = "ready" /\ ~Configured(o) /\ UNCHANGED missing
        /\ op' = [op EXCEPT ![o] = Failed(x, "config")]
    BY <1>5 DEF LacksSetting
  <2>2. "returnUrl" \notin missing => x.made = 0
    <3>1. x.made \in Nat
      BY <1>1 DEF Op
    <3> QED BY <1>1, <2>1, <3>1 DEF Configured, Untouched
  <2> QED BY <1>3, <2>1, <2>2 DEF Errors
<1>6. CASE \E e \in ClientErrors \cup {"transient"} : TokenFails(o, e)
  <2>1. PICK e \in ClientErrors \cup {"transient"} : TokenFails(o, e)
    BY <1>6
  <2>2. e \in Errors /\ e # "config"
    BY DEF Errors, ClientErrors
  <2> QED BY <1>3, <2>1, <2>2 DEF TokenFails
<1>7. CASE Send(o)
  <2> DEFINE y == [x EXCEPT !.pc = "sent"]
  <2>1. op' = [op EXCEPT ![o] = y] /\ Configured(o) /\ UNCHANGED missing
    BY <1>1, <1>7 DEF Send
  <2>2. y.pc = "sent" /\ y.made = x.made /\ y.answer = x.answer
    BY <1>1 DEF Op
  <2>3. Untouched(y)
    BY <1>1, <2>1, <2>2 DEF Untouched, Configured
  <2> QED BY <2>1, <2>3, UntouchedReplaced
<1>8. CASE Accept(o)
  <2>1. x.pc = "sent" /\ op' = [op EXCEPT ![o] = Accepted(x)] /\ UNCHANGED missing
    BY <1>8 DEF Accept
  <2>2. Accepted(x).answer \in {"none", "ok"} /\ Accepted(x).pc \in {"ready", "done"}
    BY <1>1, <1>2, <2>1 DEF Accepted, Op
  <2>3. {"account", "credentials"} \cap missing = {}
    BY <1>1, <2>1 DEF Untouched
  <2>4. Untouched(Accepted(x))
    BY <2>2, <2>3 DEF Untouched
  <2> QED BY <2>1, <2>4, UntouchedReplaced
<1>9. CASE \E e \in ClientErrors : Reject(o, e)
  <2>1. PICK e \in ClientErrors : Reject(o, e)
    BY <1>9
  <2>2. e \in Errors /\ e # "config"
    BY DEF Errors, ClientErrors
  <2> QED BY <1>3, <2>1, <2>2 DEF Reject
<1>10. CASE \E carriedOut \in BOOLEAN : Lose(o, carriedOut)
  <2>1. PICK carriedOut \in BOOLEAN : Lose(o, carriedOut)
    BY <1>10
  <2>0. x.pc = "sent"
    BY <2>1 DEF Lose
  <2>2. CASE x.request \notin Creations
    <3>1. op' = [op EXCEPT ![o] = Failed(x, "transient")] /\ UNCHANGED missing
      BY <2>1, <2>2 DEF Lose
    <3> QED BY <1>3, <2>0, <3>1 DEF Errors
  <2>3. CASE x.request \in Creations
    <3> DEFINE n == IF carriedOut THEN x.made + 1 ELSE x.made
               k == x.unknown + 1
               y == [x EXCEPT !.made = n, !.unknown = k]
    <3>1. op' = [op EXCEPT ![o] = Failed(y, "transient")] /\ UNCHANGED missing
      BY <2>1, <2>3 DEF Lose, Unknown
    <3>2. n \in Nat /\ k \in Nat
      BY <1>1 DEF Op
    <3> HIDE DEF n, k
    <3>3. y \in Op /\ y.pc = "sent" /\ y.answer = "none"
      BY <1>1, <1>2, <2>0, <3>2 DEF Op
    <3>4. Untouched(y)
      BY <1>1, <2>0, <3>3 DEF Untouched
    <3> HIDE DEF y
    <3>5. Untouched(Failed(y, "transient"))
      BY <3>3, <3>4, FailedLeavesNothing DEF Errors
    <3> QED BY <3>1, <3>5, UntouchedReplaced
  <2> QED BY <2>2, <2>3
<1> QED BY <1>4, <1>5, <1>6, <1>7, <1>8, <1>9, <1>10 DEF Proceed

LEMMA UntouchedKept ==
  ASSUME UntouchedInv, [Next]_callVars
  PROVE  UntouchedInv'
<1>0. CallsInv'
  BY CallsInvKept DEF UntouchedInv
<1>1. CASE Next
  BY <1>0, <1>1, CallLeavesNothing, ProceedLeavesNothing DEF Next
<1>2. CASE UNCHANGED callVars
  BY <1>0, <1>2 DEF UntouchedInv, Untouched, callVars
<1> QED BY <1>1, <1>2

LEMMA UntouchedAtInit == Init => UntouchedInv
BY CallsInvAtInit DEF Init, UntouchedInv, Untouched, Idle

LEMMA UntouchedHolds == Spec => []UntouchedInv
BY UntouchedAtInit, UntouchedKept, PTL DEF Spec

-----------------------------------------------------------------------------

\* provider.ts, http.ts: for every number of attempts, an operation makes a
\* second envelope only after a creation whose reply did not tell.
THEOREM OneEnvelopeUnlessUnknown == Spec => []OneUnlessUnknown
BY CallsInvHolds, CallsInvImplies, PTL

\* However its attempts end, an operation makes no more than it has attempts.
THEOREM MadeWithinItsAttempts == Spec => []MadeWithinAttempts
BY CallsInvHolds, CallsInvImplies, PTL

\* provider.ts: what an operation answers fits the error that ended it.
THEOREM AnswersFitErrors == Spec => []AnswersFit
BY CallsInvHolds, CallsInvImplies, PTL
\* What provider.ts says of a missing setting does hold of all but the return URL:
\* where that one is configured, an operation refused as the caller's error has
\* made nothing at DocuSign, not even by an attempt whose reply was lost.
THEOREM RefusedBeforeAnyRequestIfItCanReturn ==
  Spec => []("returnUrl" \notin missing => RefusedBeforeAnyRequest)
<1>1. UntouchedInv => ("returnUrl" \notin missing => RefusedBeforeAnyRequest)
  BY DEF UntouchedInv, Untouched, RefusedBeforeAnyRequest
<1> QED BY <1>1, UntouchedHolds, PTL

-----------------------------------------------------------------------------
(* The endpoints *)

\* How far the request m has got, whose operation is x: what it may hold by then.
InOrder(m, x) ==
  /\ m.pc \in {"free", "reading", "authenticating", "asking"} =>
       m.signer = "none" /\ m.status = 0
  /\ m.pc \in {"reading", "authenticating", "asking"} => x.pc = "idle"
  /\ m.pc = "asking" => m.verified /\ conf.terms
  /\ m.pc \in {"minting", "storing"} => x.pc # "idle" /\ m.status = 0

\* MintedAsAllowed and TermsFailClosed, of one request.
Allowed(m) ==
  m.signer # "none" =>
    /\ m.verified
    /\ conf.terms =>
         /\ m.reply # NoReply
         /\ \A f \in m.reply.prefill : m.prefill[f] = "host"
         /\ conf.mode = "envelope" =>
              /\ m.signer = "host"
              /\ \A f \in Fields : m.prefill[f] # "client"

FailsClosed(m, x, failed) ==
  /\ failed => m.pc = "answered"
  /\ failed <=> x.pc = "idle" /\ m.status = 502 /\ m.signer = "none"

MintOk(m, x, failed) == InOrder(m, x) /\ Allowed(m) /\ FailsClosed(m, x, failed)

MintTyped ==
  /\ conf \in Conf
  /\ mint \in [Ops -> MintRequest]
  /\ termsFailures \in SUBSET Ops

MintInv ==
  CallsInv /\ MintTyped /\ \A o \in Ops : MintOk(mint[o], op[o], o \in termsFailures)

-----------------------------------------------------------------------------

\* Every step of a mint is, at the provider, a step of ProviderCalls or none.
LEMMA MintStepIsCallsStep ==
  ASSUME [MintNext]_vars
  PROVE  [Next]_callVars
<1>1. CASE UNCHANGED vars
  BY <1>1 DEF vars, callVars
<1>2. ASSUME NEW o \in Ops, NEW m, NEW recipient, NEW valid \in BOOLEAN,
             Submit(o, m, recipient, valid)
      PROVE  [Next]_callVars
  BY <1>2 DEF Submit, Next, Call
<1>3. CASE MintNext
  <2>1. PICK o \in Ops :
          \/ \E body \in Bodies : Post(o, body)
          \/ CallDirectly(o)
          \/ Handle(o)
          \/ ProviderProceeds(o)
    BY <1>3 DEF MintNext
  <2>2. CASE \E body \in Bodies : Post(o, body)
    BY <2>2 DEF Post, callVars
  <2>3. CASE CallDirectly(o)
    BY <2>3 DEF CallDirectly, Next, Call
  <2>4. CASE ProviderProceeds(o)
    BY <2>4 DEF ProviderProceeds, Next
  <2>5. CASE Handle(o)
    <3>1. CASE Read(o) \/ Unverified(o) \/ HostFails(o) \/ Deliver(o) \/ Store(o) \/ StoreFails(o)
      BY <3>1 DEF Read, Unverified, HostFails, Deliver, Store, StoreFails, callVars
    <3>2. CASE Verified(o)
      BY <3>2, <1>2 DEF Verified, callVars
    <3>3. CASE \E reply \in Reply : HostAnswers(o, reply)
      BY <3>3, <1>2 DEF HostAnswers, Reply
    <3> QED BY <2>5, <3>1, <3>2, <3>3 DEF Handle
  <2> QED BY <2>1, <2>2, <2>3, <2>4, <2>5
<1> QED BY <1>1, <1>3

\* handlers.ts, provider.ts: the endpoints make of the provider exactly what
\* ProviderCalls describes; whatever holds of it holds under the mint.
THEOREM MintImplementsCalls == MintSpec => Spec
<1>1. MintInit => Init
  BY DEF MintInit
<1> QED BY <1>1, MintStepIsCallsStep, PTL DEF MintSpec, Spec

-----------------------------------------------------------------------------

Stages == {"free", "reading", "authenticating", "asking", "minting", "storing", "answered"}
Statuses == {0, 200, 400, 401, 502}

\* The updates of a request that the endpoints make keep its type.
LEMMA RequestTyped ==
  ASSUME NEW m \in MintRequest
  PROVE  /\ \A pc \in Stages : [m EXCEPT !.pc = pc] \in MintRequest
         /\ \A status \in Statuses : Answered(m, status) \in MintRequest
         /\ [m EXCEPT !.verified = TRUE] \in MintRequest
         /\ [m EXCEPT !.stored = TRUE] \in MintRequest
         /\ \A pc \in Stages, body \in Body : [m EXCEPT !.pc = pc, !.body = body] \in MintRequest
         /\ \A reply \in Reply : [m EXCEPT !.reply = reply] \in MintRequest
         /\ \A prefill \in [Fields -> {"none", "client", "host"}],
               signer \in {"none", "user", "client", "host"} :
              [m EXCEPT !.prefill = prefill, !.signer = signer] \in MintRequest
<1> DEFINE Replies == Reply \cup {NoReply}
           Values == [Fields -> {"none", "client", "host"}]
           Signers == {"none", "user", "client", "host"}
<1>1. MintRequest = [pc : Stages, body : Body, verified : BOOLEAN, reply : Replies,
                     prefill : Values, signer : Signers, stored : BOOLEAN, status : Statuses]
  BY DEF MintRequest, Stages, Statuses
<1>2. "answered" \in Stages /\ Reply \subseteq Replies
  BY DEF Stages
<1> SUFFICES
      /\ \A pc \in Stages : [m EXCEPT !.pc = pc] \in MintRequest
      /\ \A status \in Statuses : Answered(m, status) \in MintRequest
      /\ [m EXCEPT !.verified = TRUE] \in MintRequest
      /\ [m EXCEPT !.stored = TRUE] \in MintRequest
      /\ \A pc \in Stages, body \in Body : [m EXCEPT !.pc = pc, !.body = body] \in MintRequest
      /\ \A reply \in Reply : [m EXCEPT !.reply = reply] \in MintRequest
      /\ \A prefill \in Values, signer \in Signers :
           [m EXCEPT !.prefill = prefill, !.signer = signer] \in MintRequest
  OBVIOUS
<1> HIDE DEF Replies, Values, Signers
<1>3. \A status \in Statuses : Answered(m, status) \in MintRequest
  BY <1>1, <1>2 DEF Answered
<1>4. \A reply \in Reply : [m EXCEPT !.reply = reply] \in MintRequest
  BY <1>1, <1>2
<1> QED BY <1>1, <1>3, <1>4

\* The ones used most often, and what they leave alone.
LEMMA AnsweredTyped ==
  ASSUME NEW m \in MintRequest, NEW status \in {200, 400, 401, 502}
  PROVE  /\ Answered(m, status) \in MintRequest
         /\ Answered(m, status).pc = "answered"
         /\ Answered(m, status).status = status
         /\ Answered(m, status).signer = m.signer
         /\ Answered(m, status).verified = m.verified
         /\ Answered(m, status).reply = m.reply
         /\ Answered(m, status).prefill = m.prefill
<1>1. status \in Statuses
  BY DEF Statuses
<1>2. Answered(m, status) \in MintRequest
  BY <1>1, RequestTyped
<1>3. /\ Answered(m, status).pc = "answered"
      /\ Answered(m, status).status = status
      /\ Answered(m, status).signer = m.signer
      /\ Answered(m, status).verified = m.verified
      /\ Answered(m, status).reply = m.reply
      /\ Answered(m, status).prefill = m.prefill
  BY DEF MintRequest, Answered
<1> QED BY <1>2, <1>3

LEMMA StageTyped ==
  ASSUME NEW m \in MintRequest,
         NEW pc \in {"reading", "authenticating", "asking", "minting", "storing"}
  PROVE  /\ [m EXCEPT !.pc = pc] \in MintRequest
         /\ [m EXCEPT !.pc = pc].pc = pc
         /\ [m EXCEPT !.pc = pc].status = m.status
         /\ [m EXCEPT !.pc = pc].signer = m.signer
         /\ [m EXCEPT !.pc = pc].verified = m.verified
         /\ [m EXCEPT !.pc = pc].reply = m.reply
         /\ [m EXCEPT !.pc = pc].prefill = m.prefill
<1>1. pc \in Stages
  BY DEF Stages
<1>2. [m EXCEPT !.pc = pc] \in MintRequest
  BY <1>1, RequestTyped
<1>3. /\ [m EXCEPT !.pc = pc].pc = pc
      /\ [m EXCEPT !.pc = pc].status = m.status
      /\ [m EXCEPT !.pc = pc].signer = m.signer
      /\ [m EXCEPT !.pc = pc].verified = m.verified
      /\ [m EXCEPT !.pc = pc].reply = m.reply
      /\ [m EXCEPT !.pc = pc].prefill = m.prefill
  BY DEF MintRequest
<1> QED BY <1>2, <1>3

\* A step about one request leaves the others as they were.
LEMMA RequestReplaced ==
  ASSUME MintInv, CallsInv', NEW o \in Ops, NEW m \in MintRequest,
         mint' = [mint EXCEPT ![o] = m],
         \A p \in Ops \ {o} : op'[p] = op[p],
         conf' = conf,
         termsFailures' \in SUBSET Ops,
         \A p \in Ops \ {o} : p \in termsFailures' <=> p \in termsFailures,
         MintOk(m, op'[o], o \in termsFailures')
  PROVE  MintInv'
<1>1. MintTyped'
  BY DEF MintInv, MintTyped
<1>2. ASSUME NEW p \in Ops PROVE MintOk(mint[p], op[p], p \in termsFailures)'
  <2>1. CASE p = o
    <3>1. mint'[p] = m
      BY <2>1 DEF MintInv, MintTyped
    <3> QED BY <2>1, <3>1 DEF MintOk, InOrder, Allowed, FailsClosed
  <2>2. CASE p # o
    <3>1. mint'[p] = mint[p] /\ op'[p] = op[p] /\ (p \in termsFailures' <=> p \in termsFailures)
      BY <2>2 DEF MintInv, MintTyped
    <3>2. MintOk(mint[p], op[p], p \in termsFailures)
      BY DEF MintInv
    <3> QED BY <3>1, <3>2 DEF MintOk, InOrder, Allowed, FailsClosed
  <2> QED BY <2>1, <2>2
<1> QED BY <1>1, <1>2 DEF MintInv

\* An operation moves alone, and once called it is idle no more.
LEMMA CreateMoves ==
  ASSUME CallsInv, NEW o \in Ops, NEW k, NEW r, NEW valid, Create(o, k, r, valid)
  PROVE  op'[o].pc # "idle" /\ \A p \in Ops \ {o} : op'[p] = op[p]
<1>1. Started(k, r).pc = "ready" /\ Refused(k).pc = "done"
  BY DEF Started, Refused, Idle
<1> QED BY <1>1 DEF Create, CallsInv

LEMMA ProceedMoves ==
  ASSUME CallsInv, NEW o \in Ops, Proceed(o)
  PROVE  /\ op[o].pc # "idle" /\ op'[o].pc # "idle"
         /\ \A p \in Ops \ {o} : op'[p] = op[p]
<1>0. op \in [Ops -> Op]
  BY DEF CallsInv
<1>1. ASSUME NEW x \in Op, NEW e PROVE Failed(x, e).pc # "idle"
  BY DEF Failed, Op
<1>2. ASSUME NEW x \in Op PROVE Accepted(x).pc # "idle"
  BY DEF Accepted, Op
<1>3. CASE Wake(o)
  BY <1>0, <1>3 DEF Wake, Op
<1>4. CASE LacksSetting(o)
  BY <1>0, <1>4, <1>1 DEF LacksSetting
<1>5. CASE \E e \in ClientErrors \cup {"transient"} : TokenFails(o, e)
  BY <1>0, <1>5, <1>1 DEF TokenFails
<1>6. CASE Send(o)
  BY <1>0, <1>6 DEF Send, Op
<1>7. CASE Accept(o)
  BY <1>0, <1>7, <1>2 DEF Accept
<1>8. CASE \E e \in ClientErrors : Reject(o, e)
  BY <1>0, <1>8, <1>1 DEF Reject
<1>9. CASE \E carriedOut \in BOOLEAN : Lose(o, carriedOut)
  <2>1. PICK carriedOut \in BOOLEAN : Lose(o, carriedOut)
    BY <1>9
  <2>2. Unknown(op[o], carriedOut) \in Op
    <3> DEFINE n == IF carriedOut THEN op[o].made + 1 ELSE op[o].made
    <3> DEFINE k == op[o].unknown + 1
    <3>1. op[o] \in Op /\ n \in Nat /\ k \in Nat
      BY <1>0 DEF Op
    <3>2. Unknown(op[o], carriedOut) = [op[o] EXCEPT !.made = n, !.unknown = k]
      BY DEF Unknown
    <3> HIDE DEF n, k
    <3> QED BY <3>1, <3>2 DEF Op
  <2> QED BY <1>0, <2>1, <2>2, <1>1 DEF Lose
<1> QED BY <1>3, <1>4, <1>5, <1>6, <1>7, <1>8, <1>9 DEF Proceed

-----------------------------------------------------------------------------

\* A request that is put to the provider, or refused for want of a signer, with
\* values that are allowed.
LEMMA SubmitKeepsInv ==
  ASSUME MintInv, CallsInv', NEW o \in Ops, NEW m \in MintRequest, NEW recipient, NEW valid,
         Submit(o, m, recipient, valid), UNCHANGED termsFailures,
         op[o].pc = "idle", o \notin termsFailures,
         m.status = 0, m.signer # "none", Allowed(m)
  PROVE  MintInv'
<1>0. CallsInv /\ termsFailures \in SUBSET Ops /\ conf' = conf
  BY DEF MintInv, MintTyped, Submit
<1>1. CASE conf.mode = "webform"
  <2> DEFINE y == [m EXCEPT !.pc = "minting", !.signer = "user"]
  <2>1. y \in MintRequest
    <3> DEFINE z == [m EXCEPT !.pc = "minting"]
    <3>1. z \in MintRequest
      BY StageTyped
    <3>2. y = [z EXCEPT !.prefill = m.prefill, !.signer = "user"]
      BY DEF MintRequest
    <3>3. m.prefill \in [Fields -> {"none", "client", "host"}]
      BY DEF MintRequest
    <3> HIDE DEF z, y
    <3> QED BY <3>1, <3>2, <3>3, RequestTyped
  <2>2. /\ y.pc = "minting" /\ y.signer = "user" /\ y.status = 0 /\ y.verified = m.verified
        /\ y.reply = m.reply /\ y.prefill = m.prefill
    BY DEF MintRequest
  <2>3. CreateHostedFormInstance(o, valid) /\ mint' = [mint EXCEPT ![o] = y]
    BY <1>1 DEF Submit
  <2> HIDE DEF y
  <2>4. op'[o].pc # "idle" /\ \A p \in Ops \ {o} : op'[p] = op[p]
    BY <1>0, <2>3, CreateMoves DEF CreateHostedFormInstance
  <2>5. InOrder(y, op'[o]) /\ FailsClosed(y, op'[o], o \in termsFailures')
    BY <2>2, <2>4 DEF InOrder, FailsClosed
  <2>6. Allowed(y)
    BY <1>1, <2>2 DEF Allowed
  <2> QED BY <1>0, <2>1, <2>3, <2>4, <2>5, <2>6, RequestReplaced DEF MintOk
<1>2. CASE conf.mode = "envelope" /\ recipient = "good" /\ conf.domain # "failed"
  <2> DEFINE y == [m EXCEPT !.pc = "minting"]
  <2>1. y \in MintRequest
    BY StageTyped
  <2>2. /\ y.pc = "minting" /\ y.signer = m.signer /\ y.status = 0 /\ y.verified = m.verified
        /\ y.reply = m.reply /\ y.prefill = m.prefill
    BY DEF MintRequest
  <2>3. CreateEnvelope(o, valid) /\ mint' = [mint EXCEPT ![o] = y]
    BY <1>2 DEF Submit
  <2> HIDE DEF y
  <2>4. op'[o].pc # "idle" /\ \A p \in Ops \ {o} : op'[p] = op[p]
    BY <1>0, <2>3, CreateMoves DEF CreateEnvelope
  <2>5. InOrder(y, op'[o]) /\ FailsClosed(y, op'[o], o \in termsFailures')
    BY <2>2, <2>4 DEF InOrder, FailsClosed
  <2>6. Allowed(y)
    BY <2>2 DEF Allowed
  <2> QED BY <1>0, <2>1, <2>3, <2>4, <2>5, <2>6, RequestReplaced DEF MintOk
<1>3. ASSUME conf.mode = "envelope", recipient # "good" \/ conf.domain = "failed",
             NEW status \in {400, 502},
             mint' = [mint EXCEPT ![o] = Answered(m, status)], UNCHANGED callVars
      PROVE  MintInv'
  <2> DEFINE y == Answered(m, status)
  <2>1. y \in MintRequest
    BY AnsweredTyped
  <2>2. /\ y.pc = "answered" /\ y.signer = m.signer /\ y.status = status /\ y.verified = m.verified
        /\ y.reply = m.reply /\ y.prefill = m.prefill
    BY DEF MintRequest, Answered
  <2>3. mint' = [mint EXCEPT ![o] = y] /\ op' = op
    BY <1>3 DEF callVars
  <2> HIDE DEF y
  <2>4. InOrder(y, op'[o]) /\ FailsClosed(y, op'[o], o \in termsFailures')
    BY <2>2, <2>3 DEF InOrder, FailsClosed
  <2>5. Allowed(y)
    BY <2>2 DEF Allowed
  <2>6. MintOk(y, op'[o], o \in termsFailures')
    BY <2>4, <2>5 DEF MintOk
  <2>7. /\ \A p \in Ops \ {o} : op'[p] = op[p]
        /\ termsFailures' \in SUBSET Ops /\ termsFailures' = termsFailures
    BY <1>0, <2>3
  <2> QED BY <1>0, <2>1, <2>3, <2>6, <2>7, RequestReplaced
<1>4. CASE conf.mode = "envelope" /\ (recipient # "good" \/ conf.domain = "failed")
  BY <1>3, <1>4 DEF Submit
<1>5. conf.mode \in {"webform", "envelope"}
  BY DEF MintInv, MintTyped, Conf
<1> QED BY <1>1, <1>2, <1>4, <1>5

\* Before the provider is asked: the request is read, and its caller verified.
LEMMA ReadKeepsInv ==
  ASSUME MintInv, CallsInv', NEW o \in Ops,
         (\E body \in Bodies : Post(o, body)) \/ Read(o) \/ Unverified(o) \/ HostFails(o)
  PROVE  MintInv'
<1> DEFINE m == mint[o]
<1>0. /\ m \in MintRequest /\ mint \in [Ops -> MintRequest] /\ termsFailures \in SUBSET Ops
      /\ InOrder(m, op[o]) /\ Allowed(m) /\ FailsClosed(m, op[o], o \in termsFailures)
  BY DEF MintInv, MintTyped, MintOk
<1>1. CASE \E body \in Bodies : Post(o, body)
  <2>1. PICK body \in Bodies : Post(o, body)
    BY <1>1
  <2> DEFINE y == [m EXCEPT !.pc = "reading", !.body = body]
  <2>2. body \in Body
    BY DEF Bodies
  <2>3. y.pc = "reading" /\ y.signer = m.signer /\ y.status = m.status
    BY <1>0 DEF MintRequest
  <2>7. y \in MintRequest
    <3> HIDE DEF m
    <3> QED BY <1>0, <2>2, RequestTyped DEF Stages
  <2>4. /\ mint' = [mint EXCEPT ![o] = y] /\ m.pc = "free" /\ op[o].pc = "idle"
        /\ op' = op /\ conf' = conf /\ termsFailures' = termsFailures
    BY <2>1, <1>0 DEF Post
  <2> HIDE DEF y
  <2>5. m.signer = "none" /\ m.status = 0 /\ o \notin termsFailures
    BY <1>0, <2>4 DEF InOrder, FailsClosed
  <2>6. InOrder(y, op'[o]) /\ Allowed(y) /\ FailsClosed(y, op'[o], o \in termsFailures')
    BY <2>3, <2>4, <2>5 DEF InOrder, Allowed, FailsClosed
  <2> HIDE DEF m
  <2> QED BY <1>0, <2>4, <2>6, <2>7, RequestReplaced DEF MintOk
<1>2. CASE Read(o) \/ Unverified(o)
  <2>1. PICK y : /\ mint' = [mint EXCEPT ![o] = y]
                 /\ \/ y = Answered(m, 400)
                    \/ y = Answered(m, 401)
                    \/ y = [m EXCEPT !.pc = "authenticating"]
    BY <1>0, <1>2 DEF Read, Unverified
  <2>2. /\ m.pc \in {"reading", "authenticating"}
        /\ op' = op /\ conf' = conf /\ termsFailures' = termsFailures
    BY <1>2 DEF Read, Unverified
  <2>6. y \in MintRequest
    <3> HIDE DEF m
    <3>1. Answered(m, 400) \in MintRequest /\ Answered(m, 401) \in MintRequest
      BY <1>0, AnsweredTyped
    <3>2. [m EXCEPT !.pc = "authenticating"] \in MintRequest
      BY <1>0, StageTyped
    <3> QED BY <2>1, <3>1, <3>2
  <2>3. /\ y.signer = m.signer
        /\ \/ y.pc = "answered" /\ y.status \in {400, 401}
           \/ y.pc = "authenticating" /\ y.status = m.status
    <3>1. CASE y = Answered(m, 400)
      BY <1>0, <3>1 DEF MintRequest, Answered
    <3>2. CASE y = Answered(m, 401)
      BY <1>0, <3>2 DEF MintRequest, Answered
    <3>3. CASE y = [m EXCEPT !.pc = "authenticating"]
      BY <1>0, <3>3 DEF MintRequest
    <3> QED BY <2>1, <3>1, <3>2, <3>3
  <2>4. m.signer = "none" /\ m.status = 0 /\ o \notin termsFailures /\ op[o].pc = "idle"
    BY <1>0, <2>2 DEF InOrder, FailsClosed
  <2>5. InOrder(y, op'[o]) /\ Allowed(y) /\ FailsClosed(y, op'[o], o \in termsFailures')
    BY <2>2, <2>3, <2>4 DEF InOrder, Allowed, FailsClosed
  <2> HIDE DEF m
  <2> QED BY <1>0, <2>1, <2>2, <2>5, <2>6, RequestReplaced DEF MintOk
<1>3. CASE HostFails(o)
  <2> DEFINE y == Answered(m, 502)
  <2>1. y.signer = m.signer /\ y.pc = "answered" /\ y.status = 502
    BY <1>0 DEF MintRequest, Answered
  <2>5. y \in MintRequest
    <3> HIDE DEF m
    <3> QED BY <1>0, AnsweredTyped
  <2>2. /\ mint' = [mint EXCEPT ![o] = y] /\ m.pc = "asking"
        /\ op' = op /\ conf' = conf /\ termsFailures' = termsFailures \cup {o}
    BY <1>0, <1>3 DEF HostFails
  <2>3. m.signer = "none" /\ op[o].pc = "idle"
    BY <1>0, <2>2 DEF InOrder
  <2> HIDE DEF y
  <2>4. InOrder(y, op'[o]) /\ Allowed(y) /\ FailsClosed(y, op'[o], o \in termsFailures')
    BY <2>1, <2>2, <2>3 DEF InOrder, Allowed, FailsClosed
  <2> HIDE DEF m
  <2> QED BY <1>0, <2>2, <2>4, <2>5, RequestReplaced DEF MintOk
<1> QED BY <1>1, <1>2, <1>3

\* The caller is verified: what it sent is refused, waits for the host, or is put
\* to the provider as it is.
LEMMA VerifiedKeepsInv ==
  ASSUME MintInv, CallsInv', NEW o \in Ops, Verified(o)
  PROVE  MintInv'
<1> DEFINE m == [mint[o] EXCEPT !.verified = TRUE]
<1>0. /\ mint[o] \in MintRequest /\ termsFailures \in SUBSET Ops
      /\ InOrder(mint[o], op[o]) /\ FailsClosed(mint[o], op[o], o \in termsFailures)
      /\ mint[o].pc = "authenticating" /\ termsFailures' = termsFailures
  BY DEF MintInv, MintTyped, MintOk, Verified
<1>1. mint[o].signer = "none" /\ mint[o].status = 0 /\ o \notin termsFailures /\ op[o].pc = "idle"
  BY <1>0 DEF InOrder, FailsClosed
<1>2. m \in MintRequest
  BY <1>0, RequestTyped
<1>3. /\ m.verified = TRUE /\ m.signer = "none" /\ m.status = 0 /\ m.body = mint[o].body
  BY <1>0, <1>1 DEF MintRequest
<1> USE DEF Verified
<1>4. CASE m.body.shape # "fine" /\ mint' = [mint EXCEPT ![o] = Answered(m, 400)]
           /\ UNCHANGED <<missing, op, conf>>
  <2> DEFINE y == Answered(m, 400)
  <2> HIDE DEF m
  <2>1. /\ y \in MintRequest /\ y.pc = "answered" /\ y.status = 400 /\ y.signer = "none"
    BY <1>2, <1>3, AnsweredTyped
  <2> HIDE DEF y
  <2>2. InOrder(y, op'[o]) /\ Allowed(y) /\ FailsClosed(y, op'[o], o \in termsFailures')
    BY <1>0, <1>1, <1>4, <2>1 DEF InOrder, Allowed, FailsClosed
  <2> QED BY <1>0, <1>4, <2>1, <2>2, RequestReplaced DEF MintOk, y
<1>5. CASE conf.terms /\ mint' = [mint EXCEPT ![o] = [m EXCEPT !.pc = "asking"]]
           /\ UNCHANGED <<missing, op, conf>>
  <2> DEFINE y == [m EXCEPT !.pc = "asking"]
  <2> HIDE DEF m
  <2>1. /\ y \in MintRequest /\ y.pc = "asking" /\ y.status = 0 /\ y.signer = "none" /\ y.verified
    BY <1>2, <1>3, StageTyped
  <2> HIDE DEF y
  <2>2. InOrder(y, op'[o]) /\ Allowed(y) /\ FailsClosed(y, op'[o], o \in termsFailures')
    BY <1>0, <1>1, <1>5, <2>1 DEF InOrder, Allowed, FailsClosed
  <2> QED BY <1>0, <1>5, <2>1, <2>2, RequestReplaced DEF MintOk, y
<1>6. CASE ~conf.terms /\ Submit(o, AsSent(m), m.body.recipient, TRUE)
  <2> DEFINE p == [f \in Fields |-> IF f \in m.body.prefill THEN "client" ELSE "none"]
             y == [m EXCEPT !.prefill = p, !.signer = "client"]
  <2>1. AsSent(m) = y
    BY DEF AsSent
  <2> HIDE DEF m
  <2>2. p \in [Fields -> {"none", "client", "host"}]
    OBVIOUS
  <2> HIDE DEF p
  <2>3. y \in MintRequest
    BY <1>2, <2>2, RequestTyped
  <2>4. y.signer = "client" /\ y.status = 0 /\ y.verified
    BY <1>2, <1>3 DEF MintRequest
  <2> HIDE DEF y
  <2>5. Allowed(y)
    BY <1>6, <2>4 DEF Allowed
  <2> QED BY <1>0, <1>1, <1>6, <2>1, <2>3, <2>4, <2>5, SubmitKeepsInv
<1> QED BY <1>4, <1>5, <1>6

\* The host's answer is laid over what the client sent, or stands for it.
LEMMA HostAnswersKeepsInv ==
  ASSUME MintInv, CallsInv', NEW o \in Ops, NEW reply \in Reply, HostAnswers(o, reply)
  PROVE  MintInv'
<1> DEFINE m == [mint[o] EXCEPT !.reply = reply]
           p == IF conf.mode = "webform" THEN Merged(m, reply) ELSE HostsOwn(reply)
           y == [m EXCEPT !.prefill = p, !.signer = "host"]
<1>0. /\ mint[o] \in MintRequest
      /\ InOrder(mint[o], op[o]) /\ FailsClosed(mint[o], op[o], o \in termsFailures)
      /\ mint[o].pc = "asking" /\ termsFailures' = termsFailures
      /\ Submit(o, y, reply.recipient, reply.valid)
  BY DEF MintInv, MintTyped, MintOk, HostAnswers
<1>1. /\ mint[o].status = 0 /\ o \notin termsFailures /\ op[o].pc = "idle"
      /\ mint[o].verified
  BY <1>0 DEF InOrder, FailsClosed
<1>2. m \in MintRequest
  BY <1>0, RequestTyped
<1>3. m.verified /\ m.status = 0 /\ m.reply = reply
  BY <1>0, <1>1 DEF MintRequest
<1> HIDE DEF m
<1>4. p \in [Fields -> {"none", "client", "host"}]
  BY DEF Merged, HostsOwn
<1>5. /\ \A f \in reply.prefill : p[f] = "host"
      /\ conf.mode = "envelope" => \A f \in Fields : p[f] # "client"
  <2>1. reply.prefill \subseteq Fields
    BY DEF Reply
  <2> QED BY <2>1 DEF Merged, HostsOwn
<1> HIDE DEF p
<1>6. y \in MintRequest
  BY <1>2, <1>4, RequestTyped
<1>7. /\ y.signer = "host" /\ y.status = 0 /\ y.verified /\ y.reply = reply /\ y.prefill = p
  BY <1>2, <1>3 DEF MintRequest
<1> HIDE DEF y
<1>8. Allowed(y)
  BY <1>5, <1>7, NoReplyIsNone DEF Allowed
<1> QED BY <1>0, <1>1, <1>6, <1>7, <1>8, SubmitKeepsInv DEF y

\* Once the provider was asked, its answer and the store's decide the status.
LEMMA DeliverKeepsInv ==
  ASSUME MintInv, CallsInv', NEW o \in Ops, Deliver(o) \/ Store(o) \/ StoreFails(o)
  PROVE  MintInv'
<1> DEFINE m == mint[o]
<1>0. /\ m \in MintRequest /\ termsFailures \in SUBSET Ops
      /\ InOrder(m, op[o]) /\ Allowed(m) /\ FailsClosed(m, op[o], o \in termsFailures)
      /\ m.pc \in {"minting", "storing"}
      /\ op' = op /\ conf' = conf /\ termsFailures' = termsFailures
  BY DEF MintInv, MintTyped, MintOk, Deliver, Store, StoreFails
<1>1. op[o].pc # "idle" /\ m.status = 0 /\ o \notin termsFailures
  BY <1>0 DEF InOrder, FailsClosed
<1>2. ASSUME NEW y \in MintRequest, mint' = [mint EXCEPT ![o] = y],
             y.signer = m.signer, y.verified = m.verified, y.reply = m.reply,
             y.prefill = m.prefill,
             y.pc = "answered" \/ (y.pc = "storing" /\ y.status = 0)
      PROVE  MintInv'
  <2> HIDE DEF m
  <2>1. InOrder(y, op'[o]) /\ FailsClosed(y, op'[o], o \in termsFailures')
    BY <1>0, <1>1, <1>2 DEF InOrder, FailsClosed
  <2>2. Allowed(y)
    BY <1>0, <1>2 DEF Allowed
  <2> QED BY <1>0, <1>2, <2>1, <2>2, RequestReplaced DEF MintOk
<1>3. CASE Deliver(o)
  <2>1. CASE mint' = [mint EXCEPT ![o] = [m EXCEPT !.pc = "storing"]]
    <3> HIDE DEF m
    <3> QED BY <1>0, <1>1, <1>2, <2>1, StageTyped
  <2>2. CASE mint' = [mint EXCEPT ![o] = Answered(m, StatusOf(op[o].answer))]
    <3> HIDE DEF m
    <3>1. StatusOf(op[o].answer) \in {200, 400, 401, 502}
      BY DEF StatusOf
    <3> DEFINE y == Answered(m, StatusOf(op[o].answer))
    <3>2. /\ y \in MintRequest /\ y.pc = "answered" /\ y.signer = m.signer
          /\ y.verified = m.verified /\ y.reply = m.reply /\ y.prefill = m.prefill
      BY <1>0, <3>1, AnsweredTyped
    <3> HIDE DEF y
    <3> QED BY <1>2, <2>2, <3>2 DEF y
  <2>3. mint \in [Ops -> MintRequest]
    BY DEF MintInv, MintTyped
  <2> QED BY <1>3, <2>1, <2>2, <2>3 DEF Deliver
<1>4. CASE Store(o)
  <2> DEFINE a == Answered(m, 200)
             y == [a EXCEPT !.stored = TRUE]
  <2>1. mint' = [mint EXCEPT ![o] = y]
    BY <1>4 DEF Store, MintInv, MintTyped
  <2> HIDE DEF m
  <2>2. /\ a \in MintRequest /\ a.pc = "answered" /\ a.signer = m.signer
        /\ a.verified = m.verified /\ a.reply = m.reply /\ a.prefill = m.prefill
    BY <1>0, AnsweredTyped
  <2> HIDE DEF a
  <2>3. y \in MintRequest
    BY <2>2, RequestTyped
  <2>4. /\ y.pc = "answered" /\ y.signer = m.signer
        /\ y.verified = m.verified /\ y.reply = m.reply /\ y.prefill = m.prefill
    BY <2>2 DEF MintRequest
  <2> HIDE DEF y
  <2> QED BY <1>2, <2>1, <2>3, <2>4
<1>5. CASE StoreFails(o)
  <2>1. mint' = [mint EXCEPT ![o] = Answered(m, 502)]
    BY <1>5 DEF StoreFails, MintInv, MintTyped
  <2> HIDE DEF m
  <2> DEFINE y == Answered(m, 502)
  <2>2. /\ y \in MintRequest /\ y.pc = "answered" /\ y.signer = m.signer
        /\ y.verified = m.verified /\ y.reply = m.reply /\ y.prefill = m.prefill
    BY <1>0, AnsweredTyped
  <2> HIDE DEF y
  <2> QED BY <1>2, <2>1, <2>2 DEF y
<1> QED BY <1>3, <1>4, <1>5

\* The provider's steps, and the calls that no mint makes, move an operation that
\* is under way or belongs to no request.
LEMMA ProviderKeepsInv ==
  ASSUME MintInv, CallsInv', NEW o \in Ops, ProviderProceeds(o) \/ CallDirectly(o)
  PROVE  MintInv'
<1> DEFINE m == mint[o]
<1>0. /\ CallsInv /\ m \in MintRequest /\ termsFailures \in SUBSET Ops
      /\ mint \in [Ops -> MintRequest]
      /\ InOrder(m, op[o]) /\ Allowed(m) /\ FailsClosed(m, op[o], o \in termsFailures)
      /\ mint' = mint /\ conf' = conf /\ termsFailures' = termsFailures
  BY DEF MintInv, MintTyped, MintOk, ProviderProceeds, CallDirectly, mintVars
<1>1. mint' = [mint EXCEPT ![o] = m]
  BY <1>0
<1>2. /\ op'[o].pc # "idle" /\ \A p \in Ops \ {o} : op'[p] = op[p]
      /\ op[o].pc # "idle" \/ m.pc = "free"
  <2>1. CASE ProviderProceeds(o)
    BY <1>0, <2>1, ProceedMoves DEF ProviderProceeds
  <2>2. CASE CallDirectly(o)
    <3>1. /\ Started("getSigningUrl", "view").pc = "ready"
          /\ Started("getEnvelopeStatus", "status").pc = "ready"
      BY DEF Started, Idle
    <3> QED BY <1>0, <2>2, <3>1 DEF CallDirectly, GetSigningUrl, GetEnvelopeStatus, CallsInv
  <2> QED BY <2>1, <2>2
<1> HIDE DEF m
<1>3. m.pc = "free" => m.status = 0 /\ m.signer = "none"
  BY <1>0 DEF InOrder
<1>4. op[o].pc = "idle" => o \notin termsFailures
  BY <1>0, <1>2, <1>3 DEF FailsClosed
<1>5. op[o].pc # "idle" => o \notin termsFailures
  BY <1>0 DEF FailsClosed
<1>6. InOrder(m, op'[o]) /\ FailsClosed(m, op'[o], o \in termsFailures')
  BY <1>0, <1>2, <1>3, <1>4, <1>5 DEF InOrder, FailsClosed
<1> QED BY <1>0, <1>1, <1>2, <1>6, RequestReplaced DEF MintOk

LEMMA MintInvKept ==
  ASSUME MintInv, [MintNext]_vars
  PROVE  MintInv'
<1>0. CallsInv'
  BY MintStepIsCallsStep, CallsInvKept DEF MintInv
<1>1. CASE UNCHANGED vars
  BY <1>0, <1>1 DEF vars, MintInv, MintTyped, MintOk, InOrder, Allowed, FailsClosed
<1>2. CASE MintNext
  <2>1. PICK o \in Ops :
          \/ \E body \in Bodies : Post(o, body)
          \/ CallDirectly(o)
          \/ Handle(o)
          \/ ProviderProceeds(o)
    BY <1>2 DEF MintNext
  <2>2. CASE CallDirectly(o) \/ ProviderProceeds(o)
    BY <1>0, <2>2, ProviderKeepsInv
  <2>3. CASE (\E body \in Bodies : Post(o, body)) \/ Read(o) \/ Unverified(o) \/ HostFails(o)
    BY <1>0, <2>3, ReadKeepsInv
  <2>4. CASE Verified(o)
    BY <1>0, <2>4, VerifiedKeepsInv
  <2>5. CASE \E reply \in Reply : HostAnswers(o, reply)
    BY <1>0, <2>5, HostAnswersKeepsInv
  <2>6. CASE Deliver(o) \/ Store(o) \/ StoreFails(o)
    BY <1>0, <2>6, DeliverKeepsInv
  <2> QED BY <2>1, <2>2, <2>3, <2>4, <2>5, <2>6 DEF Handle
<1> QED BY <1>1, <1>2

LEMMA MintInvAtInit == MintInit => MintInv
<1> SUFFICES ASSUME MintInit PROVE MintInv
  OBVIOUS
<1>1. CallsInv
  BY CallsInvAtInit DEF MintInit
<1>2. Free \in MintRequest
  <2>1. Empty \in Body
    BY DEF Empty, Body
  <2>2. [f \in Fields |-> "none"] \in [Fields -> {"none", "client", "host"}]
    OBVIOUS
  <2> QED BY <2>1, <2>2 DEF Free, MintRequest
<1>3. MintTyped
  BY <1>2 DEF MintInit, MintTyped
<1>4. ASSUME NEW o \in Ops PROVE MintOk(mint[o], op[o], o \in termsFailures)
  <2>1. mint[o] = Free /\ op[o] = Idle /\ termsFailures = {}
    BY DEF MintInit, Init
  <2>2. Free.pc = "free" /\ Free.signer = "none" /\ Free.status = 0
    BY DEF Free
  <2> QED BY <2>1, <2>2 DEF MintOk, InOrder, Allowed, FailsClosed
<1> QED BY <1>1, <1>3, <1>4 DEF MintInv

LEMMA MintInvHolds == MintSpec => []MintInv
BY MintInvAtInit, MintInvKept, PTL DEF MintSpec

\* What follows from the invariant in every state.
LEMMA MintInvImplies == MintInv => MintTypeOK /\ MintedAsAllowed /\ TermsFailClosed
<1> SUFFICES ASSUME MintInv PROVE MintTypeOK /\ MintedAsAllowed /\ TermsFailClosed
  OBVIOUS
<1>1. MintTypeOK
  BY DEF MintInv, MintTyped, CallsInv, MintTypeOK, CallsTypeOK
<1>2. MintedAsAllowed
  BY DEF MintInv, MintOk, Allowed, MintedAsAllowed
<1>3. TermsFailClosed
  BY DEF MintInv, MintOk, FailsClosed, TermsFailClosed
<1> QED BY <1>1, <1>2, <1>3

-----------------------------------------------------------------------------
(* What the caller is told *)

\* The operations a mint calls.
Minting == {"createEnvelope", "createHostedFormInstance"}

\* What the status of request m says of its operation x, and what is known of it
\* by then: an unanswered request has stored nothing, one that is put to the
\* provider has someone to sign it.
Told(m, x) ==
  /\ m.pc # "answered" => m.status = 0 /\ ~m.stored
  /\ m.pc \in {"minting", "storing"} =>
       x.operation \in Minting /\ m.signer # "none" /\ conf.domain # "failed"
  /\ m.pc = "storing" => x.pc = "done" /\ x.answer = "ok" /\ conf.domain = "ready"
  /\ m.status \in {400, 401} =>
       x.pc = "idle" \/ (x.pc = "done" /\ x.answer = "validationError")
  /\ m.status = 200 =>
       /\ x.pc = "done" /\ x.answer = "ok" /\ x.operation \in Minting
       /\ m.signer # "none"
       /\ conf.domain # "off" => m.stored
  /\ m.stored => m.status = 200

ToldInv ==
  MintInv /\ UntouchedInv /\ \A o \in Ops : Told(mint[o], op[o])

\* An answer is known by its status, and leaves the rest of a request as it was.
LEMMA AnsweredTells ==
  ASSUME NEW m \in MintRequest, NEW status \in {200, 400, 401, 502}
  PROVE  /\ Answered(m, status).pc = "answered"
         /\ Answered(m, status).status = status
         /\ Answered(m, status).signer = m.signer
         /\ Answered(m, status).stored = m.stored
BY DEF Answered, MintRequest

LEMMA ToldReplaced ==
  ASSUME ToldInv, MintInv', UntouchedInv', NEW o \in Ops, NEW m,
         mint' = [mint EXCEPT ![o] = m],
         \A p \in Ops \ {o} : op'[p] = op[p],
         conf' = conf,
         Told(m, op'[o])
  PROVE  ToldInv'
<1>1. ASSUME NEW p \in Ops PROVE Told(mint[p], op[p])'
  <2>0. mint \in [Ops -> MintRequest]
    BY DEF ToldInv, MintInv, MintTyped
  <2>1. CASE p = o
    <3>1. mint'[p] = m
      BY <2>0, <2>1
    <3> QED BY <2>1, <3>1 DEF Told
  <2>2. CASE p # o
    <3>1. mint'[p] = mint[p] /\ op'[p] = op[p]
      BY <2>0, <2>2
    <3>2. Told(mint[p], op[p])
      BY DEF ToldInv
    <3> QED BY <3>1, <3>2 DEF Told
  <2> QED BY <2>1, <2>2
<1> QED BY <1>1 DEF ToldInv

\* A step that leaves the operations alone.
LEMMA ToldAlone ==
  ASSUME ToldInv, MintInv', UntouchedInv', NEW o \in Ops, NEW m,
         mint' = [mint EXCEPT ![o] = m], op' = op, conf' = conf, Told(m, op[o])
  PROVE  ToldInv'
<1>1. Told(m, op'[o]) /\ \A p \in Ops \ {o} : op'[p] = op[p]
  OBVIOUS
<1> QED BY <1>1, ToldReplaced

LEMMA SubmitTells ==
  ASSUME ToldInv, MintInv', UntouchedInv', NEW o \in Ops, NEW m \in MintRequest,
         NEW recipient, NEW valid, Submit(o, m, recipient, valid),
         op[o].pc = "idle", m.status = 0, ~m.stored, m.signer # "none"
  PROVE  ToldInv'
<1>0. CallsInv /\ conf' = conf /\ conf \in Conf
  BY DEF ToldInv, MintInv, MintTyped, Submit
<1>1. ASSUME NEW k \in Minting, NEW r, NEW y, Create(o, k, r, valid),
             mint' = [mint EXCEPT ![o] = y],
             y.pc = "minting", y.status = 0, ~y.stored, y.signer # "none",
             conf.domain # "failed"
      PROVE  ToldInv'
  <2>1. op'[o].operation = k /\ \A p \in Ops \ {o} : op'[p] = op[p]
    <3>1. Started(k, r).operation = k /\ Refused(k).operation = k
      BY DEF Started, Refused, Idle
    <3> QED BY <1>0, <1>1, <3>1 DEF Create, CallsInv
  <2>2. Told(y, op'[o])
    BY <1>0, <1>1, <2>1 DEF Told
  <2> QED BY <1>0, <1>1, <2>1, <2>2, ToldReplaced
<1>2. CASE conf.mode = "webform"
  <2> DEFINE y == [m EXCEPT !.pc = "minting", !.signer = "user"]
  <2>1. y.pc = "minting" /\ y.status = 0 /\ ~y.stored /\ y.signer # "none"
    BY DEF MintRequest
  <2>2. conf.domain # "failed"
    BY <1>0, <1>2 DEF Conf
  <2>3. Create(o, "createHostedFormInstance", "instance", valid)
        /\ mint' = [mint EXCEPT ![o] = y]
    BY <1>2 DEF Submit, CreateHostedFormInstance
  <2> HIDE DEF y
  <2> QED BY <1>1, <2>1, <2>2, <2>3 DEF Minting
<1>3. CASE conf.mode = "envelope" /\ recipient = "good" /\ conf.domain # "failed"
  <2> DEFINE y == [m EXCEPT !.pc = "minting"]
  <2>1. y.pc = "minting" /\ y.status = 0 /\ ~y.stored /\ y.signer # "none"
    BY DEF MintRequest
  <2>3. Create(o, "createEnvelope", "envelope", valid) /\ mint' = [mint EXCEPT ![o] = y]
    BY <1>3 DEF Submit, CreateEnvelope
  <2> HIDE DEF y
  <2> QED BY <1>1, <1>3, <2>1, <2>3 DEF Minting
<1>4. CASE conf.mode = "envelope" /\ (recipient # "good" \/ conf.domain = "failed")
  <2>1. PICK status \in {400, 502} :
          mint' = [mint EXCEPT ![o] = Answered(m, status)] /\ op' = op
    BY <1>4 DEF Submit, callVars
  <2> DEFINE y == Answered(m, status)
  <2>2. y.pc = "answered" /\ y.status \in {400, 401, 502} /\ ~y.stored
    BY AnsweredTells
  <2>3. mint' = [mint EXCEPT ![o] = y] /\ op' = op /\ conf' = conf
    BY <1>0, <2>1
  <2> HIDE DEF y
  <2>4. Told(y, op[o])
    BY <2>2 DEF Told
  <2>5. Told(y, op'[o]) /\ \A p \in Ops \ {o} : op'[p] = op[p]
    BY <2>3, <2>4
  <2> QED BY <2>3, <2>5, ToldReplaced
<1> QED BY <1>2, <1>3, <1>4 DEF Submit

LEMMA EarlyStepsTell ==
  ASSUME ToldInv, MintInv', UntouchedInv', NEW o \in Ops,
         (\E body \in Bodies : Post(o, body)) \/ Read(o) \/ Unverified(o) \/ HostFails(o)
  PROVE  ToldInv'
<1> DEFINE m == mint[o]
<1>0. /\ m \in MintRequest /\ mint \in [Ops -> MintRequest]
      /\ InOrder(m, op[o]) /\ Told(m, op[o])
  BY DEF ToldInv, MintInv, MintTyped, MintOk
<1>1. ASSUME NEW y, mint' = [mint EXCEPT ![o] = y], op' = op, conf' = conf,
             op[o].pc = "idle", m.pc # "answered", y.stored = m.stored,
             IF y.pc = "answered" THEN y.status \in {400, 401, 502}
             ELSE y.pc \in {"reading", "authenticating", "asking"} /\ y.status = m.status
      PROVE  ToldInv'
  <2>1. m.status = 0 /\ ~m.stored
    BY <1>0, <1>1 DEF Told
  <2> HIDE DEF m
  <2>2. Told(y, op[o])
    BY <1>1, <2>1 DEF Told
  <2> QED BY <1>1, <2>2, ToldAlone
<1>2. CASE \E body \in Bodies : Post(o, body)
  <2>1. PICK body \in Bodies : Post(o, body)
    BY <1>2
  <2> DEFINE y == [m EXCEPT !.pc = "reading", !.body = body]
  <2>2. mint' = [mint EXCEPT ![o] = y] /\ op' = op /\ conf' = conf
    BY <1>0, <2>1 DEF Post
  <2>3. m.pc = "free" /\ op[o].pc = "idle"
    BY <2>1 DEF Post
  <2>4. y.pc = "reading" /\ y.status = m.status /\ y.stored = m.stored
    BY <1>0 DEF MintRequest
  <2> HIDE DEF y, m
  <2> QED BY <1>1, <2>2, <2>3, <2>4
<1>3. CASE Read(o) \/ Unverified(o) \/ HostFails(o)
  <2>1. /\ op' = op /\ conf' = conf
        /\ m.pc \in {"reading", "authenticating", "asking"}
    BY <1>3 DEF Read, Unverified, HostFails
  <2>2. PICK y : /\ mint' = [mint EXCEPT ![o] = y]
                 /\ \/ \E status \in {400, 401, 502} : y = Answered(m, status)
                    \/ y = [m EXCEPT !.pc = "authenticating"]
    BY <1>0, <1>3 DEF Read, Unverified, HostFails
  <2>3. /\ y.stored = m.stored
        /\ IF y.pc = "answered" THEN y.status \in {400, 401, 502}
           ELSE y.pc \in {"reading", "authenticating", "asking"} /\ y.status = m.status
    <3>1. CASE \E status \in {400, 401, 502} : y = Answered(m, status)
      <4> HIDE DEF m
      <4> QED BY <1>0, <3>1, AnsweredTells
    <3>2. CASE y = [m EXCEPT !.pc = "authenticating"]
      BY <1>0, <3>2 DEF MintRequest
    <3> QED BY <2>2, <3>1, <3>2
  <2>4. op[o].pc = "idle"
    BY <1>0, <2>1 DEF InOrder
  <2> HIDE DEF m
  <2> QED BY <1>1, <2>1, <2>2, <2>3, <2>4
<1> QED BY <1>2, <1>3

LEMMA VerifiedTells ==
  ASSUME ToldInv, MintInv', UntouchedInv', NEW o \in Ops, Verified(o)
  PROVE  ToldInv'
<1> DEFINE m == [mint[o] EXCEPT !.verified = TRUE]
<1>0. /\ mint[o] \in MintRequest /\ InOrder(mint[o], op[o]) /\ Told(mint[o], op[o])
      /\ mint[o].pc = "authenticating"
  BY DEF ToldInv, MintInv, MintTyped, MintOk, Verified
<1>1. m \in MintRequest
  BY <1>0, RequestTyped
<1>2. op[o].pc = "idle" /\ m.status = 0 /\ ~m.stored
  BY <1>0 DEF InOrder, Told, MintRequest
<1> USE DEF Verified
<1>3. CASE mint' = [mint EXCEPT ![o] = Answered(m, 400)] /\ UNCHANGED <<missing, op, conf>>
  <2> DEFINE y == Answered(m, 400)
  <2> HIDE DEF m
  <2>1. y.pc = "answered" /\ y.status \in {400, 401, 502} /\ ~y.stored
    BY <1>1, <1>2, AnsweredTells
  <2>2. mint' = [mint EXCEPT ![o] = y] /\ op' = op /\ conf' = conf
    BY <1>3
  <2> HIDE DEF y, Verified
  <2>3. Told(y, op[o])
    BY <1>2, <2>1 DEF Told
  <2> QED BY <2>2, <2>3, ToldAlone
<1>4. CASE mint' = [mint EXCEPT ![o] = [m EXCEPT !.pc = "asking"]]
           /\ UNCHANGED <<missing, op, conf>>
  <2> DEFINE y == [m EXCEPT !.pc = "asking"]
  <2> HIDE DEF m
  <2>1. y.pc = "asking" /\ y.status = 0 /\ ~y.stored
    BY <1>1, <1>2 DEF MintRequest
  <2>2. mint' = [mint EXCEPT ![o] = y] /\ op' = op /\ conf' = conf
    BY <1>4
  <2> HIDE DEF y, Verified
  <2>3. Told(y, op[o])
    BY <1>2, <2>1 DEF Told
  <2> QED BY <2>2, <2>3, ToldAlone
<1>5. CASE Submit(o, AsSent(m), m.body.recipient, TRUE)
  <2> DEFINE p == [f \in Fields |-> IF f \in m.body.prefill THEN "client" ELSE "none"]
             y == [m EXCEPT !.prefill = p, !.signer = "client"]
  <2>1. AsSent(m) = y
    BY DEF AsSent
  <2> HIDE DEF m
  <2>2. p \in [Fields -> {"none", "client", "host"}]
    OBVIOUS
  <2> HIDE DEF p
  <2>3. y \in MintRequest
    BY <1>1, <2>2, RequestTyped
  <2>4. y.signer # "none" /\ y.status = 0 /\ ~y.stored
    BY <1>1, <1>2 DEF MintRequest
  <2> HIDE DEF y
  <2> QED BY <1>2, <1>5, <2>1, <2>3, <2>4, SubmitTells
<1> QED BY <1>3, <1>4, <1>5

LEMMA HostAnswersTells ==
  ASSUME ToldInv, MintInv', UntouchedInv', NEW o \in Ops,
         NEW reply \in Reply, HostAnswers(o, reply)
  PROVE  ToldInv'
<1> DEFINE m == [mint[o] EXCEPT !.reply = reply]
           p == IF conf.mode = "webform" THEN Merged(m, reply) ELSE HostsOwn(reply)
           y == [m EXCEPT !.prefill = p, !.signer = "host"]
<1>0. /\ mint[o] \in MintRequest /\ InOrder(mint[o], op[o]) /\ Told(mint[o], op[o])
      /\ mint[o].pc = "asking" /\ Submit(o, y, reply.recipient, reply.valid)
  BY DEF ToldInv, MintInv, MintTyped, MintOk, HostAnswers
<1>1. m \in MintRequest
  BY <1>0, RequestTyped
<1>2. op[o].pc = "idle" /\ m.status = 0 /\ ~m.stored
  BY <1>0 DEF InOrder, Told, MintRequest
<1> HIDE DEF m
<1>3. p \in [Fields -> {"none", "client", "host"}]
  BY DEF Merged, HostsOwn
<1> HIDE DEF p
<1>4. y \in MintRequest
  BY <1>1, <1>3, RequestTyped
<1>5. y.signer # "none" /\ y.status = 0 /\ ~y.stored
  BY <1>1, <1>2 DEF MintRequest
<1> HIDE DEF y
<1> QED BY <1>0, <1>2, <1>4, <1>5, SubmitTells

\* A 200 is said of what succeeded and, through the domain, was stored; a 400 of
\* what was refused.
LEMMA AnswerTells ==
  ASSUME ToldInv, MintInv', UntouchedInv', NEW o \in Ops,
         Deliver(o) \/ Store(o) \/ StoreFails(o)
  PROVE  ToldInv'
<1> DEFINE m == mint[o]
<1>0. /\ m \in MintRequest /\ mint \in [Ops -> MintRequest] /\ conf \in Conf
      /\ Told(m, op[o]) /\ op' = op /\ conf' = conf
      /\ m.pc \in {"minting", "storing"}
  BY DEF ToldInv, MintInv, MintTyped, MintOk, Deliver, Store, StoreFails
<1>1. /\ m.status = 0 /\ ~m.stored /\ m.signer # "none" /\ conf.domain # "failed"
      /\ op[o].operation \in Minting
  BY <1>0 DEF Told
<1>2. ASSUME NEW y, mint' = [mint EXCEPT ![o] = y], Told(y, op[o]) PROVE ToldInv'
  BY <1>0, <1>2, ToldAlone
<1>3. CASE Deliver(o)
  <2>1. op[o].pc = "done"
    BY <1>3 DEF Deliver
  <2>2. CASE op[o].answer = "ok" /\ conf.domain = "ready"
    <3> DEFINE y == [m EXCEPT !.pc = "storing"]
    <3>1. mint' = [mint EXCEPT ![o] = y]
      BY <1>0, <1>3, <2>2 DEF Deliver
    <3>2. y.pc = "storing" /\ y.status = 0 /\ ~y.stored /\ y.signer # "none"
      BY <1>0, <1>1 DEF MintRequest
    <3> HIDE DEF y
    <3>3. Told(y, op[o])
      BY <1>1, <2>1, <2>2, <3>2 DEF Told
    <3> QED BY <1>2, <3>1, <3>3
  <2>3. CASE ~(op[o].answer = "ok" /\ conf.domain = "ready")
    <3> DEFINE status == StatusOf(op[o].answer)
               y == Answered(m, status)
    <3>1. mint' = [mint EXCEPT ![o] = y]
      BY <1>0, <1>3, <2>3 DEF Deliver
    <3>2. /\ status \in {200, 400, 502}
          /\ status = 200 => op[o].answer = "ok"
          /\ status = 400 => op[o].answer = "validationError"
      BY DEF StatusOf
    <3>3. status = 200 => conf.domain = "off"
      BY <1>0, <1>1, <2>3, <3>2 DEF Conf
    <3> HIDE DEF status
    <3>4. y.pc = "answered" /\ y.status = status /\ ~y.stored /\ y.signer # "none"
      BY <1>0, <1>1, <3>2, AnsweredTells
    <3> HIDE DEF y
    <3>5. Told(y, op[o])
      BY <1>1, <2>1, <3>2, <3>3, <3>4 DEF Told
    <3> QED BY <1>2, <3>1, <3>5
  <2> QED BY <2>2, <2>3
<1>4. CASE Store(o) \/ StoreFails(o)
  <2>1. op[o].pc = "done" /\ op[o].answer = "ok"
    BY <1>0, <1>4 DEF Store, StoreFails, Told
  <2>2. CASE Store(o)
    <3> DEFINE a == Answered(m, 200)
               y == [a EXCEPT !.stored = TRUE]
    <3>1. mint' = [mint EXCEPT ![o] = y]
      BY <1>0, <2>2 DEF Store
    <3>2. a \in MintRequest /\ a.pc = "answered" /\ a.status = 200 /\ a.signer # "none"
      BY <1>0, <1>1, AnsweredTyped
    <3> HIDE DEF a
    <3>3. y.pc = "answered" /\ y.status = 200 /\ y.stored /\ y.signer # "none"
      BY <3>2 DEF MintRequest
    <3> HIDE DEF y
    <3>4. Told(y, op[o])
      BY <1>1, <2>1, <3>3 DEF Told
    <3> QED BY <1>2, <3>1, <3>4
  <2>3. CASE StoreFails(o)
    <3> DEFINE y == Answered(m, 502)
    <3>1. mint' = [mint EXCEPT ![o] = y]
      BY <1>0, <2>3 DEF StoreFails
    <3>2. y.pc = "answered" /\ y.status = 502 /\ ~y.stored
      BY <1>0, <1>1, AnsweredTells
    <3> HIDE DEF y
    <3>3. Told(y, op[o])
      BY <3>2 DEF Told
    <3> QED BY <1>2, <3>1, <3>3
  <2> QED BY <1>4, <2>2, <2>3
<1> QED BY <1>3, <1>4

\* What an operation is stays what it is, and one that is done stays done.
LEMMA ProceedGoesOn ==
  ASSUME CallsInv, NEW o \in Ops, Proceed(o)
  PROVE  op[o].pc \in {"ready", "sent", "sleeping"} /\ op'[o].operation = op[o].operation
<1> DEFINE x == op[o]
<1>0. op \in [Ops -> Op] /\ x \in Op
  BY DEF CallsInv
<1>1. ASSUME NEW y \in Op, NEW e PROVE Failed(y, e).operation = y.operation
  BY DEF Failed, Op
<1>2. CASE Wake(o) \/ Send(o)
  BY <1>0, <1>2 DEF Wake, Send, Op
<1>3. CASE LacksSetting(o)
  BY <1>0, <1>1, <1>3 DEF LacksSetting
<1>4. CASE \E e \in ClientErrors \cup {"transient"} : TokenFails(o, e)
  BY <1>0, <1>1, <1>4 DEF TokenFails
<1>5. CASE Accept(o)
  <2>1. Accepted(x).operation = x.operation
    BY <1>0 DEF Accepted, Op
  <2> QED BY <1>0, <1>5, <2>1 DEF Accept
<1>6. CASE \E e \in ClientErrors : Reject(o, e)
  BY <1>0, <1>1, <1>6 DEF Reject
<1>7. CASE \E carriedOut \in BOOLEAN : Lose(o, carriedOut)
  <2>1. PICK carriedOut \in BOOLEAN : Lose(o, carriedOut)
    BY <1>7
  <2> DEFINE n == IF carriedOut THEN x.made + 1 ELSE x.made
             k == x.unknown + 1
             y == [x EXCEPT !.made = n, !.unknown = k]
  <2>2. Unknown(x, carriedOut) = y
    BY DEF Unknown
  <2>3. n \in Nat /\ k \in Nat
    BY <1>0 DEF Op
  <2> HIDE DEF n, k
  <2>4. y \in Op /\ y.operation = x.operation
    BY <1>0, <2>3 DEF Op
  <2> HIDE DEF y
  <2>5. op[o].pc = "sent"
        /\ \/ op' = [op EXCEPT ![o] = Failed(y, "transient")]
           \/ op' = [op EXCEPT ![o] = Failed(x, "transient")]
    BY <2>1, <2>2 DEF Lose
  <2>6. Failed(y, "transient").operation = x.operation
        /\ Failed(x, "transient").operation = x.operation
    BY <1>0, <1>1, <2>4
  <2> QED BY <1>0, <2>5, <2>6
<1> QED BY <1>2, <1>3, <1>4, <1>5, <1>6, <1>7 DEF Proceed

LEMMA ProviderTells ==
  ASSUME ToldInv, MintInv', UntouchedInv', NEW o \in Ops,
         ProviderProceeds(o) \/ CallDirectly(o)
  PROVE  ToldInv'
<1> DEFINE m == mint[o]
<1>0. /\ CallsInv /\ mint \in [Ops -> MintRequest] /\ InOrder(m, op[o]) /\ Told(m, op[o])
      /\ mint' = mint /\ conf' = conf
  BY DEF ToldInv, MintInv, MintTyped, MintOk, ProviderProceeds, CallDirectly, mintVars
<1>1. mint' = [mint EXCEPT ![o] = m]
  BY <1>0
<1>2. CASE ProviderProceeds(o)
  <2>1. /\ op[o].pc \in {"ready", "sent", "sleeping"}
        /\ op'[o].operation = op[o].operation
        /\ \A p \in Ops \ {o} : op'[p] = op[p]
    BY <1>0, <1>2, ProceedGoesOn, ProceedMoves DEF ProviderProceeds
  <2> HIDE DEF m
  <2>2. Told(m, op'[o])
    BY <1>0, <2>1 DEF Told
  <2> QED BY <1>0, <1>1, <2>1, <2>2, ToldReplaced
<1>3. CASE CallDirectly(o)
  <2>1. m.pc = "free" /\ \A p \in Ops \ {o} : op'[p] = op[p]
    BY <1>0, <1>3 DEF CallDirectly, GetSigningUrl, GetEnvelopeStatus, CallsInv
  <2>2. m.status = 0 /\ ~m.stored
    BY <1>0, <2>1 DEF Told
  <2> HIDE DEF m
  <2>3. Told(m, op'[o])
    BY <2>1, <2>2 DEF Told
  <2> QED BY <1>0, <1>1, <2>1, <2>3, ToldReplaced
<1> QED BY <1>2, <1>3

LEMMA ToldKept ==
  ASSUME ToldInv, [MintNext]_vars
  PROVE  ToldInv'
<1>0. MintInv' /\ UntouchedInv'
  BY MintInvKept, MintStepIsCallsStep, UntouchedKept DEF ToldInv
<1>1. CASE UNCHANGED vars
  BY <1>0, <1>1 DEF vars, ToldInv, Told
<1>2. CASE MintNext
  <2>1. PICK o \in Ops :
          \/ \E body \in Bodies : Post(o, body)
          \/ CallDirectly(o)
          \/ Handle(o)
          \/ ProviderProceeds(o)
    BY <1>2 DEF MintNext
  <2>2. CASE CallDirectly(o) \/ ProviderProceeds(o)
    BY <1>0, <2>2, ProviderTells
  <2>3. CASE (\E body \in Bodies : Post(o, body)) \/ Read(o) \/ Unverified(o) \/ HostFails(o)
    BY <1>0, <2>3, EarlyStepsTell
  <2>4. CASE Verified(o)
    BY <1>0, <2>4, VerifiedTells
  <2>5. CASE \E reply \in Reply : HostAnswers(o, reply)
    BY <1>0, <2>5, HostAnswersTells
  <2>6. CASE Deliver(o) \/ Store(o) \/ StoreFails(o)
    BY <1>0, <2>6, AnswerTells
  <2> QED BY <2>1, <2>2, <2>3, <2>4, <2>5, <2>6 DEF Handle
<1> QED BY <1>1, <1>2

LEMMA ToldAtInit == MintInit => ToldInv
<1> SUFFICES ASSUME MintInit PROVE ToldInv
  OBVIOUS
<1>1. MintInv /\ UntouchedInv
  BY MintInvAtInit, UntouchedAtInit DEF MintInit
<1>2. ASSUME NEW o \in Ops PROVE Told(mint[o], op[o])
  <2>1. mint[o] = Free
    BY DEF MintInit
  <2>2. Free.pc = "free" /\ Free.status = 0 /\ ~Free.stored
    BY DEF Free
  <2> QED BY <2>1, <2>2 DEF Told
<1> QED BY <1>1, <1>2 DEF ToldInv

LEMMA ToldHolds == MintSpec => []ToldInv
BY ToldAtInit, ToldKept, PTL DEF MintSpec

-----------------------------------------------------------------------------

\* The endpoints' variables keep their types, and the provider's with them.
THEOREM MintTypeCorrect == MintSpec => []MintTypeOK
BY MintInvHolds, MintInvImplies, PTL

\* handlers.ts, prefill.ts: whatever the provider was asked to make, a verified
\* caller asked for, with the host's values wherever the host has a say.
THEOREM LockedTermsAreTheHosts == MintSpec => []MintedAsAllowed
BY MintInvHolds, MintInvImplies, PTL

\* prefill.ts, "Fail closed": a request whose terms could not be had never gets
\* to the provider, and no other request is blamed on the host.
THEOREM FailedTermsMintNothing == MintSpec => []TermsFailClosed
BY MintInvHolds, MintInvImplies, PTL

\* Under the mint too, an operation makes a second envelope only after a creation
\* whose reply did not tell.
THEOREM MintsOneUnlessUnknown == MintSpec => []OneUnlessUnknown
BY MintImplementsCalls, OneEnvelopeUnlessUnknown, PTL
\* handlers.ts: a caller told that the request is at fault has left nothing at the
\* provider, through every retry and whatever replies were lost, with the return
\* URL configured.
THEOREM RefusalsLeaveNothing == MintSpec => []RefusedMeansUntouched
<1>1. ToldInv => RefusedMeansUntouched
  <2> SUFFICES ASSUME ToldInv, NEW o \in Ops,
                      mint[o].status \in {400, 401}, "returnUrl" \notin missing
               PROVE  op[o].made = 0
    BY DEF RefusedMeansUntouched
  <2>1. Told(mint[o], op[o]) /\ Untouched(op[o])
    BY DEF ToldInv, UntouchedInv
  <2> QED BY <2>1 DEF Told, Untouched
<1> QED BY <1>1, ToldHolds, PTL

\* handlers.ts, domain.ts: a 200 is about something the provider made, with
\* someone to sign it, and stored where the mint goes through the domain; and
\* what is stored was answered so.
THEOREM SuccessesAreReal == MintSpec => []SuccessIsReal
<1>1. ToldInv => SuccessIsReal
  <2> SUFFICES ASSUME ToldInv, NEW o \in Ops
               PROVE  /\ mint[o].status = 200 =>
                           /\ op[o].made > 0
                           /\ op[o].answer = "ok"
                           /\ mint[o].signer # "none"
                           /\ conf.domain # "off" => mint[o].stored
                      /\ mint[o].stored => mint[o].status = 200
    BY DEF SuccessIsReal
  <2>1. Told(mint[o], op[o]) /\ AnswerFits(op[o])
    BY DEF ToldInv, MintInv, CallsInv, Good
  <2> QED BY <2>1 DEF Told, AnswerFits, Minting
<1> QED BY <1>1, ToldHolds, PTL
=============================================================================
