------------------------------ MODULE Envelopes ------------------------------
(***************************************************************************)
(* The envelope service of @blinkbitcoin/esign-node (src/envelopes.ts)     *)
(* over a transactional store (src/knex/store.ts), driven by API calls and *)
(* by the provider's webhook deliveries.                                   *)
(*                                                                         *)
(* A handler is split at each of its awaits: what it read before one may   *)
(* be stale after it.  Every event the provider ever posted stays in       *)
(* "events", so a delivery can be first, repeated, replayed or reordered;  *)
(* "due" holds the ones no 200 has answered yet, which the provider sends  *)
(* again.  The provider itself is external.                                *)
(*                                                                         *)
(* A transaction takes effect at its commit and dates its audit entry with *)
(* its beginning (knex/migrations.ts: now() is when it began): what others *)
(* commit in between is dated later and was committed before.  That it     *)
(* takes effect as a whole is what Stores is about.                        *)
(***************************************************************************)
EXTENDS Naturals, FiniteSets

CONSTANTS
  Users,            \* user ids a verified session can carry
  EnvelopeIds,      \* internal ids (newId)
  ProviderIds,      \* the provider's envelope ids
  Calls,            \* API calls made in a behaviour, each createEnvelope or getSigningUrl
  Hooks,            \* webhook requests that can be in progress at once
  None,             \* no envelope, no user, no id
  FinalAtProvider,  \* TRUE: the provider never reports two verdicts on one envelope
  MaxFailures,      \* bound on crashes and store failures
  MaxTime           \* bound on the database's clock

ASSUME FailuresBounded == MaxFailures \in Nat
ASSUME TimeBounded == MaxTime \in Nat
ASSUME HooksAreFinite == IsFiniteSet(Hooks)
ASSUME FinalIsBoolean == FinalAtProvider \in BOOLEAN

VARIABLES
  envelope,   \* the Envelope table: id -> row or None
  auditLog,   \* the AuditLog table
  nextId,     \* an id no audit entry has (newId's are random: no order is meant)
  clock,      \* the database's time, in the milliseconds entries are dated with
  call,       \* the API calls
  hook,       \* the webhook requests
  provider,   \* what the provider says of each of its envelopes
  events,     \* every webhook event the provider has posted
  due,        \* the events no 200 has answered
  failures    \* crashes and store failures so far

storeVars == <<envelope, auditLog, nextId, clock>>
providerVars == <<provider, events>>
vars == <<storeVars, call, hook, providerVars, due, failures>>

-----------------------------------------------------------------------------
(* Types *)

Terminal == {"completed", "voided", "declined"}
Status == {"sent"} \cup Terminal
\* The audit actions that are written; 'failed' and 'creation_failed' never are
Action == {"initiated", "session_restart"} \cup Terminal

\* A provider event. "untracked" is any status mapWebhookStatus maps to null.
Event == [providerEnvelopeId : ProviderIds, status : Status \cup {"untracked"}]

Row == [providerEnvelopeId : ProviderIds, userId : Users, status : Status]
Entry == [id : Nat, envelopeId : EnvelopeIds, action : Action, timestamp : Nat]

\* Where a call is: waiting to be made, at one of its awaits, or answered; and
\* when its transaction began
Call == [pc : {"ready", "create", "begin", "persist", "url", "audit", "returned", "failed"},
         userId : Users \cup {None},
         envelopeId : EnvelopeIds \cup {None},
         providerEnvelopeId : ProviderIds \cup {None},
         began : Nat]

Hook == [pc : {"idle", "read", "begin", "commit", "ack"},
         event : Event \cup {None},
         envelopeId : EnvelopeIds \cup {None},
         began : Nat]

ASSUME NoneIsApart ==
  None \notin Users \cup EnvelopeIds \cup ProviderIds \cup Row \cup Event

ReadyCall == [pc |-> "ready", userId |-> None, envelopeId |-> None,
              providerEnvelopeId |-> None, began |-> 0]
IdleHook == [pc |-> "idle", event |-> None, envelopeId |-> None, began |-> 0]

TypeOK ==
  /\ envelope \in [EnvelopeIds -> Row \cup {None}]
  /\ auditLog \subseteq Entry
  /\ nextId \in Nat
  /\ clock \in Nat
  /\ call \in [Calls -> Call]
  /\ hook \in [Hooks -> Hook]
  /\ provider \in [ProviderIds -> Status \cup {"absent"}]
  /\ events \subseteq Event
  /\ due \subseteq events
  /\ failures \in 0 .. MaxFailures

Init ==
  /\ envelope = [e \in EnvelopeIds |-> None]
  /\ auditLog = {}
  /\ nextId = 0
  /\ clock = 0
  /\ call = [c \in Calls |-> ReadyCall]
  /\ hook = [h \in Hooks |-> IdleHook]
  /\ provider = [p \in ProviderIds |-> "absent"]
  /\ events = {}
  /\ due = {}
  /\ failures = 0

-----------------------------------------------------------------------------
(* The store *)

Stored(e) == envelope[e] # None

\* getEnvelopeByIdForUser: a missing row and someone else's row look the same
OwnedBy(e, u) == Stored(e) /\ envelope[e].userId = u

\* getEnvelopeByProviderEnvelopeId
WithProviderId(p) == {e \in EnvelopeIds : Stored(e) /\ envelope[e].providerEnvelopeId = p}

\* now(): the time it is, a millisecond later than it was read last or not yet
Now == {t \in {clock, clock + 1} : t <= MaxTime}

\* appendAuditEntry, in a transaction that began at t
AppendAuditEntry(e, a, t) ==
  /\ auditLog' = auditLog \cup
       {[id |-> nextId, envelopeId |-> e, action |-> a, timestamp |-> t]}
  /\ nextId' = nextId + 1

\* A crash or a failed store round trip, at most MaxFailures of them
Failure ==
  /\ failures < MaxFailures
  /\ failures' = failures + 1

\* The call moves on; nothing else about it changes
Move(c, pc) == call' = [call EXCEPT ![c].pc = pc]

\* The call throws, and what it knew goes with it
FailedCall == [ReadyCall EXCEPT !.pc = "failed"]
Fail(c) == call' = [call EXCEPT ![c] = FailedCall]

-----------------------------------------------------------------------------
(* createEnvelope *)

\* A user and a valid contract type and recipient: on to the provider
CreateEnvelope(c, u) ==
  /\ call[c].pc = "ready"
  /\ call' = [call EXCEPT ![c] = [ReadyCall EXCEPT !.pc = "create", !.userId = u]]
  /\ UNCHANGED <<storeVars, hook, providerVars, due, failures>>

\* No user, or input the validators refuse: either operation throws first
RefuseInput(c) ==
  /\ call[c].pc = "ready"
  /\ Fail(c)
  /\ UNCHANGED <<storeVars, hook, providerVars, due, failures>>

\* The provider sends the envelope and posts a webhook event that says so
ProviderAdds(p) ==
  /\ provider[p] = "absent"
  /\ provider' = [provider EXCEPT ![p] = "sent"]
  /\ events' = events \cup {[providerEnvelopeId |-> p, status |-> "sent"]}
  /\ due' = due \cup {[providerEnvelopeId |-> p, status |-> "sent"]}

ProviderCreates(c, p) ==
  /\ call[c].pc = "create"
  /\ ProviderAdds(p)
  /\ call' = [call EXCEPT ![c] = [@ EXCEPT !.pc = "begin", !.providerEnvelopeId = p]]
  /\ UNCHANGED <<storeVars, hook, failures>>

\* provider.createEnvelope throws, perhaps after the envelope already exists
\* (the reply was lost, or the signing URL could not be had)
ProviderCreateFails(c) ==
  /\ call[c].pc = "create"
  /\ Fail(c)
  /\ \/ UNCHANGED <<providerVars, due>>
     \/ \E p \in ProviderIds : ProviderAdds(p)
  /\ UNCHANGED <<storeVars, hook, failures>>

\* BEGIN of the transaction that stores it
BeginPersist(c) ==
  /\ call[c].pc = "begin"
  /\ clock' \in Now
  /\ call' = [call EXCEPT ![c] = [@ EXCEPT !.pc = "persist", !.began = clock']]
  /\ UNCHANGED <<envelope, auditLog, nextId, hook, providerVars, due, failures>>

\* COMMIT: the row and its 'initiated' entry; then the URL is returned
Persist(c, e) ==
  /\ call[c].pc = "persist"
  /\ ~Stored(e)
  /\ envelope' = [envelope EXCEPT ![e] =
       [providerEnvelopeId |-> call[c].providerEnvelopeId,
        userId |-> call[c].userId, status |-> "sent"]]
  /\ AppendAuditEntry(e, "initiated", call[c].began)
  /\ call' = [call EXCEPT ![c] =
       [@ EXCEPT !.pc = "returned", !.envelopeId = e, !.began = 0]]
  /\ UNCHANGED <<clock, hook, providerVars, due, failures>>

\* PERSISTENCE_FAILED: nothing was committed, the provider's envelope stays
PersistFails(c) ==
  /\ call[c].pc \in {"begin", "persist"}
  /\ Failure
  /\ Fail(c)
  /\ UNCHANGED <<storeVars, hook, providerVars, due>>

-----------------------------------------------------------------------------
(* getSigningUrl *)

\* Mutant: the envelope is looked up by id alone
GetAnyonesSigningUrl(c, u, e) ==
  /\ call[c].pc = "ready"
  /\ Stored(e)
  /\ envelope[e].status = "sent"
  /\ call' = [call EXCEPT ![c] =
       [pc |-> "url", userId |-> u, envelopeId |-> e,
        providerEnvelopeId |-> envelope[e].providerEnvelopeId, began |-> 0]]
  /\ UNCHANGED <<storeVars, hook, providerVars, due, failures>>

\* An owned envelope still 'sent': its provider id goes to the provider
GetSigningUrl(c, u, e) ==
  /\ call[c].pc = "ready"
  /\ OwnedBy(e, u)
  /\ envelope[e].status = "sent"
  /\ call' = [call EXCEPT ![c] =
       [pc |-> "url", userId |-> u, envelopeId |-> e,
        providerEnvelopeId |-> envelope[e].providerEnvelopeId, began |-> 0]]
  /\ UNCHANGED <<storeVars, hook, providerVars, due, failures>>

\* ENVELOPE_NOT_FOUND (missing or not the caller's), or no longer 'sent'
RefuseRestart(c, u, e) ==
  /\ call[c].pc = "ready"
  /\ ~(OwnedBy(e, u) /\ envelope[e].status = "sent")
  /\ Fail(c)
  /\ UNCHANGED <<storeVars, hook, providerVars, due, failures>>

\* The provider answers with a URL, or refuses
ProviderUrl(c) ==
  /\ call[c].pc = "url"
  /\ Move(c, "audit") \/ Fail(c)
  /\ UNCHANGED <<storeVars, hook, providerVars, due, failures>>

\* The status read before the provider was asked is not read again.  The entry
\* is a transaction of its own
AuditRestart(c) ==
  /\ call[c].pc = "audit"
  /\ clock' \in Now
  /\ AppendAuditEntry(call[c].envelopeId, "session_restart", clock')
  /\ Move(c, "returned")
  /\ UNCHANGED <<envelope, hook, providerVars, due, failures>>

\* The entry cannot be written: the URL the provider minted is not returned
AuditRestartFails(c) ==
  /\ call[c].pc = "audit"
  /\ Failure
  /\ Fail(c)
  /\ UNCHANGED <<storeVars, hook, providerVars, due>>

-----------------------------------------------------------------------------
(* handleWebhookEvent *)

\* A signed, parsed event reaches the handler: any event ever posted, at any
\* time and any number of times, or one with a status the service ignores
Deliver(h, ev) ==
  /\ hook[h].pc = "idle"
  /\ \/ ev \in events
     \/ ev.status = "untracked" /\ provider[ev.providerEnvelopeId] # "absent"
  /\ hook' = [hook EXCEPT ![h] = [IdleHook EXCEPT !.pc = "read", !.event = ev]]
  /\ UNCHANGED <<storeVars, call, providerVars, due, failures>>

\* Mutant: a verdict may follow a verdict
TransitionsFromTerminal(ev, e) ==
  /\ e \in WithProviderId(ev.providerEnvelopeId)
  /\ envelope[e].status # ev.status
  /\ ev.status \in Terminal

\* Mutant: any status the provider reports is taken over
TransitionsToAny(ev, e) ==
  /\ e \in WithProviderId(ev.providerEnvelopeId)
  /\ envelope[e].status # ev.status
  /\ ev.status \in Status

\* Mutant: the event is applied to an envelope it is not about
TransitionsOfAnother(ev, e) ==
  /\ Stored(e)
  /\ envelope[e].status # ev.status
  /\ envelope[e].status \notin Terminal
  /\ ev.status \in Terminal

\* The guards of one read of the envelope. Each conjunct that fails is an
\* outcome that writes nothing and is acknowledged all the same.
Transitions(ev, e) ==
  /\ e \in WithProviderId(ev.providerEnvelopeId)   \* else unknown_envelope
  /\ envelope[e].status # ev.status                \* else unchanged
  /\ envelope[e].status \notin Terminal            \* else rejected_terminal
  /\ ev.status \in Terminal         \* else ignored_unknown_status, rejected_no_transition

\* The read finds a transition to make: the transaction is still to come
ReadToCommit(h, e) ==
  /\ hook[h].pc = "read"
  /\ Transitions(hook[h].event, e)
  /\ hook' = [hook EXCEPT ![h] = [@ EXCEPT !.pc = "begin", !.envelopeId = e]]
  /\ UNCHANGED <<storeVars, call, providerVars, due, failures>>

\* The handler returns: a 200 is on its way
Handled(h) ==
  hook' = [hook EXCEPT ![h] = [IdleHook EXCEPT !.pc = "ack", !.event = hook[h].event]]

\* The read finds nothing to do
ReadToAcknowledge(h) ==
  /\ hook[h].pc = "read"
  /\ \A e \in EnvelopeIds : ~Transitions(hook[h].event, e)
  /\ Handled(h)
  /\ UNCHANGED <<storeVars, call, providerVars, due, failures>>

\* BEGIN of the transaction: what was read is not read again in it
BeginCommit(h) ==
  /\ hook[h].pc = "begin"
  /\ clock' \in Now
  /\ hook' = [hook EXCEPT ![h] = [@ EXCEPT !.pc = "commit", !.began = clock']]
  /\ UNCHANGED <<envelope, auditLog, nextId, call, providerVars, due, failures>>

\* Mutant: the status is updated and its audit entry is not written
CommitWithoutEntry(h) ==
  LET e == hook[h].envelopeId
  IN /\ hook[h].pc = "commit"
     /\ Stored(e)
     /\ envelope' = [envelope EXCEPT ![e].status = hook[h].event.status]
     /\ Handled(h)
     /\ UNCHANGED <<auditLog, nextId, clock, call, providerVars, due, failures>>

\* COMMIT: the status, whatever the row's is by now, and its entry
Commit(h) ==
  LET e == hook[h].envelopeId
      s == hook[h].event.status
  IN /\ hook[h].pc = "commit"
     /\ Stored(e)
     /\ envelope' = [envelope EXCEPT ![e].status = s]
     /\ AppendAuditEntry(e, s, hook[h].began)
     /\ Handled(h)
     /\ UNCHANGED <<clock, call, providerVars, due, failures>>

\* Mutant: a failure is answered 200, so the provider does not send it again
HookFailsQuietly(h) ==
  /\ hook[h].pc \in {"read", "begin", "commit"}
  /\ Failure
  /\ due' = due \ {hook[h].event}
  /\ hook' = [hook EXCEPT ![h] = IdleHook]
  /\ UNCHANGED <<storeVars, call, providerVars>>

\* The read or the transaction throws: 500, so the event stays due
HookFails(h) ==
  /\ hook[h].pc \in {"read", "begin", "commit"}
  /\ Failure
  /\ hook' = [hook EXCEPT ![h] = IdleHook]
  /\ UNCHANGED <<storeVars, call, providerVars, due>>

\* 200 reaches the provider
Acknowledge(h) ==
  /\ hook[h].pc = "ack"
  /\ due' = due \ {hook[h].event}
  /\ hook' = [hook EXCEPT ![h] = IdleHook]
  /\ UNCHANGED <<storeVars, call, providerVars, failures>>

-----------------------------------------------------------------------------
(* The provider and the process *)

\* A client holds a signing URL of p: some call returned one
UrlReturned(p) ==
  \E c \in Calls : call[c].pc = "returned" /\ call[c].providerEnvelopeId = p

\* The signer completes or declines, which takes a URL, or the sender voids
ProviderDecides(p, s) ==
  /\ \/ provider[p] = "sent"
     \/ ~FinalAtProvider /\ provider[p] \in Terminal \ {s}
  /\ s \in {"completed", "declined"} => UrlReturned(p)
  /\ provider' = [provider EXCEPT ![p] = s]
  /\ events' = events \cup {[providerEnvelopeId |-> p, status |-> s]}
  /\ due' = due \cup {[providerEnvelopeId |-> p, status |-> s]}
  /\ UNCHANGED <<storeVars, call, hook, failures>>

\* The process dies: every request in progress is dropped, the database stays
Crash ==
  /\ Failure
  /\ hook' = [h \in Hooks |-> IdleHook]
  /\ call' = [c \in Calls |->
       IF call[c].pc \in {"ready", "returned"} THEN call[c]
                                               ELSE FailedCall]
  /\ UNCHANGED <<storeVars, providerVars, due>>

-----------------------------------------------------------------------------
CallStep(c) ==
  \/ RefuseInput(c)
  \/ \E u \in Users : CreateEnvelope(c, u)
  \/ \E p \in ProviderIds : ProviderCreates(c, p)
  \/ ProviderCreateFails(c)
  \/ BeginPersist(c)
  \/ \E e \in EnvelopeIds : Persist(c, e)
  \/ PersistFails(c)
  \/ \E u \in Users, e \in EnvelopeIds : GetSigningUrl(c, u, e) \/ RefuseRestart(c, u, e)
  \/ ProviderUrl(c)
  \/ AuditRestart(c)
  \/ AuditRestartFails(c)

HookStep(h) ==
  \/ \E ev \in Event : Deliver(h, ev)
  \/ \E e \in EnvelopeIds : ReadToCommit(h, e)
  \/ ReadToAcknowledge(h)
  \/ BeginCommit(h)
  \/ Commit(h)
  \/ HookFails(h)
  \/ Acknowledge(h)

Next ==
  \/ \E c \in Calls : CallStep(c)
  \/ \E h \in Hooks : HookStep(h)
  \/ \E p \in ProviderIds, s \in Terminal : ProviderDecides(p, s)
  \/ Crash

Spec == Init /\ [][Next]_vars

\* A request that was received runs to its answer, and the provider sends an
\* unacknowledged event again until it is: it finds a free slot infinitely
\* often, the service having no bound on its requests but this model's.
Fairness ==
  /\ \A h \in Hooks :
       /\ WF_vars(\E e \in EnvelopeIds : ReadToCommit(h, e))
       /\ WF_vars(ReadToAcknowledge(h))
       /\ WF_vars(BeginCommit(h))
       /\ WF_vars(Commit(h))
       /\ WF_vars(Acknowledge(h))
  /\ \A ev \in Event : SF_vars(ev \in due /\ \E h \in Hooks : Deliver(h, ev))

FairSpec == Spec /\ Fairness

-----------------------------------------------------------------------------
(* Safety *)

EntriesOf(e) == {a \in auditLog : a.envelopeId = e}
Verdicts(e) == {a \in EntriesOf(e) : a.action \in Terminal}

\* The trail accounts for the status, however deliveries interleave and whatever
\* verdicts they bring: an envelope still 'sent' has no verdict entry, one that is
\* not has an entry with its status; and a verdict is entered no oftener than
\* there are requests in progress at once, all of which read 'sent'.  (Which
\* of two verdicts is listed as the newer is another matter: the entries are
\* dated when their transactions began, the status is of the last to commit.)
TrailMatchesStatus ==
  \A e \in EnvelopeIds : Stored(e) =>
    /\ IF envelope[e].status = "sent"
       THEN Verdicts(e) = {}
       ELSE \E a \in Verdicts(e) : a.action = envelope[e].status
    /\ Cardinality(Verdicts(e)) <= Cardinality(Hooks)

\* Every trail has one 'initiated' entry, none is dated before it, and none is
\* without its envelope: creation commits the row and the entry together or not
\* at all, and nobody can find the row earlier.
TrailBeginsAtCreation ==
  /\ \A a \in auditLog : Stored(a.envelopeId)
  /\ \A e \in EnvelopeIds : Stored(e) =>
       \E a \in EntriesOf(e) :
         /\ a.action = "initiated"
         /\ \A b \in EntriesOf(e) \ {a} :
              b.action # "initiated" /\ a.timestamp <= b.timestamp

\* No two envelopes share a provider id (the column is unique), so a webhook
\* event is about at most one of them, and each row's provider id is real.
ProviderIdIsUnique ==
  \A e, f \in EnvelopeIds : Stored(e) =>
    /\ provider[envelope[e].providerEnvelopeId] # "absent"
    /\ Stored(f) /\ envelope[f].providerEnvelopeId = envelope[e].providerEnvelopeId => e = f

\* A caller that was handed a signing URL owns a stored envelope behind it:
\* persistence comes before the answer, and a restart is for the owner alone.
UrlHasOwnedEnvelope ==
  \A c \in Calls : call[c].pc = "returned" =>
    /\ OwnedBy(call[c].envelopeId, call[c].userId)
    /\ envelope[call[c].envelopeId].providerEnvelopeId = call[c].providerEnvelopeId

\* A verdict on record, as the status or in the trail, is one the provider posted
\* for that very envelope.
StatusWasReported ==
  \A e \in EnvelopeIds : Stored(e) =>
    \A s \in {envelope[e].status} \cup {a.action : a \in Verdicts(e)} :
      s # "sent" =>
        [providerEnvelopeId |-> envelope[e].providerEnvelopeId, status |-> s] \in events

\* A finished envelope never reads 'sent' again, whatever old event is replayed.
NeverReopened ==
  [][\A e \in EnvelopeIds : Stored(e) /\ envelope[e].status \in Terminal =>
       envelope'[e].status \in Terminal]_vars

(* The strengthening that makes the invariants above inductive *)

\* A call past its validation acts for a user; one that is about to persist
\* alone holds a provider id the store has not seen; one past the store's read
\* or write holds an envelope of its user's. No transaction began in the future.
Persisting(c) == call[c].pc \in {"begin", "persist"}

CallInv(c) ==
  /\ call[c].began <= clock
  /\ call[c].pc = "create" \/ Persisting(c) => call[c].userId \in Users
  /\ Persisting(c) =>
       /\ call[c].providerEnvelopeId \in ProviderIds
       /\ provider[call[c].providerEnvelopeId] # "absent"
       /\ WithProviderId(call[c].providerEnvelopeId) = {}
       /\ \A d \in Calls : Persisting(d)
            /\ call[d].providerEnvelopeId = call[c].providerEnvelopeId => d = c
  /\ call[c].pc \in {"url", "audit", "returned"} =>
       /\ call[c].envelopeId \in EnvelopeIds
       /\ OwnedBy(call[c].envelopeId, call[c].userId)
       /\ envelope[call[c].envelopeId].providerEnvelopeId = call[c].providerEnvelopeId

\* A handler past its read is about to write a posted verdict on the envelope
\* that verdict is about; its transaction began after the envelope's creation.
Concluding(h) == hook[h].pc \in {"begin", "commit"}

HookInv(h) ==
  /\ hook[h].pc = "read" =>
       hook[h].event \in Event /\ (hook[h].event \in events \/ hook[h].event.status = "untracked")
  /\ Concluding(h) =>
       /\ hook[h].event \in events /\ hook[h].event.status \in Terminal
       /\ hook[h].envelopeId \in EnvelopeIds
       /\ hook[h].envelopeId \in WithProviderId(hook[h].event.providerEnvelopeId)
  /\ hook[h].pc = "commit" =>
       /\ hook[h].began <= clock
       /\ \A a \in EntriesOf(hook[h].envelopeId) :
            a.action = "initiated" => a.timestamp <= hook[h].began

\* No entry is of the future, and newId's next is of none of them.
LogInv == \A a \in auditLog : a.id < nextId /\ a.timestamp <= clock

\* Each verdict entry of an envelope, and each request about to write one, is of
\* a request that read 'sent', and all of these were in progress at once.
Pending(e) == {h \in Hooks : Concluding(h) /\ hook[h].envelopeId = e}

SlotsInv ==
  \A e \in EnvelopeIds :
    /\ IsFiniteSet(Verdicts(e))
    /\ Cardinality(Verdicts(e)) + Cardinality(Pending(e)) <= Cardinality(Hooks)

IInv ==
  /\ TypeOK
  /\ \A c \in Calls : CallInv(c)
  /\ \A h \in Hooks : HookInv(h)
  /\ LogInv
  /\ SlotsInv
  /\ TrailMatchesStatus
  /\ TrailBeginsAtCreation
  /\ ProviderIdIsUnique
  /\ StatusWasReported

(* What the code says of itself; see the README for which of these hold *)

\* "Terminal statuses: no transition out of them" (envelopes.ts:95).
TerminalIsFinal ==
  [][\A e \in EnvelopeIds : Stored(e) /\ envelope[e].status \in Terminal =>
       envelope'[e] = envelope[e]]_vars

\* "a repeated event with the same status changes nothing" (envelopes.ts:237):
\* an envelope is given a verdict, and so a verdict entry, once.
VerdictOnce ==
  \A e \in EnvelopeIds : \A a, b \in Verdicts(e) : a = b

(* Refinement *)

Lifecycle == INSTANCE EnvelopeLifecycle WITH
  Verdict <- Terminal,
  status <- [e \in EnvelopeIds |-> IF Stored(e) THEN envelope[e].status ELSE "none"]

\* With one webhook request at a time the service implements the lifecycle:
\* one verdict per envelope, kept, and one entry per step. It does not with
\* two, which both read 'sent' before either commits.
ImplementsLifecycle == Lifecycle!Spec

(* Liveness *)

\* (StatusWasReported says that it is one the provider posted)
Recorded(p) == \E e \in WithProviderId(p) : envelope[e].status \in Terminal

\* What a signer did is recorded in the end: signing takes a URL, a URL is
\* handed out only once the envelope is stored, and the provider retries. So is
\* a void the provider still has to get through, once the envelope is stored.
\* (One that was acknowledged before it was stored is lost: envelopes.ts:264.)
VerdictIsRecorded ==
  \A p \in ProviderIds :
    LET void == [providerEnvelopeId |-> p, status |-> "voided"]
    IN /\ provider[p] \in {"completed", "declined"} ~> Recorded(p)
       /\ (void \in due /\ WithProviderId(p) # {} /\ \A h \in Hooks : hook[h].event # void)
            ~> Recorded(p)
=============================================================================
