--------------------------- MODULE EnvelopesProofs ---------------------------
(***************************************************************************)
(* Theorems about the envelope service, for every set of users, ids, calls *)
(* and webhook requests and every bound on failures.  IInv is inductive:   *)
(* the state of the calls, the requests and the log, which no property     *)
(* speaks of, is what the properties need from the step before.            *)
(***************************************************************************)
EXTENDS Envelopes, FiniteSetTheorems, TLAPS

\* What a step can do to the store, seen from the tables alone.
tables == <<envelope, auditLog, nextId>>

\* An entry is dated in the past, if only a little.
Enters(e, a, t) == AppendAuditEntry(e, a, t) /\ t <= clock'

\* ... and after the envelope's creation.
Follows(e, t) == \A a \in EntriesOf(e) : a.action = "initiated" => a.timestamp <= t

Creates(e, r, t) ==
  /\ ~Stored(e)
  /\ r \in Row /\ r.status = "sent"
  /\ envelope' = [envelope EXCEPT ![e] = r]
  /\ Enters(e, "initiated", t)
  /\ provider[r.providerEnvelopeId] # "absent"
  /\ WithProviderId(r.providerEnvelopeId) = {}

Concludes(e, s, t) ==
  /\ Stored(e)
  /\ envelope' = [envelope EXCEPT ![e].status = s]
  /\ Enters(e, s, t) /\ Follows(e, t)
  /\ [providerEnvelopeId |-> envelope[e].providerEnvelopeId, status |-> s] \in events
  /\ \E h \in Hooks : hook[h].pc = "commit" /\ hook[h].envelopeId = e /\ hook'[h].pc = "ack"

Restarts(e, t) ==
  /\ Stored(e)
  /\ Enters(e, "session_restart", t) /\ Follows(e, t)
  /\ UNCHANGED envelope

StoreStep ==
  /\ clock' \in Nat /\ clock <= clock'
  /\ \/ UNCHANGED tables
     \/ \E e \in EnvelopeIds, r \in Row, t \in Nat : Creates(e, r, t)
     \/ \E e \in EnvelopeIds, s \in Terminal, t \in Nat : Concludes(e, s, t)
     \/ \E e \in EnvelopeIds, t \in Nat : Restarts(e, t)

-----------------------------------------------------------------------------
\* A call's own step keeps the types.
LEMMA CallTypes ==
  ASSUME IInv, NEW c \in Calls, CallStep(c)
  PROVE  TypeOK'
<1> USE DEF IInv, TypeOK, storeVars, providerVars
<1>0. /\ call \in [Calls -> Call]
      /\ CallInv(c)
  BY DEF CallInv
<1>1. CASE RefuseInput(c)
  BY <1>1 DEF RefuseInput, Fail, FailedCall, ReadyCall, Call
<1>2. ASSUME NEW u \in Users, CreateEnvelope(c, u) PROVE TypeOK'
  BY <1>2 DEF CreateEnvelope, ReadyCall, Call
<1>3. ASSUME NEW p \in ProviderIds, ProviderCreates(c, p) PROVE TypeOK'
  <2>1. call' \in [Calls -> Call]
    BY <1>0, <1>3 DEF ProviderCreates, Call
  <2>2. QED
    BY <1>3, <2>1 DEF ProviderCreates, ProviderAdds, Event, Status
<1>4. CASE ProviderCreateFails(c)
  <2>1. call' \in [Calls -> Call]
    BY <1>0, <1>4 DEF ProviderCreateFails, Fail, FailedCall, ReadyCall, Call
  <2>2. QED
    BY <1>4, <2>1 DEF ProviderCreateFails, ProviderAdds, Event, Status
<1>5. ASSUME NEW e \in EnvelopeIds, Persist(c, e) PROVE TypeOK'
  <2>1. call' \in [Calls -> Call]
    BY <1>0, <1>5 DEF Persist, Call
  <2>2. envelope' \in [EnvelopeIds -> Row \cup {None}]
    BY <1>0, <1>5 DEF Persist, CallInv, Persisting, Row, Status
  <2>3. auditLog' \subseteq Entry /\ nextId' \in Nat
    BY <1>0, <1>5 DEF Persist, AppendAuditEntry, Entry, Action, Call
  <2>4. QED
    BY <1>5, <2>1, <2>2, <2>3 DEF Persist
<1>6. CASE PersistFails(c)
  <2>1. call' \in [Calls -> Call]
    BY <1>0, <1>6 DEF PersistFails, Fail, FailedCall, ReadyCall, Call
  <2>2. QED
    BY <1>6, <2>1, FailuresBounded DEF PersistFails, Failure
<1>7. ASSUME NEW u \in Users, NEW e \in EnvelopeIds, GetSigningUrl(c, u, e) PROVE TypeOK'
  <2>1. call' \in [Calls -> Call]
    BY <1>0, <1>7 DEF GetSigningUrl, OwnedBy, Stored, Call, Row
  <2>2. QED
    BY <1>7, <2>1 DEF GetSigningUrl
<1>8. ASSUME NEW u \in Users, NEW e \in EnvelopeIds, RefuseRestart(c, u, e) PROVE TypeOK'
  BY <1>8 DEF RefuseRestart, Fail, FailedCall, ReadyCall, Call
<1>9. CASE ProviderUrl(c)
  BY <1>9 DEF ProviderUrl, Move, Fail, FailedCall, ReadyCall, Call
<1>10. CASE AuditRestart(c)
  <2>1. call' \in [Calls -> Call]
    BY <1>0, <1>10 DEF AuditRestart, Move, Call
  <2>2. clock' \in Nat
    BY <1>10 DEF AuditRestart, Now
  <2>3. auditLog' \subseteq Entry /\ nextId' \in Nat
    BY <1>0, <1>10, <2>2 DEF AuditRestart, AppendAuditEntry, Entry, Action, CallInv
  <2>4. QED
    BY <1>10, <2>1, <2>2, <2>3 DEF AuditRestart
<1>11. CASE AuditRestartFails(c)
  <2>1. call' \in [Calls -> Call]
    BY <1>0, <1>11 DEF AuditRestartFails, Fail, FailedCall, ReadyCall, Call
  <2>2. QED
    BY <1>11, <2>1, FailuresBounded DEF AuditRestartFails, Failure
<1>12. CASE BeginPersist(c)
  <2>1. clock' \in Nat
    BY <1>12 DEF BeginPersist, Now
  <2>2. call' \in [Calls -> Call]
    BY <1>0, <1>12, <2>1 DEF BeginPersist, Call
  <2>3. QED
    BY <1>12, <2>1, <2>2 DEF BeginPersist
<1>13. QED
  BY <1>1, <1>2, <1>3, <1>4, <1>5, <1>6, <1>7, <1>8, <1>9, <1>10, <1>11, <1>12 DEF CallStep

\* A webhook request's step keeps the types.
LEMMA HookTypes ==
  ASSUME IInv, NEW h \in Hooks, HookStep(h)
  PROVE  TypeOK'
<1> USE DEF IInv, TypeOK, storeVars, providerVars
<1>0. hook \in [Hooks -> Hook] /\ HookInv(h)
  OBVIOUS
<1>1. ASSUME NEW ev \in Event, Deliver(h, ev) PROVE TypeOK'
  <2>1. hook' \in [Hooks -> Hook]
    BY <1>0, <1>1 DEF Deliver, IdleHook, Hook
  <2>2. QED
    BY <1>1, <2>1 DEF Deliver
<1>2. ASSUME NEW e \in EnvelopeIds, ReadToCommit(h, e) PROVE TypeOK'
  <2>1. hook' \in [Hooks -> Hook]
    BY <1>0, <1>2 DEF ReadToCommit, Hook
  <2>2. QED
    BY <1>2, <2>1 DEF ReadToCommit
<1>3. CASE ReadToAcknowledge(h)
  <2>1. hook' \in [Hooks -> Hook]
    BY <1>0, <1>3 DEF ReadToAcknowledge, Handled, IdleHook, Hook
  <2>2. QED
    BY <1>3, <2>1 DEF ReadToAcknowledge
<1>4. CASE Commit(h)
  <2>1. hook' \in [Hooks -> Hook]
    BY <1>0, <1>4 DEF Commit, Handled, IdleHook, Hook
  <2>2. hook[h].envelopeId \in EnvelopeIds /\ hook[h].event.status \in Terminal
    BY <1>4 DEF Commit, HookInv, Concluding
  <2>3. auditLog' \subseteq Entry /\ nextId' \in Nat
    BY <1>0, <1>4, <2>2 DEF Commit, AppendAuditEntry, Entry, Action, Hook
  <2>4. envelope' \in [EnvelopeIds -> Row \cup {None}]
    BY <1>4, <2>2 DEF Commit, Stored, Row, Status
  <2>5. QED
    BY <1>4, <2>1, <2>3, <2>4 DEF Commit
<1>5. CASE HookFails(h)
  <2>1. hook' \in [Hooks -> Hook]
    BY <1>0, <1>5 DEF HookFails, Hook, IdleHook
  <2>2. QED
    BY <1>5, <2>1, FailuresBounded DEF HookFails, Failure
<1>6. CASE Acknowledge(h)
  <2>1. hook' \in [Hooks -> Hook]
    BY <1>0, <1>6 DEF Acknowledge, Hook, IdleHook
  <2>2. QED
    BY <1>6, <2>1 DEF Acknowledge
<1>7. CASE BeginCommit(h)
  <2>1. clock' \in Nat
    BY <1>7 DEF BeginCommit, Now
  <2>2. hook' \in [Hooks -> Hook]
    BY <1>0, <1>7, <2>1 DEF BeginCommit, Hook
  <2>3. QED
    BY <1>7, <2>1, <2>2 DEF BeginCommit
<1>8. QED
  BY <1>1, <1>2, <1>3, <1>4, <1>5, <1>6, <1>7 DEF HookStep

\* Every step keeps the types.
LEMMA StepTypes ==
  ASSUME IInv, [Next]_vars
  PROVE  TypeOK'
<1>1. ASSUME NEW p \in ProviderIds, NEW s \in Terminal, ProviderDecides(p, s) PROVE TypeOK'
  BY <1>1 DEF IInv, TypeOK, ProviderDecides, storeVars, Event, Status
<1>2. CASE Crash
  <2>1. call \in [Calls -> Call]
    BY DEF IInv, TypeOK
  <2>2. call' \in [Calls -> Call]
    BY <1>2, <2>1 DEF Crash, FailedCall, ReadyCall, Call
  <2>3. hook' \in [Hooks -> Hook]
    BY <1>2 DEF Crash, Hook, IdleHook
  <2>4. QED
    BY <1>2, <2>2, <2>3, FailuresBounded DEF IInv, TypeOK, Crash, Failure, storeVars, providerVars
<1>3. CASE UNCHANGED vars
  BY <1>3 DEF IInv, TypeOK, vars, storeVars, providerVars
<1>4. QED
  BY <1>1, <1>2, <1>3, CallTypes, HookTypes DEF Next

\* Whatever the step, the tables see one of four things, and posted events
\* and provider envelopes stay.
LEMMA StepOfTheStore ==
  ASSUME IInv, [Next]_vars
  PROVE  /\ StoreStep
         /\ events \subseteq events'
         /\ \A p \in ProviderIds : provider[p] # "absent" => provider'[p] # "absent"
<1> DEFINE Goal == /\ StoreStep
                   /\ events \subseteq events'
                   /\ \A p \in ProviderIds : provider[p] # "absent" => provider'[p] # "absent"
<1> USE DEF IInv, TypeOK, storeVars, providerVars, tables
<1>0. \A e \in EnvelopeIds, t \in Nat : clock <= t => Follows(e, t)
  BY DEF LogInv, Follows, EntriesOf, Entry
<1>1. ASSUME NEW c \in Calls, CallStep(c) PROVE Goal
  <2>0. CallInv(c) /\ call[c] \in Call
    OBVIOUS
  <2>1. ASSUME NEW e \in EnvelopeIds, Persist(c, e) PROVE Goal
    <3> DEFINE r == [providerEnvelopeId |-> call[c].providerEnvelopeId,
                     userId |-> call[c].userId, status |-> "sent"]
    <3>1. r \in Row /\ call[c].began \in Nat
      BY <2>0, <2>1 DEF Persist, CallInv, Persisting, Row, Status, Call
    <3>2. Creates(e, r, call[c].began)
      BY <2>0, <2>1, <3>1 DEF Persist, CallInv, Persisting, Creates, Enters
    <3>3. QED
      BY <2>1, <3>1, <3>2 DEF StoreStep, Persist
  <2>2. CASE AuditRestart(c)
    <3>1. clock' \in Nat /\ clock <= clock'
      BY <2>2 DEF AuditRestart, Now
    <3>2. call[c].envelopeId \in EnvelopeIds /\ Restarts(call[c].envelopeId, clock')
      BY <1>0, <2>0, <2>2, <3>1 DEF AuditRestart, CallInv, OwnedBy, Restarts, Enters
    <3>3. QED
      BY <2>2, <3>1, <3>2 DEF AuditRestart, StoreStep
  <2>3. ASSUME NEW p \in ProviderIds, ProviderCreates(c, p) PROVE Goal
    BY <2>3 DEF ProviderCreates, ProviderAdds, StoreStep
  <2>4. CASE ProviderCreateFails(c)
    BY <2>4 DEF ProviderCreateFails, ProviderAdds, StoreStep
  <2>5. CASE \/ RefuseInput(c) \/ \E u \in Users : CreateEnvelope(c, u)
             \/ PersistFails(c) \/ ProviderUrl(c) \/ AuditRestartFails(c)
             \/ \E u \in Users, e \in EnvelopeIds : GetSigningUrl(c, u, e) \/ RefuseRestart(c, u, e)
    <3>1. UNCHANGED <<storeVars, providerVars>>
      BY <2>5 DEF RefuseInput, CreateEnvelope, PersistFails, ProviderUrl, AuditRestartFails,
                  GetSigningUrl, RefuseRestart
    <3>2. QED
      BY <3>1 DEF StoreStep
  <2>6. CASE BeginPersist(c)
    <3>1. clock' \in Nat /\ clock <= clock'
      BY <2>6 DEF BeginPersist, Now
    <3>2. QED
      BY <2>6, <3>1 DEF BeginPersist, StoreStep
  <2>7. QED
    BY <1>1, <2>1, <2>2, <2>3, <2>4, <2>5, <2>6 DEF CallStep
<1>2. ASSUME NEW h \in Hooks, HookStep(h) PROVE Goal
  <2>0. HookInv(h) /\ hook[h] \in Hook
    OBVIOUS
  <2>1. CASE Commit(h)
    <3> DEFINE e == hook[h].envelopeId
               s == hook[h].event.status
               t == hook[h].began
    <3>1. /\ e \in EnvelopeIds /\ s \in Terminal /\ t \in Nat
          /\ hook[h].event \in events /\ e \in WithProviderId(hook[h].event.providerEnvelopeId)
          /\ t <= clock /\ Follows(e, t)
      BY <2>0, <2>1 DEF Commit, HookInv, Concluding, Hook, Follows
    <3>2. hook[h].event = [providerEnvelopeId |-> envelope[e].providerEnvelopeId, status |-> s]
      BY <3>1 DEF WithProviderId, Event
    <3>3. hook'[h].pc = "ack"
      BY <2>1 DEF Commit, Handled, IdleHook
    <3>4. Concludes(e, s, t)
      BY <2>1, <3>1, <3>2, <3>3 DEF Commit, Concludes, Enters
    <3>5. QED
      BY <2>1, <3>1, <3>4 DEF Commit, StoreStep
  <2>2. CASE \/ \E ev \in Event : Deliver(h, ev)
             \/ \E e \in EnvelopeIds : ReadToCommit(h, e)
             \/ ReadToAcknowledge(h) \/ HookFails(h) \/ Acknowledge(h)
    <3>1. UNCHANGED <<storeVars, providerVars>>
      BY <2>2 DEF Deliver, ReadToCommit, ReadToAcknowledge, HookFails, Acknowledge
    <3>2. QED
      BY <3>1 DEF StoreStep
  <2>3. CASE BeginCommit(h)
    <3>1. clock' \in Nat /\ clock <= clock'
      BY <2>3 DEF BeginCommit, Now
    <3>2. QED
      BY <2>3, <3>1 DEF BeginCommit, StoreStep
  <2>4. QED
    BY <1>2, <2>1, <2>2, <2>3 DEF HookStep
<1>3. ASSUME NEW p \in ProviderIds, NEW s \in Terminal, ProviderDecides(p, s) PROVE Goal
  BY <1>3 DEF ProviderDecides, StoreStep, Terminal
<1>4. CASE Crash \/ UNCHANGED vars
  BY <1>4 DEF Crash, vars, StoreStep
<1>5. QED
  BY <1>1, <1>2, <1>3, <1>4 DEF Next

\* A request about to write a verdict was so before the step, or has just read.
LEMMA ReadsConclude ==
  ASSUME IInv, [Next]_vars, NEW h \in Hooks, Concluding(h)'
  PROVE  \/ Concluding(h) /\ hook'[h].envelopeId = hook[h].envelopeId
         \/ \E e \in EnvelopeIds : ReadToCommit(h, e)
<1>0. hook \in [Hooks -> Hook]
  BY DEF IInv, TypeOK
<1> USE DEF Concluding
<1>1. ASSUME NEW c \in Calls, CallStep(c) PROVE UNCHANGED hook
  BY <1>1 DEF CallStep, RefuseInput, CreateEnvelope, ProviderCreates, ProviderCreateFails,
              BeginPersist, Persist, PersistFails, GetSigningUrl, RefuseRestart, ProviderUrl,
              AuditRestart, AuditRestartFails
<1>2. ASSUME NEW k \in Hooks, HookStep(k), k # h PROVE hook'[h] = hook[h]
  BY <1>0, <1>2 DEF HookStep, Deliver, ReadToCommit, ReadToAcknowledge, BeginCommit, Commit,
                    Handled, HookFails, Acknowledge
<1>3. CASE HookStep(h)
  <2>1. ~ \E ev \in Event : Deliver(h, ev)
    BY <1>0 DEF Deliver, IdleHook
  <2>2. ~ReadToAcknowledge(h) /\ ~Commit(h)
    BY <1>0 DEF ReadToAcknowledge, Commit, Handled, IdleHook
  <2>3. ~HookFails(h) /\ ~Acknowledge(h)
    BY <1>0 DEF HookFails, Acknowledge, IdleHook
  <2>4. CASE BeginCommit(h)
    BY <1>0, <2>4 DEF BeginCommit
  <2>5. QED
    BY <1>3, <2>1, <2>2, <2>3, <2>4 DEF HookStep
<1>4. ~Crash
  BY DEF Crash, IdleHook
<1>5. QED
  BY <1>1, <1>2, <1>3, <1>4 DEF Next, ProviderDecides, vars

\* Verdict entries are of requests that were in progress at once: the first read
\* 'sent' when there was no verdict, and each spends its place as it commits.
LEMMA StepOfTheSlots ==
  ASSUME IInv, [Next]_vars
  PROVE  SlotsInv'
<1> SUFFICES ASSUME NEW e \in EnvelopeIds
             PROVE  /\ IsFiniteSet(Verdicts(e)')
                    /\ Cardinality(Verdicts(e)') + Cardinality(Pending(e)') <= Cardinality(Hooks)
  BY DEF SlotsInv
<1>0. /\ envelope \in [EnvelopeIds -> Row \cup {None}]
      /\ IsFiniteSet(Verdicts(e))
      /\ Cardinality(Verdicts(e)) + Cardinality(Pending(e)) <= Cardinality(Hooks)
      /\ StoreStep
  BY StepOfTheStore DEF IInv, TypeOK, SlotsInv
<1>1. /\ Pending(e) \subseteq Hooks /\ IsFiniteSet(Pending(e))
      /\ Pending(e)' \subseteq Hooks /\ IsFiniteSet(Pending(e)')
      /\ Cardinality(Pending(e)') <= Cardinality(Hooks)
  BY HooksAreFinite, FS_Subset DEF Pending
<1>2. /\ Cardinality(Verdicts(e)) \in Nat /\ Cardinality(Pending(e)) \in Nat
      /\ Cardinality(Pending(e)') \in Nat /\ Cardinality(Hooks) \in Nat
  BY <1>0, <1>1, HooksAreFinite, FS_CardinalityType
<1>3. CASE \E h \in Hooks : ReadToCommit(h, e)
  <2>1. Stored(e) /\ envelope[e].status = "sent" /\ UNCHANGED auditLog
    BY <1>0, <1>3 DEF ReadToCommit, Transitions, WithProviderId, Stored, Row, Status, storeVars
  <2>2. Verdicts(e)' = {}
    BY <2>1 DEF IInv, TrailMatchesStatus, Verdicts, EntriesOf
  <2>3. QED
    BY <1>1, <1>2, <2>2, FS_EmptySet
<1>4. CASE ~ \E h \in Hooks : ReadToCommit(h, e)
  <2>1. Pending(e)' \subseteq Pending(e)
    <3> SUFFICES ASSUME NEW h \in Hooks, Concluding(h)', hook'[h].envelopeId = e
                 PROVE  Concluding(h) /\ hook[h].envelopeId = e
      BY DEF Pending
    <3>1. ASSUME NEW f \in EnvelopeIds, ReadToCommit(h, f) PROVE hook'[h].envelopeId = f
      BY <3>1 DEF ReadToCommit, IInv, TypeOK, Hook
    <3>2. QED
      BY <1>4, <3>1, ReadsConclude
  <2>2. CASE \E s \in Terminal, t \in Nat : Concludes(e, s, t)
    <3>1. PICK s \in Terminal, t \in Nat : Concludes(e, s, t)
      BY <2>2
    <3>2. PICK h \in Hooks : h \in Pending(e) /\ h \notin Pending(e)'
      BY <3>1 DEF Concludes, Pending, Concluding
    <3> DEFINE new == [id |-> nextId, envelopeId |-> e, action |-> s, timestamp |-> t]
    <3>3. Verdicts(e)' = Verdicts(e) \cup {new}
      BY <3>1 DEF Concludes, Enters, AppendAuditEntry, Verdicts, EntriesOf
    <3>4. new \notin Verdicts(e)
      BY DEF Verdicts, EntriesOf, IInv, LogInv, TypeOK, Entry
    <3>5. IsFiniteSet(Verdicts(e)') /\ Cardinality(Verdicts(e)') = Cardinality(Verdicts(e)) + 1
      BY <1>0, <3>3, <3>4, FS_AddElement
    <3>6. IsFiniteSet(Pending(e) \ {h}) /\ Cardinality(Pending(e) \ {h}) = Cardinality(Pending(e)) - 1
      BY <1>1, <3>2, FS_RemoveElement
    <3>7. Pending(e)' \subseteq Pending(e) \ {h}
      BY <2>1, <3>2
    <3>8. Cardinality(Pending(e)') <= Cardinality(Pending(e)) - 1
      BY <3>6, <3>7, FS_Subset
    <3>9. QED
      BY <1>0, <1>2, <3>5, <3>8
  <2>3. CASE ~ \E s \in Terminal, t \in Nat : Concludes(e, s, t)
    <3>1. Verdicts(e)' = Verdicts(e)
      <4>1. CASE UNCHANGED tables
        BY <4>1 DEF tables, Verdicts, EntriesOf
      <4>2. ASSUME NEW f \in EnvelopeIds, NEW r \in Row, NEW t \in Nat, Creates(f, r, t)
            PROVE  Verdicts(e)' = Verdicts(e)
        BY <4>2 DEF Creates, Enters, AppendAuditEntry, Verdicts, EntriesOf, Terminal
      <4>3. ASSUME NEW f \in EnvelopeIds, NEW t \in Nat, Restarts(f, t)
            PROVE  Verdicts(e)' = Verdicts(e)
        BY <4>3 DEF Restarts, Enters, AppendAuditEntry, Verdicts, EntriesOf, Terminal
      <4>4. ASSUME NEW f \in EnvelopeIds, NEW s \in Terminal, NEW t \in Nat, Concludes(f, s, t)
            PROVE  Verdicts(e)' = Verdicts(e)
        <5>1. f # e
          BY <2>3, <4>4
        <5>2. QED
          BY <4>4, <5>1 DEF Concludes, Enters, AppendAuditEntry, Verdicts, EntriesOf
      <4>5. QED
        BY <1>0, <4>1, <4>2, <4>3, <4>4 DEF StoreStep
    <3>2. Cardinality(Pending(e)') <= Cardinality(Pending(e))
      BY <1>1, <2>1, FS_Subset
    <3>3. QED
      BY <1>0, <1>2, <3>1, <3>2
  <2>4. QED
    BY <2>2, <2>3
<1>5. QED
  BY <1>3, <1>4

\* The invariants of the tables hold through each of the four.
LEMMA StepOfTheTrail ==
  ASSUME IInv, StoreStep, SlotsInv', events \subseteq events',
         \A p \in ProviderIds : provider[p] # "absent" => provider'[p] # "absent"
  PROVE  /\ LogInv' /\ TrailMatchesStatus' /\ TrailBeginsAtCreation'
         /\ ProviderIdIsUnique' /\ StatusWasReported'
<1> DEFINE Tells(e) == IF envelope[e].status = "sent"
                       THEN Verdicts(e) = {}
                       ELSE \E a \in Verdicts(e) : a.action = envelope[e].status
           Begins(e) == \E a \in EntriesOf(e) :
                          /\ a.action = "initiated"
                          /\ \A b \in EntriesOf(e) \ {a} :
                               b.action # "initiated" /\ a.timestamp <= b.timestamp
           Reported(e) == \A s \in {envelope[e].status} \cup {a.action : a \in Verdicts(e)} :
                            s # "sent" =>
                              [providerEnvelopeId |-> envelope[e].providerEnvelopeId,
                               status |-> s] \in events
           Goal == /\ LogInv' /\ (\A e \in EnvelopeIds : Stored(e) => Tells(e))'
                   /\ TrailBeginsAtCreation' /\ ProviderIdIsUnique' /\ StatusWasReported'
<1> USE DEF Stored, EntriesOf, Verdicts, Terminal
<1>0. /\ LogInv /\ ProviderIdIsUnique
      /\ \A e \in EnvelopeIds : Stored(e) => Tells(e)
      /\ \A a \in auditLog : Stored(a.envelopeId)
      /\ \A e \in EnvelopeIds : Stored(e) => Begins(e)
      /\ \A e \in EnvelopeIds : Stored(e) => Reported(e)
      /\ envelope \in [EnvelopeIds -> Row \cup {None}] /\ auditLog \subseteq Entry
      /\ nextId \in Nat /\ clock \in Nat /\ clock' \in Nat /\ clock <= clock'
  BY DEF IInv, TypeOK, StoreStep, TrailMatchesStatus, TrailBeginsAtCreation, StatusWasReported
<1>1. ASSUME UNCHANGED tables PROVE Goal
  <2>1. LogInv' /\ TrailBeginsAtCreation' /\ (\A e \in EnvelopeIds : Stored(e) => Tells(e))'
    BY <1>0, <1>1 DEF tables, LogInv, TrailBeginsAtCreation, Entry
  <2>2. ProviderIdIsUnique'
    BY <1>0, <1>1 DEF tables, ProviderIdIsUnique, Row
  <2>3. StatusWasReported'
    BY <1>0, <1>1 DEF tables, StatusWasReported
  <2>4. QED
    BY <2>1, <2>2, <2>3
<1>2. ASSUME NEW e \in EnvelopeIds, NEW r \in Row, NEW t \in Nat, Creates(e, r, t) PROVE Goal
  <2> DEFINE new == [id |-> nextId, envelopeId |-> e, action |-> "initiated", timestamp |-> t]
  <2>1. /\ auditLog' = auditLog \cup {new} /\ nextId' = nextId + 1 /\ t <= clock'
        /\ envelope' = [envelope EXCEPT ![e] = r] /\ r.status = "sent" /\ ~Stored(e)
        /\ r # None /\ r.providerEnvelopeId \in ProviderIds
    BY <1>2, <1>0, NoneIsApart DEF Creates, Enters, AppendAuditEntry, Row
  <2>2. /\ envelope'[e] = r
        /\ \A f \in EnvelopeIds \ {e} : envelope'[f] = envelope[f]
    BY <1>0, <2>1
  <2>3. \A a \in auditLog : a.envelopeId # e
    BY <1>0, <2>1
  <2>4. LogInv'
    BY <1>0, <2>1 DEF LogInv, Entry
  <2>5. \A f \in EnvelopeIds \ {e} : EntriesOf(f)' = EntriesOf(f) /\ (Stored(f)' <=> Stored(f))
    BY <2>1, <2>2
  <2>6. EntriesOf(e)' = {new} /\ Verdicts(e)' = {}
    BY <2>1, <2>3
  <2>7. (\A f \in EnvelopeIds : Stored(f) => Tells(f))'
    BY <1>0, <2>1, <2>2, <2>5, <2>6
  <2>8. TrailBeginsAtCreation'
    <3>1. \A a \in auditLog' : Stored(a.envelopeId)'
      BY <1>0, <2>1, <2>2 DEF Entry
    <3>2. \A f \in EnvelopeIds : Stored(f)' => Begins(f)'
      <4>1. Begins(e)'
        BY <2>6
      <4>2. \A f \in EnvelopeIds \ {e} : Stored(f)' => Begins(f)'
        BY <1>0, <2>5
      <4>3. QED
        BY <4>1, <4>2
    <3>3. QED
      BY <3>1, <3>2 DEF TrailBeginsAtCreation
  <2>9. ProviderIdIsUnique'
    BY <1>0, <1>2, <2>1, <2>2 DEF ProviderIdIsUnique, Creates, WithProviderId, Row
  <2>10. StatusWasReported'
    BY <1>0, <2>1, <2>2, <2>5, <2>6 DEF StatusWasReported
  <2>11. QED
    BY <2>4, <2>7, <2>8, <2>9, <2>10
<1>3. ASSUME NEW e \in EnvelopeIds, NEW s \in Terminal, NEW t \in Nat, Concludes(e, s, t) PROVE Goal
  <2> DEFINE new == [id |-> nextId, envelopeId |-> e, action |-> s, timestamp |-> t]
             r == [envelope[e] EXCEPT !.status = s]
  <2>1. /\ auditLog' = auditLog \cup {new} /\ nextId' = nextId + 1 /\ t <= clock'
        /\ envelope' = [envelope EXCEPT ![e] = r] /\ Stored(e) /\ Follows(e, t)
        /\ s # "sent" /\ s # "initiated"
    BY <1>3 DEF Concludes, Enters, AppendAuditEntry
  <2>2. /\ r \in Row /\ r.status = s /\ r.providerEnvelopeId = envelope[e].providerEnvelopeId
        /\ r # None
    BY <1>0, <2>1, NoneIsApart DEF Row, Status
  <2>3. /\ envelope'[e] = r
        /\ \A f \in EnvelopeIds \ {e} : envelope'[f] = envelope[f]
        /\ \A f \in EnvelopeIds : Stored(f)' <=> Stored(f)
    BY <1>0, <2>1, <2>2
  <2>4. LogInv'
    BY <1>0, <2>1 DEF LogInv, Entry
  <2>5. \A f \in EnvelopeIds \ {e} : EntriesOf(f)' = EntriesOf(f)
    BY <2>1
  <2>6. EntriesOf(e)' = EntriesOf(e) \cup {new} /\ Verdicts(e)' = Verdicts(e) \cup {new}
    BY <2>1
  <2>7. (\A f \in EnvelopeIds : Stored(f) => Tells(f))'
    <3>1. new \in Verdicts(e)' /\ envelope'[e].status = s
      BY <2>1, <2>2, <2>3, <2>6
    <3>2. Tells(e)'
      BY <2>1, <3>1
    <3>3. \A f \in EnvelopeIds \ {e} : Stored(f)' => Tells(f)'
      BY <1>0, <2>3, <2>5
    <3>4. QED
      BY <3>2, <3>3
  <2>8. TrailBeginsAtCreation'
    <3>1. ASSUME NEW a \in auditLog' PROVE Stored(a.envelopeId)'
      BY <1>0, <2>1, <2>3 DEF Entry
    <3>2. Begins(e)'
      <4>1. PICK a \in EntriesOf(e) : /\ a.action = "initiated"
              /\ \A b \in EntriesOf(e) \ {a} : b.action # "initiated" /\ a.timestamp <= b.timestamp
        BY <1>0, <2>1
      <4>2. a.timestamp <= t
        BY <2>1, <4>1 DEF Follows
      <4>3. QED
        BY <2>1, <2>6, <4>1, <4>2
    <3>3. \A f \in EnvelopeIds : Stored(f)' => Begins(f)'
      BY <1>0, <2>3, <2>5, <3>2
    <3>4. QED
      BY <3>1, <3>3 DEF TrailBeginsAtCreation
  <2>9. ProviderIdIsUnique'
    BY <1>0, <2>2, <2>3 DEF ProviderIdIsUnique, Row
  <2>10. StatusWasReported'
    <3>1. ASSUME NEW f \in EnvelopeIds, Stored(f)', f # e PROVE Reported(f)'
      BY <1>0, <2>3, <2>5, <3>1
    <3>2. Reported(e)'
      <4>1. [providerEnvelopeId |-> envelope[e].providerEnvelopeId, status |-> s] \in events
        BY <1>3 DEF Concludes
      <4>2. \A a \in Verdicts(e) : a.action # "sent" /\
              [providerEnvelopeId |-> envelope[e].providerEnvelopeId, status |-> a.action] \in events
        BY <1>0, <2>1
      <4>3. QED
        BY <2>2, <2>3, <2>6, <4>1, <4>2
    <3>3. QED
      BY <3>1, <3>2 DEF StatusWasReported
  <2>11. QED
    BY <2>4, <2>7, <2>8, <2>9, <2>10
<1>4. ASSUME NEW e \in EnvelopeIds, NEW t \in Nat, Restarts(e, t) PROVE Goal
  <2> DEFINE new == [id |-> nextId, envelopeId |-> e, action |-> "session_restart",
                     timestamp |-> t]
  <2>1. /\ auditLog' = auditLog \cup {new} /\ nextId' = nextId + 1 /\ t <= clock'
        /\ envelope' = envelope /\ Stored(e) /\ Follows(e, t)
    BY <1>4 DEF Restarts, Enters, AppendAuditEntry
  <2>2. LogInv'
    BY <1>0, <2>1 DEF LogInv, Entry
  <2>3. /\ \A f \in EnvelopeIds : Verdicts(f)' = Verdicts(f)
        /\ \A f \in EnvelopeIds \ {e} : EntriesOf(f)' = EntriesOf(f)
        /\ EntriesOf(e)' = EntriesOf(e) \cup {new}
    BY <2>1
  <2>4. (\A f \in EnvelopeIds : Stored(f) => Tells(f))'
    BY <1>0, <2>1, <2>3
  <2>5. TrailBeginsAtCreation'
    <3>1. Begins(e)'
      <4>1. PICK a \in EntriesOf(e) : /\ a.action = "initiated"
              /\ \A b \in EntriesOf(e) \ {a} : b.action # "initiated" /\ a.timestamp <= b.timestamp
        BY <1>0, <2>1
      <4>2. a.timestamp <= t
        BY <2>1, <4>1 DEF Follows
      <4>3. QED
        BY <2>1, <2>3, <4>1, <4>2
    <3>2. \A f \in EnvelopeIds : Stored(f)' => Begins(f)'
      BY <1>0, <2>1, <2>3, <3>1
    <3>3. QED
      BY <1>0, <2>1, <3>2 DEF TrailBeginsAtCreation
  <2>6. ProviderIdIsUnique' /\ StatusWasReported'
    BY <1>0, <2>1, <2>3 DEF ProviderIdIsUnique, StatusWasReported, Row
  <2>7. QED
    BY <2>2, <2>4, <2>5, <2>6
<1>5. Goal
  BY <1>1, <1>2, <1>3, <1>4 DEF StoreStep
<1>6. ASSUME NEW e \in EnvelopeIds PROVE Cardinality(Verdicts(e)') <= Cardinality(Hooks)
  <2>1. IsFiniteSet(Pending(e)') /\ IsFiniteSet(Verdicts(e)')
        /\ Cardinality(Verdicts(e)') + Cardinality(Pending(e)') <= Cardinality(Hooks)
    BY HooksAreFinite, FS_Subset DEF Pending, SlotsInv
  <2>2. /\ Cardinality(Verdicts(e)') \in Nat /\ Cardinality(Pending(e)') \in Nat
        /\ Cardinality(Hooks) \in Nat
    BY <2>1, HooksAreFinite, FS_CardinalityType
  <2>3. QED
    BY <2>1, <2>2
<1>7. QED
  BY <1>5, <1>6 DEF TrailMatchesStatus

\* A call keeps its part of the invariant through a step that adds no row,
\* makes no call a new persister and leaves this call alone or moves it on.
LEMMA CallUndisturbed ==
  ASSUME TypeOK, \A c \in Calls : CallInv(c), NEW d \in Calls,
         clock' \in Nat, clock <= clock',
         \A e \in EnvelopeIds : Stored(e)' <=> Stored(e),
         \A e \in EnvelopeIds : Stored(e) =>
           /\ envelope'[e].userId = envelope[e].userId
           /\ envelope'[e].providerEnvelopeId = envelope[e].providerEnvelopeId,
         \A p \in ProviderIds : provider[p] # "absent" => provider'[p] # "absent",
         \A c \in Calls : Persisting(c)' =>
           Persisting(c) /\ call'[c].providerEnvelopeId = call[c].providerEnvelopeId,
         call'[d].began \in {call[d].began, 0, clock'},
         \/ call'[d] = call[d]
         \/ call'[d].pc = "failed"
         \/ call'[d].pc = "create" /\ call'[d].userId \in Users
         \/ call[d].pc = "begin" /\ call'[d].pc = "persist" /\ call'[d].userId = call[d].userId
         \/ /\ call[d].pc \in {"url", "audit"} /\ call'[d].pc \in {"audit", "returned"}
            /\ call'[d].envelopeId = call[d].envelopeId /\ call'[d].userId = call[d].userId
            /\ call'[d].providerEnvelopeId = call[d].providerEnvelopeId
         \/ /\ call'[d].pc = "url" /\ call'[d].envelopeId \in EnvelopeIds
            /\ OwnedBy(call'[d].envelopeId, call'[d].userId)
            /\ envelope[call'[d].envelopeId].providerEnvelopeId = call'[d].providerEnvelopeId
  PROVE  CallInv(d)'
<1>1. /\ Persisting(d) => WithProviderId(call[d].providerEnvelopeId) = {}
      /\ call[d].began \in Nat /\ clock \in Nat /\ call[d].began <= clock
  BY DEF CallInv, TypeOK, Call
<1>2. \A p \in ProviderIds : WithProviderId(p)' = WithProviderId(p)
  BY DEF WithProviderId
<1>3. call'[d].pc = "create" \/ Persisting(d)' => call'[d].userId \in Users
  BY DEF CallInv, Persisting
<1>4. call'[d].began <= clock'
  BY <1>1
<1>5. ASSUME Persisting(d)'
      PROVE  /\ call'[d].providerEnvelopeId \in ProviderIds
             /\ provider'[call'[d].providerEnvelopeId] # "absent"
             /\ WithProviderId(call[d].providerEnvelopeId)' = {}
             /\ call'[d].providerEnvelopeId = call[d].providerEnvelopeId
             /\ \A c \in Calls : Persisting(c)'
                  /\ call'[c].providerEnvelopeId = call'[d].providerEnvelopeId => c = d
  <2>1. /\ Persisting(d) /\ call'[d].providerEnvelopeId = call[d].providerEnvelopeId
        /\ call[d].providerEnvelopeId \in ProviderIds
    BY <1>5 DEF CallInv
  <2>2. QED
    BY <1>2, <1>5, <2>1 DEF CallInv
<1>6. ASSUME call'[d].pc \in {"url", "audit", "returned"}
      PROVE  /\ call'[d].envelopeId \in EnvelopeIds
             /\ OwnedBy(call[d].envelopeId, call[d].userId)'
             /\ envelope'[call'[d].envelopeId].providerEnvelopeId = call'[d].providerEnvelopeId
  <2>1. /\ call'[d].envelopeId \in EnvelopeIds
        /\ OwnedBy(call'[d].envelopeId, call'[d].userId)
        /\ envelope[call'[d].envelopeId].providerEnvelopeId = call'[d].providerEnvelopeId
    BY <1>6 DEF CallInv
  <2>2. QED
    BY <2>1 DEF OwnedBy
<1>7. QED
  BY <1>3, <1>4, <1>5, <1>6 DEF CallInv

\* A call's own step keeps every call's part of the invariant.
LEMMA CallStepKeepsCalls ==
  ASSUME IInv, NEW c \in Calls, CallStep(c), NEW d \in Calls
  PROVE  CallInv(d)'
<1>0. /\ call \in [Calls -> Call] /\ envelope \in [EnvelopeIds -> Row \cup {None}]
      /\ provider \in [ProviderIds -> Status \cup {"absent"}]
      /\ TypeOK /\ \A x \in Calls : CallInv(x) /\ call[x].began \in Nat
      /\ clock \in Nat
      /\ call[c] \in Call
  BY DEF IInv, TypeOK, Call
<1> USE DEF storeVars, providerVars
<1>1. CASE RefuseInput(c)
  BY <1>0, <1>1, CallUndisturbed DEF RefuseInput, Fail, FailedCall, ReadyCall, Persisting, Stored
<1>2. ASSUME NEW u \in Users, CreateEnvelope(c, u) PROVE CallInv(d)'
  BY <1>0, <1>2, CallUndisturbed DEF CreateEnvelope, ReadyCall, Persisting, Stored
<1>3. ASSUME NEW p \in ProviderIds, ProviderCreates(c, p) PROVE CallInv(d)'
  <2>1. /\ UNCHANGED envelope /\ provider[p] = "absent" /\ provider'[p] = "sent"
        /\ \A q \in ProviderIds \ {p} : provider'[q] = provider[q]
        /\ call'[c] = [call[c] EXCEPT !.pc = "begin", !.providerEnvelopeId = p]
        /\ UNCHANGED clock
        /\ \A x \in Calls \ {c} : call'[x] = call[x]
        /\ call[c].userId \in Users
    BY <1>0, <1>3 DEF ProviderCreates, ProviderAdds, CallInv
  <2>2. WithProviderId(p) = {} /\ \A q \in ProviderIds : WithProviderId(q)' = WithProviderId(q)
    BY <2>1 DEF IInv, ProviderIdIsUnique, WithProviderId, Stored
  <2>3. \A x \in Calls \ {c} : Persisting(x) => call[x].providerEnvelopeId # p
    BY <1>0, <2>1 DEF CallInv
  <2>4. CASE d = c
    <3>1. /\ call'[c].pc = "begin" /\ call'[c].providerEnvelopeId = p
          /\ call'[c].userId = call[c].userId /\ call'[c].began = call[c].began
      BY <1>0, <2>1 DEF Call
    <3>2. \A x \in Calls : Persisting(x)' /\ call'[x].providerEnvelopeId = p => x = c
      BY <2>1, <2>3 DEF Persisting
    <3>3. call[c].began <= clock
      BY <1>0 DEF CallInv
    <3>4. QED
      BY <2>1, <2>2, <2>4, <3>1, <3>2, <3>3 DEF CallInv, Persisting
  <2>5. CASE d # c
    <3>1. CallInv(d) /\ call'[d] = call[d]
      BY <1>0, <2>1, <2>5
    <3>2. Persisting(d) => WithProviderId(call[d].providerEnvelopeId)' = {}
      BY <2>2, <3>1 DEF CallInv
    <3>3. QED
      <4>1. \A x \in Calls : Persisting(d) /\ Persisting(x)'
              /\ call'[x].providerEnvelopeId = call[d].providerEnvelopeId => x = d
        <5>1. Persisting(d) => call[d].providerEnvelopeId # p
          BY <2>3, <2>5
        <5>2. call'[c].providerEnvelopeId = p
          BY <1>0, <2>1 DEF Call
        <5>3. \A x \in Calls \ {c} : Persisting(x)' => Persisting(x)
          BY <2>1 DEF Persisting
        <5>4. QED
          BY <2>1, <3>1, <5>1, <5>2, <5>3 DEF CallInv
      <4>2. QED
        BY <2>1, <2>2, <3>1, <3>2, <4>1 DEF CallInv, OwnedBy, Stored, Persisting
  <2>6. QED
    BY <2>4, <2>5
<1>4. CASE ProviderCreateFails(c)
  BY <1>0, <1>4, CallUndisturbed DEF ProviderCreateFails, ProviderAdds, Fail, FailedCall, ReadyCall,
                                          Persisting, Stored
<1>5. ASSUME NEW e \in EnvelopeIds, Persist(c, e) PROVE CallInv(d)'
  <2> DEFINE p == call[c].providerEnvelopeId
             r == [providerEnvelopeId |-> p, userId |-> call[c].userId, status |-> "sent"]
  <2>1. /\ ~Stored(e) /\ envelope'[e] = r /\ UNCHANGED <<provider, clock>>
        /\ call[c].pc = "persist"
        /\ \A f \in EnvelopeIds \ {e} : envelope'[f] = envelope[f]
        /\ call'[c] = [pc |-> "returned", userId |-> call[c].userId, envelopeId |-> e,
                       providerEnvelopeId |-> p, began |-> 0]
        /\ \A x \in Calls \ {c} : call'[x] = call[x]
    BY <1>0, <1>5 DEF Persist, Call
  <2>2. r # None /\ p \in ProviderIds
    BY <1>0, <2>1, NoneIsApart DEF CallInv, Persisting, Row, Status
  <2>3. CASE d = c
    BY <1>0, <2>1, <2>2, <2>3 DEF CallInv, OwnedBy, Stored, Persisting
  <2>4. CASE d # c
    <3>1. CallInv(d) /\ call'[d] = call[d]
      BY <1>0, <2>1, <2>4
    <3>2. Persisting(d) =>
            /\ call[d].providerEnvelopeId # p
            /\ WithProviderId(call[d].providerEnvelopeId) = {}
      BY <1>0, <2>1, <2>4 DEF CallInv, Persisting
    <3>3. \A q : q # p => WithProviderId(q)' = WithProviderId(q)
      BY <2>1, <2>2 DEF WithProviderId, Stored
    <3>4. \A f \in EnvelopeIds : Stored(f) => f # e
      BY <2>1
    <3>5. QED
      BY <2>1, <2>4, <3>1, <3>2, <3>3, <3>4 DEF CallInv, OwnedBy, Stored, Persisting
  <2>5. QED
    BY <2>3, <2>4
<1>6. CASE PersistFails(c)
  BY <1>0, <1>6, CallUndisturbed DEF PersistFails, Fail, FailedCall, ReadyCall, Persisting, Stored
<1>7. ASSUME NEW u \in Users, NEW e \in EnvelopeIds, GetSigningUrl(c, u, e) PROVE CallInv(d)'
  <2>1. /\ UNCHANGED <<envelope, provider, clock>> /\ OwnedBy(e, u)
        /\ call' = [call EXCEPT ![c] =
             [pc |-> "url", userId |-> u, envelopeId |-> e,
              providerEnvelopeId |-> envelope[e].providerEnvelopeId, began |-> 0]]
    BY <1>7 DEF GetSigningUrl
  <2>2. QED
    BY <1>0, <2>1, CallUndisturbed DEF Stored, Persisting
<1>8. ASSUME NEW u \in Users, NEW e \in EnvelopeIds, RefuseRestart(c, u, e) PROVE CallInv(d)'
  BY <1>0, <1>8, CallUndisturbed DEF RefuseRestart, Fail, FailedCall, ReadyCall, Persisting, Stored
<1>9. CASE ProviderUrl(c)
  BY <1>0, <1>9, CallUndisturbed DEF ProviderUrl, Move, Fail, FailedCall, ReadyCall, Persisting, Stored, Call
<1>10. CASE AuditRestart(c)
  <2>1. clock' \in Nat /\ clock <= clock'
    BY <1>0, <1>10 DEF AuditRestart, Now
  <2>2. QED
    BY <1>0, <1>10, <2>1, CallUndisturbed DEF AuditRestart, Move, Persisting, Stored, Call
<1>11. CASE AuditRestartFails(c)
  BY <1>0, <1>11, CallUndisturbed DEF AuditRestartFails, Fail, FailedCall, ReadyCall, Persisting, Stored
<1>12. CASE BeginPersist(c)
  <2>1. clock' \in Nat /\ clock <= clock'
    BY <1>0, <1>12 DEF BeginPersist, Now
  <2>2. QED
    BY <1>0, <1>12, <2>1, CallUndisturbed DEF BeginPersist, Persisting, Stored, Call
<1>13. QED
  BY <1>1, <1>2, <1>3, <1>4, <1>5, <1>6, <1>7, <1>8, <1>9, <1>10, <1>11, <1>12 DEF CallStep

\* So does every other step.
LEMMA StepOfTheCalls ==
  ASSUME IInv, [Next]_vars, NEW d \in Calls
  PROVE  CallInv(d)'
<1>0. /\ call \in [Calls -> Call] /\ envelope \in [EnvelopeIds -> Row \cup {None}]
      /\ provider \in [ProviderIds -> Status \cup {"absent"}]
      /\ TypeOK /\ \A x \in Calls : CallInv(x) /\ call[x].began \in Nat
      /\ clock \in Nat
  BY DEF IInv, TypeOK, Call
<1> USE DEF storeVars, providerVars
<1>1. ASSUME NEW h \in Hooks, HookStep(h) PROVE CallInv(d)'
  <2>1. CASE Commit(h)
    <3> DEFINE e == hook[h].envelopeId
               s == hook[h].event.status
               r == [envelope[e] EXCEPT !.status = s]
    <3>1. /\ e \in EnvelopeIds /\ Stored(e) /\ s \in Status
          /\ UNCHANGED <<call, provider, clock>>
          /\ envelope' = [envelope EXCEPT ![e] = r]
      BY <2>1 DEF Commit, IInv, HookInv, Concluding, Status
    <3>2. /\ r \in Row /\ r.providerEnvelopeId = envelope[e].providerEnvelopeId
          /\ r.userId = envelope[e].userId /\ r # None
      BY <1>0, <3>1, NoneIsApart DEF Stored, Row
    <3>3. QED
      BY <1>0, <3>1, <3>2, CallUndisturbed DEF Stored, Persisting
  <2>2. CASE \/ \E ev \in Event : Deliver(h, ev)
             \/ \E e \in EnvelopeIds : ReadToCommit(h, e)
             \/ ReadToAcknowledge(h) \/ BeginCommit(h) \/ HookFails(h) \/ Acknowledge(h)
    <3>1. UNCHANGED <<call, provider, envelope>> /\ clock' \in Nat /\ clock <= clock'
      <4>1. CASE BeginCommit(h)
        BY <1>0, <4>1 DEF BeginCommit, Now
      <4>2. ~BeginCommit(h) => UNCHANGED <<call, provider, storeVars>>
        BY <2>2 DEF Deliver, ReadToCommit, ReadToAcknowledge, HookFails, Acknowledge
      <4>3. QED
        BY <1>0, <4>1, <4>2
    <3>2. QED
      BY <1>0, <3>1, CallUndisturbed DEF Stored, Persisting
  <2>3. QED
    BY <1>1, <2>1, <2>2 DEF HookStep
<1>2. ASSUME NEW p \in ProviderIds, NEW s \in Terminal, ProviderDecides(p, s) PROVE CallInv(d)'
  BY <1>0, <1>2, CallUndisturbed DEF ProviderDecides, Terminal, Persisting, Stored
<1>3. CASE Crash
  <2>1. \A x \in Calls : call'[x] = call[x] \/ (call'[x].pc = "failed" /\ call'[x].began = 0)
    BY <1>0, <1>3 DEF Crash, FailedCall, ReadyCall, Call
  <2>2. QED
    BY <1>0, <1>3, <2>1, CallUndisturbed DEF Crash, Persisting, Stored
<1>4. CASE UNCHANGED vars
  BY <1>0, <1>4, CallUndisturbed DEF vars, Persisting, Stored
<1>5. QED
  BY <1>1, <1>2, <1>3, <1>4, CallStepKeepsCalls DEF Next

\* The webhook requests' part of the invariant.
LEMMA StepOfTheHooks ==
  ASSUME IInv, [Next]_vars, StoreStep, events \subseteq events', NEW k \in Hooks
  PROVE  HookInv(k)'
<1>0. /\ hook \in [Hooks -> Hook] /\ envelope \in [EnvelopeIds -> Row \cup {None}]
      /\ HookInv(k) /\ clock \in Nat /\ clock' \in Nat /\ clock <= clock'
      /\ hook[k].began \in Nat /\ \A p \in events : p.providerEnvelopeId \in ProviderIds
  BY DEF IInv, TypeOK, StoreStep, Hook, Event
<1>1. ASSUME NEW e \in EnvelopeIds, Stored(e)
      PROVE  Stored(e)' /\ envelope'[e].providerEnvelopeId = envelope[e].providerEnvelopeId
  <2>1. ASSUME NEW f \in EnvelopeIds, NEW s \in Terminal, NEW t \in Nat, Concludes(f, s, t)
        PROVE  Stored(e)' /\ envelope'[e].providerEnvelopeId = envelope[e].providerEnvelopeId
    <3> DEFINE r == [envelope[f] EXCEPT !.status = s]
    <3>1. /\ Stored(f) /\ envelope' = [envelope EXCEPT ![f] = r]
      BY <2>1 DEF Concludes
    <3>2. r \in Row /\ r.providerEnvelopeId = envelope[f].providerEnvelopeId /\ r # None
      BY <1>0, <3>1, NoneIsApart DEF Stored, Row, Status
    <3>3. QED
      BY <1>0, <1>1, <3>1, <3>2 DEF Stored
  <2>2. QED
    BY <1>0, <1>1, <2>1 DEF StoreStep, Creates, Restarts, Stored, tables
<1>2. ASSUME NEW e \in EnvelopeIds, NEW p \in ProviderIds, e \in WithProviderId(p)
      PROVE  e \in WithProviderId(p)'
  BY <1>1, <1>2 DEF WithProviderId
\* Later entries of a stored envelope are not its 'initiated'
<1>3. ASSUME NEW e \in EnvelopeIds, Stored(e), NEW a \in EntriesOf(e)', a.action = "initiated"
      PROVE  a \in EntriesOf(e)
  <2>1. ASSUME NEW f \in EnvelopeIds, NEW r \in Row, NEW t \in Nat, Creates(f, r, t)
        PROVE  a \in EntriesOf(e)
    BY <1>3, <2>1 DEF Creates, Enters, AppendAuditEntry, EntriesOf
  <2>2. ASSUME NEW f \in EnvelopeIds, NEW s \in Terminal, NEW t \in Nat, Concludes(f, s, t)
        PROVE  a \in EntriesOf(e)
    BY <1>3, <2>2 DEF Concludes, Enters, AppendAuditEntry, EntriesOf, Terminal
  <2>3. ASSUME NEW f \in EnvelopeIds, NEW t \in Nat, Restarts(f, t)
        PROVE  a \in EntriesOf(e)
    BY <1>3, <2>3 DEF Restarts, Enters, AppendAuditEntry, EntriesOf
  <2>4. CASE UNCHANGED tables
    BY <1>3, <2>4 DEF tables, EntriesOf
  <2>5. QED
    BY <2>1, <2>2, <2>3, <2>4 DEF StoreStep
\* What a request about to write knows stays true
<1>4. ASSUME Concluding(k) /\ Concluding(k)', hook'[k].envelopeId = hook[k].envelopeId,
             hook'[k].event = hook[k].event,
             hook'[k].pc = "commit" => /\ hook'[k].began <= clock'
                                       /\ Follows(hook[k].envelopeId, hook'[k].began)
      PROVE  HookInv(k)'
  <2>0. PICK e \in EnvelopeIds, p \in ProviderIds :
          e = hook[k].envelopeId /\ p = hook[k].event.providerEnvelopeId
    BY <1>0, <1>4 DEF HookInv
  <2>1. /\ hook[k].event \in events /\ hook[k].event.status \in Terminal
        /\ e \in WithProviderId(p) /\ Stored(e)
    BY <1>0, <1>4, <2>0 DEF HookInv, WithProviderId
  <2>2. envelope[e].providerEnvelopeId = p
    BY <2>1 DEF WithProviderId
  <2>3. Stored(e)' /\ envelope'[e].providerEnvelopeId = p
    BY <1>1, <2>1, <2>2
  <2>4. hook'[k].pc = "commit" =>
          \A a \in EntriesOf(e)' : a.action = "initiated" => a.timestamp <= hook'[k].began
    BY <1>3, <1>4, <2>0, <2>1 DEF Follows
  <2>5. hook'[k].pc # "read"
    BY <1>4 DEF Concluding
  <2>6. QED
    BY <1>4, <2>0, <2>1, <2>3, <2>4, <2>5 DEF HookInv, WithProviderId, Stored, EntriesOf
<1>5. ASSUME hook'[k] = hook[k] PROVE HookInv(k)'
  <2>1. CASE Concluding(k)
    BY <1>0, <1>4, <1>5, <2>1 DEF HookInv, Concluding, Follows
  <2>2. CASE ~Concluding(k)
    BY <1>0, <1>5, <2>2 DEF HookInv, Concluding
  <2>3. QED
    BY <2>1, <2>2
<1>6. ASSUME hook'[k].pc \in {"idle", "ack"} PROVE HookInv(k)'
  BY <1>6 DEF HookInv, Concluding
<1>7. ASSUME NEW h \in Hooks, HookStep(h) PROVE HookInv(k)'
  <2> USE DEF storeVars, providerVars
  <2>1. CASE k # h
    BY <1>0, <1>5, <1>7, <2>1 DEF HookStep, Deliver, ReadToCommit, ReadToAcknowledge, BeginCommit,
                                  Commit, Handled, HookFails, Acknowledge
  <2>2. CASE k = h
    <3>1. ASSUME NEW ev \in Event, Deliver(k, ev) PROVE HookInv(k)'
      BY <1>0, <3>1 DEF Deliver, HookInv, Concluding, IdleHook
    <3>2. ASSUME NEW e \in EnvelopeIds, ReadToCommit(k, e) PROVE HookInv(k)'
      <4>1. /\ hook'[k] = [hook[k] EXCEPT !.pc = "begin", !.envelopeId = e]
            /\ UNCHANGED <<events, envelope>> /\ Transitions(hook[k].event, e)
            /\ hook[k].pc = "read"
        BY <1>0, <3>2 DEF ReadToCommit
      <4>2. /\ hook'[k].pc = "begin" /\ hook'[k].event = hook[k].event
            /\ hook'[k].envelopeId = e
        BY <1>0, <4>1 DEF Hook
      <4>3. hook[k].event \in events /\ hook[k].event.status \in Terminal
            /\ e \in WithProviderId(hook[k].event.providerEnvelopeId)
        BY <1>0, <4>1 DEF HookInv, Transitions, Terminal
      <4>4. Stored(e)' /\ envelope'[e].providerEnvelopeId = hook[k].event.providerEnvelopeId
        BY <4>1, <4>3 DEF WithProviderId, Stored
      <4>5. QED
        BY <4>1, <4>2, <4>3, <4>4 DEF HookInv, WithProviderId, Stored
    <3>3. CASE ReadToAcknowledge(k) \/ Commit(k)
      BY <1>0, <1>6, <3>3 DEF ReadToAcknowledge, Commit, Handled, IdleHook
    <3>4. CASE BeginCommit(k)
      <4>1. /\ hook[k].pc = "begin" /\ hook'[k].pc = "commit" /\ hook'[k].began = clock'
            /\ hook'[k].envelopeId = hook[k].envelopeId /\ hook'[k].event = hook[k].event
        BY <1>0, <3>4 DEF BeginCommit, Hook
      <4>2. Follows(hook[k].envelopeId, clock')
        BY <1>0 DEF IInv, LogInv, TypeOK, Entry, Follows, EntriesOf
      <4>3. QED
        BY <1>0, <1>4, <4>1, <4>2 DEF Concluding
    <3>5. CASE HookFails(k) \/ Acknowledge(k)
      BY <1>0, <1>6, <3>5 DEF HookFails, Acknowledge, IdleHook
    <3>6. QED
      BY <1>7, <2>2, <3>1, <3>2, <3>3, <3>4, <3>5 DEF HookStep
  <2>3. QED
    BY <2>1, <2>2
<1>8. CASE UNCHANGED hook
  BY <1>5, <1>8
<1>9. ASSUME NEW c \in Calls, CallStep(c) PROVE UNCHANGED hook
  BY <1>9 DEF CallStep, RefuseInput, CreateEnvelope, ProviderCreates, ProviderCreateFails,
              BeginPersist, Persist, PersistFails, GetSigningUrl, RefuseRestart, ProviderUrl,
              AuditRestart, AuditRestartFails
<1>10. CASE Crash
  BY <1>6, <1>10 DEF Crash, IdleHook
<1>11. QED
  BY <1>7, <1>8, <1>9, <1>10 DEF Next, ProviderDecides, vars

-----------------------------------------------------------------------------
\* IInv holds at the start and through every step.
LEMMA Inductive == Spec => []IInv
<1>1. Init => IInv
  <2> SUFFICES ASSUME Init PROVE IInv
    OBVIOUS
  <2>1. TypeOK
    BY FailuresBounded DEF Init, TypeOK, ReadyCall, IdleHook, Call, Hook
  <2>2. (\A c \in Calls : CallInv(c)) /\ (\A h \in Hooks : HookInv(h))
    BY DEF Init, CallInv, HookInv, Persisting, Concluding, ReadyCall, IdleHook
  <2>3. LogInv /\ TrailMatchesStatus /\ TrailBeginsAtCreation /\ ProviderIdIsUnique
        /\ StatusWasReported
    BY DEF Init, LogInv, TrailMatchesStatus, TrailBeginsAtCreation, ProviderIdIsUnique,
           StatusWasReported, Stored
  <2>4. ASSUME NEW e \in EnvelopeIds PROVE Verdicts(e) = {} /\ Pending(e) = {}
    BY DEF Init, Verdicts, EntriesOf, Pending, Concluding, IdleHook
  <2>5. SlotsInv
    <3>1. IsFiniteSet({}) /\ Cardinality({}) = 0 /\ Cardinality(Hooks) \in Nat
      BY HooksAreFinite, FS_EmptySet, FS_CardinalityType
    <3>2. \A n \in Nat : 0 + 0 <= n
      OBVIOUS
    <3>3. QED
      BY <2>4, <3>1, <3>2 DEF SlotsInv
  <2>6. QED
    BY <2>1, <2>2, <2>3, <2>5 DEF IInv
<1>2. IInv /\ [Next]_vars => IInv'
  <2> SUFFICES ASSUME IInv, [Next]_vars PROVE IInv'
    OBVIOUS
  <2>1. TypeOK'
    BY StepTypes
  <2>2. /\ StoreStep /\ events \subseteq events'
        /\ \A p \in ProviderIds : provider[p] # "absent" => provider'[p] # "absent"
    BY StepOfTheStore
  <2>3. (\A c \in Calls : CallInv(c))' /\ (\A h \in Hooks : HookInv(h))'
    BY <2>2, StepOfTheCalls, StepOfTheHooks
  <2>4. SlotsInv'
    BY StepOfTheSlots
  <2>5. LogInv' /\ TrailMatchesStatus' /\ TrailBeginsAtCreation' /\ ProviderIdIsUnique'
        /\ StatusWasReported'
    BY <2>2, <2>4, StepOfTheTrail
  <2>6. QED
    BY <2>1, <2>3, <2>4, <2>5 DEF IInv
<1>3. QED
  BY <1>1, <1>2, PTL DEF Spec

\* Every variable keeps its type; the unacknowledged events are posted ones.
THEOREM TypeCorrect == Spec => []TypeOK
<1>1. IInv => TypeOK
  BY DEF IInv
<1>2. QED
  BY <1>1, Inductive, PTL

\* The audit trail begins at the creation and accounts for the status at every
\* moment, however many deliveries of whatever events are in progress; and it
\* never has more verdicts than that many. It does not say which came last.
THEOREM TrailIsFaithful == Spec => [](TrailMatchesStatus /\ TrailBeginsAtCreation)
<1>1. IInv => TrailMatchesStatus /\ TrailBeginsAtCreation
  BY DEF IInv
<1>2. QED
  BY <1>1, Inductive, PTL

\* An event is about one envelope at most, and a verdict on record was posted.
THEOREM StatusIsGenuine == Spec => [](ProviderIdIsUnique /\ StatusWasReported)
<1>1. IInv => ProviderIdIsUnique /\ StatusWasReported
  BY DEF IInv
<1>2. QED
  BY <1>1, Inductive, PTL

\* No URL is handed out without a stored envelope of the caller's behind it.
THEOREM UrlsAreOwned == Spec => []UrlHasOwnedEnvelope
<1>1. IInv => UrlHasOwnedEnvelope
  BY DEF IInv, CallInv, UrlHasOwnedEnvelope
<1>2. QED
  BY <1>1, Inductive, PTL

\* No step takes a finished envelope back to 'sent' or away.
THEOREM NoReopening == Spec => NeverReopened
<1> DEFINE Stays == \A e \in EnvelopeIds :
                      Stored(e) /\ envelope[e].status \in Terminal => envelope'[e].status \in Terminal
<1>1. IInv /\ [Next]_vars => [Stays]_vars
  <2> SUFFICES ASSUME IInv, [Next]_vars PROVE Stays
    OBVIOUS
  <2>1. StoreStep /\ envelope \in [EnvelopeIds -> Row \cup {None}]
    BY StepOfTheStore DEF IInv, TypeOK
  <2>2. ASSUME NEW f \in EnvelopeIds, NEW s \in Terminal, NEW t \in Nat, Concludes(f, s, t) PROVE Stays
    <3>1. envelope'[f].status = s /\ \A e \in EnvelopeIds \ {f} : envelope'[e] = envelope[e]
      BY <2>1, <2>2 DEF Concludes, Stored, Row
    <3>2. QED
      BY <2>2, <3>1
  <2>3. QED
    BY <2>1, <2>2 DEF StoreStep, Creates, Restarts, tables, Stored
<1>2. QED
  BY <1>1, Inductive, PTL DEF Spec, NeverReopened

-----------------------------------------------------------------------------
(* One webhook request at a time *)

\* A handler past its read still finds the envelope 'sent'.
\* With two handlers this is what fails: both read 'sent', one commits.
ReadIsFresh ==
  \A h \in Hooks : Concluding(h) => envelope[hook[h].envelopeId].status = "sent"

\* So with one handler what it read stays true until it commits.
LEMMA SerialStep ==
  ASSUME IInv, ReadIsFresh, [Next]_vars, \A h, k \in Hooks : h = k
  PROVE  ReadIsFresh'
<1> SUFFICES ASSUME NEW h \in Hooks, Concluding(h)'
             PROVE  envelope'[hook'[h].envelopeId].status = "sent"
  BY DEF ReadIsFresh
<1>0. /\ hook \in [Hooks -> Hook] /\ envelope \in [EnvelopeIds -> Row \cup {None}] /\ HookInv(h)
  BY DEF IInv, TypeOK
<1>1. ASSUME NEW e \in EnvelopeIds, ReadToCommit(h, e)
      PROVE  envelope'[hook'[h].envelopeId].status = "sent"
  <2>1. hook'[h].envelopeId = e /\ UNCHANGED envelope
    BY <1>0, <1>1 DEF ReadToCommit, Hook, storeVars
  <2>2. envelope[e].status = "sent"
    BY <1>0, <1>1 DEF ReadToCommit, Transitions, WithProviderId, Stored, Row, Status
  <2>3. QED
    BY <2>1, <2>2
<1>2. CASE Concluding(h) /\ hook'[h].envelopeId = hook[h].envelopeId
  <2> DEFINE e == hook[h].envelopeId
  <2>1. e \in EnvelopeIds /\ Stored(e) /\ envelope[e].status = "sent"
    BY <1>2, <1>0 DEF HookInv, WithProviderId, ReadIsFresh
  <2>2. ~ \E f \in EnvelopeIds, s \in Terminal, t \in Nat : Concludes(f, s, t)
    BY DEF Concludes, Concluding
  <2>3. envelope'[e] = envelope[e]
    BY <1>0, <2>1, <2>2, StepOfTheStore DEF StoreStep, Creates, Restarts, tables
  <2>4. QED
    BY <1>2, <2>1, <2>3
<1>3. QED
  BY <1>1, <1>2, ReadsConclude

\* A verdict is then only ever given to an envelope still 'sent'.
LEMMA SerialConcludes ==
  ASSUME ReadIsFresh, NEW e \in EnvelopeIds, NEW s \in Terminal, NEW t \in Nat,
         Concludes(e, s, t)
  PROVE  envelope[e].status = "sent"
  BY DEF ReadIsFresh, Concludes, Concluding

LEMMA SerialInvariant ==
  ASSUME \A h, k \in Hooks : h = k
  PROVE  Spec => []ReadIsFresh
<1>1. Init => ReadIsFresh
  BY DEF Init, ReadIsFresh, Concluding, IdleHook
<1>2. IInv /\ ReadIsFresh /\ [Next]_vars => ReadIsFresh'
  BY SerialStep
<1>3. QED
  BY <1>1, <1>2, Inductive, PTL DEF Spec

\* "Terminal statuses: no transition out of them", if requests take turns.
THEOREM SerialIsFinal ==
  ASSUME \A h, k \in Hooks : h = k
  PROVE  Spec => TerminalIsFinal
<1> DEFINE Stays == \A e \in EnvelopeIds :
                      Stored(e) /\ envelope[e].status \in Terminal => envelope'[e] = envelope[e]
<1>1. IInv /\ ReadIsFresh /\ [Next]_vars => [Stays]_vars
  <2> SUFFICES ASSUME IInv, ReadIsFresh, [Next]_vars PROVE Stays
    OBVIOUS
  <2>1. StoreStep /\ envelope \in [EnvelopeIds -> Row \cup {None}]
    BY StepOfTheStore DEF IInv, TypeOK
  <2>2. ASSUME NEW f \in EnvelopeIds, NEW s \in Terminal, NEW t \in Nat, Concludes(f, s, t) PROVE Stays
    <3>1. \A e \in EnvelopeIds \ {f} : envelope'[e] = envelope[e]
      BY <2>1, <2>2 DEF Concludes
    <3>2. envelope[f].status \notin Terminal
      BY <2>2, SerialConcludes DEF Terminal
    <3>3. QED
      BY <3>1, <3>2
  <2>3. QED
    BY <2>1, <2>2 DEF StoreStep, Creates, Restarts, tables, Stored
<1>2. QED
  BY <1>1, Inductive, SerialInvariant, PTL DEF Spec, TerminalIsFinal

\* "A repeated event with the same status changes nothing", if requests take
\* turns: an envelope is given a verdict, and its verdict entry, once.
THEOREM SerialVerdictOnce ==
  ASSUME \A h, k \in Hooks : h = k
  PROVE  Spec => []VerdictOnce
<1>1. Init => VerdictOnce
  BY DEF Init, VerdictOnce, Verdicts, EntriesOf
<1>2. IInv /\ ReadIsFresh /\ VerdictOnce /\ [Next]_vars => VerdictOnce'
  <2> SUFFICES ASSUME IInv, ReadIsFresh, VerdictOnce, [Next]_vars PROVE VerdictOnce'
    OBVIOUS
  <2> USE DEF Verdicts, EntriesOf
  <2>1. StoreStep
    BY StepOfTheStore
  <2>2. ASSUME NEW e \in EnvelopeIds, NEW s \in Terminal, NEW t \in Nat, Concludes(e, s, t)
        PROVE  VerdictOnce'
    <3> DEFINE new == [id |-> nextId, envelopeId |-> e, action |-> s, timestamp |-> t]
    <3>1. auditLog' = auditLog \cup {new}
      BY <2>2 DEF Concludes, Enters, AppendAuditEntry
    <3>2. Verdicts(e) = {}
      BY <2>2, SerialConcludes DEF IInv, TrailMatchesStatus, Concludes
    <3>3. \A a \in Verdicts(e)' : a = new
      BY <3>1, <3>2
    <3>4. \A f \in EnvelopeIds \ {e} : Verdicts(f)' = Verdicts(f)
      BY <3>1
    <3>5. QED
      BY <3>3, <3>4 DEF VerdictOnce
  <2>3. ASSUME NEW e \in EnvelopeIds, NEW act \in {"initiated", "session_restart"},
               NEW t \in Nat, AppendAuditEntry(e, act, t)
        PROVE  VerdictOnce'
    <3>1. \A f \in EnvelopeIds : Verdicts(f)' = Verdicts(f)
      BY <2>3 DEF AppendAuditEntry, Terminal
    <3>2. QED
      BY <3>1 DEF VerdictOnce
  <2>4. CASE UNCHANGED tables
    BY <2>4 DEF tables, VerdictOnce
  <2>5. QED
    BY <2>1, <2>2, <2>3, <2>4 DEF StoreStep, Creates, Restarts, Enters
<1>3. QED
  BY <1>1, <1>2, Inductive, SerialInvariant, PTL DEF Spec

\* The detailed service implements the lifecycle, if requests take turns: its
\* steps on the store are those of the lifecycle, and the rest stutter.
THEOREM SerialImplements ==
  ASSUME \A h, k \in Hooks : h = k
  PROVE  Spec => ImplementsLifecycle
<1> DEFINE st == [e \in EnvelopeIds |-> IF Stored(e) THEN envelope[e].status ELSE "none"]
<1>1. Init => Lifecycle!Init
  BY DEF Init, Lifecycle!Init, Stored
<1>2. IInv /\ ReadIsFresh /\ [Next]_vars => [Lifecycle!Next]_(Lifecycle!vars)
  <2> SUFFICES ASSUME IInv, ReadIsFresh, [Next]_vars PROVE [Lifecycle!Next]_(Lifecycle!vars)
    OBVIOUS
  <2>0. StoreStep /\ envelope \in [EnvelopeIds -> Row \cup {None}]
    BY StepOfTheStore DEF IInv, TypeOK
  <2>1. ASSUME NEW e \in EnvelopeIds, NEW a, NEW t \in Nat, Enters(e, a, t)
        PROVE  Lifecycle!Record(e, a)
    <3> DEFINE new == [id |-> nextId, envelopeId |-> e, action |-> a, timestamp |-> t]
    <3>1. auditLog' = auditLog \cup {new}
      BY <2>1 DEF Enters, AppendAuditEntry
    <3>2. new \notin auditLog
      BY DEF IInv, LogInv, TypeOK, Entry
    <3>3. QED
      BY <3>1, <3>2 DEF Lifecycle!Record
  <2>2. ASSUME NEW e \in EnvelopeIds, NEW r \in Row, NEW t \in Nat, Creates(e, r, t)
        PROVE  Lifecycle!Initiate(e)
    <3>1. st[e] = "none" /\ st' = [st EXCEPT ![e] = "sent"]
      BY <2>0, <2>2, NoneIsApart DEF Creates, Stored
    <3>2. QED
      BY <2>1, <2>2, <3>1 DEF Creates, Lifecycle!Initiate
  <2>3. ASSUME NEW e \in EnvelopeIds, NEW s \in Terminal, NEW t \in Nat, Concludes(e, s, t)
        PROVE  Lifecycle!Conclude(e, s)
    <3> DEFINE r == [envelope[e] EXCEPT !.status = s]
    <3>1. /\ Stored(e) /\ envelope[e].status = "sent" /\ envelope' = [envelope EXCEPT ![e] = r]
      BY <2>3, SerialConcludes DEF Concludes
    <3>2. r \in Row /\ r.status = s /\ r # None
      BY <2>0, <3>1, NoneIsApart DEF Stored, Row, Status
    <3>3. st[e] = "sent" /\ st' = [st EXCEPT ![e] = s]
      BY <2>0, <3>1, <3>2 DEF Stored
    <3>4. QED
      BY <2>1, <2>3, <3>3 DEF Concludes, Lifecycle!Conclude
  <2>4. ASSUME NEW e \in EnvelopeIds, NEW t \in Nat, Restarts(e, t) PROVE Lifecycle!Restart(e)
    <3>1. st[e] # "none" /\ st' = st
      BY <2>0, <2>4 DEF Restarts, Stored, Row, Status, Terminal
    <3>2. QED
      BY <2>1, <2>4, <3>1 DEF Restarts, Lifecycle!Restart
  <2>5. CASE UNCHANGED tables
    BY <2>5 DEF tables, Lifecycle!vars, Stored
  <2>6. QED
    BY <2>0, <2>2, <2>3, <2>4, <2>5 DEF StoreStep, Lifecycle!Next
<1>3. QED
  BY <1>1, <1>2, Inductive, SerialInvariant, PTL
     DEF Spec, ImplementsLifecycle, Lifecycle!Spec
=============================================================================
