-------------------------- MODULE EnvelopeLifecycle --------------------------
(***************************************************************************)
(* What the envelope service promises of an envelope, with no requests, no *)
(* provider and no failures in sight: it is created 'sent', it is given at *)
(* most one verdict and keeps it, and each of these steps is recorded by   *)
(* one audit entry in the same step.  A restart is recorded any time after *)
(* the creation (backend.md: "Every applied status change writes ... its   *)
(* audit log in a single database transaction"; envelopes.ts:95).          *)
(***************************************************************************)
CONSTANTS EnvelopeIds, Verdict   \* Verdict: the statuses that end an envelope

VARIABLES
  status,     \* id -> "none", "sent" or a verdict
  auditLog    \* the audit entries: each an envelope's, with an action

vars == <<status, auditLog>>

Init ==
  /\ status = [e \in EnvelopeIds |-> "none"]
  /\ auditLog = {}

\* One new entry, whatever else it says (its id, its date)
Record(e, a) ==
  \E new \in auditLog' :
    /\ new \notin auditLog /\ new.envelopeId = e /\ new.action = a
    /\ auditLog' = auditLog \cup {new}

Initiate(e) ==
  /\ status[e] = "none"
  /\ status' = [status EXCEPT ![e] = "sent"]
  /\ Record(e, "initiated")

Conclude(e, v) ==
  /\ status[e] = "sent"
  /\ status' = [status EXCEPT ![e] = v]
  /\ Record(e, v)

Restart(e) ==
  /\ status[e] # "none"
  /\ Record(e, "session_restart")
  /\ UNCHANGED status

Next ==
  \E e \in EnvelopeIds :
    \/ Initiate(e)
    \/ \E v \in Verdict : Conclude(e, v)
    \/ Restart(e)

Spec == Init /\ [][Next]_vars
=============================================================================
