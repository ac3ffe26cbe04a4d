---------------------------- MODULE SigningMachine ----------------------------
(***************************************************************************)
(* The signing state machine (esign-core/src/signing/machine.ts): one      *)
(* transition function from a state and an action to the next state and    *)
(* the effects the hook must run.  It has no guards: which actions come    *)
(* when is up to the hooks and the screens, see SigningFlow.               *)
(*                                                                         *)
(* A session stands for its URL too.  Of the error codes only              *)
(* SESSION_EXPIRED matters to what follows, which offers a restart.        *)
(***************************************************************************)
CONSTANTS Sessions, None

Status == {"idle", "loading", "signing", "success", "error", "offline"}
Code == {"SESSION_EXPIRED", "other"}
EventType == {"complete", "cancel", "decline", "sessionExpired", "error"}

Machine == [status : Status,
            error : Code \cup {None},
            url : Sessions \cup {None},
            session : Sessions \cup {None}]

\* What the hook is to do next: nothing, hold the success screen, or call back
Effect == {"none", "complete", "error", "cancel"}

Outcome == [state : Machine, effect : Effect]

InitialSigningState == [status |-> "idle", error |-> None, url |-> None, session |-> None]

-----------------------------------------------------------------------------
Quietly(m) == [state |-> m, effect |-> "none"]

Failed(m, code, session) ==
  [state |-> [m EXCEPT !.status = "error", !.error = code, !.url = None, !.session = session],
   effect |-> "error"]

\* Mutant: the first screen stays while a session is being acquired
AcquireOnIdleScreen(m) == Quietly(m)

Acquire(m) == Quietly([m EXCEPT !.status = "loading"])

Acquired(m, s) ==
  Quietly([m EXCEPT !.status = "signing", !.url = s, !.session = s])

\* Mutant: a source that fails is not reported
AcquireFailedQuietly(m, code) == Quietly(m)

\* The session is kept, as it is by an expiry
AcquireFailed(m, code) == Failed(m, code, m.session)

OnEvent(m, type) ==
  CASE type = "complete" ->
         [state |-> [m EXCEPT !.status = "success"], effect |-> "complete"]
    [] type \in {"cancel", "decline"} ->
         [state |-> [m EXCEPT !.status = "idle", !.url = None, !.session = None],
          effect |-> "cancel"]
    [] type = "sessionExpired" -> Failed(m, "SESSION_EXPIRED", m.session)
    [] type = "error" -> Failed(m, "other", None)

\* Mutant: the success screen gives way to the first one
SettledToIdle(m) == Quietly([m EXCEPT !.status = "idle", !.url = None])

Settled(m) == Quietly([m EXCEPT !.url = None])
Offline(m) == Quietly([m EXCEPT !.status = "offline"])
Online(m) == Quietly([m EXCEPT !.status = "idle"])

Retry(m) ==
  Quietly([m EXCEPT !.status = "idle", !.error = None, !.url = None, !.session = None])

Restart(m) == Quietly([m EXCEPT !.error = None])
=============================================================================
