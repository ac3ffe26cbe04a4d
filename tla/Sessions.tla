------------------------------ MODULE Sessions ------------------------------
(***************************************************************************)
(* How a bearer token becomes a user (esign-service/src/session.ts), and   *)
(* what the check-session command reports of one (check.ts).  jose, which  *)
(* verifies signatures and claims, is external; a token is known by what   *)
(* verifying it looks at.                                                  *)
(***************************************************************************)
EXTENDS ServiceConfig

(***************************************************************************)
(* alg is whether the algorithm is one the source's list has; exp and nbf  *)
(* where they lie from now; user whether the user claim is a string with   *)
(* something in it.  "list" is a claim that lists the configured value.    *)
(***************************************************************************)
Jwt == [form : {"jwt"},
        signature : {"ours", "other"},
        alg : BOOLEAN,
        exp : {"absent", "past", "future"},
        nbf : {"fine", "future"},
        issuer : {"absent", "same", "other", "list"},
        audience : {"absent", "same", "other", "list"},
        user : BOOLEAN]

Unsigned == [form : {"none", "opaque"}]

Token == Jwt \cup Unsigned

\* sessionSourceFromEnv
Source(env) ==
  CASE env.session = "secret" -> "hs256"
    [] env.session \in {"jwks", "badJwks"} -> "jwks"
    [] OTHER -> "unverified"

\* The signature alone (verifySignature); keys is whether a key set answers
SignatureIsOurs(env, token, keys) ==
  /\ token.form = "jwt"
  /\ token.signature = "ours"
  /\ token.alg
  /\ Source(env) = "jwks" => keys

\* jose: an issuer is compared, an audience may be listed
ClaimsHold(env, token) ==
  /\ token.exp = "future"
  /\ token.nbf = "fine"
  /\ "issuer" \in env.enforced => token.issuer = "same"
  /\ "audience" \in env.enforced => token.audience \in {"same", "list"}

\* The verifier answers a user rather than null
Verifies(env, token, keys) ==
  IF Source(env) = "unverified" THEN token.form # "none"
  ELSE /\ SignatureIsOurs(env, token, keys)
       /\ ClaimsHold(env, token)
       /\ token.user

\* describeRejection: what may be logged of a token that is refused.  jose says
\* which claim it is that does not hold, in an order of its own
Causes(env, token, keys) ==
  IF ~SignatureIsOurs(env, token, keys)
  THEN {"signature"} \cup
       (IF token.form = "jwt" /\ Source(env) = "jwks" /\ ~keys THEN {"unreachable"} ELSE {})
  ELSE IF ~ClaimsHold(env, token)
  THEN {c \in {"claim", "expired", "issuer", "audience"} :
          \/ c = "claim" /\ (token.exp = "absent" \/ token.nbf = "future")
          \/ c = "expired" /\ token.exp = "past"
          \/ c = "issuer" /\ "issuer" \in env.enforced /\ token.issuer # "same"
          \/ c = "audience" /\ "audience" \in env.enforced
                            /\ token.audience \notin {"same", "list"}}
  ELSE IF ~token.user THEN {"claim"} ELSE {}

-----------------------------------------------------------------------------
(* check-session *)

\* What looking at the key material throws at: a key set's URL that is none
CheckThrows(env, token) == env.session = "badJwks" /\ token.form = "jwt"

\* compare: the value configured is the token's, or in its list
Matches(env, claim, value) == claim \in env.enforced => value \in {"same", "list"}

\* Mutant: the first line that fails ends the report
FailingLinesOfOne(env, token, keys) ==
  IF Source(env) = "unverified" THEN {"source"}
  ELSE IF Source(env) = "jwks" /\ ~keys THEN {"key set"}
  ELSE IF token.form # "jwt" THEN {"token"} ELSE {}

\* The lines of the report that are marked as failing
FailingLines(env, token, keys) ==
  (IF Source(env) = "unverified" THEN {"source"} ELSE {})
  \cup (IF Source(env) = "jwks" /\ ~keys THEN {"key set"} ELSE {})
  \cup IF token.form # "jwt" THEN {"token"}
       ELSE {l \in {"signature", "expiry", "issuer", "audience", "user id"} :
               \/ l = "signature" /\ \/ Source(env) = "unverified"
                                     \/ ~SignatureIsOurs(env, token, keys)
               \/ l = "expiry" /\ token.exp # "future"
               \/ l = "issuer" /\ ~Matches(env, "issuer", token.issuer)
               \/ l = "audience" /\ ~Matches(env, "audience", token.audience)
               \/ l = "user id" /\ ~token.user}

\* The lines that are about what the service logs
LinesAbout(cause) ==
  CASE cause = "signature" -> {"token", "signature"}
    [] cause = "unreachable" -> {"key set"}
    [] cause = "expired" -> {"expiry"}
    [] cause = "claim" -> {"expiry", "user id"}
    [] OTHER -> {cause}
=============================================================================
