------------------------------ MODULE MCService ------------------------------
(***************************************************************************)
(* Service for TLC: every environment is started on every target (one of   *)
(* each set the code treats alike), and the requests of a few are followed *)
(* to the end.                                                             *)
(***************************************************************************)
EXTENDS Service

Every(setting) == [h \in Hosts |-> setting]

\* The settings of a provider that reads none do not matter to the start
MCStarted ==
  {e \in [provider : {"mock", "docusign", "unknown"},
          settings : SUBSET (Settings \ {"key"}),
          key : {"none", "value", "file", "badFile"},
          hosts : {Every("unset"), [Every("own") EXCEPT !["oauth"] = "demo"], Every("own")},
          mode : {"webform", "envelope", "unknown"}, database : BOOLEAN,
          session : {"none", "secret", "jwks", "badJwks"}, enforced : {{}},
          terms : {"none", "url", "badUrl"}, secret : {TRUE}, origins : {"none"},
          hmac : BOOLEAN, strict : BOOLEAN, mockPages : {TRUE}] :
     e.provider # "docusign" =>
       e.settings = {} /\ e.key = "none" /\ e.hosts = Every("unset")}

Plain == [provider |-> "mock", settings |-> {}, key |-> "none", hosts |-> Every("unset"),
          mode |-> "webform", database |-> FALSE, session |-> "none", enforced |-> {},
          terms |-> "none", secret |-> FALSE, origins |-> "none", hmac |-> FALSE,
          strict |-> FALSE, mockPages |-> TRUE]

Strict == [Plain EXCEPT !.provider = "docusign", !.settings = Settings \ {"key"},
                        !.key = "value", !.hosts = Every("own"), !.mode = "envelope",
                        !.database = TRUE, !.session = "jwks",
                        !.enforced = {"issuer", "audience"}, !.terms = "url",
                        !.secret = TRUE, !.origins = "list",
                        !.hmac = TRUE, !.strict = TRUE]

MCServed ==
  {Plain,
   [Plain EXCEPT !.mode = "envelope", !.database = TRUE, !.mockPages = FALSE,
                 !.origins = "list"],
   [Plain EXCEPT !.session = "badJwks", !.enforced = {"audience"}],
   [Plain EXCEPT !.database = TRUE, !.session = "secret", !.enforced = {"issuer"},
                 !.origins = "any", !.terms = "url"],
   Strict,
   [Strict EXCEPT !.hmac = FALSE],
   [Strict EXCEPT !.mode = "webform", !.database = FALSE, !.session = "secret",
                  !.key = "file"]}

MCEnvs == MCStarted \cup MCServed

Good == [form |-> "jwt", signature |-> "ours", alg |-> TRUE, exp |-> "future",
         nbf |-> "fine", issuer |-> "same", audience |-> "list", user |-> TRUE]

Some == [typed |-> TRUE, long |-> FALSE, holds |-> "object",
         prefill |-> [shape |-> "object", many |-> FALSE, names |-> TRUE, values |-> {"text"}],
         signer |-> [shape |-> "strings", name |-> "fine", email |-> "valid"]]

\* How a body may be read, and what an object in it may hold
Bodies ==
  {Some, [Some EXCEPT !.typed = FALSE], [Some EXCEPT !.long = TRUE]}
  \cup {[Some EXCEPT !.holds = h] : h \in {"nothing", "noJson", "primitive", "array"}}
  \cup {[Some EXCEPT !.prefill.values = v] :
          v \in {{"text", "number", "phone"}, {"blank", "lockedTab"}, {"lockedBlank"}}}
  \cup {[Some EXCEPT !.prefill.shape = s] : s \in {"absent", "other"}}
  \cup {[Some EXCEPT !.prefill.many = TRUE], [Some EXCEPT !.prefill.names = FALSE]}
  \cup {[Some EXCEPT !.signer.shape = s] : s \in {"absent", "other"}}
  \cup {[Some EXCEPT !.signer.email = "invalid"]}

Answering == [answers |-> "json", prefill |-> Some.prefill, recipient |-> Some.signer]

MCReplies ==
  {Answering,
   [Answering EXCEPT !.answers = "none"], [Answering EXCEPT !.answers = "error"],
   [Answering EXCEPT !.answers = "notJson"],
   [Answering EXCEPT !.prefill.shape = "absent"], [Answering EXCEPT !.prefill.values = {"phone"}],
   [Answering EXCEPT !.recipient.shape = "absent"], [Answering EXCEPT !.recipient.name = "long"]}

Deliveries == [typed : BOOLEAN, long : {FALSE}, signature : {"none", "wrong", "right"},
               event : {TRUE}]
              \cup {[Nothing.delivery EXCEPT !.event = FALSE, !.signature = "right"]}

\* Every route from every origin; every body of every caller; every delivery
MCInputs ==
  {[Nothing EXCEPT !.method = m, !.path = p, !.origin = o, !.body = Some, !.token = Good] :
     m \in Methods, p \in Paths, o \in Origin}
  \cup {[Nothing EXCEPT !.method = "POST", !.path = p, !.body = b, !.token = t] :
          p \in {"/webform/instance", "/envelope/instance"}, b \in Bodies,
          t \in {Good, [Good EXCEPT !.exp = "past"], [form |-> "opaque"]}}
  \cup {[Nothing EXCEPT !.method = "POST", !.path = "/webhook/esign", !.delivery = d] :
          d \in Deliveries}
=============================================================================
