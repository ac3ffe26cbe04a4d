---------------------------- MODULE ServiceConfig ----------------------------
(***************************************************************************)
(* What the service makes of its environment: the boot guard (config.ts),  *)
(* the posture it reports (posture.ts), the capabilities that follow       *)
(* (capabilities.ts), and the two selections of a provider, the guard's    *)
(* over the package's registry (registry.ts, mint.ts) and the              *)
(* application's over its own (providers/).  All of it is a function of    *)
(* the environment and of the target the service was built for.            *)
(***************************************************************************)
EXTENDS FiniteSets

Targets == {"container", "function", "worker"}

\* The DOCUSIGN_* settings; "grant" is the account, the integration key and the
\* user, which every list requires together
Settings == {"grant", "key", "webForm", "template", "returnUrl"}

\* The DOCUSIGN_* URLs. One that is not set is the demo environment's
Hosts == {"api", "oauth", "forms"}
HostSettings == {"unset", "demo", "own"}

(***************************************************************************)
(* The environment, by what the code tells apart.  An unset provider is    *)
(* the mock, an unset mode the web form; a blank provider is a name nobody *)
(* has.  The key may be a value (PEM or base64), the path of a file, or    *)
(* that of a file that cannot be read; "badJwks" and "badUrl" are no URLs. *)
(***************************************************************************)
Env == [provider : {"mock", "docusign", "unknown"},
        settings : SUBSET (Settings \ {"key"}),
        key : {"none", "value", "file", "badFile"},
        hosts : [Hosts -> HostSettings],
        mode : {"webform", "envelope", "unknown"},
        database : BOOLEAN,
        session : {"none", "secret", "jwks", "badJwks"},
        enforced : SUBSET {"issuer", "audience"},
        terms : {"none", "url", "badUrl"},
        secret : BOOLEAN,        \* ESIGN_PREFILL_SECRET
        origins : {"none", "list", "any"},
        hmac : BOOLEAN,
        strict : BOOLEAN,
        mockPages : BOOLEAN]     \* ESIGN_MOCK_PAGES is not "false"

-----------------------------------------------------------------------------
(* Capabilities and mode *)

\* mintModeFromEnv: a name nobody knows is the web form, and an error of its own
Mode(env) == IF env.mode = "envelope" THEN "envelope" ELSE "webform"

MockPages(env) == env.provider = "mock" /\ env.mockPages

\* The Cloudflare entry hands in no loader of the envelope module
HasLoader(target) == target # "worker"

-----------------------------------------------------------------------------
(* The provider's settings *)

\* privateKeyFromEnv throws where the key is in a file nobody can read: on a
\* Worker the guard hands in a reader that reads none
KeyThrows(env, target) ==
  \/ env.key = "badFile"
  \/ env.key = "file" /\ target = "worker"

\* docuSignConfigFromEnv, where the key does not throw
Present(env) ==
  env.settings \cup (IF env.key = "none" THEN {} ELSE {"key"})

\* missingDocuSignConfig
Missing(required, present) == required \ present

\* The service's own configuration is never without a URL to return to
ServicePresent(env) == Present(env) \cup {"returnUrl"}

JwtCredentials == {"grant", "key"}

\* Mutant: the template is asked for whatever the mode
MintSettingsOfEnvelopes(mode) == JwtCredentials \cup {"returnUrl", "template"}

\* HOSTED_FORM_SETTINGS and ENVELOPE_SETTINGS
MintSettings(mode) ==
  JwtCredentials \cup {"returnUrl", IF mode = "webform" THEN "webForm" ELSE "template"}

\* requiredSettings, of the service's own adapter
AdapterSettings(env) ==
  JwtCredentials \cup (IF env.database THEN {"template"} ELSE {})

\* providerFromEnv finds the name among the registry's own entries
Registered(env) == env.provider \in {"mock", "docusign"}

\* The DocuSign entry of the default registry: a configuration that can be read,
\* with all that was declared required
EntryThrows(env, target, required) ==
  KeyThrows(env, target) \/ Missing(required, Present(env)) # {}

-----------------------------------------------------------------------------
(* The adapter *)

\* ESignProvider, and the two names of the operation a provider may do without
Port == {"createEnvelope", "getSigningUrl", "getEnvelopeStatus", "verifyWebhook",
         "parseWebhookEvent"}
HostedFormNames == {"createHostedFormInstance", "createWebFormInstance"}

\* Both adapters, DocuSign's and the mock, mint forms under both names
Adapter == Port \cup HostedFormNames

\* instrumentProvider: the wrapper passes on the deprecated name alone
Instrumented(provider) == Port \cup (provider \cap {"createWebFormInstance"})

\* supportsHostedForms, hostedFormMint: whichever name there is
MintsForms(provider) == provider \cap HostedFormNames # {}

Does(provider, operation) ==
  IF operation \in HostedFormNames THEN MintsForms(provider) ELSE operation \in provider

\* The application's own selection: a name nobody knows is the mock
Selected(env) == [name |-> IF env.provider = "docusign" THEN "docusign" ELSE "mock",
                  provider |-> Instrumented(Adapter)]

\* hostedFormProviderFromEnv, envelopeProviderFromEnv: the settings of the mode,
\* and for a form a provider that mints one
SelectionThrows(env, target) ==
  \/ env.provider = "docusign" /\ EntryThrows(env, target, MintSettings(Mode(env)))
  \/ Mode(env) = "webform" /\ ~MintsForms(Adapter)

-----------------------------------------------------------------------------
(* The posture: what a deployment does not verify *)

SessionVerified(env) == env.session # "none"

\* prefillConfigFromEnv finds a host to ask
AsksTerms(env) == env.terms # "none"

PrefillVerified(env) == AsksTerms(env)

\* Without envelopes there is no webhook to verify
WebhookVerified(env) == env.database => env.hmac

\* docuSignDemoHostsInUse
DemoHosts(env) == {h \in Hosts : env.hosts[h] \in {"unset", "demo"}}

\* describeProvider: a mock, or a provider at its sandbox, is a demo
ProviderIsDemo(env) == env.provider = "docusign" => DemoHosts(env) # {}

\* Mutant: a webhook counts as verified where no secret is configured
UnverifiedButWebhook(env) ==
  (IF ProviderIsDemo(env) THEN {"provider"} ELSE {})
  \cup (IF SessionVerified(env) THEN {} ELSE {"session"})
  \cup (IF PrefillVerified(env) THEN {} ELSE {"prefill"})

\* postureLines: the checks whose line says "not verified"
Unverified(env) ==
  (IF ProviderIsDemo(env) THEN {"provider"} ELSE {})
  \cup (IF SessionVerified(env) THEN {} ELSE {"session"})
  \cup (IF PrefillVerified(env) THEN {} ELSE {"prefill"})
  \cup (IF WebhookVerified(env) THEN {} ELSE {"webhook"})

\* postureLines reads the whole DocuSign configuration, its key included, and
\* nothing catches what that throws
PostureThrows(env, target) ==
  env.provider = "docusign" /\ KeyThrows(env, target)

-----------------------------------------------------------------------------
(* The boot guard *)

PrefillUrlErrors(env) == IF env.terms = "badUrl" THEN {"prefillUrl"} ELSE {}

MintModeErrors(env) == IF env.mode = "unknown" THEN {"mintMode"} ELSE {}

\* The mode's selection, over the package's registry: what it throws is caught
ProviderErrors(env, target) ==
  IF ~Registered(env) \/ SelectionThrows(env, target) THEN {"provider"} ELSE {}

StrictErrors(env) == IF env.strict THEN Unverified(env) ELSE {}

RuntimeErrors(env, target) ==
  IF target = "worker" /\ env.database THEN {"runtime"} ELSE {}

\* configErrors, where it does not throw
ConfigErrors(env, target) ==
  PrefillUrlErrors(env) \cup MintModeErrors(env) \cup ProviderErrors(env, target)
  \cup RuntimeErrors(env, target) \cup StrictErrors(env)

\* validateConfig lets the environment through, and prints the banner
GuardPasses(env, target) ==
  /\ ~(env.strict /\ PostureThrows(env, target))
  /\ ConfigErrors(env, target) = {}

-----------------------------------------------------------------------------
(* createESignApp, past the guard *)

\* selectProvider: DocuSign's adapter checks its own settings
AdapterRefuses(env) ==
  env.provider = "docusign" /\ Missing(AdapterSettings(env), ServicePresent(env)) # {}

\* sessionVerifierFromEnv: the URL of the key set is looked at only here
VerifierRefuses(env) == env.session = "badJwks"

LoaderMissing(env, target) == env.database /\ ~HasLoader(target)

\* Whether an application is built at all
Builds(env, target) ==
  /\ GuardPasses(env, target)
  /\ ~AdapterRefuses(env)
  /\ ~VerifierRefuses(env)
  /\ ~LoaderMissing(env, target)

-----------------------------------------------------------------------------
(* What the routes of a running application may ask of its adapter *)

\* The operations of the provider a request can reach: the mint's, and an
\* envelope's creation over GraphQL
Reachable(env) ==
  {IF Mode(env) = "webform" THEN "createHostedFormInstance" ELSE "createEnvelope"}
  \cup (IF env.database THEN {"createEnvelope"} ELSE {})

\* What DocuSign's adapter does not do an operation without (ProviderCalls)
NeedsSetting(operation) ==
  JwtCredentials \cup
    (IF operation = "createEnvelope" THEN {"template", "returnUrl"} ELSE {"webForm"})
=============================================================================
