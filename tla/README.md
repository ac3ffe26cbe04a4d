# esign in TLA+

This directory specifies the parts of esign whose correctness depends on the
order in which things happen, model-checks them with TLC and proves theorems
about them with TLAPS. Paths are relative to `packages/` of the repository.

    tlc -config TokenCache.cfg MCTokenCache      # one run
    tlapm TokenCacheProofs.tla                   # one module's proofs

`PROJECT.json` lists the components, the runs with what each must find, the
mutants (a plausible bug for every property, each of which a run catches), the
source lines behind every definition, the findings, the hazards and the
theorems.

## 1. The system

esign lets an application have a contract signed by one of its users. A server
package (`esign-node`) creates *envelopes* at a provider (DocuSign), keeps them
in a database with an audit trail, and learns from the provider's webhooks how
they ended. A deployable service (`esign-service`) wraps it in an HTTP server or
an edge function, and can also *mint* signing sessions without a database. The
client packages (`esign-core`, `esign-react`, `esign-react-native`) acquire a
session from the server and drive it in an iframe, in DocuSign's SDK or in a
WebView.

A signing goes like this. The client's hook asks its *source* for a session; the
source calls the GraphQL API or a mint endpoint; the server gets a token (token
cache), asks DocuSign for an envelope and a URL, stores the envelope and returns
the URL; the client shows the page, which posts events back to the hook; the
provider posts webhook events to the server. Client and server never learn the
outcome from each other: the client believes the page, the server the webhook.

### Components

| component | state | operations | what is hard, and what makes it correct |
|---|---|---|---|
| Envelope service (`esign-node/src/envelopes.ts`) | none of its own: the Envelope and AuditLog tables | createEnvelope, getSigningUrl, handleWebhookEvent, two reads | each awaits the provider or the store between a read and a write. The trail accounts for the status; a verdict is given once and kept; a URL has a stored, owned envelope behind it; what was signed is recorded |
| Knex store (`esign-node/src/knex/`) | two tables, provider ids unique | transaction, five queries, two writes | atomicity is the database's; isolation is nobody's: no row is locked by a read or read again inside a transaction. Entries carry the date their transaction began, and are listed by it |
| In-memory store (`esign-node/src/store.ts`) | two maps | the same | its transaction puts copies back on failure, of everything: whole or not at all, and nobody else's writes with it |
| Webhook endpoint (`esign-node/src/handlers.ts`, `hmac.ts`) | none | verify, parse, hand on, answer | the answer decides whether the provider sends the event again |
| DocuSign adapter (`esign-node/src/providers/docusign/`, `http.ts`) | a client per configuration | createEnvelope, getSigningUrl, getEnvelopeStatus, web forms, retries | two calls make one envelope; a retry of a call that succeeded makes another |
| Token cache (`.../docusign/auth.ts`) | the token, the refresh in flight | getAccessToken, clearTokenCache | callers share a refresh; clear and refresh overlap. Nobody gets an expired token, everybody gets an answer |
| Mint endpoints (`handlers.ts`, `esign-service/src/mint.ts`) | none | mint a hosted form or an envelope | order of authentication, validation, prefill and provider; every failure has its own answer |
| Prefill (`esign-service/src/prefill.ts`, `.../docusign/prefill.ts`, `validation.ts`) | none | the contract on values, the host's callback, locked and client values | the host wins key by key, a failed callback never falls back to the client's values |
| Express and Fetch presets (`express.ts`, `handlers.ts`, `hmac.ts`) | none | route, read, decide, apply the policy on origins | two ways to read a request before one shared decision: they must agree |
| Session verification (`esign-service/src/session.ts`, `check.ts`) | a key set, cached by its library | token to user id; check-session, check-prefill | the check command restates the verification line by line: what it passes must be what the service takes |
| Rate limiter (`esign-service/src/server.ts`) | a Map of windows | decide, sweep | boundaries of windows, the cap under a flood. Bounded bursts, nobody refused for another's requests, bounded memory |
| Server lifecycle (`server.ts`, `vercel.ts`, `cloudflare.ts`) | listening, draining | start, close, drain | requests in flight at shutdown |
| Service application (`app.ts`, `config.ts`, `loadEnvelopes.ts`, `posture.ts`, ...) | a memoised envelope service, a posture | boot checks, load, route, stop | guards in two packages must add up to what every route needs; a strict posture read at boot must be enforced later; a load that fails, stop during it |
| Provider registry and configuration (`registry.ts`, `provider.ts`, `.../docusign/config.ts`) | built at boot | select, require settings, wrap | two registries and three lists of settings |
| Signing state machine (`esign-core/src/signing/machine.ts`) | a status, a URL, a session, an error | transition, acquireSession, resolveRestart | no guards: its callers decide what comes when |
| Web hook and screens (`esign-react/src/useESignature.ts`, `ESignature.tsx`) | the machine's state in a ref and in React, timers, a mount | sign, checkConnection, retry, restart, messages, SDK mount, unmount | awaits and listeners act on what was true earlier. Screens follow the state flow, completions name the right envelope, ceremonies are closed, nothing happens after unmount, loading and success end |
| React Native hook and screens (`esign-react-native/src/`) | the same, and probes of connectivity | the same, over a WebView | the same, and connectivity is asked asynchronously |
| Signing sources (`esign-core/src/signing/`, `withTimeout.ts`) | the SDK source's last URL; the document's script tag | start, restart, mount | a watchdog racing an answer; one source under several components; a failure that loses its reason on the way to the signer |
| Page events (`.../docusign/events.ts`, `bridge.ts`, `origin.ts`) | none | accept by origin, parse | two vocabularies, several fields, one meaning |
| Mock provider, GraphQL schema, themes and labels, tracing and scripts | none that matters here | | adapters, rendering, tooling |

The hazards, each at its line, are in `PROJECT.json`.

## 2. The modules

Mutants stand beside the definition they alter and are commented as such; they
are used by no specification here.

### Envelopes, EnvelopeLifecycle

`Envelopes` is `envelopes.ts` over the Knex store, driven by API calls and
webhook requests. **State**: `envelope` and `auditLog` are the tables; `nextId` is
an id no entry has (ids are random and no order is meant); `clock` is the database's
time, and the only order of entries is their date, which is when their transaction
began (`knex/migrations.ts:45-48`, read back by `knex/store.ts:83-88`); `call` and
`hook` are the requests in progress, each with the await it stands at, what it read
before it and when its transaction began; `provider`, `events` and `due` are the provider: what it believes, every
event it ever posted, and those no 200 has answered; `failures` counts crashes
and failed store round trips. **Actions**: every handler is cut at its awaits.
createEnvelope is CreateEnvelope (validation, up to the provider call),
ProviderCreates or ProviderCreateFails (which may leave an envelope nobody here
knows), BeginPersist, then Persist or PersistFails (one transaction with row and
entry, dated with its beginning, seen from its commit).
getSigningUrl is GetSigningUrl or RefuseRestart, ProviderUrl, AuditRestart (an entry
on its own, a transaction that begins and ends there) or AuditRestartFails. A webhook request is Deliver (any event ever posted, any
number of times, or one with a status the service does not track), ReadToCommit
or ReadToAcknowledge (the guards of handleWebhookEvent on the row as read),
BeginCommit and Commit (one transaction, on the row whatever it has become), HookFails (500) and
Acknowledge (200, the event is no longer due). Crash drops every request.

`EnvelopeLifecycle` is what the service promises of an envelope with no
requests, provider or failures in sight: created, at most one verdict, each step
recorded by one entry in the same step. `Envelopes` implements it (status of an
unstored envelope is "none", the rest is the identity) **if webhook requests
take turns**, and not otherwise.

Left out: the metadata of entries, the text of logs, the two reads
(they change nothing). A delivery that is unsigned or unreadable reaches no state;
how it is refused is in Endpoints.

### Stores

The two stores behind the service, under its writing calls (`task`): a creation
and a verdict, each a row and an entry in a transaction, and a restart, an entry on
its own. Every write of a callback is awaited, so the tasks' steps (Begin, WriteRow,
WriteEntry, Commit) interleave, and Fail ends a task between any two of them. `kind`
picks the store. In memory the writes are made in what everyone sees, and a failure
puts back the copies the transaction began with, of both collections; on Postgres
they are the task's own until it commits, a row that is being updated is waited for,
and entries have the date of their transaction's start. `committed` and `overlapped`
are bookkeeping for the properties. Envelopes has the Knex store's transaction
take effect in one step, which is what `AllOrNothing` says of it here, and dates it with
its beginning, as here.

### TokenCache

`createTokenProvider` of `auth.ts`. `cached` and `inFlight` are the closure's two
variables; `refresh` and `caller` are the asynchronous functions in progress.
One turn of the event loop is one step; the microtask of the promise's `finally`
is a step of its own. A refresh is StartRefresh, Grant (the server issues the
token), Resolve or Reject, Finally. Tokens carry the time of their issue and the
number of clears before they were asked for, which the code does not: the
properties need them. Time does not pass during microtasks, and a granted token
arrives within `MaxLatency`, assumed no longer than the margin
(`LatencyWithinMargin`): with a slower network the cache's claim would be false,
since it counts the lifetime from the arrival.

### RateLimiter

`createRateLimiter` and `sweepWindows` of `server.ts`. `windows` is the Map, with
each key's place in insertion order, which JavaScript keeps when a key's value is
replaced: OpenWindow adds a key, RenewWindow replaces an elapsed window in its old
place, CountRequest counts. The sweep at the cap (`Swept`) is part of each, as it
is part of the call. `log` and `evicted` are bookkeeping for the properties.

### SigningMachine, SigningFlow

`SigningMachine` is `machine.ts`: an operator per action of `transition`, from a
state to the next one with its effect. `SigningFlow` is what calls it: the hooks
of esign-react and esign-react-native and the buttons and views of their screens,
with the host chosen at the start (`iframe`, `sdk`, `webview`). **State**: `m` is
stateRef; `shown` is what React committed last, so what the user can click and
which listeners and effects exist; `acquiring` the calls of the source not yet
answered; `probing` and `checking` the WebView's probes; `timers` and `armed` the
success timers, of which successTimeoutRef is the last; `inbox` and `posts` what
pages posted; `sdk`, `stale` and `ceremonies` the SDK's mounts; `told` the
callbacks made. **Actions**: sign (SignOnline, SignOffline; over a WebView
SignProbes, ProbeOnline, ProbeOffline), checkConnection (CheckOnline; CheckProbes,
CheckAnswered), retry, restart, SourceAnswers, Post, Receive and Ignore,
MountOpens, StaleMountCloses, MountFails, Rerender (the host passes other
callbacks, so the SDK effect is undone and done again), Commit, Fire, Unmount. A
click's own update is committed in the same step, as React does for events of the
user; everything else is committed later, and may be acted upon before.

A session stands for its URL; of the error codes only SESSION_EXPIRED is told
apart. cancel() only calls back and is left out. A message is taken to be the
session's page's own; origins are in Sources.

### Sources

Where those sessions come from, and what the messages mean: the four sources
(`proxy`, `hosted`, `sdk`, `public`) under components that come and go. **State**:
`call` is each start() and restart() with how far it is, its watchdog, and what it
settled with; `resolvedUrl` is the one variable the SDK source keeps; `session`,
`mountedUrl` and `waiting` are the component's; `posted` and `told` what is said on
the window and what the component makes of it; `script` and `mounting` are the tag of
DocuSign's script, shared by the whole document, and the mount that awaits it or, once
it is loaded, what its `loadDocuSign` promises.
**Actions**: Start, Restart, TokenArrives and TokenFails (the host's), Answer (with
any session or refusal), Watchdog, Settle, Mount, ScriptEnds, SdkLoads, SdkFails, Leave, Post (a report
of the session's page, noise, or what the page of another component reports), Hear.
The tables of words are the code's own, so that `Interpret` may be held against what
each page means. A refusal is followed from what the resolvers reject with
(`Rejections`), over the GraphQL server (`Wire`, external) and the reading of its
code (`CodeOf`), to the copy the signer is shown (`Message`).

### ProviderCalls, Mint

`ProviderCalls` is the DocuSign adapter and the retries beneath it. **State**: `op`
is the operations under way, each with the request it is at, the attempt, and the
last error; `missing` the settings the configuration lacks. What DocuSign made for
an operation, and how many of its creations did not tell, are bookkeeping: the code
keeps neither, the properties are about them. **Actions**: an operation starts or is
refused (CreateEnvelope, CreateHostedFormInstance, GetSigningUrl,
GetEnvelopeStatus); an attempt lacks a setting, gets no token (the caller's view of
TokenCache), or is sent; DocuSign accepts, rejects, or its reply is lost, carried out
or not; a failed attempt sleeps and wakes (`withRetry`: `Failed`, `Wake`) or ends the
operation with the answer that fits. An accepted envelope goes on to its URL with
attempts of its own.

`Mint` extends it with the two mint endpoints: a request is posted, read,
authenticated, validated, put to the host where `ESIGN_PREFILL_URL` says so, put to
the provider (`Submit`, whose steps there are those of ProviderCalls), stored where
the domain is on, and answered. A value is known by who gave it, so that "the host
wins, key by key" is something to check. The mark on a request whose terms failed is
the WeakSet `termsFailures`. A request makes at most one operation, which has its name;
operations of their own stand for the other users of the provider. `conf` is fixed at
boot: the mode, whether there is a host to ask, and whether the envelope domain is
off, loaded, or failed to load (the promise is memoised, so it fails for every
request).

Left out: wording, the length of delays, replies below 400 that are not 2xx (fetch
follows redirects), and the other kinds of provider. How a body is read is Endpoints',
which values are within the contract is Contract's; here both are choices.

### Contract, Endpoints

`Contract` is the contract of a mint, by kinds of values: what a prefill and a signer
may be (`ParsesRequest`), and what a host's reply to a request for terms must be
(`Terms`). `Endpoints` is the package's two presets: which route each has for a method
and a path (`FetchRoute`, `ExpressRoute`, `ESignRoute`), how each reads a body and a
delivery, the decision they share (`MintInstanceHttp`, `DecideDelivery`), and the
headers a policy on origins yields. Both are functions of their input.

### ServiceConfig, Sessions, Service

`ServiceConfig` is what the service makes of its environment, a record of what the
code tells apart: the guard's errors (`ConfigErrors`), the posture and what of it is
unverified, the adapter's own list, the loader and the verifier, which together decide
whether an application is built (`Builds`); the provider each registry selects, wrapped
for tracing or not; which operations its routes reach (`Reachable`) and which settings
each needs (`NeedsSetting`). `Sessions` is what makes a token a user, the causes a
refusal is logged with, and the lines of check-session.

`Service` is one process on one of three targets: Build or Refuse, Preflight, Load (of
the envelope module, beside it), requests (Accept; Limit, Page, Await, Mint, Domain,
Work), Close (by SIGTERM or RunningServer.stop), Closed, Stop, and Check, the check
command in a process of its own. `ApolloKills` is external: an Apollo Server that runs
when SIGTERM comes listens for it too, stops, and raises it again. What a mint does
past its checks is Mint's, an envelope's calls are Envelopes', when a request is over
its limit RateLimiter's: here each is an outcome.

### MC modules

MCEnvelopes, MCStores, MCTokenCache, MCRateLimiter, MCSigningFlow, MCSources, MCMint and
MCService instantiate these for TLC: model values, symmetry where no liveness property
is checked, a view that leaves out what no step reads, and the constants a cfg cannot write. No cfg replaces a definition of the project.

## 3. The runs

| run | what it asks | instance, and why it is enough |
|---|---|---|
| `envelopes_concurrent` | the trail accounts for the status; URLs are the owner's; verdicts were posted, for that envelope; nothing reopens | 2 users, 1 envelope id and 2 envelopes of a provider that may report two verdicts on one (`FinalAtProvider` FALSE), 2 calls, 2 webhook requests at once, a clock that ticks once: enough for the event of the provider's other envelope or another user's request to reach the stored one, for two creations beside each other, and for two deliveries of different verdicts past their guards together, dated alike or against the order they commit in. No failures here: they are in the next run, and both at once in the proofs. States that differ only in what is due are taken for one (`WithoutDue`): no step is decided by it |
| `envelopes_serial` | one verdict, kept; the lifecycle refined; what was signed, and a void the provider still has to deliver, is recorded in the end | 1 webhook request at a time, 2 calls, 2 failures (the second may hit the recovery from the first), a provider that may report two verdicts. The clock stands still: no property here reads a date |
| `envelopes_verdict_once` | violation: the verdict is recorded twice | 2 webhook requests |
| `stores` | a transaction takes effect whole or not at all, and takes nobody else's writes with it; an entry is never listed below one committed before its call began | both stores, 3 tasks over 2 envelopes (two that overlap, a third that begins in between or after), a clock that ticks twice, so that tasks share a date or not |
| `token_cache` | joiners get a refresh begun since the last clear; one refresh until the first clear; tokens handed out are live; everyone is answered | 2 callers, 3 refreshes, 2 clears (a refresh of each era at once), lifetime 2, margin 1, latency up to 1, 4 ticks: two lifetimes |
| `rate_limiter` | bursts under twice the limit, refusal only over it, memory bounded | 4 keys, a cap of 3, 5 requests, windows of 3 in 5 ticks: a window elapses and is renewed, a key is evicted and comes back |
| `signing_flow` | the right envelope is reported; ceremonies are closed; the web follows the documented state flow; nothing after an iframe's unmount; loading ends; a completion is told | all three hosts, 2 sessions (a late answer of the first meets the second, a restart meets its original), 2 probes, 2 renders |
| `signing_unmount` | violation: a WebView's probe acts after unmount | the same, WebView only |
| `sources` | a hosted start has its watchdog and ends; an SDK session gets a page or an error; what is shown is the session's own; a restart stays on its envelope; the component is told what happened and the signer why | all four sources, 3 calls (a start of a component that left, one of the next, and a restart; or a restart of a restart), one source of each vocabulary with a pinned origin and one without, every message the pages can post |
| `mint` | one envelope unless a reply was lost; values are the host's where it has a say; failed terms mint nothing; a request called faulty left nothing; a 200 is real; every request and call ends | 1 operation, 3 attempts (the code's number: a first, a middle and a last one), 2 fields (one of the host's beside one of the client's), all 16 configurations of settings and all of the service. One operation is enough because operations share nothing but the configuration; the proofs are for any number |
| `provider_settings` | violation: a missing setting is reported after an envelope was made | the same, without the mint |
| `service` | a service that starts has what its routes need; strict is enforced; the check commands tell the verdict; the presets agree; allowed origins, and only they, can read every answer; every accepted request is answered and a container stops | every environment the code treats differently, on three targets, to the end of its start (`MCStarted`: mode, database, provider and its settings, key, hosts, session, terms, strict, HMAC); in seven of them, chosen to differ in every setting a request meets, one request of any route, origin, caller, body or delivery followed to its answer while the envelope module loads or fails and the process stops. One request is enough because requests share nothing in the process but its phase and that load; the proofs are for any number |

Deadlock is not checked: every one of these systems may stop, when the calls,
requests, sessions or ticks the bounds allow are used up and nobody has anything
left to do.

The bounds are constants (`MaxFailures`, `MaxClears`, `MaxTime`, `MaxRequests`,
`MaxStarts`, `MaxProbes`, `MaxRenders`, `MaxCalls`) or the size of a set (`Calls`,
`Hooks`, `Callers`, `Refreshes`, `Tasks`, `Requests`) and appear in the guards they
bound. `MaxPosts` is not only a bound: `esign-core/src/providers/docusign/events.ts:13`
has the page "deliver a single `sessionEnd` event", and 1 says so; in Sources the page
posts one message at a time.

### Fairness, and why the code has it

* Envelopes: a request that was received runs to its answer (the event loop; the
  database driver fails a query rather than keep it forever), and the provider
  sends an event again until a 200 (strong fairness of Deliver for a due event:
  a slot is free again and again, the code having no bound on its requests).
  Nothing obliges a client to call, a signer to sign, or a failure to happen.
* TokenCache: a request to DocuSign ends in an answer or an error (fetch gives
  up), and `finally` runs.
* SigningFlow: React commits, probes and sources answer, timers fire. Of the hosted
  source that it answers is not an assumption but what `sources` shows
  (`WaitingEnds`), from the watchdog alone; the others have the network's own
  timeouts. Nobody has to click and no page has to post.
* Sources: a timer that is set fires unless it is cleared; React runs the effect that
  mounts an SDK session; a browser loads a script or gives it up. Nothing is assumed of
  the host's token, the network, the endpoint, DocuSign's `loadDocuSign` or the signer.
* Mint: the verifier answers or rejects; the host answers within its timeout, which
  `AbortSignal.timeout` enforces; the database driver fails rather than wait forever;
  a request to DocuSign ends in a reply or an error (fetch's own limits: `client.ts`
  sets none); a delay ends. One weak fairness condition per request covers its
  service steps and its operation's.
* Service: code that has begun runs on: a start, the import of the envelope module
  (which resolves or rejects), a request, a shutdown. Nothing obliges SIGTERM to come.
* Stores and RateLimiter have no liveness property.

## 4. What the checks found

Three statements of the code about itself do not hold; the runs named *violation*
above exhibit them, and `PROJECT.json` quotes the lines.

1. **A verdict is recorded twice** (`envelopes.ts:237`, "Idempotent"). Two
   overlapping deliveries both read 'sent', and neither transaction reads again.
2. **Work after unmount** (`esign-react-native/src/useESignature.ts:70`). sign and
   checkConnection do not look at mountedRef after the probe.
3. **An envelope before the refusal** (`provider.ts:200`; its test, line 315: "before
   any request: not retried three times"). The return URL is asked for only by the
   second request, after the envelope exists, and missing it is retried.

Seen along the way, and expressed by how a definition or a property is written:

*Envelopes and stores*

* With two webhook requests and a provider that reports two verdicts,
  `TerminalIsFinal` fails too: the second commit replaces the first's status. Nor is
  the verdict listed as the newest then always the status: entries are dated when their
  transactions begin (`knex/migrations.ts:45-48`) and read by that date
  (`knex/store.ts:83-88`), and the delivery that began first may commit last. What
  holds, and is proved, is that the trail has an entry for the status, and no more
  verdicts than there are requests at once (`TrailMatchesStatus`).
* A restart may be recorded after the verdict: the status is checked before the
  provider is asked and not after (`envelopes.ts:209-214`, against the comment at 202).
* In memory, a failed transaction takes back what others wrote meanwhile
  (`store.ts:61-63`: "the same all-or-nothing guarantee a database transaction
  does"); `AllOrNothing` is claimed there of tasks that ran alone. A restart
  of a service with the mock provider and a database leaves rows whose envelopes the
  provider no longer knows.

*Token cache and rate limiter*

* A refresh under way fills the cache when it resolves, cleared meanwhile or not
  (`auth.ts:50`, "Forget the cached token", and 80). `JoinIsFresh` and
  `HandedTokenIsLive` are what is left of the promise.
* `OneRefresh` holds until the first clear. The `finally` of a refresh from before
  the clear drops the shared promise of the one after, and a third begins.
* A renewed window keeps its key's place in the Map, so the sweep may evict one that
  ends last (`server.ts:95`: "the ones closest to expiring anyway"). `BurstBounded`
  leaves out evicted clients.

*Signing*

* The WebView's sign button stays while the probe is out. A second tap starts a
  second session, whose late answer changes whatever screen there is:
  `RightEnvelope` and `FollowsStateFlow` are claimed of the web.
* The SDK's mount reports its failure though its effect was undone, so a stale
  failure hits the live session: those claims are made of an SDK host that leaves
  its signing screen alone (`OnWeb`).
* A page that posted two events in one burst (`MaxPosts = 2`) could have the
  second handled before React commits the first, and break the web's claims.

*Sources*

* `resolvedUrl` is one variable for all who share an SDK source, so of overlapping
  starts one may mount the other's form (`MountsItsSession`'s first disjunct).
* A script tag that is there but not loaded, or that failed (it stays in the document),
  makes every mount fail at once until the page is reloaded. One that is loaded but
  did not define the SDK fails every mount too.
* A mount whose script is there waits for `loadDocuSign` (`webFormsSource.ts:69`), which
  has no watchdog: the one wait with a session that `WaitingEnds` leaves out
  (`AwaitsSdk`).
* Two components of one page hear each other's messages unless their sources pin an
  origin, and each takes them for its own (`TellsTheOutcome`).
* Only the hosted source has a watchdog; the SDK source's start may wait as long as the
  network does. A lost connection reaches the signer as such only through the watchdog:
  an Apollo network error has no code. The service itself never answers
  SESSION_EXPIRED. A mint's endpoint may answer any status: the client tells all of
  them as ENVELOPE_CREATION_FAILED.

*Provider and mint*

* `shouldRetry` takes whatever is not a reply of DocuSign for worth another attempt,
  so a missing credential or return URL is tried `maxAttempts` times, though
  `http.ts:36` says "network errors, 5xx and 429". `RefusedMeansUntouched` is about
  a configuration that has its return URL.
* getEnvelopeStatus calls every refusal but a 404 an outage: `AnswersFit` says so.
* A value outside the contract in a form's terms is found by the provider's own check
  and answered 400, the client's error; in an envelope's terms it is the host's 502.
* A body that is not JSON is answered 400 before anyone asks who sent it.
* `http.ts:22` lists delays of "1s, 2s, 4s"; with three attempts there are two.

*Service*

* Apollo Server listens for SIGTERM too, stops, and raises it again, so requests in
  flight may die with the process once a database is configured (`ApolloKills`, against
  "finish what is in flight", `server.ts`). `EveryRequestIsAnswered` excepts it.
* A preflight on a limited path counts against the limiter and may be answered 429. The
  500 the HTTP server makes of a rejected application has no headers of its policy.
* The presets differ on a body that is not typed as JSON, over 64kb, or a bare JSON
  value. createESignRouter mounts the web-form mint only. The service's mock pages
  answer any method, Express's only GET.
* check-session says nothing of a token that is not valid yet, or of an issuer that is
  a list; both are refused. With a JWKS URL that is none it throws. check-prefill passes
  a reply an envelope mint would refuse (without a recipient).
* Some refusals come after the banner: a template that is missing with a database in
  web-form mode, and a JWKS URL that is none. Under ESIGN_STRICT an unreadable key file
  throws alone, before the other errors are listed.
* A failed load of the envelope module is never retried, by any request.

## 5. What is proved

All for every value of the constants that satisfies the named assumptions.

**EnvelopesProofs.** The inductive invariant is `IInv` of Envelopes: the type
invariant, an invariant per call (`CallInv`: who is about to persist alone holds a
provider id the store has not seen; who is past the store's read or write holds
an envelope of its user's), per webhook request (`HookInv`: who is about to commit
holds a posted verdict on the envelope it is about, in a transaction that began no
earlier than the envelope's creation), of the log (`LogInv`: ids are taken once, no
date is in the future), of the requests that may still write a verdict (`SlotsInv`:
these and the verdicts on record are together no more than there are requests at once),
and the store's own properties. The store
properties are not inductive alone: that a provider id stays unique needs the
calls in progress, that a stored verdict was posted needs the requests. The
argument goes through an abstraction of a step on the store (`StoreStep`: nothing,
a creation, a verdict, a restart, with a clock that does not go back), so that the
trail's properties are shown once per kind of write; `StepOfTheSlots` counts, with the
theorems on finite sets and `HooksAreFinite`.

Theorems: `TypeCorrect`; `TrailIsFaithful`, a trail begins with its one 'initiated'
entry, accounts for the status, and has no more verdicts than requests overlap (which
verdict is listed first it does not say); `StatusIsGenuine`, `UrlsAreOwned`,
`NoReopening`; and, assuming at most one webhook slot, `SerialIsFinal`,
`SerialVerdictOnce` and `SerialImplements`, by the further invariant that a row read
as 'sent' is still 'sent' at the commit (`ReadIsFresh`), which is exactly what two
slots break.

**StoresProofs.** For any number of tasks and envelopes: `TransactionsAreWhole`, what
everyone sees is what the committed tasks wrote, and `LogsListNewestFirst`. Of Postgres
the first is inductive as it stands. In memory it holds only between transactions, so
the invariant says what there is during one (`MemoryShowsOneTask`): the task's copies
are what was committed, and what everyone sees is these copies and its writes so far.
The order of the log has to be known of every copy that may still be put back as well
as of the log (`TrailsAreOrdered`); on Postgres the dates order it, and an entry is
dated when its transaction began, after the commits it began after (`DatesAreOrdered`).

**TokenCacheProofs.** From `IInv` of TokenCache (a token under way is no older than
the latency; the cache errs by the latency at most; whoever waits, waits for a
refresh that is not over and is of its own era): `TypeCorrect`, `JoinsAreFresh`,
`TokensAreLive` (from `LatencyWithinMargin`), and `SharedUntilCleared`, which adds
that until the first clear whatever is outstanding is what is shared.

**RateLimiterProofs.** `MemoryIsBounded`: the map never outgrows its cap. The
lemma behind it, `SweepMakesRoom`, is about the cardinality of what a sweep
keeps: of the keys kept, the one added first has all the others after it, and by
the sweep's rule these are fewer than the cap. `RefusedOnlyWhenOver` and
`BurstsAreBounded` count the log's entries, which no window remembers, so the
invariant `LogInv` relates the two for each client and route (`KeyInv`): a window has
counted no more requests than the log allows since it opened, and no fewer unless the
client was evicted; and any minute that ends before the window opened allowed less
than the limit, since the window of that minute was over or never full. A burst then
spans two windows at most.

**SigningFlowProofs.** `TypeCorrect`, and `CeremoniesAreClosed`: an SDK ceremony is
open exactly while its signing screen is. Inductive with `MountInv`: a mount of the
current effect exists only on a mounted component's signing screen. Three more are
about the web and for any number of sessions, under the assumption `MaxPosts <= 1`,
that a page posts one message (`events.ts:12-13`: "real integrations deliver a single
`sessionEnd` event"): `WebFollowsStateFlow`, `WebTellsRightEnvelope`, `IframeIsFinal`.
Their invariant `WebInv` says who may still move the machine: one answer of the source,
behind the loading screen; one message, of the page on the screen (`Mail`); one mount;
one timer, for an envelope whose page said that it was signed; and which step may be
taken but not yet committed by React (`Committed`).

**SourcesProofs.** `Inv` adds to the types and the watchdog's rule that a call answers
with a URL of its own (`SessionsAreTheirOwn`), that what the component has came from a
call that was asked for (`ComponentIsBehind`, which also has a mount in progress belong
to the session it was begun for), that with a session it only waits for that session's
restart (`OnlyRestartsReplace`), and that the SDK source's one URL is its last start's
while no two overlapped (`OneAtATime`). Theorems, for any number of calls:
`SourcesAreTyped`, `WatchdogsGuard`, `PagesAreTheirSessions`, `RestartsStay`.
`SignersAreTold` has two halves. Of the page: each kind of source reads each message
of its pages as what they meant, reads noise as nothing, and a foreign frame's message
as nothing where the origin is pinned (the lemmas on `Interpret`); so what is posted
and what was told agree (`Heard`). Of the call: a failure is one of a watchdog, of
nothing to restart, or of a refusal on the wire (`Explained`), and each of these has
the words of what happened. `NoneIsNoCode` only says that no code is no code.

**MintProofs**, of ProviderCalls. The inductive invariant is `CallsInv`: each
operation is `Good`, that is typed, `Counted`, `Coherent` and with an answer that fits.
`Counted` is the strengthening: while a creation is still to be answered, what DocuSign
made for it came of replies that did not tell, and is less than the attempts begun;
without it, the bound on what is made says nothing of the attempt to come. Theorems:
`OneEnvelopeUnlessUnknown`, `MadeWithinItsAttempts`, `AnswersFitErrors`, for any
number of operations and attempts (`AttemptsArePositive`).
`RefusedBeforeAnyRequestIfItCanReturn` is what is left of a promise the code breaks
(section 4): with a return URL at hand, nothing is made before a refusal. Its invariant
`UntouchedInv` adds that DocuSign is asked only with the account and credentials at hand.

**MintProofs**, of Mint. `MintImplementsCalls`: MintSpec implies the specification of
ProviderCalls, step by step, so its theorems hold under the mint
(`MintsOneUnlessUnknown`). `MintInv` says how far a request has got and what it may
hold by then (`InOrder`: no operation before the provider is asked, and one
afterwards), and gives `MintTypeCorrect`, `LockedTermsAreTheHosts` and
`FailedTermsMintNothing`, for any requests at once, any fields and any number of
attempts (`NoReplyIsNone` only says that a missing answer is not an answer).
`RefusalsLeaveNothing` and `SuccessesAreReal` relate a request's status to the
operation done for it (`Told`, in `ToldInv`): refused for good, it has no operation or
one that was refused in turn, and `UntouchedInv` tells what that one left; answered
with 200, its operation ended well, for a signer, and what it made is stored where
there is a store.

**ServiceProofs.** For any environments, requests, bodies, tokens and host's replies
(the assumptions only type them): `ServiceIsTyped`; `StartedCanMint`, from two lemmas
on what building an application means (`GuardFindsNothing`, `BuiltCanMint`: the guard's
list covers the mint's operation, the adapter's own list GraphQL's) and one on the
provider that was selected and wrapped (`BuiltDoesIt`); `StrictHolds`, whose invariant
follows a request from what the guard let start to the user and the terms its mint was
decided with; `ReportTellsTheVerdict`; `PresetsAlwaysAgree`, a statement on the routes
and decisions of both presets for every input; `OriginsAreHeld`, on every layer that
answers.

**Only model-checked**: liveness (`VerdictIsRecorded`, `EveryCallerIsAnswered`,
`LoadingEnds`, `CompletionIsTold`, `WaitingEnds`, `EveryoneIsAnswered`,
`EveryRequestIsAnswered`), which with its fairness and ENABLED is out of the prover's
reach. Every safety invariant and action property of the passing runs is a theorem,
`VerdictOnce`, `TerminalIsFinal` and the refinement of EnvelopeLifecycle for one
webhook slot, which is where they hold. The provers are trusted to be sound, and the
models to be faithful: `map` in `PROJECT.json` names the lines each definition stands
for.

## 6. The plan

Done: (a) Envelopes with EnvelopeLifecycle, TokenCache, RateLimiter, SigningMachine
with SigningFlow; (b) ProviderCalls; (c) Mint over it; (d) Stores; (e) Service over
ServiceConfig, Sessions, Contract and Endpoints; (f) Sources; each with its proofs.

Done since: (g) the theorems of every safety property the passing runs check.

Left:

h. Compositions: ProviderCalls has the token as an outcome, and over TokenCache the
   fairness of its requests would be a property of the cache; Envelopes has its
   provider's creations as one step, and the operations of ProviderCalls would refine
   them; SigningFlow's source is Sources' call. Each is worth a refinement theorem,
   as Mint's over ProviderCalls.

Each component that has a theorem worth stating has one module of proofs, but for
ProviderCalls, whose proofs are those of Mint's first part; components that are driven
together share a run.

## 7. What is not modelled, and why

* The **mock provider** is a double for tests and demos; its maps are read by test
  helpers and by its own pages only. What the service does differently with it is in
  ServiceConfig.
* **Reads** (the GraphQL queries, getEnvelope, getAuditLogs) and the GraphQL schema
  change nothing. Who may read is the ownership lookup Envelopes has for restarts.
* **Migrations** as such: the tables are modelled as they are once migrated.
* **Themes, labels, markup, banners, logs, spans** have no effect on what the system
  does. Wording is followed only where it tells the signer why a call failed.
* **Cryptography** (HMAC, JWT, the assertion for DocuSign's token) is a verdict; jose,
  Apollo, Express, Knex and React are modelled from how the code uses them.
* The **client's address** behind proxies (`proxy.ts`) is the client of RateLimiter.
* Of the adapter: `reset`, the client per configuration object of `webforms.ts`, and
  how a webhook's XML or JSON is parsed into an event.
