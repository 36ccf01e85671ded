# A verification project for antrea-ui

antrea-ui is a web UI for the Antrea CNI. A Go backend logs users in, keeps
their Kubernetes credentials in server-side sessions and forwards their requests
to the Kubernetes API server, the Antrea Service and the Flow Aggregator; a
TypeScript frontend (web components and a React shell) talks to it. The modules
here model the parts where concurrency, failure or time make the code hard to
test, check them with TLC on small instances, and prove the most important
properties with TLAPS for all instances.

1. [The system](#the-system) — components, state, interactions, hazards
2. [The plan](#the-plan)
3. [Modules and code](#modules-and-code)
4. [Runs](#runs), [bounds](#bounds), [fairness](#fairness)
5. [Proofs](#proofs)
6. [Disagreements found](#disagreements-found)
7. [What is not modelled](#what-is-not-modelled)

## The system

### Components

| Part | State | Operations | What is hard | What makes it correct |
|---|---|---|---|---|
| Session store (`pkg/auth/session`) | the map of sessions; per session a credential, a refresh token, last-seen and expiry times, cached transports | `Create`, `Get`, `Peek`, `Delete`, `maybeRefresh`, `doGC`, `transportFor`, `KeepAlive`, `Invalidate` | three locks; a refresh waits for an identity provider while logouts and sweeps go on; rotating refresh tokens; two caps | caps hold; a refresh is single-flight and never burns a token; nobody who comes after its end is admitted to a session; ended sessions are wiped; stale transports go |
| Static admin password (`pkg/password`, `api/account.go`) | cached salt and hash; the Secret | `Init`, `Update`, `Compare` | restarts, API failures and lost answers between Secret and cache | cache and Secret agree; an acknowledged password survives |
| Flow stream (`pkg/handlers/flowstream`) | two channels, a goroutine, an SSE handler | `Subscribe`, `StreamFlows` | a select over five channels, back-pressure, cancellation, errors that race buffered data | a gapless relay; the goroutine and the stream end |
| Access resolver (`pkg/handlers/access`, `api/access.go`) | informer index, `synced`, `probeUsable` | `Run`, event handler, `recheckClusterScopeProbe`, `NamespacesFor`, `GetAccessSummary` | rechecks overlap; events before the cache is ready; a watch that lags | the flag matches the index; no half-filled answer |
| Login and logout (`server/auth.go`, cookies) | the session cookie | `Login`, `Logout`, `createSession`, token, kubeconfig and password logins | a login replaces the caller's own session; concurrent tabs, lost responses, pages of other sites | nothing but the caller's session is replaced; no session is left behind; what pages outside the UI can do to sessions is contained |
| OIDC (`server/oauth2.go`) | lazily discovered provider, state and nonce cookies | discovery, redirect, callback, `Refresh` | provider down at startup; callback replayed, or opened elsewhere, or after a second login overwrote the cookies | a callback only completes a login of its own browser |
| Request authentication (`server/authn`) | bearer cache with TTL, cross-origin rules | `Resolve`, `Validate` | verdicts cached while a token is revoked or expires; overlapping validations | a token is let in only if the API server accepted it lately, and never past its expiry |
| Rate limiters (`server/ratelimit`) | LRU of buckets per client; global buckets | `Allow` | two requests make a client's bucket at once; requests reach it in another order than they read the clock; forged addresses | no client outruns its bucket |
| Antrea Service client (`pkg/handlers/antreasvc`), port forwarder | CA bundle and its generation, host | CA watch, transport per generation, port-forward loop, `Request` | a CA change between reading the generation and building a transport; a forward that breaks while requests are under way | no request trusts an older bundle than it found; bundle and forward recover |
| Kubernetes client factory, credentials, proxy (`pkg/k8s`, `pkg/handlers/k8sproxy`) | none of their own; use session transports | kubeconfig and token parsing, forwarding, 401/403 mapping | answers that arrive after the credential was renewed; what ends a session | only a rejected credential ends the session |
| Traceflow (`pkg/handlers/traceflow`) | Traceflow objects in the cluster | create, poll, delete, garbage collection | lost answers, a collector that decides on an old list, restarts between | the collector spares what is not its own or not old; everything it should collect goes |
| Plugins (`pkg/plugins`, `plugins.ts`) | plugin registry; a page's modules | watch events, index, files, loading | missed deletions, two ConfigMaps with one plugin, invalid updates, changes between the index and the files | a page runs what the index listed; the registry catches up |
| Process (`cmd/server`, `pkg/config/server`, `server.go`, `api/server.go`) | configuration, parts built, routes | start-up, serving, shutdown | parts that a configuration leaves out; discovery that fails; streams open at shutdown | no request meets a missing part; start-up and shutdown end |
| Browser flow client and store (`flow-stream.ts`, `flow-store.ts`) | connection state, retry timer, bounded flow table | connect, reconnect with backoff, update, evict | late callbacks of an aborted connection; table at its limit | one live connection; the table keeps the newest flows |
| Browser API, access memo, shell, pages | memoized access summary, Redux state, paging | fetch, retry, expiry, keepalive | responses that arrive after a logout | no answer of an earlier session is shown in a later one |

Generated protobuf code, small utilities and pure rendering have no behaviour of
this kind.

### Interactions

A request goes through the authenticator, which resolves its cookie with
`store.Get` (refreshing the credential on the way) or validates a bearer token
with the API server. Handlers then ask the session for a transport
(`transportFor`), keyed by upstream and, for the Antrea Service, by CA
generation. An upstream 401 comes back as `Invalidate`, a `Delete` of the
session. The flow stream is one long request: its ticks call `KeepAlive`, a `Get`
of the same session, and end the stream when it fails. The access summary
combines four calls made with the caller's credential with what the resolver's
own watch, made with the server's, has seen.

### Hazards

`PROJECT.json` lists each hazard at the line where it bites, with the properties
aimed at it: races for the refresh lock and rotated tokens; logouts during a
refresh; snapshots used after a lock is released; caps and slice bounds at their
limits; lost answers and crashes between an API call and the cache; selects with
several ready cases; events that arrive before their consumer is ready; a flag
read later, and from elsewhere, than the data it qualifies; cookies overwritten by
another tab, callbacks replayed and responses lost; verdicts cached past a
revocation; a CA bundle that rotates, and a port forward that breaks, in the middle
of a request; a collector that works from a list already out of date; parts left
out by the configuration; plugins that change while a page loads them; a signal
while streams are open. Where a property exempts a case that the code does have, the
hazard's note says which. One hazard has no property, because no document promises
anything: two changes of the password that both present the old one are both
accepted (`account.go:48`).

## The plan

In order of importance. Done:

1. `SessionStore`: every other component depends on it.
2. `PasswordStore`: the only persistent state, with crashes.
3. `FlowStream` against the abstract `FlowFeed`.
4. `AccessResolver`.
5. `LoginFlow`: logins, logout and OIDC over the cookies of browsers.
6. `BearerAuth` with `RateLimiter`.
7. `Upstream`: CA generations, transports, the port forward, the proxy and its errors.
8. `Traceflow`, with its rate limit and its collector.
9. `PluginRegistry`, and `PluginLoad`, a page that loads plugins, inside `ServerRun`,
   the process from start to end.

Every safety property that a passing run checks is also proved, except
`LoadsWhatWasListed`, which is about a loop over a sequence.

Left:

10. Operators for credential parsing, the flow filter, redirect URLs and proxy path
    rules, checked against reference definitions.
11. The browser: `FlowStreamClient` (reconnects), `FlowStore` (a bounded table), the
    access-summary memo, keepalive, paging.
12. Theorems: an abstract specification of the session store (a map whose entries
    end) and the proof that `SessionStore` implements it; operators that several
    proofs reason about (the caps' victims, the cache, the buckets) gathered in
    modules of their own; whatever of items 10 and 11 keeps state.

## Modules and code

Names follow the source; `PROJECT.json` maps every definition to its lines. A
step is what a goroutine does between two points where another can observe it.
An operator named `Def_Slip` is `Def` with one plausible slip; nothing uses it in
the model, and each property is known to notice one.

**`SessionStore`** — `sessions` is the key set of `st.sessions`; `sess[id]` is the
`Session` object, which stays reachable for a goroutine that holds it after its
eviction. Credentials are version numbers (`ver`, `live`), refresh tokens are
numbers, and `idp` is the provider's side: the token it would accept now and
whether a rotation's answer was lost. `Create` is three steps (`CreateBegin`
reads the clock before the lock, `CreateScan` picks the victims under it,
`CreateInsert`/`CreateRefused` ends); it is split because requests bump
`lastSeen` meanwhile. `Get` is `GetLookup`, `GetAlive`, the refresh
(`RefreshStart`, `RefreshSkip`, `RefreshGrant`, `RefreshFail`, `ApplyRefresh`),
`GetCheck` and `GetTouch`. `Delete` removes and zeroes in two steps; `doGC` takes
a snapshot, deletes in batches and zeroes one by one. `Peek`, which changes
nothing, is covered by `GetLookup`/`GetAlive`.

**`PasswordStore`** — every API call is a step that may fail, and a write may take
effect although its answer is lost. `Boot` is the start-up goroutine. `Crash` may
come anywhere. `Hash` is an injective function of password and salt.

**`FlowStream`**, **`FlowFeed`** — the subscriber goroutine, the two channels, and
one action per case of the handler's select, any of which may be taken when
ready. `FlowFeed` says what the browser is promised: each event it gets relays the
first message, after the one its last event relayed, that carries flows or a dropped
count above all before; so what it has got is at any time a prefix of the relay of the
messages received. A message is its number, whether it carries flows, and its
cumulative dropped count.

**`AccessResolver`** — the informer (client-go, external) applies its list in any
order and then the watch events in theirs, and notifies after it updated its
index. `recheck[p]` is `recheckClusterScopeProbe` run by `Run` or by the event
handler, with the lock held from the list to the store. A request runs through
the steps of `GetAccessSummary`; `incomplete` is what the answer says of its rules. A
failed call ends the request; that a 401 also ends the session is `SessionStore`'s
`Invalidate`.

**`LoginFlow`** — `jar[b]` is the cookie jar of a browser, `tab[t]` a request under
way, with the cookies the jar held when it was sent; a response changes the jar when
it arrives (`Deliver`) or is lost. The three password-like logins are one kind.
`OAuth2Login` redirects and sets the state and nonce cookies, `Authenticate` is the
provider's page, and every callback URL it ever produced stays in `urls`, to be
opened again by anybody (`OpenCallback`). `OAuth2Callback`, `Refuse`, `Login`,
`CreateSession`, `CreateFails`, `Resolve`, `Unauthorized` and `Logout` are the
handlers; `Lapse` stands for the ways `SessionStore` ends a session. `page` says who
made the request: the UI or the address bar, a page of another origin of the same site
(which does send the `Strict` cookie), or a page of another site. `Origin` and `Site`
are the headers the browser adds for each, with and without `Sec-Fetch-Site`. The OIDC
routes have no gate: any page may navigate to the login, and the callback comes from
the provider's site. A restart loses the sessions and the secret that signs the OIDC state.

**`BearerAuth`**, **`RateLimiter`** — a request reads the clock once (`Arrive`), then
looks its token up, spends a token of its client's bucket, has the API server review
the credential and stores the answer, with other requests and the clock between any
two. The cache is a sequence, most recently used entry first: a hit moves its entry to
the front, an answer is put there, and the last entry makes room. `ClientKeyIP` is the
choice of the client's key from the forwarding headers. `drawn` counts a client's
reviews, for `ReviewsThrottled`, less the tokens that its bucket credits twice when a
request reaches it with an older reading of the clock than the one before.

**`Upstream`** — `factory` is the client factory with its generation, made from what
the content provider `loaded` of the ConfigMap; `cached` is the session's one
transport to the Antrea Service; `fwd` is the loop of `requestsHandler.Run` with
`PortForwarder.Run` inside. A request is `GetHost`, `GetClientFactory`,
`TransportFor`, `Do` and `Return`; a proxied one is `Proxy`, `ProxyAnswer` and
`Return`. The credential of the session is a number that `Refresh` raises and the
cluster may `Reject`. `lost` is the bundle, if any, for which the factory could not be
built. The headers that the proxy's `Rewrite` removes are not modelled.

**`Traceflow`** — the routes create, poll, read and delete objects of the cluster,
whose phase the Antrea controller (external) moves on; an answer may be lost. The
collector lists, filters, and deletes one by one, any of which may fail. Names are
UUIDs: no name is generated twice, so a model name that is gone and in no list stands
for a fresh one when it is used again (`Unknown`).

**`PluginRegistry`**, **`PluginLoad`**, **`ServerRun`** — the informer reports a
ConfigMap that differs from what it has seen, a deletion sometimes as a tombstone. A
bundle is the plugin and the entry its manifest names, the names of its files, and the
edit that wrote it. `PluginLoad` is `loadPlugins` of `plugins.ts`: the page fetches
`Index`, the loop that keeps the first ConfigMap of each plugin, and then imports
`File` of one entry after the other; `touched` records the plugins whose bundles the
registry changed in between, or whose import failed. `ServerRun` extends it with
`run()`: one action per part it builds, in order, each of which may fail, then the
routes, requests by every kind of caller, signals, shutdown with its timeout, and the
restart by Kubernetes. The page gets answers while the server serves, and errors at any
time. `missing` records nil pointers that requests ran into.

## Runs

| Run | Properties | Shows |
|---|---|---|
| `SessionRequests` | `TypeOK`, `BurntTokenOnlyAfterLoss`, `RefreshOnlyWhenDue`, `TransportsCurrent`, `AdmittedWithinLife`, `EndedSessionZeroed`, `OnlyGuestsRevive` | two requests on one session of each lifetime rule, with rotation, failed and lost refreshes, bare and versioned transports, logout and sweep: the refresh is single-flight, no transport outlives its credential, nobody who came after the session's end is admitted (a request that came in time may wait past it), only a request let in before revives one, and the end of a session wipes it: a credential comes back only with a refresh that had sent its token before |
| `SessionCaps` | `WithinCaps`, `EndedSessionZeroed`, `LoginEvictsOwnOrExpired`, `RefusalIsClean` | concurrent logins of two users, the static admin and a nameless credential: caps hold, a login drops its own identity's sessions or one expired one, a refusal costs nobody a session, ended sessions are wiped |
| `SessionLiveness` | `GetReturns`, `ExpiredSwept` | every `Get` returns; sessions past their cap go |
| `PasswordChanges` | `CacheInStep`, `PasswordSurvives`, `UpdatesAnswered` | concurrent changes with failed and lost API calls and crashes; `PasswordSurvives` is about start-ups that can read the Secret |
| `PasswordRestartClaim` | `PasswordStaysChanged` | a [disagreement](#disagreements-found); TLC finds it violated |
| `FlowRelay` | `ImplementsFeed`, `CompleteAtEnd`, `LoggedOutStops`, `SubscriberEnds` | the stream implements `FlowFeed`, one that ends by itself has delivered everything, one that ends with an error all but what is in its channel, a logged-out user's stream ends, and so does the goroutine behind it |
| `AccessSummary` | `ProbeAccurate`, `NamespacesComplete`, `ProbeNoticed` | overlapping rechecks leave the flag right, a RoleBinding in the probe namespace is noticed and so is its removal, no list of namespaces from a half-filled cache |
| `LoginFlow` | `OwnLogin`, `NoSessionLeftBehind`, `OutsidersContained` | two browsers with overlapping tabs, replayed callbacks, lost responses, restarts, sibling and foreign pages: an OIDC session lands in the browser that started the login; logging in again leaves no session behind where the cookie is sent; no request ends another browser's session, a foreign page's ends none, and from outside the UI a session comes only from an OIDC login this browser started |
| `BearerAuth` | `TypeOK`, `ReviewsThrottled`, `RecentlyAccepted`, `ExpiredStaysOut` | overlapping requests, a cache of one entry, revoked and expiring tokens, forged addresses: an admitted token was accepted lately and has not expired, no client outruns its bucket |
| `Upstream` | `NoStaleTrust`, `OnlyRejectionEnds`, `BundleInstalled`, `ForwardRecovers` | rotation, a broken forward, refreshes and rejections around two requests; `OnlyRejectionEnds` admits the late 401 of a credential that a refresh has replaced |
| `Traceflow` | `CollectsOnlyStale`, `AllCollected` | the collector against clients, failures and restarts |
| `ServerRun` | `DependenciesBuilt`, `LoadsWhatWasListed`, `RegistryCatchesUp`, `NeverStuck` | 240 configurations from start to end: no request meets a part that was not built, the registry catches up, and a page that loads plugins while ConfigMaps change, requests fail and the backend restarts runs none twice, and an unchanged one as listed |

Type invariants that no run lists are [proved](#proofs).

`Upstream` follows one session to its end, after which the requests stop: it turns the
deadlock check off. No other run does.

### Bounds

Each bound is a constant used in a guard.

- Sessions: two goroutines are enough for each pairwise race (refresh/refresh,
  refresh/logout, login/login, request/sweep). `SessionCaps` has three IDs for two
  places, one per user, so that both caps are hit and eviction meets both an
  expired and a live session; that the result does not depend on the limits
  configured (a per-user limit above the global one, or none) is proved. The clock
  (`MaxTime`) runs past the credential's expiry, the idle timeout and the absolute
  cap where the properties speak of them; `MaxGrants` allows a rotated token to be
  rotated again where tokens matter and no refresh where only the caps do.
  Goroutines, and IDs where interchangeable, are symmetric; the liveness runs use
  no symmetry.
- Passwords: two changes, two salts, two faults, two restarts: a lost write
  followed by a crash followed by a change is within them.
- Flows: a channel of two places and four messages, so that it fills and the
  goroutine blocks, and dropped counts 0..2, so that a count stays, rises and
  falls.
- Access: a RoleBinding in the probe namespace and one elsewhere, whose subjects
  include users, a group and a ServiceAccount without namespace, and two changes: enough for
  a binding to come and go between two rechecks. Four callers: a user with a
  group, a ServiceAccount, the static admin and one who may list namespaces.
- Logins: two browsers and two tabs (symmetric), three logins started, two sessions,
  one fault (a lost response, a reopened callback URL or a restart): a second login overwrites the cookies of
  the first in one browser while the other has a callback URL of the first.
- Bearer tokens: two requests, two tokens of which one expires, a cache for one, a
  bucket of two, a TTL of two ticks on a clock of five: entries are evicted, renewed
  and outlived, and the bucket empties and refills. `MaxLag` is how long one request
  may take; `RecentlyAccepted` allows for it, as the code does.
- Upstream: two requests, two ports, two bundles, two credentials, one failed update:
  two requests can hold different generations, and the forward can change its port
  under both.
- Traceflow: two names, an expiry of two ticks, a burst of two, and no, a zero and a
  positive limit.
- Process: all combinations of login modes that matter. ConfigMaps of plugins are edited
  in one configuration, with token logins only (`PluginConfigs`): neither the registry
  nor the page reads the configuration. There are two ConfigMaps, which may each declare
  either of two plugins, entries that are renamed while the old file stays, an invalid
  bundle, and three edits: a ConfigMap takes over, or gives up, a plugin between index
  and file.
- `SessionRequests` has an idle timeout of 1 below a lifetime of 2, so that a session
  can idle out and be revived by a request that was let in before.

### Fairness

Goroutines inside an operation are scheduled (weak fairness on their steps), and
Go's mutexes do not starve a waiter (strong fairness on the steps that wait for
one). A refresh ends because `refreshTimeout` bounds it; API calls end in success
or failure. Go's select picks at random among the ready cases, so none that is
ready again and again is passed over for ever. gRPC returns from a call whose
context is cancelled, and net/http cancels the context of a request whose handler
returned. `AccessSummary` also assumes that the informer's list and watch make
progress. Nothing makes a client send, a provider grant, the aggregator send, a
session end, or the clock advance.

`Upstream`: the content provider's worker and the steps of the port-forward loop are
weakly fair; of the attempts to set a forward up, made every 5 seconds, one succeeds
some time (strong fairness on `Ready`), and a forward does not break each time in the
moment before its port is taken over. `Traceflow`: the collector's timer fires and its
list succeeds some time; a delete that is tried round after round succeeds some time.
There time does pass, or nothing would grow old. `ServerRun`: the steps of `run()`
and the shutdown or its timeout are weakly fair; discovery that fails again and again
meets its deadline (strong fairness); the informer reports each difference.

## Proofs

The theorems hold for every value of the constants that satisfies the modules'
assumptions: session IDs are finite in number, markers such as `Nobody` are not
goroutines or IDs, a `None` is not a record, options are integers (non-positive ones
take their defaults), defaults are positive, times, ports and bounds are natural
numbers, and configurations have the fields of `AllConfigs`.

| Module | Theorem | States |
|---|---|---|
| `SessionStoreProofs` | `TypeCorrect` | `[]TypeOK` |
| | `CapsHold` | `[]WithinCaps` |
| | `RefusalsAreClean` | `RefusalIsClean`, an action property |
| | `RefreshesAreDue` | `[]RefreshOnlyWhenDue` |
| | `TokensNotBurnt` | `[]BurntTokenOnlyAfterLoss` |
| | `TransportsAreCurrent` | `[]TransportsCurrent` |
| | `ReportedExpiriesHonest` | `[]ReportedExpiryHonest` |
| | `LastSeenForward` | `LastSeenMonotone`, an action property |
| | `GuestsCameInTime` | `[]AdmittedWithinLife` |
| | `OnlyGuestsReviveSessions` | `OnlyGuestsRevive`, an action property |
| | `EndedSessionsZeroed` | `EndedSessionZeroed`, an action property |
| | `LoginsEvictTheirOwn` | `LoginEvictsOwnOrExpired`, an action property |
| `AccessResolverProofs` | `AccessTypeCorrect` | `[]TypeOK`, the lock discipline included |
| | `ProbeIsAccurate` | `[]ProbeAccurate` |
| | `NamespacesAreComplete` | `[]NamespacesComplete` |
| `PasswordStoreProofs` | `PasswordTypeCorrect` | `[]TypeOK` |
| | `OnlyOneWriter` | `[]OnlyWriter` |
| | `CacheAgrees` | `[]CacheInStep` |
| | `PasswordKept` | `[]PasswordSurvives` |
| `LoginFlowProofs` | `LoginTypeCorrect` | `[]TypeOK`, the cap on sessions included |
| | `LoginsStayHome` | `[]OwnLogin` |
| | `NothingLeftBehind` | `[]NoSessionLeftBehind` |
| | `OutsidersAreContained` | `OutsidersContained`, an action property |
| `UpstreamProofs` | `UpstreamTypeCorrect` | `[]TypeOK` |
| | `NoStaleTransport` | `[]NoStaleTrust` |
| | `SessionEndsByRejection` | `OnlyRejectionEnds`, an action property |
| `ThrottledProofs` | `BearerTypeCorrect` | `[]TypeOK` of `BearerAuth` |
| | `ReviewsAreThrottled` | `[]ReviewsThrottled` |
| | `AdmittedWereAccepted` | `RecentlyAccepted`, an action property |
| | `ExpiredStayOut` | `ExpiredStaysOut`, an action property |
| | `TraceflowTypeCorrect` | `[]TraceflowTypeOK` |
| | `ResultsAreDone` | `[]ResultAfterDone` |
| | `CollectorSparesTheRest` | `CollectsOnlyStale`, an action property |
| `FlowStreamProofs` | `StreamTypeCorrect` | `[]TypeOK`, the capacity of the channel included |
| | `StreamImplementsFeed` | `ImplementsFeed`: the specification implies `FlowFeed`'s |
| | `StreamsEndComplete` | `CompleteAtEnd`, an action property |
| `ServerRunProofs` | `RunTypeCorrect` | `[]TypeOK` |
| | `DependenciesAreBuilt` | `[]DependenciesBuilt` |
| | `AdvertisedWork` | `[]AdvertisedModesWork` |

**Caps.** `WithinCaps` alone is not inductive: between `CreateScan` and
`CreateInsert` nothing in it says that the victims chosen leave room. `StoreInv`
adds that every session in the map has been created and a session under creation
is not in it yet (`MapInv`), that a goroutine between the two steps holds
`st.mutex` (`LockInv`), so that no other login inserts meanwhile, and that its
victims still in the map suffice (`VictimInv`). Lemmas say what each kind of
step does to the store (`StoreSteps`), that victims leave room, that removing sessions
keeps the caps, and that one insertion after an eviction does. `RefusalsAreClean`
follows from the same invariant and the clamp of the per-user limit: a user with
victims has made room, so a refusal means that there were none.

**Refresh.** `RefreshInv` adds to `StoreInv` that a goroutine in a refresh holds
the session's `refreshMutex` and its credential is still the one it found due
(`DueInv`), and that, unless an answer was lost, the token the provider expects is
the session's own or, between grant and apply, the one the goroutine carries
(`TokenInv`). `RefreshSteps` says that only the holder of `refreshMutex` renews a
credential; time only makes a due credential more due.

**Probe flag.** `ProbeInv` says which finding may be stored when: a handler's
finding is current if no notification is pending, and `Run`'s if in addition the
handler is idle; otherwise a newer recheck is still to come, and the lock
keeps it from being overtaken. `NotifyMarks` is the other half: an index that
changes in the probe namespace leaves a notification behind.

**Transports and times.** `SessionWrites` lists the five kinds of steps that write a
session; `FactsStep` shows that each leaves `FactsInv` in place: transports carry the
present credential, last-seen times have come, and the reported expiry is that of the
credential held. Last-seen times rise because the clock does.

**Guests.** `GuestInv` says that a request let in began while its session was alive.
It survives what others do to the session because its creation time and the expiry of
a credential that nothing can renew never change (`SessionKept`), and last-seen times
only rise: a moment within a session's life stays within it (`PastKept`).
`OnlyGuestsReviveSessions` follows: only `GetTouch` moves a last-seen time, and who
takes that step is a guest.

**Ends.** `EndSteps` goes through the ways a session can lose its last holder (the
map, the sweep's list, a goroutine about to wipe it, a login that did not insert it):
the step that takes it away is the one that zeroes it. An ended session is never put
back (`EndIsFinal`), and once no refresh of it has a token or an answer, none ever will:
one that starts later copies no token, and without a token the provider grants nothing
(`GoneForGood`). A refresh that sent its token before the end may bring a credential
back, which the property allows. `LoginsEvictTheirOwn` needs only the choice of victims: the user's own and,
when the map is full, one that had expired.

**Index and answers.** `CacheInv` follows a RoleBinding that is never touched: it is
in the list still to be applied or in the index, no watch event is about it, and once
the lister is published the list has been applied. `AnswerInv` says that a request at
the index has seen the lister.

**Sessions left behind.** `CleanInv` says of each point of a handler which session of
the browser the store may still hold: that of the cookie before the handler runs
(`Tidy`), none between `Delete` and `Create`, and that of the answer on its way back.
It holds of browsers whose cookies agree with what they have sent, which the history
variable `blurred` tells.

**Outsiders.** `PageInv` says how far a request of each kind of page gets: one of
another site carries no session cookie; a login by password, token or kubeconfig that
is past its gate is the UI's own; what is about to create a session is such a login or
a callback; and a session cookie, in the jar or on its way, names a session created in
that browser. So a foreign request has nothing to delete, and what a callback creates
belongs to a login whose state cookie the browser holds (`LoginInv`).

**Relay.** `RelayInv` says that `lastDropped` is the highest count received
(`DroppedInv`), that the events written, those in `flowsCh` and the one being sent
follow one another in the order of the messages (`QueueInv`), and that nothing else
received is to be relayed unless the goroutine was cancelled in its send (`RestInv`).
So a write of the handler is a `Deliver` of `FlowFeed`, the receipt of a message a
`Receive`, the handler's end a `Close`, and every other step a stutter; and a handler
that finds the channel closed and empty has relayed everything. An error is reported
only once the goroutine sends no more (`ErrInv`), so that what it overtakes is in the
channel.

**Bearer tokens.** `BearerInv` says of a request that it read the clock at most
`MaxLag` ago and that an answer it carries is newer than that (`OnTime`), of a cache
entry that it ends at most `TTL + MaxLag` after its token was accepted, and no later
than the token (`Vouches`), and of a bucket that what was drawn from it and what it
has left is no more than it was made with and refilled up to its last time
(`Balanced`). Lemmas say that moving an entry to the front, or adding one, keeps
one entry per token and alters no other (`TouchedFacts`, `AddedFacts`), and that
whatever list of addresses a client puts in front of it, the address that the ingress
appends is the key (`OwnKey`). TTL must be positive: with a TTL of 0 a request that takes no time would
be let in at the very moment of the answer, which "less than TTL ago" excludes.

**Password.** `PasswordInv` says who may write: at most one worker is past its read
of the Secret and it holds the lock, or it is the start-up goroutine and nobody else
is active (`WriterInv`); what it read is what is there (`OnlyWriter`); cache and
Secret agree outside changes, and what a start-up that could read the Secret writes
is the default only if nothing was stored (`DefaultInv`).

**Logins.** `LoginInv` follows the state cookie: every value of it that a browser
holds, sends or is about to be given is that of a login it started (`Mine`), and a
callback URL carries the state of its own login (`Genuine`). A callback is let
through only when the two agree.

**Upstream.** `NoStaleTrust` alone is not inductive: a request that reuses the cached
transport relies on what another request put there. `GenerationInv` says that a
generation stands for one bundle wherever it is held: by the factory, the cached
transport, or any request. Generations never go back, and a new one is given to a new
bundle. `CredentialInv` says that what is sent, and a 401 under way, is about a
credential that the session has held.

**Traceflow.** `CollectorInv` says that what the collector has listed was made here,
and that what it is about to delete has expired; objects do not get younger, and a
generated name is never that of an object still listed.

**Process.** `StartInv` says, for each stage of `run()`, what has been validated and
built by then; the routes are those of the parts. A caller with a session of a login
mode tells that the mode's route, and so its part, is there.

Each of these invariants was checked by TLC on the instance of its run before it was
proved. `ThrottledProofs` extends both `BearerAuth` and `Traceflow`, which share the
lemmas about `Min` and `Max` on which the buckets rest; the names of `Traceflow` are
chosen so that it can be extended beside another component.

Only model-checked, because the proof system does not reason about fairness: the
liveness properties `GetReturns`, `ExpiredSwept`, `UpdatesAnswered`, `LoggedOutStops`,
`SubscriberEnds`, `ProbeNoticed`, `BundleInstalled`, `ForwardRecovers`, `AllCollected`,
`RegistryCatchesUp` and `NeverStuck`. `LoadsWhatWasListed` is only model-checked because
what `Index`'s loop yields for every set of ConfigMaps needs induction over a sequence.

## Disagreements found

- `PasswordRestartClaim`, a bug; TLC finds the claim violated by what the code does. When
  a read fails at start-up, `K8sSecret.Read` takes any error for a missing Secret, so
  `Init` replaces the stored password by the default.

Observations without a run, met while modelling:

- The credential "is overwritten in place when the session ends"
  (`docs/authentication.md:322`), but a refresh in flight at a logout or a sweep installs
  the new credential in the session just wiped (`store.go:397`). `EndedSessionZeroed`
  says that nothing else does.
- "the SSE handler can drain all buffered flow events before errCh closes"
  (`grpc.go:84`), but the select may take an error first (`handler.go:259`).
  `CompleteAtEnd` says what that can cost.
- "A `200` means every field is authoritative" (`docs/authentication.md:243`), but before
  the resolver has synced it calls the probe usable, by design: a caller who may list
  namespaces gets a `200` whose rules are not marked although a RoleBinding of the probe
  namespace leaked into them. The answer is a rendering hint, cached for the session.
- "Logging in again replaces whatever session the caller already had" (`auth.go:40`), but
  the OIDC callback is reached from the provider's page and carries no `Strict` session
  cookie, so the old session stays until it expires.
- After a 401 "no later request with this session can succeed either"
  (`antreasvc/handler.go:185`), but the 401 for a request sent before a refresh ends the
  refreshed session.
- A request that resolved its session before a logout may cache a transport in it
  afterwards, whose cleanup is never called (`session.go:133` says that eviction calls
  it); the sweep deletes a session that was revived between its snapshot and its batch
  (`store.go:437`).
- The closed `flowsCh` may be seen before the pending error (`handler_test.go:210`
  expects the error event).
- A refused login has already cost the caller the old session; a late 401 clears the
  cookie that another tab's login has set meanwhile (`authn.go:210`).
- A link of another site to the logout route clears the cookie, though not the
  session; one of a sibling origin ends the session.
- Bearer validations are not single-flight (`bearer.go:46` expects misses to stay
  rare), a verdict's TTL starts with the answer, and requests that reach a bucket in
  another order than they read the clock set its clock back. Callers inside the
  cluster can choose their limiter's key with `X-Forwarded-For`.
- An update of the client factory that fails is not tried again before the next
  rotation (`antreasvc/client.go:97`).
- `config.go:39-41` says that verification is skipped without a CA ConfigMap; the code
  uses the system's roots. The ConfigMap is fetched even with
  `insecureSkipVerify`.
- An invalid update of a plugin's ConfigMap keeps the old bundle
  (`registry.go:18-20`).
- A signal while a flow stream is open always ends in exit code 1 after 5 seconds.

## What is not modelled

Not yet: items 10 and 11 of the plan: the browser but for its plugin loader (its flow
stream client and bounded table, the access memo, the keepalive and the pages' paging
and polling), the headers of proxied requests, the parsing of kubeconfigs, flow
filters and redirect URLs, and the conversion of flows. Not at all: flags and configuration files, development
mode, logging, rendering, generated code, cryptography (hashes are injective,
random IDs are fresh), and the memory model below Go's locks and channels. The
informer, the identity provider, the API server and net/http are external and
appear only as the code uses them; the informer's periodic resync, which only
repeats notifications, is left out.
