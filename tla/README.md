# TLA+ models of pocket-oid

pocket-oid is a small OpenID Connect provider in Rust: it signs users in with
local passwords, or sends them to a trusted upstream provider and vouches for
them ("re-authentication"), and issues authorization codes and tokens. The
upstream provider may be another pocket-oid. It has an administrator console of
its own. All state except the user and administrator tables lives in the memory
of one process.

This directory holds TLA+ modules of its stateful parts, TLC configurations that
check them on small instances, and TLAPS proofs of what they promise for
instances of any size. Paths below are relative to the repository; `src/src/…`
is the crate.

## Inventory

| part | state | operations | talks to |
|---|---|---|---|
| **AuthStore** `auth.rs` | sessions, authorization codes, pending re-authentications, pending consents: four hash maps, each in an `RwLock`, entries with an expiry | nine: create/get a session, issue/consume a code, create/consume a re-authentication, create/get/consume a consent; each purges what has expired | called by every handler of both flows |
| **Local code flow** `handlers.rs` | none of its own; the authorization request travels through the browser (`return_to`, forms) and is parsed again at each stop | `/authorize`, `/login`, `/consent`, `/oauth/token` | AuthStore, user store (awaited), client table, token template |
| **Re-authentication flow** `handlers.rs` | a transaction held by the handler between its awaits | `/authorize` of re-auth clients, `/reauth/callback/:provider`, `/reauth/consent` | AuthStore, upstream client (awaited) |
| **Upstream client** `upstream.rs` | none; 10 s timeout on every call | discover, exchange_code, validate_id_token (fetch_jwks) | the upstream provider over HTTP |
| **User store** `users.rs` | users (a loaded JSON file, or SQLite read at each login), a semaphore of verification permits | load, authenticate | blocking threads; the table is edited from outside |
| **Administrator store** `admins.rs` | SQLite `admins` with `user_version` and `credential_version` | open (create or migrate the schema), create, authenticate, enabled_admin, change_password, list | server and command line, in processes of their own |
| **Administrator console** `admin_console/mod.rs` | sessions (bounded map), recent attempts (sliding window), two verification permits | login page, login, pages behind the login, password change, logout | administrator store in blocking tasks |
| **Configuration** `config.rs` | clients, trusted providers, settings: read once, when the server starts | load_from_directory with its cross-file rules | all |
| **Application** `app.rs` | what start-up derived from the configuration: signing keys, key set, discovery document | initialize, load_signing_keys | configuration, keys |
| **Signing keys** `crypto.rs` | none | which key an algorithm takes, its identifier | application |
| **Token template** `token.rs` | the text being expanded, while a token is rendered | render: placeholders, expanded round by round; required claims | token endpoint |
| **Rest** `main.rs`, `frontend.rs`, `views.rs`, `error.rs` | none that changes | argument parsing, HTML, wording | |

What is hard about it, and what makes each part correct:

* **Stale instants and locks** (AuthStore). An operation reads the clock, then
  waits for the lock, and purges with the instant it read. Callers therefore
  purge and decide in another order than their instants. Correct means: each
  code, re-authentication and consent is handed to at most one caller, in time;
  a refusal is final; nothing is lost that has neither expired nor been handed
  out, neither to a colliding state nor to a callback of the wrong provider.
* **Answers that overtake each other, expiry, restarts** (local code flow). Codes
  yield a token exactly for the first matching, timely request; tokens are bound
  in time to a login; `prompt=login` demands a login of its own. A request is
  written into URLs and read again, and must not become another one.
* **Calls that fail, hang, or lose their browser** (re-authentication). The
  transaction is consumed before the first upstream call; the client must still
  hear exactly one outcome, or none for a reason. Codes and states that a
  provider mixes up must not authenticate anybody for the wrong request.
* **Two servers that must understand each other** (configuration, application,
  upstream client). Algorithms, key files, issuers, scopes, secrets, lifetimes
  and templates are set on two sides by two operators; clocks differ; the
  upstream restarts with other keys between two calls. What starts must have
  what its clients need, what is signed must verify, what is accepted must be
  genuine, and a refusal must have a cause: the user, the network, the time, or
  the two configurations.
* **A loop over its own output** (token template). Each round scans the text the
  last one produced. Rendering must end unless a value leads back to itself, and
  the result must be the one substitution a reader of the template expects.
* **A queue for a scarce permit** (user store). No permit may be lost or doubled
  when browsers leave the queue or a running task, nobody may wait while a permit
  is free, and a verdict must be about the account as it was after the wait.
* **Two processes and kills** (administrator database). The version must always
  say which schema the file has, accounts must survive, retries must succeed.
* **Checks across awaits** (administrator console). Sessions, versions and
  passwords are checked before an await and used after it, while other requests
  change passwords, operators disable accounts and connections drop.

`PROJECT.json` lists these hazards one by one with the source line and the
properties that cover each.

## Modules

| module | models | builds on |
|---|---|---|
| `ExpiringMap` | `HashMap` with `retain(expires > now)`, `insert`, `remove` | |
| `SingleUse` | abstract: a grant is issued, then delivered once or lapses | |
| `AuthStore` | `auth.rs`, each operation in two steps | `ExpiringMap`; refines `SingleUse` |
| `CodeFlow` | the local authorization-code flow | `ExpiringMap` |
| `ReAuthFlow` | re-authentication and the calls to the provider, over time | `ExpiringMap` |
| `UserStore` | loading users, the permit queue, password verification | |
| `AdminDatabase` | opening, creating and migrating the administrator database | |
| `AdminConsole` | the console and the administrator store | `ExpiringMap` |
| `Configuration` | what start-up demands of a directory, and what it derives from it | |
| `TokenTemplate` | the rendering of claims, as operators; a reference definition | |
| `TokenIssuer` | a server: edited, started, stopped, rendering and signing tokens | `Configuration`, `TokenTemplate` |
| `Federation` | a relying server and its upstream: what is sent and how it is validated | `TokenIssuer` |
| `MC…` | small instances, symmetry sets, constraints | their component |
| `…_proofs` | theorems about the module of that name | TLAPS |

`AuthStore` shows what one operation of the store does when callers interleave
inside it. `CodeFlow` and `ReAuthFlow` use its tables with whole operations as
one step: a handler works on one entry between two awaits, and what concurrent
callers can do to that entry is what `AuthStore` is about. Where `UserStore`
decides a login, `CodeFlow` has the two steps around the await (`SubmitLogin`,
`CompleteLogin` or `AbandonLogin`). `ReAuthFlow` takes the validity of a
provider's answer as one outcome and looks at time, order and loss; `Federation`
follows a single request and looks at the contents. `Federation` has a server of
this program on both sides, so that the upstream's tokens are the ones
`TokenIssuer` makes, and beside it a provider of other make that answers anything.

Definitions carry the names of the source where they can; `PROJECT.json` maps
each to its lines. A `Seeded fault` is a variant of the definition that follows
it, with a plausible bug; it is not part of any specification. Each property is
checked to reject one of them.

### AuthStore

State: the four maps, `calls` (what each worker is in the middle of, with the
instant and the identifiers it has drawn), the clock. `Call` is the unlocked
half of every operation: `Utc::now()` and the UUID. One action per method is the
locked half: purge with the *call's* instant, then insert, look up or remove. A
re-authentication is filed under the caller's `state` and named by its nonce, as
a state can be used again after it is gone. History: what was ever stored, how
often each grant was delivered, which keys were refused.

### CodeFlow

One browser with one cookie jar and any number of tabs. `pages` are links and
forms that can be used again at any time, also after a restart; each carries the
request it would send, and, as history, the request the client originally made.
`logins` are `POST /login` in progress: verifying, answered (session created,
`Set-Cookie` under way), received. Requests keep `prompt=login` as a flag, a PKCE
challenge as the verifier it was derived from, and a `state` as URLs tell states
apart: plain text, or text with a number sign, or text with an ampersand and
perhaps further parameters after it.

The trip through `return_to` is modelled by what it does to these, as the code
escapes spaces only. `Parsed` is `build_authorize_return` and
`parse_authorize_return`: what follows an ampersand becomes parameters, and of two
with one name the later counts. A consent form is read like this, and a login form
too if its prompt changes (`AfterLogin`). The redirect after a login is read by the
browser, which keeps what follows a number sign to itself, and by axum's `Query`
(`Followed`), which refuses a parameter that comes twice (`ComesTwice`). The client
at last reads the text of the state only. A code therefore `Answers` the client's
own request if its state is plain, and otherwise the request that the server read
last: `x&code_challenge=z` binds the code to `z` when the client sent no
challenge. `ExchangeOutcome` says which token request gets a token in both cases,
and `StateComesBack` is the finding. `Restart` empties the memory and may bring
other client policies.

### ReAuthFlow

`calls` are handlers waiting for the provider: `discovering` (before the
transaction is stored), `exchanging` and `validating` (after it was consumed).
Every call is answered (`BeginReauth`, `ExchangeCode`, `ValidateIdToken`), fails
or times out (`Fail`), loses its answer (`ExchangeLost`) or its browser
(`Disconnect`). `Tick` does not pass a call's timeout, as the HTTP client ends it
by then. The provider is free: it lets users in repeatedly, and redirects with
any of its codes, or an error, for any state. `Loads` is the validation of
provider identifiers in `config.rs` that keeps subjects of providers apart.

### UserStore

A server has its users from `users.json`, which it reads when it starts
(`users`), or from the SQLite table, which it reads at each login; `Source` is
where it looks. `FileUsersLoad` and `SqliteUsersLoad` are what each demands before
the server starts: credentials of a supported scheme, unique keys, somebody who
is enabled. Operators edit the users at any time, within what the file format and
the table's constraints let them write, so a row can be broken after start-up:
such a login fails with an internal error (`Failed`).

A login takes a permit or joins the semaphore's queue of waiters (tokio wakes them
in order and hands the permit over), then `Spawn`, `LookUp`, `Verify` of one
blocking task. A browser may leave in the queue, with a permit it has not used, or
while the task runs; the task then goes on with its permit. `Stop` ends the
process with all logins. `truths` is the history of verdicts that were right at
some time since a login has its permit.

### AdminDatabase

Each process inspects the version outside a transaction, then creates or migrates
in one that takes SQLite's write lock, sets the version and commits, or fails, or
waits for the lock until its busy timeout. `Kill` rolls back what was not
committed. Found files are those of version 0 (none), 1, 2 and an unknown 3.

### AdminConsole

`requests` are handlers at their awaits: before and after each blocking task, and
with a reply under way. The cookie of a request is the browser's when it was sent;
the reply's cookie takes effect when it arrives. A CSRF value belongs to one
session and is named by its token. The blocking task keeps the permit when its
handler is dropped (`connected`). `admins` is the table: a password stands for its
hash, and the version grows with each change. History: what each session was
created from (`verified`), when each Argon2 task was started (`starts`).

### Configuration

A configuration directory is a record: provider settings, clients in their order,
trusted providers, whether the users load, a template, and the key files. `Loads`
is `load_from_directory` (unique enabled clients, unique providers, re-auth
clients that name one, `openid` among their scopes); `SigningKeysLoad` is
`load_signing_keys`, with the default path that only the provider's own algorithm
may use, and no key for two algorithms. A server that starts keeps the directory;
`JwkSet` and `Discovery` are what it publishes. `Suits` is what start-up looks at
in a key, among it the size of an RSA key for PS256; `CanSign` is what ring looks
at when jsonwebtoken signs: RSA keys of 2048 to 4096 bits, for either algorithm.
Start-up therefore accepts keys that do not sign, an RSA key of 1024 bits for RS256
among them, although the repository's README says that it rejects "missing or
incompatible" keys; `StartupSuffices` says how far what it checks goes. A time to live is a `u64`
(`Word` values), and `AsSigned` is `ttl as i64`.

### TokenTemplate

A text is a sequence of symbols, in which `$`, `{` and `}` stand for themselves.
`IsPlaceholder` and `Whole` are the case of a string that is one placeholder and
keeps the type of its value; `ExpandFirst` is one round of the loop over other
strings: find the first `${`, the first `}` after it, put the value in, and start
over on the result. A placeholder without end, an unknown name, or a structure in
the middle of text is an error. A string that begins with one placeholder and ends
with another is taken for a whole one with a strange name, as the code takes it.
`Pass` is the reference definition: what a pass over the source makes of it from
each place on, as a recursive function, and `OnePass` is all of it, every
placeholder replaced once. `Complete` rules out loose dollars: with them a value,
even an empty one, can join its neighbours to a placeholder that nobody wrote, and
the loop then computes something else. `LeadsInto`, `Acyclic`, `Expands` and
`Renders` say, by which names lead to which and not by running the loop, for which
values it ends and succeeds.

### TokenIssuer and Federation

`TokenIssuer` is a server over an operator's plan, a directory before and after
one edit: `Edit`, `Start` (or a directory that does not load, and no start),
`Stop`. A token request (`IssueToken`) is rendered one string and one round at a
time (`RenderString`, `ExpandString`) and signed (`Sign`, which fails on a key that
does not sign). `HasExpiry` is the sum of the clock and the lifetime, which the
calendar may not have. `Federation` adds a relying server (`party`, with a clock
that differs by `skew`) and its request: `BeginReAuth` compares the discovery
document's issuer with the configured one; `SignIn` is the user at the upstream,
which answers an unknown client or redirect URI itself (`Redirects`) and sends any
other fault back (`Authorizes`: response type, scopes, PKCE); `Deny` is the user
who says no there, or whom a provider further up does not identify; `Exchange`
checks the code with its expiry, the secret, the redirect URI, PKCE and the
lifetime, and starts the upstream's work, `ReceiveTokens` takes its answer, `FetchKeys` and
`ValidIdToken` choose the key and check it, the issuer, audience, times, nonce
and subject. `ReceiveForeign` is the other provider, whose tokens and key sets
come from lists of things that are right or wrong in one respect.

## Runs

All runs are exhaustive on their instance. Identifiers of one kind are
interchangeable, so safety runs use symmetry where there are several; the runs
with liveness use none. Time limits are 1 or 2 ticks, and the clock runs beyond
every limit a property of the run mentions.

| run | shows | bounds, and why they do |
|---|---|---|
| `auth_store` | `TypeOK`, `ConsumedAtMostOnce`, `RefusalIsFinal`, `NoPrematureLoss`, `DeliveredInTime`; implements `SingleUse` | two callers suffice for every race, two states, nonces and providers for collisions and misdirected callbacks; the clock reaches the expiry |
| `code_flow` | `ExchangeOutcome`, `TokenSoonAfterLogin`, `PromptedLogin`, `PkceEnforced` | the constraint `TwoTabsOrAnyState` joins two slices. Two clients (one with consent, one without) with a request each, one of them with `prompt=login` and a state that brings a challenge, and two logins in flight, in one process; and one request of one client, any of fifteen (with and without a challenge or a prompt, and a state that is text, has a number sign, or an ampersand with nothing, a challenge, a prompt or the other client after it), with a login in each of two processes and a restart that makes PKCE a duty or ends it. Two verifiers to confuse, one code, one user (whose token it is shows with the sessions); the clock ends with the two lifetimes |
| `reauth` | `ClientHearsOnce`, `NothingVanishes`, `SoonAfterRequest`, `AuthenticatedForThisRequest`, `SubjectsAreDistinct` | the constraint `OneOverTimeOrTwoAtOnce` joins two slices: one transaction over time, with two handlers, two upstream codes, two consents and two codes (enough to answer it twice if that were possible), both limits, two timeouts and a restart; and two transactions of two providers at one instant, with subjects that would collide if a provider's name held a colon |
| `user_store` | `PermitsBalanced`, `WaitsOnlyWhenBusy`, `VerdictIsRecent`, `EveryLoginIsAnswered` | three logins and one permit: two wait, so their order and the hand-over show; both providers, and tables with every kind of user the loading rules tell apart |
| `admin_database` | `VersionTellsTheSchema`, `AccountsSurvive`, `RetriesSucceed` | three processes, two kills, every version of the file |
| `admin_console` | `CurrentCredentialAccess`, `ChangesAreProven`, `RateLimited`, `PermitsBalanced`, `SessionCapacity`, `SessionsEndForAReason` | two requests, two permits, two attempts in a window, two sessions of three tokens: every limit is reached. `OneAdminOrTwoForAWhile` joins one administrator through expiry, restart and two password changes (with at most three verifications, and two ticks or a tick and a restart), and two administrators for a while; `InOrder` takes interchangeable tokens in their order |
| `federation` | `TokensVerify`, `StartupSuffices`, `RenderedInOnePass`, `AcceptedIsGenuine`, `RefusalsHaveReasons`, `RequestsAreAnswered` | 40 plans of an upstream, each unusual in one thing (keys, among them too short and too long ones, clients with their secrets, redirect URIs, response types, PKCE and lifetimes, templates, issuer, an upstream of its own, an edit before a restart), and eleven relying servers that differ in clock, algorithms, scopes, issuer, PKCE. `OneSideUnusual` leaves out pairs in which both are unusual in unrelated things; `ForeignAlone` leaves one idle upstream beside the other provider, which shares no state with it. `MaxText` is longer than every text that is rendered without a cycle. Codes and tokens expire after one tick of two, and lifetimes of 6 and of `Word` - 1 = 15 ticks lie beyond the calendar (`MaxDate` = 5) and below zero |

Five runs show where the code and what the repository says about it differ; each
is recorded under "findings" with the quoted line.

| run | what TLC finds |
|---|---|
| `code_flow_fresh` | two logins of one browser, the prompted one answered first: the late `Set-Cookie` of the older login decides the session that the `prompt=login` request is answered from |
| `code_flow_state` | a `state` with `&` comes back truncated after the login page, since only spaces are escaped (and what follows is read as parameters) |
| `admin_tabs` | two tabs that open the login page before either has its cookie: the form of one is refused although its session lives |
| `admin_database_race` | two processes read version 1, the second adds a column that is there by then: its command fails (running it again succeeds) |
| `federation_issuer` | an issuer configured with a slash at its end: the discovery document names it without the slash, ID tokens with it, so whichever a relying server is configured with, it meets the other and refuses |

`CHECK_DEADLOCK` is on throughout: no instance can stop.

## Fairness

Three specifications assume any.

* `UserStore!FairSpec`: weak fairness of `Spawn`, `LookUp` and `Verify` of each
  login. A handler that has its permit is polled by the runtime, a blocking task
  runs to its end; there is no fairness of browsers, operators or the arrival of
  logins. That the longest-waiting login gets the permit is not assumed but
  follows from the queue.
* `AdminDatabase!FairSpec`: weak fairness of the progress of a running process,
  and of running a failed command again; the second is the premise of
  `RetriesSucceed` ("whoever keeps trying"). Kills are bounded, so they end.
* `Federation!FairSpec`: weak fairness of `Work`, the thread that renders a token.
  Nothing is assumed of operators, browsers or the network. That rendering ends
  does not follow from fairness alone: for values that lead back to themselves it
  does not end, so `RequestsAreAnswered` has `Acyclic` as its premise.

No liveness is claimed for the two flows: every step of theirs waits for a
browser, and that a call to the provider ends is what the HTTP timeout says,
which `Tick` takes over.

## Proofs

The theorems hold for any sets of identifiers, users, clients, providers,
browsers and requests, any limits and lifetimes, and runs of any length.

| module | theorem | statement |
|---|---|---|
| `AuthStore_proofs` | `TypeCorrect`, `AtMostOnce`, `Refusals`, `Retention`, `Timely` | `[]TypeOK`, `[]ConsumedAtMostOnce`, `[]RefusalIsFinal`, `NoPrematureLoss`, `DeliveredInTime` |
| | `Refinement` | `Spec => ImplementsSingleUse` |
| | `Promise` | the store keeps what `SingleUse` promises (lemma `Once`): each grant it spends was delivered exactly once |
| `CodeFlow_proofs` | `TypeCorrect`, `Outcome`, `SoonAfterLogin`, `Prompted`, `Pkce` | `[]TypeOK`, `[]ExchangeOutcome`, `[]TokenSoonAfterLogin`, `[]PromptedLogin`, `[]PkceEnforced` |
| `ReAuthFlow_proofs` | `TypeCorrect`, `HeardOnce`, `Vanishing`, `Authenticated`, `InTime`, `Distinct` | `[]TypeOK`, `[]ClientHearsOnce`, `[]NothingVanishes`, `[]AuthenticatedForThisRequest`, `[]SoonAfterRequest`, `[]SubjectsAreDistinct` |
| `UserStore_proofs` | `TypeCorrect`, `Balance`, `NoLostWakeUp`, `Recency` | `[]TypeOK`, `[]PermitsBalanced`, `[]WaitsOnlyWhenBusy`, `[]VerdictIsRecent` |
| `AdminDatabase_proofs` | `TypeCorrect`, `Versions`, `Survival` | `[]TypeOK`, `[]VersionTellsTheSchema`, `AccountsSurvive` |
| `AdminConsole_proofs` | `TypeCorrect`, `Balance`, `Capped`, `Limited`, `CurrentAccess`, `ProvenChanges`, `SessionsEnd` | `[]TypeOK`, `[]PermitsBalanced`, `[]SessionCapacity`, `[]RateLimited`, `CurrentCredentialAccess`, `ChangesAreProven`, `SessionsEndForAReason` |
| `Federation_proofs` | `TypeCorrect`, `Verifiable`, `Sufficient`, `Genuine`, `Reasons`, `OnePassRendered` | `[]TypeOK`, `[]TokensVerify`, `[]StartupSuffices`, `[]AcceptedIsGenuine`, `[]RefusalsHaveReasons`, `[]RenderedInOnePass` |
| | `Invariance` | `[]IInv`, all parts of which hold together |
| `ExpiringMap_proofs` | lemmas | what purging, inserting and removing do to a table; the modules with tables rest on them |

Each module proves `Invariance`, that an inductive `IInv` holds always, with one
lemma per action or kind of action, and derives the properties from it (in
`Federation_proofs` the properties rest on `Core`, its part about who works for
whom, and `Invariance` collects the rest). Assumptions are those of the modules:

* `IdsDisjoint` and `TtlsAreNaturals` (`AuthStore`), `ParametersAreWellFormed`
  (`CodeFlow`, `ReAuthFlow`, `UserStore`, `AdminDatabase`), `LimitsArePositive`
  (`AdminConsole`): constants are of the kinds the code's types give them.
* `RequestsAreFinite` (`UserStore`, `AdminConsole`): a server has finitely many
  requests in progress, without which permits cannot be counted.
* `WordIsPositive` (`Configuration`), `BoundsAreNatural`, `SubjectsAreTexts`,
  `PlansAreDirectories` (`TokenIssuer`) and
  `PartiesAreServers`, `JwksAreLists`, `NoneIsNoValue` (`Federation`): directories
  are what deserialization leaves of the files (`IsDirectory`: an issuer is a host
  with or without a slash, an algorithm one of three, a time to live a `u64`, a
  key has a public half), users have names (`users.rs` refuses empty
  ones), a key set is a list, and an absent setting is no value. Nothing is assumed
  of what operators write into a directory beyond that, nor of the other provider.

That drawn identifiers are new is part of the specifications.

What the invariants add to the properties, and why:

* **AuthStore.** `ReadInThePast`: a caller's instant is not later than the clock,
  or a purge could take what has not expired. `DrawnOnce`: an identifier drawn by
  a call in progress is not stored and not drawn by another, or an insert could
  bring a delivered grant back. `OneStatePerNonce`: two pending transactions never
  share a nonce, or one could be consumed under one state and stay under another.
  `EntriesWereStored`: what is in a table was put there. The refinement maps a
  grant to *live* when it is in a table, *spent* when it was delivered, *lapsed*
  when it was stored and is neither.
* **CodeFlow.** The chain from a request to its token, link by link: pages keep
  what a token request is compared with as long as the state is plain, and a consent
  form is never for a prompted request (`PagesAreKept`: `Kept`, `Unprompted`), lose `prompt=login` only
  through a login for it (`PromptsAreEarned`, `LoginsHavePages`), sessions are
  logins of this process with their expiry (`SessionsAreLogins`), codes were
  granted on such a session and by the policy for the request they answer
  (`GrantsHaveSessions`), and
  a code is stored exactly while it was granted in this process, not presented and
  not expired (`CodesAreGrants`). Only the last makes "exactly the first timely
  matching request" inductive.
* **ReAuthFlow.** `Agreement`: at each place a transaction can be (table, handler,
  consent, code) its client and provider are those it began with, its user is one
  whom that provider let in for its nonce, and its instants add up to the bound.
  `OnePlace`: no transaction is at two places, counted over handlers and consents
  too, which is what makes a second answer impossible. `Accounted`: it is
  somewhere until it is lost or out of time. A validated nonce is where
  "for this nonce" becomes "for this request". `Distinct` adds what `Loads` demands
  of provider identifiers: without a colon in them, two joined subjects that are
  equal have their first colon at the same place.
* **UserStore.** `NobodyTwice`: nobody is in the queue twice, so handing over a
  permit counts once. `DownIsEmpty`: no logins without a server.
  `VerdictsAreKept`: what a login would deserve now, and what it will get for the
  user it found, are among the verdicts of its time. Permits are counted with
  cardinalities of the set of running logins.
* **AdminDatabase.** `DraftIsComplete`: the open transaction holds a schema that
  validates and all accounts; `WorkIsSupported` and `LaterStays`: nobody works on
  a file of a later release.
* **AdminConsole.** For access: a session is what its login made it
  (`SessionsAreLogins`), a page works with what it read in one (`ChecksAreLogins`),
  a login proves the password of its version (`LoginsAreProofs`: versions grow
  with each change, so equal versions mean the same password), a login knows the
  token of a session nobody is signed in to (`LoginsComeFromForms`). For the rate
  limit: attempts are in order, and the recent starts, from the last one back, are
  covered by attempts as recent (`StartsAreAttempts`); a start that would be one
  too many would find the window full.

* **Federation.** What each party may rely on while the other is reconfigured and
  restarted (`Core`): a process runs from a directory that starts (`ServerOK`), a
  rendering keeps the request it was begun for and only texts (`RenderingOK`), an
  answer was made with the effective algorithm of its client and the key for it
  (`AnswerOK`), a request names a provider the relying server trusts, and starts it
  saw (`RequestOK`, `CodeOK`), while its connection lasts the upstream works for it
  and nobody else (`OwnWork`), and the token under validation is the user's and, if
  no restart came between, made by this very process (`ValidatingOK`). Without
  `ValidatingOK` a refused token could be one of other keys, and `Reasons` would
  not be inductive. `CodeOK` says that a code carries the
  redirect URI and the PKCE choice of the provider's entry, which does not change,
  so that what is refused at the exchange is refused for the code's expiry or for
  configurations that do not fit.
  `Sufficient` takes start-up's and ring's conditions on a key apart (`UnfitKey`):
  one that loads and does not sign is an RSA key, and too long if it is for PS256.

  `Reasons` also needs that rendering succeeds when the configurations match
  (`WorkSucceeds`), with a key that signs: the names an expansion meets stay within the set that `Expands`
  names, as a replaced placeholder brings in the names of its value only
  (`CompleteExpansion`, `ExpandsOn`).

  `OnePassRendered` relates the loop, which starts over on its own output, to the
  pass: a text on the way is what the pass makes of the source up to some place,
  followed by the source from there on (`OnePassOK`). A round looks for the first
  placeholder; no value begins one and none arises where texts meet
  (`CompleteJoin`), so it is found in the rest of the source (`CompleteSuffix`), up
  to which the pass copies (`PassCopies`), and both put the same value there. What
  the recursive function `Pass` computes is unfolded once (`PassDefined`) and
  followed with least counterexamples in place of induction. Loose dollars had to be
  excluded, as TLC showed: `Note` after a `$`, with a value `{client_id}`, is a plan
  of the run.

Only model-checked: the liveness properties `EveryLoginIsAnswered`, `RetriesSucceed`
and `RequestsAreAnswered`, which are out of the prover's reach. For the last one the
proofs have the safety half: a round over a text that `Expands` does not fail
(`ExpandsOn`).

## What the models leave out

* The clock never goes back. The code uses the wall clock for its tables.
* UUIDs, states, nonces and session tokens never repeat. Hashes are one-to-one.
* In `CodeFlow` and `ReAuthFlow` an operation of the store is one step.
* In `CodeFlow`, `+` and `%` in a state (which axum and the code decode
  differently), and marks in other fields of a request: redirect URI, nonce and
  scope are plain text. `prompt` is "login" or absent. A state with a mark is not
  chosen by the models of the other flows either.
* In `CodeFlow`, scopes and claims; whether rendering a token succeeds is an
  attribute of the client. Both, and the `client_credentials` grant, are in
  `TokenIssuer`, which works on one token request at a time: rendering shares
  nothing between requests.
* Argon2 parameters and the encodings of hashes are one attribute, the scheme. In
  the console, Argon2 runs on a snapshot of the row, so reading and verifying are
  one step except where something is read again (`change_password`).
* The id and the name of an administrator are one thing. Database errors other
  than those modelled end a request as a refusal does.
* In `ReAuthFlow`, signature, issuer, audience and times of an upstream token are
  one outcome, valid or not (in `Federation` they are not); its nonce is modelled.
  The nonce and the PKCE verifier of a transaction are named by its state, with
  which they are drawn. The configuration does not change at a restart.
* In `Federation`, the relying server's directory does not change and its request
  is not stored; how transactions are stored and lost is `ReAuthFlow`. Signatures
  are external: a token verifies with the key it was signed with. Names and URIs are
  such as URLs hand on unchanged. A time beyond what `chrono` can compute with
  panics in the code and closes the connection; here that is a failure like the
  others. Of what ring demands of an RSA key only the size is kept.
* Errors of the database while a user is looked up (`users.rs`) are left out; a row
  that does not parse is modelled.
* In `Configuration`, settings that only have to be well-formed (URLs, colours,
  JSON schemas, PEM) are well-formed.
* SQLite is external: one writer, transactions that happen wholly or not at all.
  Which of two writers is told to wait and which to fail at once is not
  distinguished. The creation of the users' table is left out.
* `login_page` looks its session up before and after the account check; the
  second lookup and the decision are one step.
* `MaxVersion` bounds password changes; `MaxText` a text that grows while it is
  rendered; `MaxTime`, `MaxRestarts` and `MaxCrashes` what their names say.

Not modelled: `frontend.rs`, `views.rs`, `error.rs` (text), PEM parsing in
`crypto.rs`, routing and the health probes in `app.rs`, which keep no state, the
JSON schemas and syntactic checks in `config.rs`, and the filters of the console's
lists, which only read.

## Plan

Done, in this order: the store and its contract, with their proofs; the code
flow; re-authentication; the user store; the administrator database and console;
configuration, template, issuer and the federation of two servers; the proofs of
all components, with every safety property the runs check.

Next, in the order of what they would show:

1. `CodeFlow` with two browsers, so that a consent page and a cookie may belong to
   different users; what should then hold has to be agreed on first.
2. Marks in the other fields of an authorization request, `+` and `%` among them,
   and the same for the transactions of `ReAuthFlow`.
3. A relying server in `Federation` that restarts with another directory.
4. The filters of the console's lists (`Selection`) as operators.
