# Glyphux in TLA+

Glyphux is a content platform in one Go daemon (`cmd/glyphuxd`): a *composition*
declares content types; a content API stores items and their version history; a
wizard performs first setup; plugins run compiled in, in a WASM sandbox or as
supervised subprocesses; a library holds layouts, presets, bundles and media;
everything persistent is in one SQL database (SQLite or Postgres).  The modules
here model the parts where steps of several actors meet: requests that
interleave between database statements, goroutines around a subprocess or a
sandbox, boots and setups that die half-way, windows that roll over.  TLC checks
small instances; TLAPS proves every safety and action property for all of them.

Paths below are relative to the repository (`src/`).

## The system

| component | state | operations | what is hard |
|---|---|---|---|
| composition store `internal/composition` | one row: document and version | `SaveWith`, `DefineContentType`, `RemoveContentTypeGuarded` | optimistic concurrency: attempts of load, edit, compare-and-swap; a guard between load and write; lost replies |
| content `internal/content` | items; snapshots by version | `Create`, `Update`, `Rollback`, `Publish`, `Unpublish`, `Delete`, reads | two or three statements per operation, no transaction; version numbers from an earlier read |
| content types over REST and GraphQL `internal/api/contenttypes.go`, `internal/graphql` | none of their own | `PUT`/`DELETE` of a type, content mutations | two stores, each consistent, changed together |
| permissions, transports, audit `internal/permission`, `internal/api`, `internal/graphql`, `internal/audit` | sessions and roles; audit records | the gates of each route and domain call | a caller looked up at one moment and acted for at another; the same rule in three places |
| identity `internal/identity` | accounts, second factor and recovery codes, sessions, challenges, links to a provider | login, MFA, OAuth, user administration | read-modify-write on code lists; deactivation beside login; first logins that overlap |
| login limiter, AI rate limit, OAuth states | attempts in memory; counts in the plugin store; states in memory and in cookies | allow and record; charge; start and consume | check and count in separate steps; windows and restarts |
| bootstrap, setup, migrations, configuration `internal/bootstrap`, `internal/setup`, `internal/db`, `internal/config` | two databases, `glyphux.json`, `schema_migrations`, the gateway's handler, the wizard's memory | boot, submit, commit, self-heal, migrate | each step may fail or be the last before a crash; a newer daemon on the same database |
| RPC broker `pkg/runtime/rpc` | subprocess, pipes, state, channels, host server | `Launch`, `Register`, `Close` | goroutines that wait, drain and close beside an arbitrary process |
| WASM runtime `pkg/runtime/wasm` | module instances, their buffers | `Load`, `Call`, `Subscribe`, `Close` | two nested deadlines; re-entry through the event bus |
| consent, plugin loader, SDK host `internal/consent`, `internal/plugin`, `pkg/sdk` | append-only decisions; loaded runtimes; subscribers | request, decide, load, activate, emit | a check that is stale when used; a load that fails half-way; handlers that run outside of the lock |
| commerce, membership, notifications `capabilities/` | orders and subscriptions, as content items | checkout, webhook, renewal, cancellation | rewrites of whole items; repeated and late callbacks; charge, then write |
| layouts, presets, bundles, compatibility `internal/layout`, `internal/preset`, `internal/bundle`, `pkg/compat`, `pkg/contract` | documents by route; artifacts | save, check, import, compose | imports of several loads and saves beside other writers |
| marketplace and packages `internal/marketplace`, `pkg/packagefmt` | catalog, tokens | install, register, list | what a signature covers; times that change their form in a table |
| media `internal/media` | files and rows | upload, update, delete, open, transform | two stores, no transaction; an image pipeline on integers |

Interactions.  The HTTP layer looks its caller up, decodes a request and calls one
domain operation, which checks the permission again.  Content reads the
composition before it writes; the type handlers hand the composition store a
guard that counts content rows.  Setup writes the account and the composition in
one transaction and then builds and switches the application.  Capabilities
reach the domain only through the host of `pkg/sdk`, which is also what the broker
serves to a subprocess and the WASM runtime to a guest; the event bus calls
subscribers in the emitter's goroutine.

`PROJECT.json` lists every component with its status and every hazard with the
line where it bites and the properties that would catch it.

## Modules

| module | models | notes |
|---|---|---|
| `CompositionDocument` | a document as a function from types to shapes or `Undeclared`; `Valid`; what an edit makes of a copy | malformed shapes and relations to undeclared types are what `Validate` rejects |
| `CompositionStore` | the row and the requests around it, one action per statement; the mapping onto `CompositionAtomic` | `phase[c]` is the statement a request makes next, `seenDoc`/`seenVersion` its copy; the reply to a swap is a step of its own |
| `CompositionAtomic` | what the store promises: an edit happens in one step between call and answer, or not at all | a request is applied from its swap on |
| `ContentVersions` | items, snapshots, all writing operations | `req[c]` holds what a request has read; `held` is auxiliary: what each row ever held |
| `ContentTypes` | `CompositionStore` composed with content writers | every action of the store is reused; its guard counts items here; `used` and `raced` are auxiliary |
| `Access` | one content item and the accounts behind three doors: REST, GraphQL, a plugin's host | a REST request looks its caller up twice, a GraphQL request once, a plugin never; `wrote`, `stood` and `disordered` are auxiliary |
| `Accounts`, `OAuthLogin` | accounts, second factor, recovery codes, sessions, challenges, and the provider login over them | one action per statement; `proved`, `disturbed`, `raced`, `home`, `displaced` are auxiliary |
| `Clock`, `LoginLimiter`, `AiCalls`, `OAuthStates`, `Limits` | the login limiter's window, the AI budget in the plugin store, the states and cookies of provider logins, and their composition under restarts | a behaviour is one of a single part, since the three share nothing but the clock |
| `Settings` | defaults, file and environment; which database and keys follow | `cmd/glyphuxd/main.go`'s decisions |
| `Migrations` | `schema_migrations` and one transaction per version, for daemons with different lists | a commit's reply may be lost |
| `Bootstrap` | boots, submissions, commit, build, config save, switch | two databases; `chosen` is auxiliary |
| `Startup` | the daemon's life: `Settings`, `Bootstrap` and `Migrations` composed, with another daemon | every action of the three is reused |
| `RpcBroker` | `Launch`, the wait goroutine, the drain goroutine, `Register`, `Close`, the subprocess | the select is three actions; `state` and `doneCh` are set by separate statements |
| `WasmGuest` | a guest that listens, and guests, subprocess or kernel that emit | a deadline closes every module its goroutine is inside of |
| `PluginProcesses` | the two composed: an emitter in a sandbox and a WASM listener | a subprocess is heard while its server and connection live |
| `PluginConsent` | a decision: its key, its status, what it grants; what an endpoint submits and a filter leaves | operators only |
| `PluginSystem` | the load pass, decisions recorded beside it, activation, the event bus | `job` is the load under way and the grant it read; `basis` is auxiliary |
| `Billing` | orders and subscriptions over content items, and the events they emit | one action per statement; gateway and buyer are the environment |
| `Compat`, `Packages` | structural checks, the compatibility contract and merging; containers, signatures, tokens | operators only; a region is the set of block types in its tree, a digest the content it is of |
| `Imports`, `MediaFiles`, `Library` | the composition side of the library; rows, files and the image pipeline; both under one daemon | `made`, `lost`, `blamed` are auxiliary |
| `MC...` | an instance of a specification for TLC: values and symmetry | |
| `...Proofs` | the theorems about the module they are named after | see below |

Abstractions.  A shape of a type is a model value with the set of types it
relates to; item data is a model value; validation of data is a choice between
accepted and refused, since nothing else depends on it.  A database statement is
atomic.  A cancelled context, a failing statement, a lost reply and a daemon
that dies leave the rows as the statements before them made them and end the
request; where a reply can be lost after a commit, that is an outcome of its own,
and in `ContentVersions` a lost reply is the request's end after its last statement.  Ids are random in the code and never used twice in the models.  Codes,
secrets, tokens and passwords are model values or numbers in the order they were
drawn.  In a grant, a list of capabilities or permissions names each one once.  A
database may be shared with another daemon, so a decision may land between any
two steps of a load.  In `Access` one account holds at most one session; the
statements inside a domain operation are those of `ContentVersions`, and the
accounts' own those of `Accounts`.  In `Billing` a checkout starts from an order that
exists, and a webhook is of a kind the handler acts on: the others leave no row and no
event.  On an import's error the REST handler drops the list of pages (`bundles.go:100-104`),
so what an import returns is what `Store.Import` does.  In `MediaFiles` an image is a function from
points, and a quotient of floats is one of the integers it may round to.

Definitions whose comment begins with "Faulty" are plausible mistakes beside the
operator they replace.  No specification uses them; they show, one for each
property of a passing run, that the property would notice.

## Runs

| run | question | bounds |
|---|---|---|
| `composition` | does the swap loop implement atomic edits; is the loop bounded, and contention real | 2 requests at a time, 4 in all, 2 types, a relating and a malformed shape, 2 attempts instead of 50 |
| `content_versions` | what does the history still guarantee when requests overlap and die | 2 requests at a time, 5 in all, on 1 item; 2 bodies; versions up to 4 |
| `content_lost_update` | *disagreement*: is live data always recorded | 4 requests in all, none of which fails |
| `content_types` | when can an item lose its type | 1 editor (3 edits, 2 attempts each) and 2 writers (3 writes, 2 ids), all statements interleaved |
| `access_doors` | does every effect rest on standing its caller had; does each door give the one verdict; can the audit trail be replayed | 2 requests in progress, 2 in all, 2 accounts; GraphQL documents of one and two fields; a plugin with three scopes |
| `accounts_logins` | are codes used once, deactivations final, secrets proved, links stable | 2 requests at a time, 3 in all, 2 accounts, 2 identities, 2 recovery codes, 1 change of address |
| `limits_budgets` | do lockouts and budgets hold, was every admitted callback started here | 2 addresses and 3 attempts of 2 allowed; a plugin, an ungranted one and the compose endpoint with 2 calls; 2 browsers and 3 states; windows of 2 ticks within 3; 1 restart |
| `bootstrap_boots` | which promises of setup survive crashes; do migrations apply once and in order | 2 boots, 2 submissions, 2 databases, a daemon beside one with a version more; files and environments that complete, contradict and spoil each other |
| `plugin_boots` | does what a loaded plugin may do rest on a live decision about exactly its manifest; does an emit reach everyone | 2 boots, 2 decisions, 1 emit; 2 first-party plugins; 4 plugin lists: a subprocess and a guest, a guest that grew, a name listed twice, a manifest under another name |
| `plugin_processes` | does everything return and get released; is what was emitted heard; is a limit told from a cancellation and a guest's failure | 2 callers of `Close` beside `Launch`; a pipe of 1 line, 2 lines; 2 threads; a budget of each kind; a payload that fits and one that does not |
| `billing_races` | what do patches of whole items lose, and to whom; what does an acknowledged callback mean | 2 callers (symmetric), 4 requests, 1 order, 1 subscription, 3 instants, with and without the notifications plugin |
| `library_requests` | what do imports, installs, registrations, uploads and deletions leave behind when they overlap, fail and stop | 3 requests, 1 restart; 2 clients and 2 callers; 2 valid routes and one that is not; 2 block types; 7 catalog entries, two of them altered; 3 tokens; 6 transforms of a 3 by 2 image |

Why the bounds are enough.  Of the four requests in `composition`, one
creates the row, one is the victim, and two commits of the others take its two
attempts, so that contention is answered.  Races in `ContentVersions` need two requests
on one item; the others supply the creation, publication, deletion or rollback
between them.  Two writers and one editor meet at every pair of their statements.
In `Accounts` two requests meet at every pair of statements and the third
prepares what they race for: the enrolment, the link or the deactivation.  In
`Limits` three attempts of two allowed let two be admitted together and one be
locked out; a window of two ticks within three opens, closes and opens again.
`Startup` needs a boot that sets up and one that finds what was set up; two
submissions let one fail and be tried again.  `RpcBroker` needs two callers
beside `Launch` to race three calls of `Close`; the second line
fills the pipe that the long first one left without a reader.
Two threads let two deliveries overlap, or an emitter be inside of the listener
when its budget ends.  Two decisions are a grant and its replacement, before a
boot or within a load.  In `Billing`, two overlapping patches, a third request
that repeats one and a fourth that creates the item show every loss.  In `Library`
three requests are an artifact, its import and whoever writes the route
meanwhile, or two media calls and a third on the same item.

`CHECK_DEADLOCK FALSE` is in every cfg: the request, boot, decision, line and time
budgets end, a Broker that is closed has nothing left to do, and an idle daemon
waits for a request.

Fairness.  `PluginProcesses!PluginSpec`: goroutines run, timers fire, SIGKILL kills, the context
of a call ends when its budget does; the subprocess and the guests may hang for
ever and nobody need call `Close`.  The other modules state no liveness.

## What the checks and the proofs show

* *Composition store.*  Edits are linearised, no copy that passes the version test
  is stale, a request tries no more often than its attempts, and "too much write
  contention" is answered only to one that lost them all to others.
* *History.*  It holds nothing an item did not hold, every write that answers
  success is in it, and a rollback restores what it says.  An item outlives its
  type only when its create raced the removal.
* *Doors.*  Whatever a request changed, its caller held the capability at a moment
  since the request began (a plugin, the scope: one with the scope to publish may
  publish again what is published), and a get shows a draft only to who may read
  drafts; the version history is public.  REST, GraphQL and a plugin's host give the
  domain's one verdict for a role their caller had meanwhile, each in its own words, or tell of a revocation that failed.
  REST alone refuses a mutation that rides on a cookie and does not mirror its token, and
  a caller who lost the capability between its two lookups.  The audit trail
  replays to the item's state unless a record was lost or overtaken.
* *Accounts.*  A recovery code opens the way twice only on a list two verifications
  read; an enabled secret is the one that was proved unless an enrolment or a
  confirmation overlapped; no session from before a deactivation outlives its
  revocation, and a later one belongs to a login that had looked before, or to
  a challenge, which does not look; a provider login opens the account it was
  linked to.
* *Limits.*  A locked-out address stays out for its window, and only attempts that
  were admitted together exceed the limit; unless two calls of it read the same
  count, no window counts more calls of a plugin than its limit and no stretch as
  long holds twice as many, calls that read the clock before their window opened
  apart; an OAuth callback is admitted once, in time,
  in the browser that started it.
* *Startup.*  Setup is all or nothing in each database, what was set up and recorded
  is what later boots serve, each migration applies once and in order, and
  nothing is served on an incomplete schema.
* *Plugins.*  A host rests on the newest decision about exactly its manifest at the
  time its load read it; a guest gets `emit_event` only if events are still
  granted when it is instantiated; an emit runs every handler that had subscribed,
  whatever the others do.  No process or socket outlives a `Close` that
  returned, nobody waits for ever, a live subprocess always has its host, a
  delivery that nobody overlapped is heard as sent.  A failed call blames a limit only
  if one had tripped, the timeout only if that came first, and the fuel budget
  whenever that did; a budget longer than the timeout is blamed for the timeout, too,
  once it has run out.
* *Billing.*  An order or subscription loses a field only to a request that wrote
  between another's fetch and write, and a callback is acknowledged only after
  its event reached everyone.
* *Library.*  Nothing altered on its way is installed; an import changes the regions
  its page brings and no other, stores what composing it showed, returns a prefix
  of its pages as imported, and a compatible verdict is only refused for what it does not
  speak of; a token stays listed by its window; files and rows part only
  where a step failed; a transformed image fits its bounds and is the image
  turned.

Disagreement with a run: *live data that no snapshot holds*
(`content_lost_update`).  Two updates read version n; both write the row at n+1; the
second is refused its snapshot, and its data stays live though the update failed.

What the code loses to an overlap, or leaves open, the properties exempt and so do not
catch: a patch of an order or subscription between another's fetch and write; a write
of a route between an import's load and its save; a count of AI calls that two
calls read; the order of audit records.  `PROJECT.json` lists each as a hazard without
a property.

Disagreements and surprises met while modelling, for a reader of the code:

* Content.  The guard of a removal (`store.go:238`) counts before the removal
  commits, so `contenttypes.go:55`'s promise has a race.  `Delete` does not look at
  what refers to an item, so a relation may dangle.
* Broker.  `Launch` stores `StateRunning` over the `StateDead` of a plugin that
  announced itself and exited (`broker.go:256`; line 38 calls it terminal).
  `doneCh` is closed one statement before the host server is stopped.  A line over
  1 MiB ends the reading of the pipe.
* WASM.  An emitter's done context closes the listener's module
  (`runtime.go:68-71`); kernel events carry Go values, which a guest hears with
  length 0 (`runtime.go:326`); overlapping deliveries share one buffer.
  `Call` looks at the fuel budget first (`runtime.go:293`): if that is longer than the
  timeout, a guest that the timeout interrupted and that answers after both have passed
  is reported as out of fuel, where `runtime.go:55-58` and `80-83` promise the deadline
  that fired first.  `FirstLimitBlamed` states that promise; added to
  `plugin_processes`, it is violated by a budget of 2 and a timeout of 1.
* Consent.  A plugin that is refused for want of a decision is not registered, and
  the decision screen offers only what is (`loader.go:289`,
  `api/consent.go:157-160`).  An approval may leave out a network host, since
  permissions are counted by name (`consent.go:322`).
* Startup.  A failed config save after a Postgres setup is not healed
  (`committer.go:95-100`); after a failed build or a lost commit reply the same
  address is refused until the next boot (`setup.go:174`); an explicit `sqlite` is
  not explicit to `main.go:127-129`; a persisted Postgres is opened only with a
  connection string in the environment; a `custom-only` trust mode from the environment
  comes after the embedded root was merged (`config.go:117-127`), and a record of an
  operator's `trusted_keys` inherits fields it omits.  A setup commit loads the
  plugins twice, and the loader's `Close` is never called.
* Limits.  Each rebuilt handler has fresh login limiters; the compose endpoint
  builds an empty host per request (`ai.go:229`), so its rate limit never
  accumulates; a plugin could write its own budget's key.  Abandoned OAuth states are
  kept, and a callback's answer clears the cookie of a start made meanwhile.
* Doors.  A mutation over GraphQL that rides on the session cookie needs no CSRF token
  (`graphql/handler.go:15-17`), where the same one over REST is answered 403
  (`csrf.go:62-80`; `docs/implementation/completed/0008` flags it).  The version
  history shows the data of drafts to anybody (`content.go:424`, `api.go:324`), while
  `content.go:189-191` calls drafts invisible to public reads;
  `docs/implementation/completed/0006:89-98` kept it so on purpose.  A revocation that
  fails is a 500 for a deactivation that was written and recorded (`users.go:74-78`).
* Accounts.  A disable or an enrolment that races a confirmation may leave an
  account enabled with an empty or unproved secret; a stale write restores used
  recovery codes; a challenge does not look whether the account is active; a
  plugin's `Deactivate` revokes no session (`host.go:644`); `handleLogout` ignores
  errors; `ErrCannotModifySelf` is never returned.
* Billing.  A renewal retried after a failed write charges again; notifications
  expects other payload types than commerce and membership emit, so while it is
  active those requests fail after they have taken effect.
* Library.  `Save` of a layout checks the route and its preview does not, so a page for
  an invalid route previews and cannot be imported (`layouts.go:89-98`); a bundle's
  route keys are not validated, its presets are not stored by `Import`, and an empty
  `requires` passes the check; a manifest's `Themes` are never checked.  The catalog
  lists the first entry of an id and finds the last.  A token signed with an
  offset other than UTC is listed as invalid; `List` returns every row, where
  `Register`'s comment speaks of the latest.

## Proofs

Every theorem is about the specification TLC runs, for arbitrary values of the
constants within the named assumptions of the modules.

| module | theorems | inductive invariant, and why it is needed |
|---|---|---|
| `CompositionStoreProofs` | `TypeCorrect`, `DocumentValid`, `FreshCopies`, `NothingLost`, `ContentionTheorem`, `Refinement` | a copy with the row's version is the row; the copy of a client that has loaded nothing is the empty document at version 0, and versions only grow.  Contention counts: a request has seen as many foreign commits as it lost attempts.  The refinement maps a swap to `Apply`, failures to failures, the rest to stuttering |
| | `ContentRunsStore`, `OrphansRaced` | every step of `ContentTypes` is one of the store or leaves it alone, so the theorems above hold of the composition.  For orphans: a removal that counted and has not swapped still counts right, unless a create of its type is under way or overlapped it; a creator's shape is that of a document that was current |
| `ContentVersionsProofs` | `VersionsTypeOK`, `SnapshotsLive`, `SuccessRecorded`, `RollbackRestores` | what a request still has to record was live under the version it computed, and what it reports is recorded already |
| `PluginProofs` | `BrokerTyped`, `ReleasedByClose`, `ServedUntilDeath`, `HeardAsSent`, `LimitsApart`, `BlamedRightly` | which of Launch, the goroutines and the closers has released what, by the statement each has reached; what the shared buffer holds while one delivery is alone; what a call can be told of its limits follows from its age when it answers (`GuestInv`) |
| | `HostsRestOnConsent`, `EmittersConsented`, `HandlersAllRun` | the load under way carries a grant that was the newest decision when it was read, for the manifest it is loading, and nothing loaded is touched again before the next boot (`LoadInv`); an emit's handlers are those subscribed when it began, the ones before its position have run (`BusInv`) |
| `GuardsProofs` | `AddressesLockedOut`, `BudgetsHold`, `CallbacksStarted` | the failures kept for an address are all those within its window, and exceed the limit by attempts admitted before the last of them (`LoginInv`); a record that nobody wrote from a stale copy counts exactly the calls of its window, and a later window opened a window's length after an earlier one (`AiInv`); a kept state was started and not admitted, a cookie is of a start in its browser (`StatesInv`) |
| | `EffectsStoodFor`, `DoorsGiveOneAnswer`, `TrailTellsStatus` | what each gate a request has passed knew of its caller, and that what it wrote came after that gate and what role its caller had when it was answered (`DoorsInv`); the audit records in their order, the last of them telling the status unless one is still to be written (`TrailInv`) |
| `StartupProofs` | `BothOrNeitherAlways`, `SetupHoldsAlways`, `AppliedInOrder`, `WholeSchemaServed` | what the form, the committer and the boot know of the databases at each of their steps; a migration's remaining versions are what is not recorded of its list |
| `AccountsProofs` | `AccountsStayTyped`, `SecretWasProved`, `CodesOnce`, `DeactivationEndsSessions`, `LinkedAccountStays` | what a request has read, against what the tables held then and hold now: one invariant for each property, on top of the typing |
| `BillingProofs` | `PatchesStayWithin`, `AnnouncedFirst` | a fetched copy that is not stale is the row; who is about to acknowledge has emitted |
| `LibraryProofs` | `FilesHaveRows`, `InstalledAsReleased`, `TokensListed`, `ImportsKeepTheRest` | an upload's id is its own until its row is in; stored artifacts are valid and as signed; registered tokens were genuine; an import's verdict holds for this boot's blocks and its target is a layout |
| | `VerdictsAreSavable`, `ImportsReportPrefixes`, `ImagesFit` | an import's pages are its artifact's in their order, each once; how many it reports, has written and still holds, by the step it has reached; an import was refused only at the page that is its turn (`PagesInv`).  A reader's options stay those it asked with (`ImagesInv`); the rest are lemmas about the pipeline: either rounding of a quotient keeps its bound, and a turn by 180 or 270 degrees is two or three quarter turns, point by point |

Assumptions beyond types: placeholders are none of the values they stand beside;
attempts, windows and lifetimes are positive; in `Library`, whoever holds a key a
daemon may trust signs releases only.

The stored picture has at least one pixel (the ratio of an empty one is no number,
and it is left out), a transform's numbers are integers, and a GraphQL document has
at least one field.

Filtered and counted sequences are where these proofs met the prover's limits, since
induction over data is out of its reach.  Where a property depended on one, the
model numbers what it counts (failures, calls) or describes the
result (an itinerary is the ascending sequence of its routes), so that a
step adds to a set or extends a function; `PluginProofs` and `GuardsProofs` hold
the lemmas about `Append`, `Cardinality` and ranges which that takes.

Two statements turned out to be false while they were being proved, in states
that the instances of the time did not reach, and were corrected with their
models: the budget of an AI caller, when a call reads the clock before another opens
the window that counts it, and the standing behind an effect, when a plugin
with the scope to publish alone publishes what is published.

Only model-checked: `CloseReturns` and `NobodyIsHeld`, which are liveness under fairness
and out of the prover's reach, and `LiveDataRecorded`, which is refuted.  So is
`FirstLimitBlamed` in general; `BlamedRightly` proves it where no fuel budget is longer
than its timeout, which is how `runtime.go:74-75` describes the two.

## Plan

Done: every component in which steps of several actors meet, the composition of
those that interact, and a proof of every safety and action property a run checks.

Next, in this order: the second load of the handler that is built after setup;
the key-value host functions of a guest, which share the AI budget's table; the
safety halves of the liveness properties (whoever waits is owed an answer by
somebody who can still run), as invariants with proofs.

## Not modelled

Forms and SEO (formatting of single events), the release and update tooling
(sequential, file to file), the HTTP clients, the administration interface and
the JavaScript client (the server decides), theme rendering, the operating
system's services and the CLI, generated code (`generated.go`, `*.pb.go`).  Inside of
modelled components: field kinds, locales and rich text; the encodings of
images, archives and tokens; SQL placeholders; pagination, CORS, headers and the
general request limiter; more than one OAuth provider; memory limits and
the key-value host functions of a guest, nested emission, more than one call
of an emitting guest at a time; the audit records of setup and consent; the
marketplace's gate and the older package form, which no handler calls; the second
load after setup and the loader's `Close`; a plugin that writes under its own
budget's key.
