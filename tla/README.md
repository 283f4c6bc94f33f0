# opencode2api in TLA+

A verification project for [opencode2api](../src): a gateway, written in Rust
with axum, tokio and SQLite, that serves an OpenAI-compatible and an Anthropic
API out of a pool of upstream OpenCode accounts. Paths below are relative to the
repository's root; `proxy.rs` and the like live in `src/routes/` unless a path
says otherwise.

## 1. The system

### Parts and state

| part | code | state | operations |
|---|---|---|---|
| Request routing and failover | `proxy.rs` | none of its own: a call holds its candidate rows and its place among them | authenticate, check the model, snapshot and order the accounts, try them, mark and skip those without quota |
| Anthropic adapter | `messages.rs` | as above | the same loop for `/v1/messages`, with the payload and the stream translated |
| Account monitor | `src/account_monitor.rs` | one background task | every 60 s, query the quota of marked accounts that have a Cookie |
| Account management | `keys.rs`, `import_export.rs` | table `api_keys` | create, import by Cookie, update, delete, switch, test, query usage, import and export |
| Model switches | `models.rs` | table `disabled_models` | list, switch |
| Request logs | `logs.rs` | table `request_logs` | insert, finalise a streamed row, list, clear |
| Vault | `auth.rs`, `src/crypto.rs`, `src/state.rs` | `meta` (password hash, master key), the master key in memory, every `*_enc` column | set up, log in, change the password, encrypt, decrypt |
| Credentials | `src/middleware.rs`, `auth.rs`, `admin_tokens.rs`, `client_keys.rs` | `web_sessions`, `admin_tokens`, `client_api_keys` | issue, authenticate, revoke, expire |
| Forward proxies | `proxies.rs`, `src/state.rs` | `proxies`, a cache of HTTP clients by URL | create, update, delete, link to accounts |
| Browser login | `src/browser_login.rs` | one session slot: Chromium, Xvfb, x11vnc, a profile directory, a deadline | start, open an account, status, capture, stop, expire |
| Proxy bridge | `src/proxy_bridge.rs` | connections | authenticate the browser to a forward proxy |
| Upstream account API | `src/opencode_account.rs` | none of its own: it reads and changes an account at the upstream | discover, usage, region switch (provider routing), invitation rewards |
| Database | `src/db.rs` | one SQLite connection behind a mutex | every method is one atomic step |
| Schema migrations | `src/migration/mod.rs`, `src/main.rs` | the schema, `seaql_migrations` | fourteen migrations, run before anything is served |

Handlers are tokio tasks. They share the database, the master key behind an
`RwLock`, the client cache and the browser slot, and interleave at each `await`
and between any two database calls. The server drops a handler at an `await`
when its client hangs up. A restart keeps the tables and nothing else.

### What is hard, and what has to hold

* *Routing.* A call is decided by a snapshot that is stale as soon as it is
  taken. Each account is tried at most once, in an order that is stable per
  conversation; the call ends, and its log rows say what happened.
* *Quota marks.* Calls set them, the monitor, the API and edits clear them, from
  snapshots read before an `await`. A marked account stays out until there is
  evidence that it has quota, and does not stay out for ever after that.
* *Vault.* Four kinds of secrets under one key that is itself replaced, in
  several steps, while other requests encrypt.
* *Streams.* A row is written when a stream begins and finalised when it ends,
  whoever ends it.
* *Browser sessions.* One slot, three child processes, a deadline, a capture
  that takes long.
* *Proxies.* No foreign key holds an account and its proxy together, handlers
  write rows they read earlier, imports stop half-way, and clients are shared by
  a cache that is cleared beside the writes.
* *The upstream's settings.* A switch that is toggled rather than set, found by
  searching scripts, and posts that take effect after they were given up.
* *Upgrades.* Statements that commit one by one, and a process that may die
  between any two.

PROJECT.json lists the hazards one by one, each at its line, with the
properties that cover it or the reason why none does.

## 2. Modules

| module | what it is |
|---|---|
| `FailoverContract` | the abstract specification: which accounts a call may be offered, pass and end with |
| `QuotaFailover` | the detailed one: calls, quota marks, monitor, account management, restarts |
| `MCQuotaFailover` | values of its constants for TLC |
| `QuotaFailover_proofs` | its invariants and action properties, proved |
| `QuotaFailover_refinement` | the proof that it implements `FailoverContract` |
| `Vault` | password hash, persisted key, key in memory and every encrypted column |
| `MCVault`, `Vault_proofs` | its values for TLC; its proofs |
| `StreamLog` | the log row of a streamed reply, native and adapted |
| `MCStreamLog`, `StreamLog_proofs` | its values for TLC; its proofs |
| `BrowserSession` | the remote browser: slot, processes, profile, deadline |
| `MCBrowserSession`, `BrowserSession_proofs` | its instance for TLC; its proofs |
| `ProxyPool` | proxies, the links of accounts, imports, and the cache of clients |
| `MCProxyPool`, `ProxyPool_proofs` | its file and symmetry for TLC; its proofs |
| `UpstreamAccount` | the region switch and the rewards, changed at the upstream |
| `MCUpstreamAccount`, `UpstreamAccount_proofs` | its pages for TLC; its proofs |
| `SchemaMigrations` | the start of the gateway on any older database |
| `MCSchemaMigrations`, `SchemaMigrations_proofs` | its instance for TLC; its proofs |

### QuotaFailover

Three tables are state: `accounts` (`api_keys`: existence, switch, quota mark,
Cookie, the number of the API key it holds, cached models), `disabled`
(`disabled_models`) and `logs` (`request_logs`, kept per call). A handler is a
program counter with the rows it holds:

| `pc` | where the handler is |
|---|---|
| `new`, `access`, `route` | before authentication; before the model check; before `routing_candidates` |
| `try`, `wait` | at the head of the loop for candidate `pos`; waiting for the upstream |
| `mark`, `switch`, `giveup` | before `set_quota_exhausted`; before the loop's log row; after the loop |
| `done` | ended, with an `outcome` |

There is one action per stretch of code between two points where others can
get in. `proxy_inner` and `messages_inner` share the actions; the field
`adapter` of a call makes the difference where they differ (`LoseReply`,
`LoseFailure`). The upstream answers as it likes, except that an account without
quota left cannot serve. `PUT /api/keys/{id}` is three steps (`UpdateRead`,
`UpdateWrite`, `UpdateClear`), for it awaits between reading and writing the row
and clears the mark in a second database call. A usage refresh
(`QueryUsage`/`MonitorNext`, `ReportQuota`, `ApplyUsage`) is the same for the
monitor and the API.

What is left out: request and response bodies, headers, latencies, token counts;
the display columns of a row; forward proxies, whose loss is one of the failures
of `FailLocally`. `Weight` stands for the rendezvous hash: any function without
ties (64 bits of SHA-256 make ties negligible). Log inserts succeed; the code
ignores their failure. Keys are numbered by `issued` so that an old key can be
told from its replacement.

### FailoverContract

Variables `routable`, `offered`, `passed`, `outcome`. `QuotaFailover` implements
it under `routable <- Routable` (the rows present, switched on and unmarked),
`offered <- Ids of the snapshot`, `passed <- the candidates before pos`. It says
that the snapshot is taken of accounts routable at that moment, that none is
passed twice, that an answer of the upstream comes from an account not passed,
and that "out of quota" is told to a client only after all of them were tried.

### Vault

`hash` and `stored` are two rows of `meta`, `master` is the key in memory,
`secret` stands for `api_key_enc`, `url_enc` and `key_enc` of all rows, `cookie`
for `cookie_enc`. What matters of a ciphertext is the key it is under, and of a
key the hash whose salt it derives from, so both are that hash's number. `job`
holds what a management request is at: `setup`, `login` and `change_password` are
one action per database call or write of the key in memory (`SaveHash`, `SaveKey`
and `Install` are shared); the handlers that write secrets encrypt in one action
and write the row in another, with an `await` between. `Drop` ends a handler
anywhere (a failed write, a client that hangs up), `Restart` all of them.

The code has no lock that keeps these handlers apart, and the model has none. Every
overlap is there: a request that encrypted before a change and writes after it, a
login that saves the key of the old password after a change, two first runs, a
change that dies half-way. Each does lose secrets, so what is stated is that nothing
else does. Three variables of history say what has happened, and steer nothing:
`astray` holds the places (hash, persisted key, key in memory) whose key a change
cut at that point, an overtaken request or a second first run left behind; `strays`
the rows that an overtaken request wrote, or one that encrypted under a key left
behind; a job's `stale` says that a change overtook it. A login brings the two keys
back, a restart the key in memory, and a write its row; a hash left behind stays so.

### StreamLog

`row` is the stream's row in `request_logs`, `body` the generator behind the
response with the usage and the first-token time it has gathered, `sent` the
lines it has taken. A line is what the two scanners see of it: a delta of text,
of another kind, or none, and a usage object with some of the counts. The
generators differ in three places, and the model with them: `capture_usage_stream`
merges reports, counts any output as the first and completes the row in a
destructor (`HangUp`); `stream_response` keeps the newest report, counts text and
completes the row after its loop only. Times are positions in the stream, which
is what their order amounts to. `Clear`, failed writes and restarts come at any
moment.

`QuotaFailover` ends where this begins: its `Serve` is the insertion of the row
that `Begin` makes here. How a JSON object becomes a usage record
(`usage_from_json`) is left to the parameter `Line`.

### BrowserSession

`slot` is `BrowserLoginManager.session`, and its mutex is free when no request
has a `pc` in `MutexPC`. `session` numbers every session ever launched, for one
that has left the slot still has processes, a profile and an expiry task.
`Acquire` to `Register` are a start: it holds the mutex through the launch, whose
stages spawn a process and wait for it (`SpawnXvfb`, `SpawnNext`, `OpenPage`), and
end in `Register`, in the cleanup of the failed stage (`LaunchFails`), or by `?`
without it (`PageTimesOut`). `FindStale`, `Stop`, `Finish` and `TimerStop` take a
session out of the slot under the mutex and end it afterwards (`Kill`,
`TimerKill`). A capture remembers what it read of the session and goes on without
the mutex. A request dropped in the middle (`HangUp`) runs the destructors of what
it holds: a `BrowserSession` removes its profile, the loose children of a launch
only die (`kill_on_drop`). `remove_dir_all`, whose errors the code ignores, is taken
to succeed. A proxy that was edited or deleted since the login read it is one of the
ways in which a capture fails (`CaptureFails`).

Left out: the VNC relay, the pages' content, the payment selector (a task that the
destructor aborts), the proxy bridge, ports and displays, and processes that
outlive a killed gateway.

### ProxyPool

`proxies` and `accounts` are the two tables by id, `used` the ids given out,
`cache` is `proxy_pool_clients`. A request (`req`) begins with its first look at
the tables and takes one step per database call: what it has read (`enabled`,
`link`, `row`, `name`) is what it will write, whatever happened in between.
`create` looks at the name, then at the proxy, then inserts and reads back;
`import_cookie` does it in the other order and calls the upstream in between;
`update` reads the row, resolves a new proxy, and writes the whole row; an import
puts proxies and then accounts, each a look by name and a write. A call reads its
row, looks the proxy up, takes a client from the cache or puts one there, and
sends. `Clear` is `clear_proxy_client_cache`, a step after the write it belongs
to. `Fails` ends a request anywhere.

The field `since` is history and steers nothing: what the others have done to the
rows a request has in hand since its first step. It lets a property say "only if
this very race happened".

Left out: every column but the link and the switch, and with them the names an
edit gives to an account; rows read more than once with the same result; the
quota marks (`QuotaFailover`), the ciphertexts (`Vault`); URLs that are no URLs.

### UpstreamAccount

The upstream's `region` switch, `subscribed` and the `reward`s are state, modelled
from the use the code makes of them (`opencode_account.rs:356` describes the
toggle). A request finds the server functions it needs in the page and its scripts
(`Discover`, where any set of scripts may fail to come), reads (`ReadRegion`,
`ReadRewards`), posts (`UpstreamApplies`, `UpstreamDeclines`), and for the switch
reads again (`Confirm`). A post whose request gave up or was dropped stays in
`late`, and takes effect later or never. `met`, `disturbed` and `taken` are
history. The texts of pages, scripts and answers, and the Cookie, are left out.

### SchemaMigrations

`Migrations` is the list of the program, each a sequence of statements; `Start`
takes the first that `applied` does not have, and each statement is an action, for
on SQLite the migrator opens no transaction. `Record` is its own row in
`seaql_migrations`. `Init` is every database a start may find: none, one from
before the migrator, one of each release. `FirstLogin` is where the key gets
persisted (`SaveKey` in `Vault`). Indexes, and columns every release has had, are
left out.

## 3. Runs

| run | instance | shows |
|---|---|---|
| `failover_calls` | 3 accounts, 2 calls of 3 kinds, 1 quota shift, 1 failed mark, 1 crash; 0.8 M states | `RefusalsLoggedInOrder`, `AnswerMatchesLog`, `ConversationKeepsAccount`, `ContractSpec` |
| `failover_recovery` | 2 accounts, 1 call, monitor, 1 usage query, 1 editor, 2 quota shifts and 1 of each other disturbance, with fairness; 36 k states | `MarkClearedOnlyOnEvidence`, `CallsEnd`, `CookieAccountsReturn` |
| `late_refusal` | 1 account without a Cookie, 2 calls, 1 edit | violation of `RefilledAccountStays` |
| `vault_races` | 1 account, 1 client key, 3 requests at a time, 3 hashes; 428 k states up to symmetry | `PasswordOpensSecrets`, `StoredKeyOpensSecrets`, `ServiceReadsSecrets` |
| `cookie_rotation` | 1 row of each kind, 1 request | violation of `CookiesReadable` |
| `stream_rows` | 1 stream of each handler, 3 lines of 4 kinds, 2 counts; 1.05 M states | `CompletedRowIsExact`, `EndedStreamIsComplete`, `ClearedRowStaysAway` |
| `hung_up_stream` | the same | violation of `HungUpStreamIsComplete` |
| `browser_sessions` | 2 requests at a time, 2 sessions, with fairness; 174 k states | `ProcessesAreHeld`, `ProfilesAreHeld`, `OneBrowser`, `OnlyItsOwnEnd`, `LaunchesEnd`, `SessionsEnd` |
| `leaked_profile` | 1 request, 1 session | violation of `AccountProfilesDestroyed` |
| `proxy_links` | 3 requests of any kind, 2 proxies, 2 accounts, 2 URLs, a file of 3 entries; 279 k states up to symmetry | `CallsGoTheirWay`, `DanglesOnlyByRace`, `KeepsUnlessRaced`, `ImportedAsFiled`, `PanicsOnlyByRace` |
| `upstream_settings` | 2 requests, 1 reward, 2 sites of up to 5 bundles, 3 scripts looked at, with fairness; 166 k states | `RetriesDoNotUndo`, `OkWasTrue`, `UnsavedOnlyIfDisturbed`, `NoSecondApply`, `NotFoundOnlyIfUnserved`, `RequestsEnd` |
| `upgrades` | 15 databases with and without a key, and none, 3 crashes, with fairness; 1059 states | `KeyKept`, `ServesWhole`, `UpgradesEnd` |

*Bounds.* Three accounts give a first, a middle and a last candidate; the one that
advertises no model makes the candidates of two calls overlap without being equal. Two
calls are what a race needs. `Budget` bounds the disturbances (`admin`, `upstream`,
`crash`, `fault`) and nothing else; everything the code does of itself is unbounded. One
management operation beside a call, a usage query and the monitor is enough for an edit
during a refresh or an import over a marked account; `MarksKept` proves it for any
number. `failover_calls` has none beside its calls: that the contract holds with any
number of them is `ContractImplemented`, not a run. `late_refusal` leaves out the
behaviours in which the edit gets in between a refusal and its mark, where nothing
awaits (`MarkFollowsRefusal`), to show one that needs no such luck. In `Vault`, three
hashes are a first password and two changes, so that a key can be two changes old; three
requests are two that race and one they overtake; an account's row goes through all that
a proxy's does, and a client key is the one that is written once. States whose hash is
left behind are checked and not followed (`HashInPlace`): it stays so
(`HashStaysAstray`, proved), and the properties say nothing from there on.
`cookie_rotation` has a row of each kind. In `StreamLog`, three lines are an earlier
count, a later one and an output between them. In `BrowserSession`, two sessions are an
old one, with its task, and the one in its place; two requests are two starts, or a
capture and what ends its session. In `ProxyPool`, three requests are one that has a row
in hand and two that change it; two proxies and two accounts are the row in hand and its
replacement, for ids are not given out again; one name of each kind makes every two rows
collide. A fourth request would let an edit bring back a link whose proxy went
(`DanglesOnlyByRace` allows it, and is proved for any number). In `UpstreamAccount`, two
requests and the owner are every disturbance of a third; the sites have functions in one
script, in two, in the page, and in scripts past the limit (`MaxAssets`, 64 in the
code). In `SchemaMigrations`, a second crash meets what the first left, and a third
shows that nothing piles up.

*Fairness.* Weak fairness of a handler's own steps and of the monitor: tokio polls
every task that is ready, and each upstream exchange ends by reqwest's total
timeout (600 s, `src/state.rs:42`) if not by an answer. Weak fairness of an
edit's steps for the same reason. Not fair: the client's calls, its hanging up,
the administrator, quota shifts and crashes. `CookieAccountsReturn` needs one
assumption on the outside: an account that the monitor queries again and again
is answered with quota windows again and again (strong fairness of that
`ReportQuota`); the code can do nothing for an account whose Cookie has expired.
In `BrowserSession`, each stage of a launch ends by its timeout (15 s, 5 s for the
account's page) if not before, which is weak fairness of `Launch`; a session's
time passes; and `TimerStop` is strongly fair because tokio's mutex is handed out
in order. Processes that hang are under no fairness. In `UpstreamAccount`, every
exchange ends by a timeout if not by an answer: the page by the total timeout of the
account's client, 600 s (`src/state.rs:42`, `src/state.rs:94`), scripts, queries and
posts by their own of 30 s (`src/opencode_account.rs:292`, `377`). That is weak
fairness of `Handle`. In `SchemaMigrations`, a process that is
down is started again (`restart: unless-stopped`, `docker-compose.yml`) and runs its
statements.

*Findings.* The four violations are races or paths of the code as it is, against its
own words; PROJECT.json quotes them. `late_refusal`: two calls are sent under the old
key of an account without a Cookie, the first refusal marks it, the administrator
replaces the key and the mark is off, and then the second refusal, of the old key,
marks it again; no monitor looks after such an account. `cookie_rotation`: a password
change that gets through forgets the Cookies, whose accounts can never be queried
again. `hung_up_stream`: an adapted stream whose client hangs up never completes its
row. `leaked_profile`: a launch whose page times out leaves its profile for good, with
the account's Cookie in it (`src/browser_login.rs:587`); a client that hangs up during
the launch has the same effect.

One disagreement is in the wording of a property that passes. `src/db.rs:56-57` says
of the quota mark that it is "cleared only by an internal quota refresh that confirms
capacity is available again", and `src/README.md:65` of accounts imported by Cookie that
only a query brings them back. `update` clears the mark of any account whose API key
it replaces, Cookie or not, and asks nobody (`keys.rs:186-188`).
`MarkClearedOnlyOnEvidence` is the narrower rule that the code does keep: a query
that found quota, or a replaced key, and nothing else.

The passing models show more than their properties forbid, each named where it
happens. An adapter call whose reply cannot be read leaves no log row
(`messages.rs:217`; `LoseReply` in `QuotaFailover`). A password change that dies
after re-encrypting leaves all secrets under a key nobody has (`auth.rs:106`), and so
do the races of `Vault`: each is an exception its three properties name through
`astray` and `strays`. An upgrade that dies between the third
migration's `ALTER TABLE` and its record can never be started again
(`src/migration/mod.rs:159`; `TimingBlocks` in `SchemaMigrations` is exactly this
window, and the only one). `DanglesOnlyByRace`, `KeepsUnlessRaced` and
`PanicsOnlyByRace` hold, and each names a race the code does not prevent: a proxy
deleted while it is being linked, a switch-off undone by an edit that was under way,
a handler that panics when the row it wrote is deleted.
`ProfilesAreHeld` holds of sessions that were handed out; a launch that was abandoned
and a kill of the gateway leave a profile behind.

## 4. Proofs

For every value of the constants that satisfies the assumptions in
`QuotaFailover` (finitely many accounts, a hash without ties, rows that exist
hold a key, marked rows exist):

* `TypeCorrect`: `TypeOK`, which contains `InPlace`: where a handler stands says
  what `pos` can be. It is inductive as it stands; without `InPlace`,
  `Current(r)` could be out of range and neither the type of `logs` nor the
  `expect` after the loop could be shown.
* `LogIsFaithful`: `RefusalsLoggedInOrder /\ AnswerMatchesLog`, inductive
  relative to `TypeOK`. The two need each other: the closing row is the last
  because exactly the refusals precede it.
* `ConversationSticks`: from the invariant `RouteOrder`, that a snapshot lists
  accounts by strictly falling weight. The first account of each of two snapshots
  is then the heaviest of both, hence the same.
* `MarksKept`: from `Provenance`, that a row without a key is unmarked, an edit
  about to clear replaced a key and an answer about to be applied is one. Without
  it `Create` and `UpdateClear` could clear a mark for no reason.
* `ContractImplemented`: each action maps to a step of the contract or to a
  stutter; that no account is passed twice uses `RouteOrder` (an ordered snapshot
  has no duplicates).

For any sets of accounts, proxies, client keys and requests in `Vault`:

* `VaultTypeCorrect`: `TypeOK`.
* `KeysOpenSecrets`: the three properties of `vault_races`, with no assumption on who
  acts when. They are not inductive: they say nothing of the moments when a handler
  holds a key it has yet to save. The invariant `KeysKnown` says, while the hash is not
  astray, that one change at a time is past its re-encryption (`OneChange`); that every
  secret but the strays is under one key, `Current`, which is that change's or else the
  hash's; that hash, persisted key and key in memory take it one after another and
  agree otherwise, unless they are astray (`HashFollows`, `StoredFollows`,
  `MasterFollows`); and that whoever is about to save, install or write under a key has
  this one unless it is `stale` (`HandlersCurrent`).

For any sets of streams, kinds of tokens and lines, and any length, in
`StreamLog`:

* `StreamTypes`, `EndedStreamsComplete` and `ClearedRowsStayAway`, each inductive
  with the types.
* `RowsAreExact`: by `GatheredRight`, which says what a body has gathered so far
  without `Max` and `Min` (there is a last report of the count, and this is it)
  and that a row copies its body or says nothing. That the body is read only
  while it is open, and a row completed only once, is needed for the copy.

For any sets of requests, rewards and sites in `UpstreamAccount`:

* `RetriesAreHarmless`, `OkIsWorthIt`, `UnsavedIsDisturbed` and `ClaimsRepeat`, all
  from `UpstreamInvariant`. Its core says what a request standing somewhere knows of
  the switch: having read, and undisturbed, that the switch still is as read; after
  its post, that it is as wanted; and of each post left behind, that what it would
  make of the switch was asked for. Without the last the invariant would not
  survive a timeout.

For any sets of proxies, accounts, requests and files in `ProxyPool`:

* `ProxyTypes`, `CallsGoRight`, `PanicsNeedARace`, `DanglingNeedsARace` and
  `EditsNeedARace`, from `ProxyInvariant`: each thing a request has in hand (the proxy
  it links to, the URL, the row, the switch) is as it was read, or `since` says who
  changed it; every client is kept under the URL it uses. The lemma `ToldFine`, that
  what a request has in hand stays right when another writes, carries the proof.

For any number of requests and sessions in `BrowserSession`:

* `NothingIsForgotten` (`ProcessesAreHeld` and `ProfilesAreHeld`), `BrowsersAreOne`,
  `SlotLeftRightly` and `BrowserTypes`, from `BrowserInvariant`: to the first two it
  adds that the mutex is held once (`MutexOnce`) and that whoever holds it beyond a
  step has emptied the slot (`SlotFree`). Without these a launch could put its
  session over another in the slot, which would lose its owner. Who takes a session
  need not be alone with it: `BrowserInvariant` allows two that end the same one.

For any number of crashes in `SchemaMigrations`, whose list of migrations is the
program's own:

* `KeySurvives`, `WholeWhenServing` and `MigrationTypes`, from `MigrationInvariant`.
  `Order` says that what is recorded is a first part of the list and the next
  migration is under way; `Built`, that every statement done has left its table or
  column, and nothing takes one away; `Moved`, that an old name of the key goes only
  when the new one is there. `KeyKept` alone is not inductive: `DELETE` of an old name
  keeps the key only if the copy before it, perhaps by a start that died, made one.

*Undisturbed imports.* `ImportsGetFiled` (`ImportedAsFiled` in `ProxyPool`) needs no
induction over the file: the invariant `AllFiled` runs along with the import. For
each entry done with that is the last of its name so far, the row is there
(`DoneFiled`), and what the import read for the present one is still so (`InHand`),
unless `since` has something. Three facts carry it: an import hears of every write
but its own, so that one that has heard nothing finds the tables as it left them
(`Unheard`, `OthersFiled`); no write gives an account another name (`NamesKept`); and
proxies come before accounts in a file. The last is `PayloadAssumption`, which
`import` justifies by its two loops (`import_export.rs:72`, `import_export.rs:91`);
without it an account before its proxy would be left without a link.

*The search through the scripts.* `NotFoundIsUnserved` and `UpstreamTypes`
(`UpstreamAccount`) are about a recursive function, what is known after each script,
over any number of scripts. The library's induction rules take an operator and are
of no use here. `SetInduction` says the same of a set of numbers instead of a
predicate; it comes from the least element of a set (`LeastNumber`), which the
well-foundedness of `<` gives. With it, `SearchDefined` shows that the recursive
function exists, `FoundIsSearch` that `Found` is its last value, and `SearchFinds`
that this holds each function some script offers that came.

Every invariant and every action property of the runs is proved. Only model-checked:
liveness, which rests on fairness and `ENABLED`, out of the prover's reach (`CallsEnd`,
`CookieAccountsReturn`, `LaunchesEnd`, `SessionsEnd`, `RequestsEnd`, `UpgradesEnd`);
and the four violations, which are TLC's counterexamples.

## 5. Plan

In this order; each with its runs and mutants.

1. `Credentials`: web sessions, admin tokens and client keys against the calls
   that use them; their boundaries.
2. Operators over bounded inputs: `quota_available`, `is_quota_error`,
   `usage_from_json` and its merge.

## 6. Not modelled

The proxy bridge relays bytes and keeps nothing; a model of it would be one of
TCP. The parsing of pages, Cookies, usage texts and upstream errors is abstracted to
its outcomes: its defects depend on texts, not on an order of events (one, a slice
that may cut a character at `src/opencode_account.rs:484`, is among the hazards).
Web sessions and admin tokens are single statements on tables nothing else
writes. The merged model list of `models.rs` is read-only, as are exports. The
frontend is a client of the API, packaging has no state.
