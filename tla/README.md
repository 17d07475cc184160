# Formal models of kafka-manager

TLA+ modules for the parts of kafka-manager that are hard to test: state shared
by goroutines, configuration transactions, timers, file operations that fail or
are cut off, and queries over a topic that changes. TLC checks them on small
instances; for instances of any size, TLAPS proves every safety property and
every action property of the passing runs. The server is Go (`src/internal`, `src/main.go`), the client is TypeScript
(`src/web/src`); both are modelled.

`PROJECT.json` lists the components, the runs, the lines of code behind every
definition, the hazards, and for every property a seeded fault of the code (the
definitions named `Fault_…`) that violates it.

    tlc -workers 2 -config ConfigServer.cfg MCConfigServer.tla     # one run
    tlapm Sampler_proofs.tla                                       # the proofs of a module

## 1. The system

One Go process serves a web page and manages several Kafka clusters. The parts,
the state each keeps and how they meet:

| Part (code) | State | Operations | Model |
|---|---|---|---|
| Connection manager (`internal/cluster`) | clients and settings by cluster id, the authoritative settings, a generation | Apply, Upsert, SetDesired, Retain, Close, Matches, Get | `ClusterManager`, `ClientPool` |
| Configuration transactions (`internal/api/server.go`) | the served configuration, the lock `configTxn` | save, restore, reload, rollback; requests take a configuration and a client | `ConfigServer` |
| Watcher (`internal/config/watcher.go`, `main.go`) | the hash of the last text | Poll every two seconds | `ConfigServer` |
| Configuration file (`internal/config/store.go`) | `config.yaml`, backups by day | Save, Restore, CleanupBackups | `ConfigStore` |
| Dashboard sampler (`internal/dashboard/sampler.go`) | configurations, items, trends, backoffs, a wake-up token | Run, Refresh, Update | `Sampler` |
| Sampler's Kafka source (`kafka_source.go`) | none | look up, reconnect, look up, ask | in `ConfigServer` |
| Messages (`internal/kafka/message`) | a query, its consumer, its collector | Query, Fetch, Stream | `MessageQuery` |
| Audit log (`internal/audit`) | files by day, the open file | Write, Query, Cleanup | `AuditLog` |
| Topics, consumer groups (`internal/kafka/topic`, `consumer`) | none; the broker's | requests to the broker | `TopicWorkspace`, `TopicConfigs`, `ConsumersPage` |
| Login (`internal/api/auth.go`, `web/src/features/auth`) | failures by client host; the cookie, who is signed in | login, logout, requests refused with 401 | `LoginSession` |
| Shell of the web client (`web/src/App.tsx`) | the route and the history, the clusters, the topic of the route | poll, navigate, Back and Forward, refresh a topic | `WebApp` |
| Pages of the web client (`web/src/pages`) | what each lists, its forms and dialogs | requests that overlap | one module each, composed in `WebPages` |
| Overlays and notices (`web/src/components/Common.tsx`, `Feedback.tsx`) | scroll, focus; notices and their timers | open, close, render; notify, dismiss | `Overlays`, `Feedback` |

How they interact. `main` loads the file, connects the clusters, starts the
sampler, the watcher and a daily job, and serves HTTP. Saving, restoring and
reloading run under `configTxn`, call the manager's Apply, save the file, and hand the
new configuration to the server and the sampler. The sampler's workers call the
manager (lookup, Upsert) without `configTxn`, and so race with all of this. Requests
read the configuration and take a client under the read side of `configTxn` and
use the client after they have let go of it. Operators edit the file by hand at
any time. Requests that change something in Kafka write to the audit log.

The client is one page that asks the server. `App` keeps the route in the
address, reads the list of clusters every fifteen seconds, and hands the
selected cluster to one page at a time. A page sends requests and shows the
answers as they come; it may be unmounted, or given another cluster, before
they do. A 401 to any request signs the browser out.

What is hard, and what makes each part correct:

- **Manager.** Clients are created and pinged without the lock, so what was read
  before may be stale at the commit. Correct: no leak, no double close, no
  closed client in the map, no settings that somebody has since replaced.
- **Transactions.** Several stateful parts are changed one after the other; each
  step can fail, and so can the rollback. Correct: all or nothing, an end in every
  case, requests with matching configuration and client.
- **Watcher.** It compares texts, not configurations. Correct: what the file
  says is what is served, in the end.
- **File.** Kills, failures and hand edits between any two file operations.
  Correct: the file is whole, and what was replaced can be restored.
- **Sampler.** Changes arrive in the middle of a round; timers, a token and a
  backoff decide when the next one is. Correct: nothing stale is shown, nothing
  is forgotten, everything is sampled again in bounded time.
- **Messages.** Offsets are looked up, then records are read, while the topic
  grows and shrinks; three limits cut the result. Correct: what is missing is
  what the result says is missing.
- **Audit log.** Rotation, midnight, restarts, failing writes. Correct:
  append-only, bounded files, readable entries, kept as long as promised.
- **Shell.** Polls overlap, the list of clusters changes under the route, and a
  topic is loaded, refreshed and left meanwhile. Correct: the address names what
  is shown and no page is blank, once there is a cluster; no older list replaces
  a newer one.
- **Pages.** Answers come in any order, or never, when the cluster, the topic or
  the dialog is another, or when there is no cluster yet. Correct: what waits has
  a request that will be answered, what is said to be done is done, a stream can
  always be stopped, a link asks for what its page asks for. Section 5 lists where
  the code does less.
- **Login.** The count of failures is checked and raised in separate sections.
  Correct: guesses are bounded, the end of a session is noticed.

## 2. Modules

| Module | Uses | What it is |
|---|---|---|
| `ClientPool` | – | what the manager promises: settings and connections, no locks and no clients |
| `ClusterManager` | – | the manager; `PoolSpec` says it implements `ClientPool` |
| `ConfigServer` | extends `ClusterManager` | the program around the manager |
| `Sampler`, `AuditLog`, `ConfigStore`, `MessageQuery` | – | one component each |
| `LocalFiles` | `AuditLog`, `ConfigStore` | all the program keeps on its disk |
| `WebApp` | – | the shell of the client |
| `Listing` | – | how every page with a list reads it |
| `ConsumersPage`, `TopicsPage`, `AuditPage` | `Listing` | one page each |
| `MessagesPage`, `MessageFilters` | – | the page of messages; its filters and the address they are kept in |
| `TopicWorkspace`, `TopicConfigs` | – | partitions and removal of a topic; its configuration |
| `SettingsPage`, `LoginSession`, `Overlays`, `Feedback` | – | one component each |
| `WebPages` | all of these but `WebApp`, `TopicConfigs` | the pages side by side |
| `InductionLemmas` | TLAPS | induction and recursion over numbers, and the last of a finite set |
| `ClusterManager_proofs`, `ConfigServer_proofs`, `Sampler_proofs`, `LocalFiles_proofs`, `MessageQuery_proofs`, `WebApp_proofs`, `WebPages_proofs` | the module they are named for | its theorems; `ConfigServer_proofs` also uses those of the manager, the others `InductionLemmas` |
| `MC…` | the module they are named for | symmetry sets and values of constants for TLC |

### ClusterManager

A step is one section of code under `Manager.mu` or one call outside it
(`Create`, `Ping`, `Close`), so TLC interleaves exactly what goroutines
interleave. The variables are the fields of `Manager` (`clients`, `configs`,
`desired`, `desiredSet`, `generation`), the clients ever created with the number
of `Close` calls each got, and the locals of each goroutine (a *caller*).
`ApplyBegin`/`ApplyCommit` and `UpsertBegin`/`UpsertCommit` are the two sections
of these functions; `CreateClient`, `PingOK` and `Fail` what lies between;
`CloseClient` each close after the lock is released; `SetDesired`, `Retain` and
`Close` one section each. `phase` follows `main`: a new manager, the first
`SetDesired`, the Upserts of `connect`, `Retain`, then everything.

A cluster's settings are one value (its brokers and security), as
`sameConnection` compares them; a disabled cluster is an absent one, as in
`enabledConfigs`. Apply makes `configs` and `desired` the same Go map; the head
of the module says why that changes no connection.

### ConfigServer

Extends the manager with the file, the watcher's hash, the served configuration
(`cfg`), the sampler's copy (`monitor`) and items, `configTxn` (`txn`), and the
place of each writer, of the watcher, of one sampler worker and of each request.
A transaction goes `waiting` → `deciding` → `applying` → `saving` → `updating`,
with `restoring` and `narrowing` on the rollback path; each arrow is an action
with the code's condition. The manager's own steps are those of `ClusterManager`, by
name. The model starts after `main`'s `connect`, with every cluster offline,
which is a state the program can be in. `NewWatcher` is an action, so edits
may come before it (`BootEdits`). A request's Ping can always fail (its
browser may go away); the watcher's and the sampler's only with settings in
`Flaky`. `Collect` takes closed clients that nobody refers to out of the
bounded supply and does nothing the program can see.

### Sampler

`Run` is `refresh` → `sampling` → `arming` → `waiting`; workers are queued at the semaphore,
running, done. Time is counted down in ticks, and a tick passes only when
nothing due is left (`Quiet`). `Update` may come between any two steps. An item is
the settings it was sampled with, its status, and the name and
read-only mark shown with it.

### AuditLog

`Write` is one step because `Writer.mu` is held throughout, with four outcomes:
recorded, lost to an earlier error that the `bufio.Writer` keeps, unable to open
a file, or cut off after some bytes. `Restart` is the end of the process, the new
`Writer` and the `Cleanup` of the start. Time is in hours because
the retention compares a time of day with midnights.

### ConfigStore

`Save` is a sequence of file operations (`NameBackup` … `Rename` or `Truncate`
and `Rewrite`), between which the program may be killed (`Crash`), any of which
may fail (`SaveFails`), and during which the file may be edited. `mounted` says
whether `rename` is refused with EBUSY, as it is for the bind mount that
docs/deployment.md sets up.

### MessageQuery

One query or stream over partitions that producers append to and retention
shortens. The limits are validated as `validateQuery` does; the offsets are
resolved partition by partition; then `Take` reads one record of any partition
with something to read. A poll returns at most what may still be scanned, in any mixture of
partitions, so batches are sequences of `Take`. Filters are reduced to a record
matching or not. kgo and kadm are external and modelled from how they are used
(`After`, `Nearest`, `Next1`, `Unread`).

### LocalFiles

The audit log and the configuration store have separate directories, locks and
retentions and hand nothing to each other. `subject` chooses which of the two
acts in a behaviour, so one run checks both without multiplying their states.

### The web client

JavaScript runs a handler, the render it causes and the effects of that render
before the next event. Each is one action; between a request and its
answer there is a variable that holds the request. An answer either belongs to
something that is still there or not: closures are modelled by what they
captured (the cluster, the topic, the dialog), and a set of equal requests is a
count. Failures, and answers that are lost after the server has acted, are
actions of their own.

- `WebApp`: `history` and `at` are the browser's, `route` what `parseRoutePath`
  made of the address, `requests` the polls with the number `RequestSequence`
  gave each and the version of the list the server answered with. The cards, the
  topic's page and the error are operators over the state (`DashboardView`,
  `TopicView`), as they are expressions in the render. The list of clusters is
  empty before the first answer, and may be so afterwards.
- `Listing` is the pattern `setLoading` – `get` – `setItems` – `finally` that four
  pages share; `asked[key]` counts equal requests.
- `ConsumersPage`, `TopicsPage`: `clusterId` is given by `App`, is absent (`None`
  for `''`) while `App` has no list of clusters and the address names none, and changes
  under the page. `Load` is the page's `load`, which does nothing without a cluster. A reset or a creation carries what its closure captured; `owned`
  says whether the drawer that sent it is still open.
- `MessagesPage`: `streams` are the `EventSource`s open in the browser,
  `stream` the one the page holds; the difference is the leak the property is
  about. `MessageFilters` translates `message-filters.ts` and the effect that
  writes the address; a text is one of four that its trimming tells apart, and
  numbers are counted in halves, so that there are fractions to lose.
- `TopicWorkspace` and `TopicConfigs` hold the page and the handler behind it:
  `AddPartitions` reads the number and gives the sum to kadm (`ListTopics`), which
  reads the number again and adds what it is given (`KadmLists`), and Kafka
  creates what is asked if it is more than there is (`KafkaCreates`). kadm and
  Kafka are external.
- `SettingsPage`: a configuration is the version it was read from and its edits.
- `LoginSession`: `auth.go` with `handlers` between the check and the count, the
  form, the cookie (absent, valid, expired), and the requests sent with it.
- `Overlays`: the effect of `Dialog` and `Drawer`, whose cleanup and rerun
  follow from `onClose` being a new function in every render.
- `WebPages` puts each page in a browser of its own (`scene`), because `App`
  shows one page at a time and an unmounted page keeps no state.

## 3. Runs

| Run | Configuration | Bounds | Distinct states |
|---|---|---|---|
| `manager` | `ClusterManager.cfg` | 2 ids, 2 settings, 4 clients, 2 goroutines, 4 generations | 480 thousand |
| `server` | `ConfigServer.cfg` | 1 cluster, 2 brokers of which one is flaky, 1 writer, watcher, sampler, 1 request, 2 edits or requests | 2.0 million |
| `server_reload` | `ConfigServerReload.cfg` | as above without flaky brokers, requests or repeated texts; fairness | 130 thousand |
| `sampler` | `Sampler.cfg` | 2 clusters, 1 worker, 2 settings, 2 names, backoff of at most 3 ticks | 170 thousand |
| `sampler_live` | `SamplerLive.cfg` | 2 clusters, intervals of 1 and 4 ticks; fairness | 240 thousand |
| `files` | `LocalFiles.cfg` | log: 4 entries of 2 sizes, files of 5 bytes, 3 days of 2 hours, 2 faults, 2 restarts; store: 3 texts, 3 Saves or edits, 4 days, 1 kill, mounted or not | 1.7 million |
| `messages` | `Messages.cfg` | 2 partitions, 3 records, 1 deletion each, a limit of 2, scans of 2 and 3; fairness | 540 thousand |
| `web_app` | `WebApp.cfg` | 2 clusters, 1 topic, 3 lists of which one is empty, a history of 2, 2 polls in flight; fairness | 246 thousand |
| `web_pages` | `WebPages.cfg` | 2 of everything listed, 2 requests of each kind in flight, 2 attempts to log in | 273 thousand |

Three more runs, `failed_reload`, `config_alter` and `add_partitions`, end in a violation: see section 5.

What they show:

- `manager`: clients are neither leaked (`NoLeak`) nor closed twice
  (`ClosedOnce`); what the map holds is open and held by nobody who would close it
  (`InstalledOpen`), connects with authoritative settings
  (`ConnectionsAuthoritative`), and is never nil (`NoNilClient`); a cluster whose
  settings stay is never without its connection (`UnchangedStaysConnected`);
  and the whole is the atomic pool of `ClientPool` (`PoolSpec`).
- `server`: outside transactions the manager, the sampler and the server agree
  (`TransactionsAreAtomic`), even after a failed rollback; a request's client
  belongs to the configuration it checked (`HandlersArePaired`); no save or reload fails because another operation
  made it stale (`ApplyNeverStale`).
- `server_reload`: a legal file is served in the end (`FileIsServed`) as long as
  nobody puts a former text back, or edits before the watcher is made; transactions
  end (`TransactionsEnd`); clusters, which begin without a connection, get it
  (`ClustersReconnect`); every client that is not installed is closed
  (`EventuallyReleased`). Its brokers answer, so no rollback fails in it.
- `sampler`: items, trends and backoffs are always of the present configuration
  (`ShowsConfigured`, `TrendsAreUnmixed`), and the loop
  never sleeps on a cluster it has not sampled (`NoLostWake`).
- `sampler_live`: the longest wait of an offline cluster is the longest backoff,
  plus an interval, plus a round (`OfflineIsRetried`); nothing starves a cluster
  (`SampledForever`).
- `files`: sizes, days and the append-only rule (`FilesAsConfigured`, which names
  `FilesBounded`, `FiledByDay` and `KeptForFullDays`, and `AppendOnly`); one
  restart after a failed write spoils one entry at most
  (`RestartSpoilsOneAtMost`); a file that can be renamed is never torn
  (`FileIsWhole`); what a Save has read and replaced is kept (`ReadIsKept`).
- `messages`: a filtered query for the latest keeps exactly the newest matches it
  has scanned (`NewestMatchesKept`); a result that reports no limit
  omits nothing (`CompleteUnlessLimited`); the latest of one partition are
  its newest (`LatestOfPartition`); a stream delivers all (`StreamDelivers`).
  `MessagesWide.cfg` checks the first three with a fourth record and a second limit
  (5.1 million states) and is run by hand.
- `web_app`: the address opens the screen it stands over, and once there is a list
  the screen is of a cluster in it (`AddressShowsRoute`; before that the menu opens
  screens over `/`); a topic's page is a spinner, an error or the topic unless no
  cluster is listed (`BlankOnlyWithoutClusters`); an
  answer that comes late does not bring an older list back
  (`DashboardNeverGoesBack`); a change of the list reaches the screen of whoever stays
  signed in (`DashboardCatchesUp`).
- `web_pages`: nothing is disabled or spins without a request under way, on four
  pages, but for the lists of topics and groups before there is a cluster
  (`SpinnersEnd`); every open stream is held by the page
  (`StreamIsHeld`); a link asks what its page asks, without the fraction of a scan
  limit that has one (`SharedLinkAsksSame`); what the page says
  of an addition is what happened to the request (`SaysWhatHappened`: not that as many were added as
  it says, which section 5 shows to be false); the page below an overlay does
  not scroll (`PageBehindIsLocked`); the oldest notices go first
  (`OldestGoesFirst`); more logins than the limit may pass, but only as many as
  are handled at once (`FailuresBounded`).

Type invariants are stated in every module. The runs of the manager check it;
elsewhere it is left out of the run to leave room for what a type does not say,
and can be added to the `INVARIANTS` of any of these files, as can
`BackoffMatchesStatus` (`Sampler.cfg`) and `ReadOnlyRefusesWrites`
(`ConfigServer.cfg`). `WebPagesLive.cfg` checks the types of the pages,
`OneResetPerDrawer`, that notices go (`NoticesGo`) and that the end of a session
is noticed (`EndIsNoticed`); it takes about five minutes and is run by hand.

Why the bounds are enough. Every race in the manager is between two operations;
two goroutines and two ids let one operation fail after it has made a client and
let an Apply keep one cluster and replace another, and four clients are more
than two operations can hold with two in the map. The proofs lift this run to
every size. In `server` one writer, the watcher and the sampler are the three
that may call the manager; two writes let an edit, a save and a restore
overlap in pairs. Two clusters and one worker make one cluster wait
for the other in the sampler. Three records, a limit of two and scans of two and
three put a query below, at and above each limit; the proofs lift this run too. The audit bounds allow a full
file, a larger entry, a midnight, a fault and a restart in one behaviour.
In the client every hazard is one request that another request, a navigation
or a second cluster overtakes, so two of each are enough; two additions of one and
two partitions, at once, are taken, refused and lost in every order. The scan limits
typed have a fraction, below and above the largest. Two failures are the
limit of logins, so two handlers at once can go past it. A history of two entries
has a Back and a Forward.
`MaxGeneration`, `MaxWrites`, `MaxSaves`, `MaxCrashes`, `MaxFaults`,
`MaxRestarts`, `LastHour`, `LastDay`, `LastEntry`, `MaxFiles`, `MaxRecords`, `MaxDeletions`,
`MaxVersions`, `MaxHistory`, `MaxRequests`, `MaxAsked`, `MaxResets`, `MaxDialogs`, `MaxEntries`,
`MaxQueries`, `MaxStreams`, `MaxAdds`, `MaxAlters`, `MaxLoads`, `MaxNotices`, `MaxTime`, `MaxCalls`,
`MaxHandlers`,
`FailureCap` and `AgeCap` only bound the runs; they appear in guards or caps
and nowhere in the code. Deadlock is not checked where these bounds, or callers who need
not call, let a behaviour end; the sampler never ends, and its runs do check it.

Symmetry is used in the safety runs only.

### Fairness

`ServerFairness` is weak fairness of each goroutine's steps: Go schedules every
runnable goroutine, `Create`, `Ping` and the file operations return (if with an
error), and `sync.RWMutex` hands itself over. `WF(Poll)` is the watcher's ticker.
`SF(SampleBegin(id))` is the sampler's loop, which comes to
every configured cluster again (`SampledForever`) but finds the worker busy in
between. Edits and requests are not fair. The sampler's `FairSpec` has weak fairness
of its steps, as a worker's timeout ends every sample, and time that
diverges (`[]<><<Tick>>`): configuration changes do not fill all of a tick. The
stream's `WF(Take)` is a consumer that keeps polling and brokers that answer.
In `WebApp`, `WF(LoadClusters)` is the timer of the poll, and `SF(CurrentDone)`
says that of the polls that are answered before the next one begins
not all fail: fifteen seconds lie between two polls, and a server that can be
reached answers within them now and then. `WebPagesLive` takes the browser's
timers, the poll and the answers to it as weakly fair. What a user does is never fair.

## 4. Proofs

Proved, for every value of the constants: the type invariant of the manager,
the server, the sampler, both stores, the query and the shell; every invariant and every action
property of the passing runs; and that the manager implements `ClientPool`. Each
`_proofs` module begins with the inductive invariant, has one lemma for each action
that disturbs it, and ends with theorems that follow by PTL. Few of the properties are
inductive as they stand; what they need besides is this.

**ClusterManager.** That a client in the map is not about to be closed, for
example, depends on what every goroutine holds. `IInv` has three parts:

- `TypeOK`;
- `Ownership` (who holds which client; `LocalShape` says which locals are in use
  at which step): every open client is in exactly one place, the map, one
  goroutine's `made`, or one goroutine's `closing`; a client is in `closing` only while it is open,
  and what has not been created has not been closed;
- `Pairing`: what ties a goroutine's locals to the generation (`MadeWanted`,
  `ReusedKept`, `SnapshotPast`, `UpsertSingle`, `DesiredFirst`). A client in
  `made` connects with the settings wanted; as long as the generation is the one
  read at the beginning (`snapshot`), the clients an Apply means to reuse are
  still there with their settings, and an Upsert is about one cluster; `clients` and `configs`
  have the same ids; `configs` agrees with `desired`.

`Handover` is the common fact about a client that changes place. For the
refinement, `StepCases` maps every action to a step of the pool: a successful
`ApplyCommit` is `Switch`, `SetDesired`, `Close` and `Retain` are `Narrow`, a
successful `UpsertCommit` is `Connect`, and all others stutter.

**ConfigServer.** `SInv` adds to `IInv` how far a transaction has got.
`Division`: only transactions apply, only the sampler upserts, and while an Apply is
under way the generation is the one it read, which is `ApplyNeverStale`; it stays so
because the transaction that is open is the only one inside the manager (`Exclusive`). `Progress` says at each stage of a transaction whether
the manager's `desired` is the old configuration, the new one, or, if a rollback
failed, still to be narrowed; at `txn = Nobody` this is `TransactionsAreAtomic`.
`Requests` says what a handler may rely on under the read lock, and afterwards of its
client. As the module extends the manager's, its steps are handled once
(`ManagerEffect`: what a step does to what transactions see), so everything proved of
the manager on its own holds in the running program too (`ManagerInService`,
`PoolInService`). `WritesAreRefused` is `ReadOnlyRefusesWrites`.

**Sampler.** `SamplerInv`: a cluster that has not been sampled is in the round under way with
its present settings, or the token is there, or the next round begins at once
(`Awaited`); items, trends and backoffs belong to the configuration (`Shown`,
`Retrying`). `FailureBackoff`, a recursive function, stays below `MaxDelay`
(`BackoffBounded`).
`OfflineIsRetried` is about time, and needs a schedule: `EndsIn(T)` says that the
round can end within `T` ticks, because there are as many lanes as the semaphore
has places, everyone running has one for himself, and everyone queued a turn
in a lane of which the work before it ends in time. A round can begin with as many turns
as `LongestRound` allows (`LongEnough`, by counting); whoever starts takes a free lane, and
the one who had the first turn in it gets the place he leaves (`StartKeepsEnd`); no lane is free when
time passes with somebody queued, so all of them advance (`TickKeepsEnd`). `RetriedInv` keeps, for
every offline cluster outside the round, the ticks left until the round that will take it.

**LocalFiles.** `StoreInv`: once a Save may replace the file, what it has read is in the
backups (`BackedUp`); it has a temporary file of its own; only a mounted file is written in
place. `LogInv`: the writer never thinks that its file is smaller than it is (`OpenFile`), which bounds the
files; and the entries that cannot be read, with the files that end in a fragment, are
no more than the restarts and the run that has failed now (`DamageBounded`), by counting fragments.

**MessageQuery.** `QueryInv`: what has been scanned has no holes but what retention
deleted (`Contiguous`), a query for the latest starts within its scan limit of
the end (`Window`), the collector holds the matches, and if it keeps the newest, as many as the
limit (`Collecting`); a query that did not give up has enough or has read everything
(`Ended`). `recordNewer` is proved to be a total order, on which
the place of a new match in a full collector depends.

**WebApp.** `Screened`: every address of the history can be opened, not only the one
shown. `Polled`: requests have different numbers, and the one that may still
change the screen brings nothing older than what is shown; the second is why
`DashboardNeverGoesBack` holds.

**WebPages.** One invariant for each page, because a step of one page leaves the variables of
the others alone. The streams a page may stop are those of its form's topic (`StreamInv`). A list
that loads has a request for exactly what is asked for now (`Awaits`); a drawer that
waits owns one reset, and no other does (`ResetInv`). An addition whose page goes on to read
the topic again has been carried out, and one that was refused has not (`Additions`).
The logins counted and those between check and count stay together below the limit plus the handlers
there may be (`LoginInv`). The page is locked
as long as anything is open, by what the effects saved in each order (`LockInv`). The filters are legal, and the
address has those the page holds while the page wrote it (`FilterInv`); writing
filters to an address and reading them back gives the same but for a fraction (`RoundTrip`, for
every list of conditions, by induction over it). The notices on the screen have rising numbers
(`NoticeInv`).

Assumptions. Besides types, those named in each module say that "nothing" (`None`,
`NoFile`, `NoConfig`, …) is not one of the values; that ids, intervals and partitions are
finitely many, as they come from a file and from Kafka; that `FailureCap` is at least
one and large enough for the backoff to reach `MaxDelay`.
TLC evaluates all assumptions in the runs.

Induction. The library's induction theorems take an operator as a parameter, which the provers
cannot instantiate. `InductionLemmas` states what is needed about sets instead: a set of
numbers with zero and all successors is `Nat` (`SetInduction`), a function
defined by its first value and a step exists (`IterationExists`), and a finite set with
a total order has a last member (`LastOfFinite`).

Only model-checked: liveness (`FileIsServed`, `ClustersReconnect`, `TransactionsEnd`,
`EventuallyReleased`, `SampledForever`, `StreamDelivers`, `DashboardCatchesUp`, and by hand
`NoticesGo` and `EndIsNoticed`), which TLAPS does not prove under fairness;
`OneResetPerDrawer` apart, the types of the pages beyond what their invariants need; and
the violations of section 5, which are counterexamples.

## 5. Where code and documentation differ

Each entry has a configuration in which TLC finds the counterexample. Three are
runs of the project (`failed_reload`, `config_alter`, `add_partitions`), because a
document, a test or the code's own words say the opposite; the others are repeated by hand with
`tlc -workers 2 -config <cfg> <module>.tla`. A `Claims` file lists its properties
one below the other, all but the first commented out: each alone is violated.
`PagesClaims.cfg` is of WebPages, which names the properties of its pages again;
the table names the page.

The server:

| Configuration, module | Property | What happens |
|---|---|---|
| `FailedReload.cfg`, MCConfigServer | `ReloadIsRetried` | `Poll` stores the hash (watcher.go:38) before the reload, which fails if a broker does not answer; it is never tried again. docs/configuration.md:3 promises that legal changes are loaded. |
| `AddPartitions.cfg`, TopicWorkspace | `NeverMoreThanAsked` | `AddPartitions` gives the total it has computed to kadm's `CreatePartitions` (service.go:188), which adds that many: 3 partitions asked for 1 more become 7. The page says 1 was added (TopicWorkspace.tsx:105). |
| `MixedSnapshot.cfg`, MCConfigServer | `SnapshotsAreTruthful` | Settings that go from A to B and back around one sample: B's numbers are shown for A. The source looks the client up by id (kafka_source.go:31) and the merge compares settings only (sampler.go:214). CHANGELOG.md:10 announces protection from such races. |
| `MessagesLatest.cfg`, MessageQuery | `LatestOfTopic` | The latest messages of several partitions are those of whichever partition answers first (kafka_backend.go:57, 117). The page says it loads the most recent messages (MessagesPage.tsx:75). |
| `MissedEdits.cfg`, MCConfigServer | `FileIsServed` | An edit made while `main` connects the clusters is never loaded (main.go:109, watcher.go:23). With the other two values its head names: after a save, an edit that restores the former text within two seconds is never loaded (watcher.go:31). |
| `ReconnectedTwice.cfg`, MCClusterManager | `UnchangedStaysUntouched` | A reload replaces a healthy client that a reconnect has just installed (manager.go:81). docs/architecture.md:73 says it stays untouched. |
| `LateRetry.cfg`, MCSampler | `RetriedWithinMaxDelay` | With a long sampling interval an offline cluster is retried later than after the five minutes of docs/configuration.md:44: the backoff is only looked at when a round begins (sampler.go:174). |
| `AuditClaims.cfg`, AuditLog | `ExpiredIsRemoved` | The daily job cleans backups only (main.go:144-155), audit directories are cleaned at the start only; docs/configuration.md:74 says daily. |
| | `RecordedIsReadable` | After a failed write and a restart, an entry is appended to the fragment (writer.go:110) and cannot be read. |
| | `KeptForRetention` | Entries are removed up to a day early (cleanup.go:17). |
| | `HealthyWritesAreRecorded` | After one failed write nothing is recorded until a restart (writer.go:69, 126). docs/security.md:8 says all such operations are recorded. |
| `StoreClaims.cfg`, ConfigStore | `ReplacedIsKept` | A hand edit made during a Save is overwritten and kept nowhere (store.go:48, 86). |
| | `FileAlwaysWhole` | A Save into a bind mount that is cut off leaves a torn file (store.go:90-104); docs/deployment.md:69 speaks of an atomic write. |

The client:

| Configuration, module | Property | What happens |
|---|---|---|
| `ConfigAlter.cfg`, TopicConfigs | `AlteredIsReported` | `event.currentTarget` is null after the `await` (TopicWorkspace.tsx:134), so an alteration Kafka has taken is reported as an error and the list is not read again. |
| `WebAppClaims.cfg`, MCWebApp | `LoadingHasRequest` | A topic that is refreshed, left and opened again while the refresh is under way keeps its spinner with no request (App.tsx:108). So does a topic opened from the list, before the first poll is answered, in a client that was loaded at a topic's address: `topicLoading` begins true (App.tsx:40) and nothing else ends it. |
| | `EveryScreenHasAddress` | Before any cluster is known the menu opens a page over `/`, which opens the dashboard (App.tsx:127, routes.ts:36). |
| | `TopicPageAlwaysFilled` | After a reload on the dashboard, Back to a topic before the first poll is answered, or while polls fail, shows nothing (App.tsx:104, 145). |
| `PagesClaims.cfg`, ConsumersPage and TopicsPage | `SpinnersAlwaysEnd` | With no cluster configured, or no list read yet and none named in the address, `load` returns before it asks (TopicsPage.tsx:17, ConsumersPage.tsx:21), and `loading` begins true: the page spins with no request until there is a cluster. |
| `PagesClaims.cfg`, ConsumersPage | `ResetGoesWhereListed` | A reset goes to the cluster selected now, for a group chosen in the list of another (ConsumersPage.tsx:104). |
| | `GroupsAreOfCluster` | Of two lists asked for, the one that answers last is shown (ConsumersPage.tsx:20). |
| `PagesClaims.cfg`, TopicsPage | `TopicsAreSearched` | The same with clusters and searches (TopicsPage.tsx:16). |
| | `DialogStays` | The answer to a creation whose dialog was closed closes the dialog opened since. |
| `PagesClaims.cfg`, MessagesPage | `LiveShowsNew` | An answer to a query replaces the new messages below "live". |
| | `RecordsOfTopic` | An answer for the former topic is shown under the new one (MessagesPage.tsx:38). |
| `PagesClaims.cfg`, MessageFilters | `LinkAlwaysAsksSame` | After `App` navigates under the page the address and the filters differ. |
| | `FractionsAreShared` | With 2.5 typed as the scan limit the page asks for `scanLimit=2.5` (MessagesPage.tsx:113), which the server takes for the default (server.go:611-620), and its link asks for 2 (message-filters.ts:59). |
| `PagesClaims.cfg`, TopicWorkspace | `AsManyAsSaid` | Two additions at once read the same number (service.go:180, and kadm again): both are announced, fewer are there, if so many are added that the error of line 189 does not make up for it. |
| | `StaysWhereUserWent` | The answer to a removal takes the user from the page he has gone to (TopicWorkspace.tsx). |
| `PagesClaims.cfg`, SettingsPage | `EditsAreKept` | What is typed while a save or a read is under way is replaced by its answer (SettingsPage.tsx:18). |
| | `NeverGoesBack` | An older read that answers late replaces a newer one. |
| | `OthersAreKept` | A save replaces what another browser, or an editor, has saved since. |
| `PagesClaims.cfg`, AuditPage | `EntriesStay` | A read that answers late takes away entries that were shown (AuditPage.tsx:16). |
| `PagesClaims.cfg`, LoginSession | `LoginLasts` | A 401 to a request sent before the login signs the user out again. |
| | `LogoutLasts` | A logout that fails leaves the cookie: the page asks for a password, and opening it again does not. |
| `PagesClaims.cfg`, Overlays | `ScrollIsRestored` | With a dialog above a drawer, effects that run again save "hidden" as what they found (Common.tsx:59): the page stays locked. |
| | `FocusIsKept` | A render of `App` moves the focus out of the field that is being typed in. |
| | `FocusComesBack` | A dialog's field with autoFocus has the focus before the effect notes what had it, so the drawer below does not get it back when the dialog closes. |

Seen on the way, and not about behaviour a model would show: `recordAudit` never
sets the duration that docs/architecture.md:80 mentions (server.go:647), and the page's filter asks for
`failure` where the server writes `failed` (AuditPage.tsx:31, server.go:644).

## 6. Not modelled

- Validation, defaults, YAML, encryption, password hashing and signatures: pure
  functions of one value.
- Routing, JSON, rendering, styles, embedded files and packaging.
- How the server compares a record with a text or JSON filter (a record matches
  or not), and `Produce`, which is one call.
- How long a blocked request waits for `configTxn`; only that it gets it. The
  Ping of a save, which has no timeout of its own (server.go:142), is taken to
  return.
- Requests in `server_reload`: they hold the read lock for two steps that
  cannot block, and are in `server`.
- The three requests to Kafka of a `Reset` of offsets (consumer/service.go:117):
  what a member does between them is for Kafka to refuse. `Create` of a topic is
  one call.
- The audit and listen settings of a reloaded configuration, which are read and
  not applied until a restart (main.go:94), and the end of `main`, which does not
  wait for handlers after its timeout (main.go:156).
- In the client: `AppErrorBoundary` (it shows an error until the page is loaded
  again), `JsonViewer`, icons, theme, sidebar, `connection-state.ts`,
  `consumers-model.ts`, the totals of `DashboardPage`, and the sorting and searching of
  what is already listed. They are functions of what is shown, with two preferences in
  localStorage. The Tab key inside an overlay and the arrow keys of tabs.
- Two pages at once: `App` shows one, and what it hands from one to the
  next (the cluster) is in `WebApp`.

## 7. Plan

Done, in this order: `ClusterManager` with `ClientPool` and its proofs,
`ConfigServer`, `Sampler`, `AuditLog` and `ConfigStore` with `LocalFiles`,
`MessageQuery`; then the client: `WebApp`, the pages with `WebPages`,
`TopicConfigs`, `LoginSession`, `Overlays`, `Feedback`; then the proofs of section 4.

Next, modules: a `KafkaAdmin` with the three requests of `Reset` against a broker whose
groups and retention move, and the list of consumer groups
(`consumers-model.ts`) against the lags the server sums up.

Then, abstract specifications of what users are promised, each with its refinement
proved: a configuration that is replaced at once, for `ConfigServer`; a file with one
text and a set of backups, for `ConfigStore`; a set of scanned records and its newest
matches, for `MessageQuery`.
