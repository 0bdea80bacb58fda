# A TLA+ verification project for iptv-proxy

iptv-proxy puts one address in front of several IPTV providers. A Go process (`cmd/proxy`,
`internal/`) serves the players: it caches catalogs in Redis, shares one provider connection
between the viewers of a live stream, and rewrites playlists. A Next.js process (`app/`, `lib/`)
serves the administration UI, keeps providers and settings in SQLite, and operates the VPN of the
container in which both processes run. The two talk over loopback HTTP with an internal token.

This directory holds TLA+ models of the parts of that system that have state shared by concurrent
actors, the TLC runs that check them, and TLAPS proofs about them. Paths below are relative to the
repository.

## 1. Inventory

| Component | State | Operations | Talks to |
|---|---|---|---|
| Metadata cache, `internal/cache` | Redis: manifest hash, body chunks, entry lock; memory: `specs`, `timers`, `readers`, `retired` | `GetOrFetch`, `Register`, `Warm`, `Purge`, `PurgeAll`, `refresh`, `Remove`, `Release` of a response | Redis, the provider (through `Spec.Fetch`), event sink |
| Bulk refresh, `internal/proxy/cache_bulk.go`, `cache_warm.go` | Redis: bulk lock, bulk state | start, detached job, status with repair | cache (`Warm`), registry, admin API |
| Live multiplexer, `internal/stream`, `internal/proxy/live_proxy.go` | `sessions` map, per session viewers and signals, per viewer a bounded queue | `Subscribe`, `run`, `broadcast`, `Remove`, `cancelIfEmpty`, `Next`, `finish` | the provider, HTTP clients |
| VPN, `lib/services/vpn`, `app/api/vpn` | tunnels and routes of the container, settings row, promise mutex | connect (WireGuard, OpenVPN, VPNGate, WARP), disconnect, reconcile, rotate | `ip`, `wg`, `openvpn`, `warp-cli`, SQLite |
| Provider registry, `internal/provider`, `internal/routing` | snapshot of the enabled providers | `Refresh`, poll every 30 s, `Snapshot`, `Resolve` | UI (`/api/internal/providers`) |
| Request handler, `internal/proxy/handler.go`, `xtream_*.go` | none | route, authenticate, dispatch | all of the above |
| Media tokens and HLS, `media_token.go`, `hls.go`, `m3u.go` | Redis tokens with a TTL of six hours | mint, resolve, rewrite | cache, provider |
| Artwork, `artwork*.go` | Redis targets, negative entries | learn, resolve, try candidates | provider |
| Direct, catch-up, transparent proxies | none (candidate lists) | try candidates in order, follow redirects | provider |
| Operation states, `cmd/proxy/cache_state.go` | Redis: last event per entry | persist, load | cache events |
| Logs, `internal/logging`, `lib/services/log.service.ts` | queue of 2048, log table | enqueue or drop, write, prune | UI |
| Providers and users, `lib/services/provider*.ts` | SQLite | CRUD, default provider | registry notification |
| Authentication, `lib/auth`, `app/api/auth` | users, session versions, attempt buckets | setup, login, logout, password change | SQLite |
| Database, `lib/db` | schema version | initialise, migrate | SQLite |
| Supervision, `docker/entrypoint.sh` | two child processes | stop both when one exits | Docker restart policy |
| UI, `app/**/*.tsx`, `components/` | view state | - | API routes |

What is hard in each, and what makes it correct:

* **Cache.** A response is several Redis keys that are written, switched and deleted one command
  at a time while requests read them, under a lock with a TTL, in a process that may die. Correct
  means: a request gets one whole generation or a miss; the active entry survives a failed
  replacement; no chunk stays for ever; the lock is exclusive and temporary; an entry never loses
  its refresh job.
* **Bulk refresh.** State and lock are two keys. Correct means: one operation at a time, an outcome
  that says what happened, and no status that says "refreshing" for ever.
* **Multiplexer.** Subscribing, broadcasting and leaving interleave between short critical
  sections. Correct means: one provider connection for a stream, none for nobody, every viewer gets
  consecutive chunks up to the end or is told that it was dropped, and nobody waits for ever.
* **VPN.** Promises interleave at every `await`; a status poll repairs the stored state while a
  connect changes the tunnels. Correct means: one tunnel, never replaced implicitly, services
  reachable through the bypass table, a stored state that follows the tunnels, a mutex that always
  moves on.
* **Providers and registry.** Handlers read, await and write; forms send rows that are old; the Go
  core copies the tables on its own schedule. Correct means: the tables keep their constraints and
  the core ends up routing as they say.
* **Database.** An attempt to open it may break off anywhere. Correct means: the next attempt goes
  on from there, no password is lost, and a snapshot holds what was there before.
* **Sessions.** Checking and hashing a password take a while. Correct means: a session that is
  accepted belongs to the current password.
* **Log.** An entry reaches the page on three ways. Correct means: once, in the order of the core,
  and only what the filter shows.
* **VPN drivers.** A sequence of commands breaks off anywhere, and files outlive processes. Correct
  means: nothing is left of a tunnel that is down, and what is taken for the tunnel is the tunnel.
* **Tokens, artwork.** TTLs that do not fit each other.

`PROJECT.json` lists the hazards one by one at the line where each bites, with the properties that
cover it.

## 2. Modules

| Module | Models | Role |
|---|---|---|
| `CacheManager` | one cache identity of `internal/cache` | state machine |
| `CacheContract` | what the cache promises its clients | abstract specification |
| `MCCache` | | TLC instance (symmetry) |
| `CacheManagerProofs` | | types, lock, active generation, order of the generations, reads, leftovers, refresh job, refinement of `CacheContract` |
| `StreamManager` | one stream key of `internal/stream` with its HTTP handlers | state machine |
| `MCStream` | | TLC instance (symmetry) |
| `StreamManagerProofs` | | types, one connection, no idle connection, viewers are served, the stream is whole, no signal is lost |
| `BulkRefresh` | bulk job and bulk status | state machine |
| `MCBulk` | | TLC instance |
| `BulkRefreshProofs` | | types, one operation, honest outcomes |
| `VpnManager` | VPN manager, its API routes, the settings row | state machine |
| `MCVpn` | | TLC instance |
| `VpnManagerProofs` | | types, mutex and its queue, one tunnel, bypass |
| `VpnDrivers` | `wireguard.ts`, `openvpn.ts`: what the calls of VpnManager do to the container | state machine |
| `MCDrivers` | | TLC instance (symmetry) |
| `VpnDriversProofs` | | types, nothing is left, the pid file |
| `Providers` | providers, their users, the UI's forms, the registry of the Go core | state machine |
| `MCProviders` | | TLC instance, installed rows and edits |
| `Database` | `lib/db`: opening, snapshot, migrations | state machine |
| `MCDatabase` | | TLC instance |
| `DatabaseProofs` | | types, passwords, the open database, the snapshot |
| `AdminSessions` | `lib/auth`, `app/api/auth`, the login page | state machine |
| `MCSessions` | | TLC instance |
| `AdministrationProofs` | | AdminSessions: types with the rate limit, sessions are current, revocation is final; Providers: types, the copy is unambiguous, routing agrees, settled stays |
| `LogService` | `internal/logging`, `log.service.ts`, `app/api/logs`, the log page | state machine |
| `MCLogs` | | TLC instance, filters |
| `LogServiceProofs` | | types, sent once, nothing skipped, the order of the core, the list and its filter |

The components share no state in memory. VpnManager uses the drivers of VpnDrivers under `vpnLock`,
one call at a time, and each of its steps `stop` and `start` is a whole call there. BulkRefresh uses the cache through `Warm`, whose three
results (published, failed, replacement in progress) are the three values of `Counted`; the cache
itself has `warm` among its operations, run concurrently with every other one.

Definitions whose name begins with `Faulty` are deliberate slips (a dropped guard, an off-by-one, a
missing clean-up) next to the definition they would replace. Nothing uses them; replacing the
right definition by one shows that a property is able to fail.

### CacheManager

* `manifest` is the Redis hash, `store[g][c]` the chunk keys with what their TTL says (`staged` two
  hours, `live` none, `retiring` one hour), `lock` the entry lock with its owner's identifier.
* `registered`, `timer`, `leases`, `retired` are the maps `specs`, `timers`, `readers`, `retired` of
  `Manager` at this key. The reader count is the set of requests counted.
* A worker is a goroutine in `refillMissing` (`fill`), `Warm`, `Purge`, `refresh` or `Remove`. Every
  Redis command is a step. `Publish` is one step because `publish` holds `mu` from the script to
  the decision who cleans up, as `get` does from `loadManifest` to the lease.
* Failures: a manifest read (`read`), a chunk read of a request (`chunk`) or a write (`write`) that
  fails, `cleanup` commands whose error is ignored, and `lost`: the command ran and its reply did
  not arrive. `Crash` forgets the memory and rehydrates.
* `LockTTLElapsed`, `StagingTTLElapsed`, `FallbackTTLElapsed` say when a TTL can be over. They
  encode relations of constants of the code: 35 minutes (lock) and two hours (staging) exceed
  the 30 minute deadline of an operation; one hour exceeds the time a request reads a body. They are
  assumptions on time, not consequences: a process suspended for longer would break them.
* Abstracted: chunk contents, the kinds of item counts to `items`, `empty`, `unknown`; delays of the
  refresh timer; entries with TTL 0, which bypass Redis; event logging; the listing of entries.
* `Remove` is started only by rehydration today, before the server listens. The model lets it run at
  any time, as its own comment ("a request either pins the old generation or sees a miss") claims.

`CacheContract` is a register: a read takes the active value and is served that value, and the only
thing that ends a read without serving it is a restart.

### StreamManager

* `current` is `sessions[key]`. `phase[s]` is where the session's goroutine is in `run`, `broadcast`
  or `finish`; `canceled`, `ready`, `openErr`, `started`, `done` are its context and channels.
* `stage[r]` is where a request is in `Subscribe`, `Next`, `Remove` or `cancelIfEmpty`; `queue`,
  `closed` are its `Viewer`.
* What a mutex protects is one step. Everything between two critical sections is a step boundary:
  the check of `done` and `addViewer`, `empty` and `cancel`, the four parts of `finish`, the response
  body that is closed after `finish` because deferred calls run in reverse order.
* Chunks are numbers, so a gap or a lost tail is visible. `broadcast` has both forms: blocking for
  one viewer, dropping for several.
* Abstracted: HTTP headers, HLS detection, chunk contents, `Snapshots`.

### BulkRefresh

* `bulkLock`, `bulkState` are the two Redis keys, `jpc`/`counts` the detached goroutine, `cpc`/`seen`
  a status request, which reads the state, reads the lock, and writes the state it read.
* `Fails("write")` is a failing SET or release script, at every place that the code lets one pass.
* Entries are counted, not named; providers and the five standard specs of each are `NumItems`
  entries.

### VpnManager

* `tunnels`, `bypass` are the network of the container, `status`, `active` the settings row,
  `locked`, `queue` the promise mutex; `saw`, `found`, `was` the locals a request carries across an
  `await`.
* A step ends at an `await`. The three probes made with `Promise.all` are one step, and so are the
  three stops.
* Faults: `profile` (missing or disabled), `stop` (a tunnel survives), `route` (`ip` fails), `crash`.
  `TunnelDies` is not counted: tunnels may go at any time. A rotation of WARP that reports a failure
  may still have brought the tunnel up (`Rejoins`): a connect that was not verified in time is not
  undone.
* Abstracted: profiles, endpoints, handshakes and public addresses (a start or a verification
  succeeds or fails), database errors, the registration of WARP, the editing of profiles, the
  second attempt of the VPNGate route, WARP's own reconnect after a container restart. A VPNGate
  connection is an OpenVPN connection whose profile comes from the server list.

### VpnDrivers

* `link`, `routes`, `files` are what `ip` and /tmp/vpn show; the route around the tunnel is
  `endpoint` while the file endpoint-route remembers it and `forgotten` when no file does.
  `pidFile`, `log` are the two files that `isConnectionActive` of OpenVPN believes; `log` is the end
  of openvpn.log, which is all that is read of it, and `Scrolls` is the completion line leaving it.
  `process[p]` is what has a process id (`States`). `todo` is the list of driver calls that
  VpnManager makes for one connect or disconnect, `step` the command the first of them awaits,
  `target` the process whose end `stopConnection` waits for, read from the file before the wait.
* Every command of a start may fail, which leads to the cleanup the code has there: the driver's own
  (`cleanupRuntimeNetwork`) and the manager's stop. It may also report a failure (a timeout) after it
  took effect; `AddBypass` may set the route and fail to write the file.
* The cleanups may fail too, which counts as a fault: `ip` fails, WireGuard keeps any of its files
  (each unlink that throws is ignored), OpenVPN keeps all files from the first unlink that throws.
  `dirty` records what a cleanup has tried to remove and could not, until it is removed or written
  again by a later call; `openvpn.pid` is in it when the id in that file is not, or no longer, that of
  the last start.
* An OpenVPN may write its pid, complete or exit between any two steps, also after it was told to
  end. Its process id is free again when it has exited, for another OpenVPN (`Spawn`) and, while the
  file still names it, for something else (`Reused`).
* `Restart` empties the network and the process table, gives some ids to other processes, and leaves
  /tmp: entrypoint.sh ends the container, and Docker starts the same one again.
* Abstracted: which addresses and allowed networks are routed, DNS, key material, IPv6 beyond "there
  may be no endpoint route"; two routes around the tunnel that no file remembers are one.

### Providers

* `providers`, `users` are the two tables, with the route, the two flags and the first user's name
  (`local`) in a provider's row. A tab has one request; `pc[t]` is the `await` it is at, `row[t]` and
  `saw[t]` are `existing`: what the handler read before. A form that is open keeps in the same two
  variables the row its page loaded, and `SaveProvider` and `SaveUser` send all of it.
* `Commits` is a batch: all of its statements, or an error if a unique index or a foreign key refuses
  them. `ReadIdentity` and `WriteIdentity` are the read and the write of `syncLegacyIdentity`.
* `fetch[f]` is a fetch of the Go core, started for a tab's notification or by itself; the endpoint
  reads the providers with one SELECT and their users with one for each. `snapshot` is
  `Registry.providers`. `Resolve` is `Resolver.Resolve`, and `ResolveProviderByPath` what the tables
  would say.
* Abstracted: names, hosts, upstream credentials and password hashes of the rows; validation of the
  input; route normalization (routes are normalized); the users of one fetch are read at once.

### Database

* The rows that a migration changes (`default`, `plain`, `client`), `schema_migrations` (`applied`),
  the snapshots beside the file. `pc` is the statement the attempt awaits; `todo` the rows a loop has
  still to visit, read before the loop.
* `StatementFails` rejects the callers of the attempt, who may call again; `Killed` forgets the
  process; what was written stays. Either may leave an unfinished snapshot when it breaks off the
  VACUUM INTO (`LeavesBackups`), which `Prune` of a later attempt counts like any other. `Verify` may
  also find the snapshot bad.
* Abstracted: the text of tables, indexes and triggers; the chmod of files; one provider row has one
  client.

### AdminSessions

* `users[n]` is a row with its password and `session_version`. A `cookie` is a signed token: it names
  an administrator and a version; which password opened it is history. `saw[b]` is the row a request
  read before it began to check or hash a password.
* `attempts` are the buckets of rate-limit.ts, lost with the process. The key of a bucket also has
  the client's address, here one for all.
* A change of the password that overlaps another sets `crossed`: both write the version they read
  plus one.

### LogService

* `queue`, `posting` are the Go client; `at[e]` is where a write is: queued, before its INSERT, before
  its event. `rows` is the table by rowid, and a new row gets the largest rowid plus one, so that
  rowids come again after the last rows were deleted.
* `conn`, `lastRow`, `seen`, `tail` are one stream: the largest rowid is read before the listener is
  there. `list`, `filter`, `fetches` are the page; a change of the filter cancels the fetch under way
  and opens a new stream.
* Abstracted: levels, sources, categories and search text are one `kind`; the LIKE of the database and
  the `includes` of the page are taken for the same test; totals, paging, export; one read of the tail
  is over before the next begins (two seconds).

## 3. Runs

| Run | Shows |
|---|---|
| `cache_safety` | with two workers in every operation and two readers: whole active generation, pinned generations readable, lock owned, no chunk without TTL is left behind and every retired generation has a reader to delete it, every entry has a refresh |
| `cache_contract` | the manager implements `CacheContract`, with a crash; lock, retired generations and temporary chunks go |
| `stream_safety` | one connection, no gaps and no lost end, no idle connection, viewers are served |
| `stream_liveness` | a canceled session ends; `Subscribe` returns |
| `stream_closure` | **violation**: a viewer added during `finish` is never closed |
| `bulk_refresh` | one operation, honest outcome, status and lock end |
| `vpn` | one tunnel and the bypass unless rotated (and, for the second, unless a fault happened), mutex, stored state |
| `drivers` | nothing is left of a tunnel other than the one the last call brought up, but what a cleanup could not remove; the pid file names the live tunnel, until a late writer or a reused id |
| `providers` | the core ends up routing as the tables say, whatever was lost or overtaken |
| `database` | no client password is lost, ready means migrated, the original is in a snapshot, it opens in the end |
| `sessions` | an accepted session was opened with the current password |
| `logs` | entries are sent once, are sent at all, in the order of the core; the list fits the filter |

The violation is a disagreement between the code and its own comment, listed under `findings`.

Some properties say under which condition they hold, because the code does not hold them without:

* `OneTunnelUnlessRotated`, `ReachableUnlessFault`: a WARP rotation disconnects and reconnects without
  `vpnLock`, so that a connect in between leaves two tunnels; and a connect whose profile is missing
  or disabled throws before `assertCanStartConnection`, so that its catch block removes the bypass
  routing of the tunnel that is up (`rejoined`, `faults`).
* `SessionsCurrent`: two overlapping changes of a password write the same `session_version`, and the
  session of the one that lost stays valid (`crossed`).
* `PostedInOrder`: a POST that timed out may be stored after the next one (`timeouts`).
* `NothingLeft`: a tunnel that came up and died by itself (its interface lost, its OpenVPN exited)
  keeps its key, its password and its endpoint route until the next call (`result` is still its type);
  what a cleanup tried to remove and could not is left (`dirty`); a route is forgotten for good when
  its deletion failed while its file went, or when the file could not be written
  (`wireguard.ts:180-181`; `"forgotten"` in `routes`); and between a container restart and the first
  call the files of the last run are in /tmp (`boot`).
* `ActiveIsOwn`: between a container restart and the first call `openvpn.pid` may name another process
  (`boot`). A process of a failed start, told to end, may write its id over that of the tunnel that
  came up after it: the file then names it, and when it exits the status poll does not see the live
  tunnel. The id of a process that ended may be given to another while the file still says it. Both
  last until the file is removed or written again (`"openvpn.pid"` in `dirty`). The property does not
  say that a live tunnel is always taken for one: once more than 4000 characters have followed its
  completion line, `isConnectionActive` is false, `assertCanStartConnection` lets a connect through,
  and `prepareForConnection` stops the live tunnel, although its comment (`vpn-manager.ts:119-121`)
  says that it never does. The model has this behaviour; no run states the comment.
* `OriginalKept`: `MAX_MIGRATION_BACKUPS` attempts that break off prune the original away (`faults`).
* `NothingLeaks`: checked without crashes. A process that dies between the switch of the manifest and
  the clean-up leaves the old generation without a TTL, and nothing remembers it.
* `ActiveComplete`, `PinnedReadable`: without lost replies. When the reply of the publish script is
  lost after it ran, the deferred clean-up deletes the generation the manifest now names.

Two more behaviours are in the models and forbidden by no property: a status request of the bulk
refresh that read the state before the outcome was recorded writes `interrupted` over it, and the page
of a provider's users says "applied to the proxy core" when an older fetch of the core is still to be
stored.

Bounds, and why the interesting cases happen within them:

* Cache: two workers give every pair of operations on one entry; a third could only wait for the
  lock. Two readers give the last and the not-last release of a lease. Two generations give a
  replacement of an active entry, and two chunks a generation that is half written, half read or half
  deleted. `cache_contract` has one reader, because the refinement says nothing that relates two.
* Stream: two requests give a joiner and a leaver; two sessions give an old one that unwinds beside
  its successor; a queue of one is full after one chunk; three chunks give a gap in the middle.
  Liveness uses one session (a later one behaves as the first), which is why `NobodyHangs` lets
  a request wait if the bound leaves it no session.
* Bulk: two jobs and two callers give a start beside a status request of an earlier job; two entries
  give a partial outcome.
* VPN: two requests give one in the mutex and one beside it or waiting for it, and one fault. A
  second fault adds only combinations that the safety properties exclude by `faults = 0`.
* Drivers: four calls give a connect after a disconnect after a connect, and two faults a removal
  that fails before a restart or before another one of the next cleanup; three process ids give an
  old OpenVPN beside a new one and a third owner of an id, and with four calls an id is used twice.
* Providers: two installed providers and a free id, two tabs with one request each (or one tab with
  two) of every kind, and one own fetch: every pair of handlers, and two overlapping fetches beside
  the poll. One loss, of either kind.
* Database: two providers give a loop that breaks off in its middle and two rows that are default;
  three faults are one more than the snapshots that are kept (two).
* Sessions: two browsers give every pair of requests, two changes an overlap and a setup after a
  setup, two attempts a limit that two concurrent logins pass.
* Logs: two entries, a page, a queue and a tail of one: each is full or too short at the second entry.
  One deletion gives a rowid that comes again, one fault a reconnect, a timeout or a new filter.

`CHECK_DEADLOCK FALSE` is used where the bounds stop the model: the stream runs (sessions used up and
every client gone), `drivers` (calls used up) and `logs` (entries and edits used up).

Fairness is weak fairness of what the program or its libraries bound in time: goroutines whose
Redis commands and fetches have deadlines, request handlers, Redis expiry, Promise callbacks of
handlers whose commands have timeouts, database statements, the poll of the registry (30 s) and the
tail of the log stream (2 s). Two things come from outside: the UI polls the status of the VPN and of
the bulk refresh, and requests that await `initDatabase` keep coming, because the Go core asks for the
providers every 30 seconds. A reader of a cached response (`Done`) ends with its HTTP connection.
Nothing forces a client to ask, an operation to begin, a process to die, or a provider to succeed.

## 4. Proofs

All proofs hold for every value of the constants that the named ASSUMEs allow.

* `CacheManagerProofs`. `TypeCorrect` needs, beside `TypeOK`, that a worker that writes or publishes
  has a manifest to write (`StagingTyped`). `LockOwned` is inductive with `TypeOK`: the lock key of a
  worker in its critical section can be changed only by that worker, because of the owner check of
  the release script and of the TTL assumption. `ActiveWhole` and `ReadsSucceed` are proved from
  `SafeInv`: generations of identifiers not handed out are unused, a staged generation is private to
  its writer, `old` of the lock owner is the active manifest, what a worker or a reader deletes has
  no lease and is not active, retired generations are not active, leases are exactly the requests
  between `Get` and their release. Only together are these inductive: that a deleted generation has
  no reader depends on leases being exact, that a retired one is not active on the lock. Both
  theorems assume `NoReplyLost` (the fault `lost` does not happen), which is needed: see section 3.
  Crashes and every other failure are included.
  `ContractKept` is the refinement: initial states map to initial states, and each step to a step of
  `CacheContract` or to a stutter. `Get` is `Begin`, the last chunk is `Serve`, a publish or a removal
  replaces the value; that no empty catalog replaces one with items takes `Unreplaced`, which says that
  what a worker compared with is still active when it publishes. It assumes `ReadsAnswered` (none of
  the faults `read`, `chunk` and `lost`): a chunk that cannot be read does end a request, and a fill that
  cannot read the manifest compares with nothing.
  `NoLeaks` strengthens `NothingLeaks` to `LiveOwned`: the active manifest counts the live chunks of its
  generation, and what a worker or a reader is deleting it deletes in order. It assumes `CleanupsRun`
  and no crash yet, which section 3 explains.
  `RefreshKept`: `RefreshPending` counts a refresh until it ends. The invariant `Rearmed` no longer
  counts it once it has armed the next one, and is inductive for that reason. A manifest that cannot
  be read does no harm to it while the process lives; a process that starts and cannot read it
  arms nothing (`RehydratePersistedCache` logs it and goes on), so the theorem speaks of `read` until the first crash.
  `EntryMovesForward` needs no hypothesis on the faults. `ForwardInv` says that everything active or still read
  is older than what a worker has staged; it is inductive because by `OwnsLock` one worker at a time has
  anything staged, and because identifiers only grow.
* `StreamManagerProofs`. `SharesUpstream` and `NoConnectionLeaks` follow from `StreamInv`, whose core
  is that an uncanceled live session is the one in the map, and that every such session has a
  request that waits for it, watches it, or is about to cancel it. `ServesItsViewers` follows from the
  same invariant. `NothingIsSkipped` needs `WholeInv`: what a viewer was given and what its queue holds
  are consecutive and reach to the last chunk its session has sent, and a viewer that is closed
  without being dropped has them all. `StreamTyped` needs `ChunkInv`, where a session is when it holds
  a chunk. `NobodyIsStranded` needs `SignalInv`: the channels `ready` and `done` and the map tell where the
  goroutine of a session is, a request is with a session that was created, whoever watches has started
  it and is among its viewers or was closed. That a session which waits for a first viewer is not
  forgotten follows from this and from `NoIdleUpstream`.
* `BulkRefreshProofs`. `OneBulkRefresh`, `OutcomesHonest` and `BulkTyped` follow from `BulkInv`: jobs that
  work own the lock, the counters of a job agree with where it is (`Tallied`), and what a status request
  has read and may write back is not an outcome (`HasSeen`).
* `VpnManagerProofs`. `OneTunnelAlways` and `ReachableAlways` follow from `VpnInv`: `Control` (the
  promise mutex has at most one holder, and those who wait are queued once), `Single` (who is about to
  start a tunnel has found none, and nobody outside the mutex brings one up) and `Reachable` (where
  the bypass routing is removed no tunnel is up). Crashes and failing stops are included in the first.
  `VpnTyped` adds that only operations on tunnels come to the steps that write a type (`Reached`).
  `NobodyForgotten` and `NobodyOvertakes` follow from `Control` and from `LockAccounted`, which is inductive with
  it: the hand-over of `release` takes the first waiter off the queue and leaves the mutex locked.
* `VpnDriversProofs`. What a driver has left has an owner: the tunnel the last call brought up, the
  start under way, a stop that is still to be made, nobody since the restart, or nobody because a
  cleanup failed to remove it. `WireguardInv` says it of the interface, the routes and the files of
  WireGuard, `OpenvpnInv` of the process and its files. `Awaited` says whose end a stop waits for,
  `LogInv` that the log is not completed while an OpenVPN is still to come up, which the deletion of
  the log before each start makes true, and `PidInv` whose id the file has (`OwnPid`), unless it was written late or given
  away. That the stop is still to be made is read off the list of calls, of which a start is the last
  (`CallInv`). `NothingIsLeft` and `ActiveIsOurs` are their cases between calls, with the exceptions
  of section 3 and no others.
* `DatabaseProofs`. `PasswordsKept` and `ReadyIsMigrated` follow from `DbInv`: the records say which
  statements have run (`Versioned`), each statement of a migration that has run has done its work on the
  rows its loop has visited (`Migrated`), and a password leaves a provider's row only when the
  client has it. `OriginalIsKept` and `DatabaseTyped` follow from `BackupInv`: each broken attempt pushes
  the original by one place in the list of snapshots at most.
* `AdministrationProofs`, sessions. `SessionsAlwaysCurrent` needs `Agreement`: every session, and every row that a
  request has read, is the current row of its administrator or older than it, where equal versions
  mean equal passwords. It is inductive because versions only grow, unless two changes overlap.
  `SessionsTyped` bounds the failures of a name: those counted and the logins under way are together no
  more than the limit and the number of browsers (`LimitInv`), because the limit is read before a
  password is checked and the failure is counted after it. `RevocationIsFinal` is proved from the same
  invariant: a row that would accept a session again would have its version, and versions grow.
* `AdministrationProofs`, providers. The module takes Providers as the instance `P`, whose constants are
  constrained by the hypothesis `P!ConstantsFit`: the assumption `ProvidersAssumption` of Providers,
  which TLC evaluates in `providers`. `RegistryTyped` is the `TypeOK` that run checks, as `P!TypeOK`. `ProvidersInv` has three parts: what each handler holds at the
  `await` it is at (`HandlerHolds`), consistent tables (`TablesInv`), and the copy of the core
  (`CoreInv`). `RegistryIsUnambiguous` follows from the last: the rows of an answer were read with one
  SELECT, and the users of a provider with another, so each list is without doubles because the table
  had none when it was read, even if the two lists never were in the database together.
  `ResolversAgree` (over `RoutesAgree`) says that the two implementations of routing give the same
  answer once the copy is that of the tables, whichever entry a CHOOSE would take, and `SettledIsStable`
  that no fetch under way can undo this: they are what `RegistryConverges` rests on besides fairness.
  These three properties (`RegistryUnambiguous`, `SettledRoutes`, `SettledStays`) are in no run; TLC
  checked them on the instance of `providers` before they were proved.
* `LogServiceProofs`. `SentOnceAlways` needs `StreamInv` and `RowsInv`: what was sent is in `seen`, a
  result of the tail has no entry twice because the table has none twice, and it has none twice because
  an entry is inserted once, at a rowid above all others. `StoredInOrder` needs `OrderInv`: without a
  timeout the one entry of the core that is on its way is the one that is posted, later than all in the
  table and earlier than all in the queue. `ShownListFits` needs `PageInv`: a request that is not
  cancelled asks for the filter of the page, and an answer fits what was asked. `LogTyped` bounds the
  queue and the list; that rowids stay in bounds takes counting the entries that were inserted.
  `TailSkipsNothing` needs `CoversInv`: a row that was in reach of a result of the tail is in it, or was
  sent, or its event is due, and a result is never longer than the tail sends. It is the part of the
  proof that deletes and rowids given again could break.

The assumptions are those of the modules (`...Assumption`): finite bounds are natural numbers, the
special values are not among the ordinary ones, and there are finitely many browsers. The hypotheses
of the cache's theorems (`NoReplyLost`, `ReadsAnswered`, `CleanupsRun`) restrict `Faults`, and the runs
of the cache check the same properties with faults that satisfy them. None can be dropped: with any
fault that its theorem excludes TLC finds each property violated on a small instance (the refinement
under `read` with two kinds of items and `warm`, the refresh under `read` with one crash).

The invariants were checked by TLC on the instances of the runs before they were proved. Six more
properties are in no run and were checked in the same way: `NeverRollsBack`, `NoLostSignal`, `LockAccounted`,
`InTurn`, `RevokedForGood` and `NoneSkipped`. `NoLostSignal`, `LockAccounted` with `InTurn`, and `NoneSkipped` are what
`NobodyHangs`, `LockGranted` and `Delivered` rest on besides fairness: they exclude that a signal, a waiter
or a row is lost. That the steps which they leave possible are taken in the end is what fairness adds,
and what TLC checks.

Model-checked only: everything about liveness (`LeftoversGo`, `NobodyHangs`, `OperationEnds`,
`LockGranted`, `StaleEnds`, `RegistryConverges`, `Recovers`, `Delivered`), which is out of the prover's
reach under fairness.

## 5. Not modelled, and the plan

In the order planned:

1. `MediaTokens`: tokens against catalogs, TTLs, refreshes. Property: a link of a catalog that is
   served resolves.
2. `Artwork`: learned targets, catalog refreshes, negative cache.
3. `RequestPolicy`: path classification, candidates of catch-up, as pure operators against a
   reference definition.
4. `MigrateLegacy`, the persisted operation states and the HLS case of the multiplexer, as additions
   to CacheManager and StreamManager.
5. VPN profiles: their CRUD checks that a profile is not active without `vpnLock`; the registration of
   WARP; the cached list of VPNGate servers.

Left out for good: layout, CSS and wording of the UI; text formats (M3U, JSON, WireGuard and OpenVPN
files) beyond what a property distinguishes; TLS, HTTP and Redis themselves; the speed test and
geolocation calls; the file with the signing secret.

## 6. Running

In this directory, `tlc -config MCCacheSafety.cfg MCCache` (and likewise for the other pairs of
`PROJECT.json`), and `tlapm CacheManagerProofs.tla`. The longest run takes about two minutes with two
workers.
