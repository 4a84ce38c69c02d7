# hapudding in TLA+

hapudding (HAP) is a reverse proxy in front of several independent Jellyfin
servers.  A client's access token is valid on the one server that issued it, so
HAP's job is *affinity*: remember which backend a client belongs to, keep it
there, and decide what happens when that backend is down or parked.  This
directory models that logic, model-checks it with TLC on small instances and
proves the central properties with TLAPS for every instance.

    tlc -workers 2 -config ProxyConcurrent.cfg MCProxy.tla
    tlapm ProxyProofs.tla

## The system

| Component | Source | State | Operations | Model |
| --- | --- | --- | --- | --- |
| Affinity store | `internal/store` | four binding tables, `backend_flags` | lookups (with lazy delete of expired rows), upserts, touches, deletes, unpin | `Bindings`, used by `Proxy`; `UserPins` |
| Router | `internal/router/router.go` | none of its own; reads store, flags, health | `Decide`, `LoginCandidates` | `Router` |
| Disable flags | `internal/router/flags.go`, POSTs of `internal/status` | table row + in-memory map | `SetRuntime`, `load` | `BackendFlags`, `Overlay` |
| Request handler | `internal/proxy/proxy.go` | locals of one goroutine per request | `ServeHTTP`, `login`, `proxy`, `peekLogin` | `Proxy` |
| Health monitor | `internal/health` | last snapshot per backend, failure times | `Run`, `probe`, `RecordAuthFailure` | `HealthMonitor`; one action of `Proxy` |
| Status server | `internal/status` | none | disable, enable, unpin, readiness, listings | actions of `BackendFlags`, `UserPins`, `Proxy`; operators of `HealthProperties` |
| Image cache | `internal/imgcache`, `internal/proxy` | LRU in memory, LRU of files on disk | get, put, evict, expire, load | `ImageCache` |
| Image reads | `internal/proxy`, `internal/imgcache` | in-flight table | conditional answers, shared hops, store | `ImageReads` |
| Library cache, coalescing, slots, warm-up | `internal/libcache`, `internal/proxy/proxy_perf.go` | LRU per token, in-flight table, semaphores | get, put, drop, `Do`, acquire/release | `LibCache`, `Library` |
| Identifier parsing | `internal/authheader` | none | `Parse` | its result only |
| Configuration | `internal/config` | immutable | `Load` | constants |
| Origin and server-id rewriting | `internal/proxy/origin.go` | none | rewriting of answers | no |
| Ops page | `internal/status/ui` | none | reads JSON, posts | no |

How they interact.  A request is one goroutine.  It asks the router for a
decision; the router reads up to four bindings, the flags and the health
snapshots.  The handler may then drop the client's rows, binds the rows of the
request one statement at a time (errors ignored), and hops.  A login instead
freezes a list of candidates and tries them in turn; the answer that carries a
token is bound, again one statement at a time, to the backend that gave it.
Probes, the operator's POSTs, TTLs and other handlers run in between.  Nothing
but the store's tables survives a restart.

What is hard, and what makes each part correct:

* **Interleaving.** A decision is used several statements after the reads it
  rests on.  Correct: a token stays with its issuer whatever runs in between
  (`TokenPinnedToIssuer`, `TokenForwardedToIssuer`).
* **Partial failure.** Every store statement may fail by itself and most errors
  are ignored.  A failed *lookup* must not look like a miss.
* **Policies.** `force_reauth`, `fail_closed`, `pin_unhealthy`, with another
  policy for gray-listed paths and for gray-listed clients, whose class must be
  remembered (`GrayTokenNeverDropped`), and an operator disable that beats all of them
  (`ParkedBackendNeverHopped`).
* **Failover.** Login moves between backends while health and flags change
  (`ReloginStaysHome`, `EveryRequestAnswered`).
* **Crash and restart.** Flags are written twice, to a table and to a map
  (`OverlayPromise`).
* **Caches and queues.** A library answer is read at one moment and kept, shared
  or delivered later.  Correct: it reaches nobody but the token it was read for
  (`AnswersOwn`), not after a write its client was told of (`EntriesFresh`,
  `ReadsOwnWrites`), and flights and slots are given back whichever way a request
  ends (`SlotsConserved`, `EveryReadAnswered`).
* **Two tiers and a directory.** Artwork lives in memory and in two files per key
  that are renamed one after the other, read without the lock, and outlive the
  process.  Correct: an answer fits what was asked (`AnswersFit`), is the last one
  stored (`CacheCurrent`), and the budget counts every file (`DirectoryMatches`,
  `AccountsExact`, `RestartKeeps`).
* **Shared hops.** Requests with one cache key can differ in method, conditions and
  range (`AnswersSuit`, `EntriesWhole`).
* **A slow monitor.** One goroutine asks one backend after the other, several
  requests each, while handlers report failures.  Correct: a verdict was deserved
  while it was formed (`VerdictsDeserved`), no failure is lost or counted twice
  (`NoFailureLost`), an outage is noticed and forgotten (`StatesConverge`), and
  whoever reads the snapshots draws the same conclusion (`ReasonsAgree`).
* **An operator's transaction.** Unpin finds rows by columns that logins and page
  visits keep up one statement at a time (`OthersKeepTokens`, `UnpinComplete`).

## Modules

| Module | What it is |
| --- | --- |
| `Bindings` | The binding tables as variables; one operator per SQL statement, giving a table's next value. |
| `Router` | `Decide` and what it calls, as operators that return the *set* of decisions the code can take; variables `health` and `runtime`. |
| `Affinity` | Abstract: what HAP promises about tokens, without handlers, tables and policies. |
| `Proxy` | The state machine: one record per handler goroutine with a program counter, one action per store statement or hop, and the environment. |
| `AffinityProperties` | The properties of `Proxy`, its refinement mapping to `Affinity`, its inductive invariant, its fairness. |
| `MCProxy` | Constants for TLC. |
| `ProxyProofs` | Theorems about `Proxy`. |
| `Overlay` | Abstract: what an operator may expect of a disable flag. |
| `BackendFlags` | `SetRuntime`, load and restart, with concurrent POSTs; implements `Overlay`. |
| `FlagsProofs` | Theorems about `BackendFlags`. |
| `Lists` | A list with elements removed, as both caches do it. |
| `LibCache` | The library cache: list, index and byte counter, one operator per operation of `internal/libcache`. |
| `Library` | Library reads and the writes that invalidate: cache lookup, coalescing, slots, hop, store, delivery, warm-up. Composes `LibCache`. |
| `LibraryProperties` | The properties of `Library` and its inductive invariant. |
| `MCLibrary` | Constants for TLC. |
| `LibraryProofs` | Theorems about `Library`. |
| `ImageCache` | Both tiers of the image cache and its files; lookups, writes, load, one action per critical section, file read and rename. |
| `ImageProperties`, `MCImage` | Its properties, its constants for TLC. |
| `ImageProofs` | Theorems about `ImageCache`. |
| `ImageReads`, `MCReads` | A request for artwork in the proxy: the cache (reduced to an entry or none), conditional answers, coalescing, the cut of long bodies; its properties; constants for TLC. |
| `ImageReadsProofs` | Theorems about `ImageReads`. |
| `HealthMonitor` | The probe goroutine, one action per request of a probe, the failures the handlers report, the clock, a stop. |
| `HealthProperties`, `MCHealth` | `eligible`, `Ready`, `IneligibleReason` and the page's view of a snapshot; the properties; constants for TLC. |
| `HealthProofs` | Theorems about `HealthMonitor`. |
| `UserPins`, `MCUserPins` | The user columns of the bindings and the unpin transaction, one action per statement; its properties; constants for TLC. |
| `UserPinsProofs` | Theorems about `UserPins`. |
| `ListLemmas` | Sums over finite sets and lists without repetition: what the proofs about the caches and the monitor share. |

`Library` starts where `Proxy` hops: its handlers have their backend already.
The two share no state, since affinity never looks at an answer from the cache
and library reads never change a binding's backend; so they are checked apart.
`ImageReads` starts in the same place.  It stands on what `ImageCache` shows of
`Get`, that an answer is one that was stored for the key or none, and adds what
the proxy does with it.  `HealthMonitor` details the one action `Probe` of
`Proxy`, which publishes any state: whatever the monitor can publish, `Proxy`
has been checked with.  `UserPins` details the one action `Unpin`: whichever rows
the user's name selects, `Proxy` has been checked with, for a transaction that is
alone.

### How `Proxy` corresponds to the code

* `req[r]` holds the locals of one `ServeHTTP`: the parsed identifiers, the
  `Decision`, the login candidates.  `pc` names the next statement:
  `decide`, `dropToken`/`dropDevice` (`DeleteClient`), `bind`
  (`BindDevice`/`BindAnon`), `bindToken`, `bindSession`, `hop`; for a login
  `login`, `try`, then `peekToken`/`peekDevice`/`peekSession` (`peekLogin`).
* A row is `[backend, gray, live]`.  `gray` stands for the stored `client`
  column, as far as it is read: does it match the gray-list.  `live` is false
  once the TTL has passed; the row stays until a lookup deletes it, and
  `CountsByBackend` counts it meanwhile.
* A decision's error is `backend = None`, whichever error it is; a drop with an
  error is `drop` with `None`.
* `issuer` and `held` are outside HAP: which backend issued a token, and which
  tokens a client has been given.  Clients send any token they hold, also after
  logging out.
* `forgotten` and `parked` are history variables, read by properties only
  (and by no guard): tokens whose row HAP dropped, deleted, aged out or failed
  to write; backends that were disabled when the request arrived and have not
  been enabled since.

The refinement mapping to `Affinity`: a token's home is its `issuer`; its pin is the
backend of its row while it is not forgotten (`PinNow`); it is lost when it is
`forgotten`, given when it is `held`; a request is sending it while it is at `hop`,
to the decided backend, and a login also while it is at `try`, to the candidate it
tries, for a login's hop carries whatever token its client sent along (`SentNow`).
A login answer is `Issue`, `PeekToken`
is `Pin` (`Lose` when the statement fails), `PeekSession`, which ends the login, is
`Give`; the step to `hop` is `Send`; the first try of a login with a token and each
one after a try that failed are `Carry`, which `Affinity` allows to any backend, so
that what is promised is that nothing but a login strays; drops, logouts, unpins and
expiry are `Lose`; whatever else handlers and the environment do is a stutter.
`sent` shrinks when requests end, which `Affinity` allows at any time.

What is abstracted:

* `Decide` is one step.  Its lookups delete the expired rows they meet in the
  same step; the gap between the two statements is left to a later module.  The
  errors of these deletes are ignored (store.go:245, 309), so each may leave its
  row, at the price of a fault; so may a lookup that fails after others.
* A path is a class: a login, a logout, `"media"` (which may follow a session),
  `"sync"` (on the gray-list, config.go:652) or `"api"`, the rest.
* The rows of the two anonymous tables vanish when they expire (no reader can
  tell); token and device rows are kept expired, because counts see them.
* Load is `tokens + devices` per backend; equal loads are broken by backend name
  in the code and left open here.  It is taken over the tables before the lookups'
  deletes.  An error of `CountsByBackend` is not modelled; the code reads it as no
  load anywhere, and as no binding in `hasLiveBinding`.
* The FNV hash is a constant `Hash` of which only `Hash(k, S) \in S` is assumed.
* A probe publishes any state, which covers layers, thresholds and
  `RecordAuthFailure` (module `HealthMonitor`).
* The cookie is chosen afresh at each decision; a client may lose or keep it.
* Unpin takes any non-empty set of token rows, with all device rows on their
  backends, in one step; which rows a username selects, and how the transaction
  lies between other statements, is module `UserPins`.
* A request is *identified* when it carries both DeviceId and `Client=`.  The
  DeviceId in a login answer is the client's own.
* A row that names a backend since removed from the configuration does not
  occur; the configuration is constant.
* An ordinary hop either ends with an answer, or with none (unreachable, served
  from a cache, left the queue for a library slot).

Operators commented *Seeded fault* belong to no behaviour of the specification.
They are wrong variants of the definition after them, kept to show that the
properties notice: substituted for it, each makes TLC report a violation.

### How `BackendFlags` corresponds to the code

`stored` is the set of names with `disabled = 1`, `runtime` is `Flags.runtime`,
`call[c]` is one POST between `setBackendDisabled` and its answer.  A failed
statement may or may not have taken effect.  `Restart` cuts every POST off where
it is and runs `load`.  `asked`, `open` and `alone` are history.  The refinement
mapping reads `Overlay`'s `parked` as `runtime`, the map the router consults;
`asked` and `open` map to themselves.  A POST is settled by its 200 if no other
POST about the same backend overlapped it; racing or failed POSTs leave the flag
open until the next one, or a restart that reads the table, settles it.

### How `Library` corresponds to the code

* `call[r]` is one handler inside `proxy`.  Its steps: `lookup`
  (`serveLibraryCached`), `join` and `wait` (`flight.Do`), `acquire`
  (`libSem.acquire`), `hop` (`hopOnce` or the reverse proxy, with the body read),
  `store` (`maybeStoreLibrary`), `release`, `deliver` (the answer or the error
  goes to the leader and its followers), `done`; for a write `write` and
  `invalidate` (`maybeInvalidateLibrary`).  The uncoalesced path takes the same
  steps without `join`, `wait` and followers.
* An answer is a record: what it was asked with (backend, token, path), the
  version of the backend's state it was read from, and its size.  Size 0 stands
  for whatever is never kept: another status than 200, another type than JSON, an
  empty body.  `reply = None` in the end is HAP's own 503.
* `idx`, `order` and `bytes` are `Cache.idx`, `Cache.ll` and `Cache.n`.
* `flight` is singleflight's table, `slots` the channel lengths of `libSem`,
  `warm` the goroutines of `warmLogin`.
* `version`, `acked`, `call[r].floor` and `reply.late` are
  outside HAP or history.  No guard but the bound on writes reads them.

Elements leave a list by `Deleted`, which is `SelectSeq` spelled out as a recursive
function, because the prover knows no definition of `SelectSeq`; byte counts are
`SumFunctionOnSet`.  `ImageCache` uses both as well.

What is abstracted: method and query are part of the path; the clock, an entry
being fresh until it expires at any moment; backends have no path prefix in their
URL (with one, the store and the lookup use different keys and nothing is ever
found); a body longer than `max_object` is not cut (the code cuts a coalesced one
at one byte past it).  A disabled limit on library hops is `MaxSlots` at the
number of requests.  Panics are left out, and so are writes without a token, which
invalidate nothing.  Reads of one token by several backends, and backends that
hand out a token twice, need no more than the key says.

The answer that is in hand when a write is acknowledged is the code's known gap:
it is stored, or shared, after the token's entries were dropped.  `reply.late`
marks exactly those answers, and the freshness properties except them: they say
that there is no *other* way to a stale answer.

### How `ImageCache` corresponds to the code

* `memory` and `disk` are the two lists with their indexes and byte counters
  (`ll`, `idx`, `n`; `diskLL`, `diskIdx`, `diskN`), `metaFile` and `binFile` the
  directory.  `writer` is the handler that writes files and so holds `Cache.mu`;
  every other section under the mutex is one action and waits for `Unlocked`.
* A lookup is `GetMemory`, `GetIndex`, then `ReadMeta` and `ReadBin` without the
  mutex, then `KeepRead` (`putMemoryLocked`) or `DropRead` (`dropDiskKey`).  A
  store is `Fetch` (`maybeStoreImage`), `Put` up to the .tmp files, `RenameBin`,
  `RenameMeta` with `addDiskIndex`.  `Restart` may come between any two of them and
  is `loadDisk`.
* An answer is its url, a serial number and its size.  Two answers of one url and
  one size are what a disk read can mix unseen: the code compares sizes only.
* `removeDiskFiles` is `RemoveFiles`: each of a key's two files goes or, unnoticed,
  stays, for errors of `os.Remove` are ignored (disk.go:299).  A process that dies
  between the removals is such a step with `Restart` after it.  A key with a file
  that stays costs a fault.
* `latest`, `leftover` and `unsure` are history, read by no guard: the last answer
  given to `Put`; keys whose last write failed or was cut off, or one of whose files
  could not be removed; keys that were stored while a lookup read their files, or
  were loaded from leftovers.
* Abstracted: hit counters, gauges, the .tmp files (nothing reads them), meta files
  that cannot be parsed (they are written whole or not at all), a directory that
  cannot be created or read, the disk tier switched off.  The path of a key is
  decoded while the hop sends the request's own URI (proxy.go:199, 293): two spellings
  of one path are one url here.  Conditional requests and coalescing are in
  `ImageReads`.

### How `ImageReads` corresponds to the code

`call[h]` is one handler in `proxy` with an image request: `lookup`
(`serveCached`, `FreshFor`), `join` and `wait` (`flight.Do`), `hop` (`hopOnce` and
the limited read of the body), `store` (`maybeStoreImage`), `deliver`, `done`.  An
image is a version with a length.  A request is a method, a condition and whether
it has a Range.  A backend may answer each with the image, or as HTTP allows: a
304 only to a client whose copy is current, a part only to one that asked.
`leader` is history: the request that was sent on in place of this one.
Expiry and eviction are one action, `Evict`; that an answer may not be stored for
its type or its Cache-Control is left to chance in `Store`.

### How `HealthMonitor` corresponds to the code

`probe` is the goroutine of `Run`: the backend whose turn it is and which request
comes next.  `fails[b][a]` counts the entries of `Monitor.fails[b]` that are `a`
ticks old, those of `Window` ticks or more together; `Count` is `recentFails`,
which drops these.  `RecordAuthFailure` comes from a login or a page under /Users
that the backend fails, and from a client that leaves during a login, which is
counted against the backend in turn and each candidate after it.  `snaps[b].cause`,
`probe.ill` and `log` are history: what was wrong at some moment of the probe, and
the failures of the window kept by age without pruning.  A stop cancels the
context of the probe under way, which goes on through the backends and finds each
unreachable; and since `select` picks at random when both the context and the ticker
are ready (health.go:154), further rounds may start.  Handlers go on for the ten
seconds of `Shutdown`.
Left out: the probe's parsing of ServerName and Version, layers' error texts, and
`SetState`, which only tests call.

### How `UserPins` corresponds to the code

`todo[h]` is what is left of one handler's binds: after a login the token with
name and id, then the device (`peekLogin`); otherwise the device, then the token
with the id from the path (`pathUserID`).  `Upserted` is the ON CONFLICT clause.
The unpin is one action per statement of `DeletePinsByUsername`, with `ids` and
`backends` its local variables.  With `driver = "sqlite"` nothing runs between
its statements, as `SetMaxOpenConns(1)` has it; with `"postgres"` everything but
a write to a row it has deleted.  `gone` and `goneDevices` take effect at
`Commit`.  `UserOf` and `DeviceOf` are outside HAP: who a token was issued to.
The transaction leaves `anon_bindings` alone, and so does the module.

## Runs

| Run | Question | Instance |
| --- | --- | --- |
| `ProxyConcurrent.cfg` | Do tokens stay with their issuer when two requests of one client interleave with everything else, and do the handlers implement `Affinity`? | 2 backends, 2 handlers, 1 device, 1 token, `force_reauth`, ordinary/login/logout, 1 fault |
| `ProxyPolicies.cfg` | Do the gray-list, by client and by path, and operator disable hold under mixed policies? | 2 backends, 1 handler, 2 devices behind one address (one gray-listed and hinted), all request kinds, 2 faults |
| `ProxyLiveness.cfg` | Is every request answered, does a recovered backend get its clients back, and does a client that logs in again with its token stay where it is, against its user's hint? | 2 backends, 1 handler, 1 device hinted to the second backend, 2 tokens (the one it has, the one it gets), `fail_closed`, 2 faults, fairness |
| `BackendFlags.cfg` | Do the two writes and restarts keep `Overlay`'s promise? | 2 backends (one parked by the config), 2 POSTs, 2 restarts, table may be unreadable |
| `LibraryReads.cfg` | Do cache and flights stay sound and fresh when reads, a write, a warm-up and expiry interleave? | 1 backend, 2 coalescing handlers, 1 token, 2 paths, 2 slots, answers of size 1 and 2, room for 2, 1 write |
| `LibraryLiveness.cfg` | Does everyone get their own answer, their own writes, and an end, and are slots given back? | 1 backend, 2 handlers, 1 path with the token and without, 1 slot, coalescing on and off, 1 write, fairness |
| `ImageFiles.cfg` | Do tiers, files and counters agree, and do answers fit, with writes cut off at every step? | 1 image with 2 Accept values, 2 handlers, sizes 1 and 2, memory 2, disk 3, 3 answers, 2 faults (expiry, failed write or removal, restart) |
| `ReadsShared.cfg` | Does every client get an answer to what it asked, and is only a whole image kept? | 1 key, 2 handlers, 5 kinds of request, 4 versions with lengths around both limits, cache or coalescing or both, fairness |
| `HealthRounds.cfg` | Are verdicts deserved, failures counted once, and do states converge? | 2 backends, 2 configurations of layers, threshold 2, window of 2 ticks, 3 faults, fairness |
| `UnpinUsers.cfg` | Whose tokens does an unpin take, and what of the user does it leave? | 2 users with a token and a device each, 2 backends, 1 handler, both drivers |

Runs that find a disagreement between the documents and the code:

| Run | Document | What TLC shows |
| --- | --- | --- |
| `ProxyFailoverToken.cfg` | affinity.md:15, "no existing token is forwarded" | A login request that carries a token is cloned, headers included, for every candidate. |
| `ReadsNotAlike.cfg` | affinity.md:67, "Identical in-flight image/library GETs may be coalesced" | Requests that are not identical are: one client asks whether its copy is current, another for the image; the second joins the first's flight and is given a 304 without a body. The same happens with a HEAD (an empty 200) and a Range (a part). |

`SharersAlike` excepts bodies over the limit, which are cut for everybody.

### Other divergences met while modelling

These have no run of their own.  The properties state what the code does keep, and
except exactly the case named.

* *A forgotten token goes elsewhere.*  affinity.md:13, "A token issued by Server A
  is never sent to Server B."  After `force_reauth`, a logout, an unpin or a TTL
  nothing remembers the token (router.go:203), and the next request with it is
  placed anew, token included.  `TokenForwardedToIssuer` is about tokens that were
  not forgotten.
* *A late disable.*  health.md:20, "HAP never hops there (including `pin_unhealthy`
  and login failover)".  The candidates are computed before the first hop
  (proxy.go:134).  `ParkedBackendNeverHopped` is about backends disabled before the
  request arrived.
* *Unreadable flags.*  health.md:18, "a store overlay that survives restart".
  `load` ignores an error of `ListBackendFlags` (flags.go:34).  `Overlay` lets such
  a restart lose the flags.
* *A leader that leaves.*  SPEC.md:11, "HAP only synthesizes its own 503/401 when it
  cannot reach a backend or policy refuses to rebind."  A flight runs under its
  leader's context (proxy_perf.go:194); when that client hangs up, its followers
  get 503 `backend_unreachable`.
* *Unpin takes other users' tokens.*  config.md:48, "deletes that user's stored token
  pins".  A row
  whose owner last visited another user's page carries that user's id
  (proxy.go:116) and goes with that user's unpin; and whenever no row matches, all
  rows without name and id go, with every device on their backends (store.go:476;
  affinity.md:17 has them go only when the user's ids resolve).  `OthersKeepTokens` says that no other rows do.
* *Unpin leaves some of the user's own.*  The same sentence.  A row whose login gave no
  name and whose id no backend that answers lists stays; so does, when any row
  matched, every row without name and id, whoever's it is (store.go:476).
  `UnpinComplete` says that no other rows of the user do.
* *Unpin with Postgres.*  A bind between the SELECT and the DELETE can leave the
  user's device row, or a row that is bound after the DELETE (store.go:503).
  `UnpinComplete` is about SQLite.
* *What counts as a failure.*  health.md:8 speaks of recent 5xx.  Hop errors count
  too, a client that hangs up among them, once for each candidate left
  (proxy.go:146); coalesced library pages under /Users that fail do not count.
* *Readiness.*  SPEC.md:25 makes an exception for "a 1-backend
  `fail_closed`/`pin_unhealthy` pool"; `Ready` makes it under `force_reauth` as well
  (router.go:364), where a bound client is turned away.  `ReadyUnder` follows the
  code.
* *Long bodies.*  A coalesced body over `max_object` is sent with status 200 and one
  byte more than the limit (proxy_perf.go:204), library answers included.
* *The disk tier.*  Metadata and body of different answers of one size may be read
  together (disk.go:128-138), an older answer may go over a newer one in memory
  (disk.go:169), an answer whose write failed after the first rename comes back
  after a restart if the sizes agree, and so does one whose files could not be
  removed.  Files that a write or a removal leaves behind (disk.go:299) are counted by
  no budget, so that the directory may exceed `max_bytes`, until the key is stored
  again or a restart meets the .meta; a .bin alone stays until its key is stored
  again.  `CacheCurrent` and `FilesCounted` except exactly these.  `max_ttl` does
  not bound `default_ttl` (cache.go:286), and the mutex is held while files are
  written.

Bounds.  `MaxFaults` bounds probes, operator actions, expiries, failed
statements and restarts together; without it the state space is infinite in
nothing but the counter, and too large.  One is enough for every two-party race
between handlers and one outside event (`ProxyConcurrent`); policies need a
backend that fails and one more event (two); a third fault was tried with one
device and found nothing else.  One token per device suffices otherwise: no
action treats two tokens in relation to each other, except load counts and re-login.  Two
backends are enough for "another backend", and for a failover that succeeds or
runs out.  Re-login needs the token that is sent and the one that is got, of one device
(`ProxyLiveness.cfg`), and the hint has to name the backend that did not issue the
first.  Two handlers are symmetric, hence the symmetry set, which is used in
no run with liveness.  Every action fires in a passing run.

The library runs have one backend, since no step relates two: keys, flights and
slots are all per backend.  Isolation needs two keys that differ in the token
only, which one token and none give; none is the case the code treats specially.
Eviction needs two paths and answers of two sizes: both small ones fit, a large
one displaces both.  One write and one warm-up race with two reads, with entries
that are replaced, expire and are dropped.  Two handlers make a leader and a
follower.  `LibraryReads.cfg` has a slot for each, so that nothing but the flight
keeps them from hopping together; `LibraryLiveness.cfg` has one slot, so that
one holds it and the other waits.

`ImageFiles.cfg` has two keys of one image, so that a key that forgot Accept would
mix them; memory holds one large or two small answers, disk a large and a small, so
that each evicts without the other; three answers are an old, a new and another
key's; two faults are a cut-off write and a restart, a removal that fails and a
restart, or an expiry and any of these.
`ReadsShared.cfg` has an image at the store's limit, one that is a byte longer (read
whole, not kept), one that is cut with and without a cache, and one shorter than
all.  `HealthRounds.cfg` needs two backends for a probe that waits for another, two
failures for a threshold that is met and not exceeded, a window of two ticks for a
failure on its edge and one inside it, and a third fault for an endpoint or a stop
besides.  `UnpinUsers.cfg` has another user to take rows from and another backend to
leave rows on; one handler is enough to lie between any two statements of the
transaction, and two exceed what can be checked in minutes.

Fairness (`FairSpec`).  A handler that can step does (`WF` of `Handle(r)`): the
Go scheduler runs goroutines, hops have `ResponseHeaderTimeout`, the login client
a timeout, and statements end.  A client that holds a token keeps sending
requests with it (`SF`, because the only handler may be busy whenever it tries);
that is what "when A recovers, the same token works" is about.  Nothing is
assumed of probes, operators or logins.  Faults are bounded, so they end.

In `Library`, a handler that can step does (`WF`), which for a hop means that the
backend finishes its answer or breaks it off: the transport has a timeout for
headers and none for the body, so this is an assumption about backends.  A
request waiting for a slot gets one if slots come free again and again (`SF`):
a Go channel serves the goroutines blocked on it in order.  Nothing is assumed of
clients, writes, warm-ups or the clock.

In `ImageReads`, a handler that can step does (`WF`), with the same assumption about
the bodies of backends, and a client that leaves ends its hop.  In `HealthMonitor`
the probe's next step happens (`WF` of `ProbeRuns`): every request of a probe ends by
the client's timeout, which covers the body too, and the ticker goes on.  After a
stop a round may start and none has to.  So does the clock (`WF` of
`Tick`), without which no failure would ever leave the window.  Nothing is assumed of
backends, clients, operators or a stop.

## Proofs

Every safety invariant, action property and refinement that a passing run checks is
also a theorem, for all constants that satisfy the named assumptions.  Each proof
has one invariant with `Init => IInv` and `IInv /\ [Next]_vars => IInv'`, where the
step has a lemma per action; each of these invariants was run through TLC before it
was proved.  The properties follow from it.

Assumptions.  The `...Assumption`s of each module say what the configuration's
validation and the process's start guarantee (a nonempty pool, known policies,
positive limits, an object limit within the others), or what the environment is (who
owns a token).  `NoneIsNothing` and `NoneIsNoAnswer` say that
`None` is no record.  Backends are numbered by their place in the configuration, in
which login candidates are tried; any set of them has a first one.  Requests of `Library` are
finitely many, because slots are counted.  Nothing bounds the number of backends,
handlers, tokens, keys, faults or writes.

### Affinity (`ProxyProofs`)

* `TypeCorrect`: `Spec => []TypeInv`, where `TypeInv` is `TypeOK` plus what a
  handler relies on at each program counter (a backend to bind, a token, an
  untried candidate).
* `AffinityHolds`: `Spec => []AffinityInv`, relative to `TypeInv`.
* `PinnedToIssuer`, `ForwardedToIssuer`, `DroppedNotForwarded`: the safety
  properties of `ProxyConcurrent.cfg`, which follow from the two invariants.
* `ImplementsAffinity`: `Spec => AffinityPromise`, the refinement.
* `ParkedNeverHopped`, `GrayNeverDropped`: those of `ProxyPolicies.cfg`; `StaysHome`:
  that of `ProxyLiveness.cfg`.

Why the strengthening is needed.  `TokenForwardedToIssuer` speaks of the hop
only, several steps after the decision.  So `CarriesIssuer` says it of every
step from the decision on; that holds at the decision because an unforgotten
row names the issuer and is live (`RowsAtIssuer`, `HeldTokens`); that in turn
survives `BindToken` only because of what the handler carries.  The parts are
inductive together and not one by one.  The argument for the router is a lemma
about `Decide`: with a live token row, every decision names that row's backend
or none, and a drop with a token names none.

The refinement needs the same invariant: `CarriesIssuer` makes `PeekToken` a pin at
home and not a move, a proxied request's `bindToken` a stutter, the step to `hop` a
`Send` home, and `PeekSession` a `Give` of a token that is pinned or lost.  A row
written again for a forgotten token changes nothing `Affinity` sees.  What is sent is
a union over the handlers, and a step changes one handler's part of it (`SentStep`):
a login that starts or goes on to its next candidate is a `Carry` (`LoginTryRefines`),
for which the invariant has that its token was given and `StepReady` that a
candidate is left.  Nothing else enters `hop` or `try` (`HopEntered`).

`ParkedNeverHopped` rests on `ParkedInv`: what was disabled when a request arrived
and has stayed so is disabled now, and neither the decision nor a candidate of the
login names it.  The lemma is `DecideEnabled`: whatever rows, cookie, hint or policy
say, `Decide` names no disabled backend.  `pin_unhealthy` is the case to look at.

`GrayNeverDropped` rests on `GrayInv`: the unforgotten row of a gray-listed device's
token remembers the class, through the upserts of requests that do not name the
client (`GrayRows`); its first row is written by the login that got it, which does
name the client, and for the client's own token (`LoginOwn`).  The lemma is `DecideGray`: a drop of a token with such a row under
another policy than `force_reauth` does not come out of `Decide`.  That a gray-listed
path drops nothing is `Decide` again: its request has the gray-list's policy,
whatever rows there are.

`StaysHome` needs `AffinityInv` for the token's row, and that a login with an
unforgotten token carries a decision by that token, for its issuer (`LoginHome`); then
the order of candidates puts the issuer first, whatever the hint, and the
answer comes from there.

### Disable flags (`FlagsProofs`)

`FlagsInvHolds` and `FlagsImplementOverlay`.  The key is
that a POST which met no other finds the table as it wrote it when it writes the
map (`CallCarries`), hence a settled flag is equal in both (`SettledAgrees`),
hence a load changes open flags only.

### Library reads (`LibraryProofs`)

* `LibraryInvHolds`: `Spec => []LibraryInv`, and from it `AnswersAreOwn`,
  `EntriesAreOwn` and `OneHopAtATime`.
* `SlotsAreConserved`: `Spec => []SlotsConserved`, relative to `LibraryInv`, by
  counting the holders of slots.
* `CacheIsSound`, `LibraryTyped`: from `CacheInv`.
* `EntriesAreFresh`, `OwnWritesRead`: from `FreshInv`.

`AnswersOwn` speaks of the last step of a read, which may come from a hop, from
the cache, from another handler's flight or through an entry that a warm-up left.
So `LibraryInv` says of everything that holds an answer that it holds it under
the key the answer was read for.  For a follower that needs the flight's leader to
hop for the follower's key (`FlightsLed`), which needs that the leader is still
on its way and that nobody else leads the same flight (`LeadersKnown`).  What the
cache's operations do to the index is a lemma (`IndexKept`); which entries they
evict plays no part there.

`CacheInv` adds that the list names each key of the index once: without it the
counter, which an eviction or a replacement lowers by one entry's size, could drift
from the sum.  `FreshInv` says of whatever may yet be stored or delivered (a
handler's answer, a warm-up's, an entry) that it has every acknowledged write, or was
in hand when the write was acknowledged; the floor a client may expect is then below
what is acknowledged from its arrival on.

### Image cache (`ImageProofs`)

`ImageInvariant` is the invariant, and `AccountsAreExact`, `AnswersAlwaysFit`,
`DirectoryAlwaysMatches`, `CacheIsCurrent`, `RestartsKeep` and `ImageTyped` follow.
Its parts:

* `Accounts`: each list names each key of its index once and counts its bytes, within
  the limit.
* `WriterAlone`: one handler writes, it holds the mutex, has made room for what it
  writes and took its key out of the index before, so that the index stays true
  while a key has one new file and one old.
* `HandlersOwn`, `StoresOwn`: what holds an answer holds it under its own key, and
  what is about to be returned from disk has the size its metadata says.
  `AnswersFit` is about the moment of the answer, several unlocked reads later.
* `Directory`: files and index agree while another key is being written too;
  `DirectoryMatches` says so only of the free mutex.
* `DiskCurrent`, `MemoryCurrent`, `ReadersCurrent`: what the two tiers hold, and what
  a lookup has read or has yet to read, is the last answer stored, but for the keys
  the history variables name.
* `restarts <= faults`, for the type of the counter.

A step that removes files is one lemma whichever of them stay (`RemovedFacts`): the
files it leaves are those of before, under keys that `leftover` then names, and the
index no longer holds them.  That such a step costs a fault bounds the counter
(`StuckCosts`).

A restart rebuilds the list from the directory in whichever order it is read and
evicts until it fits; that the result is counted is a lemma about `Loaded`, and
that an eviction frees enough one about `Evicted`.

### Image reads (`ImageReadsProofs`)

`WholeImages`, `SuitableAnswers`, `ReadsTyped` and `ReadFlightsLed`.  What a handler
has at each step (`CallShape`) is an answer some backend gives to *its* request until
it is delivered, and to its leader's after; that a waiting handler has a leader for
its key which is at its hop is `FlightsLed`.

### Health monitor (`HealthProofs`)

`FailuresKept` compares the list, which is appended to, pruned and aged at different
times, with the window's history: equal at every age inside the window, and no more
in total than failures were reported (`FailsBounded`, which types the counter).
`VerdictsFair` rests on `ProbeShape`: the history of causes has everything that is
wrong now and something for each layer already found failing, at every step of the
probe.  `PageAndRouterAgree` needs only that an unhealthy snapshot has a layer that
failed (`SnapsShape`).

### Unpin (`UserPinsProofs`)

`OthersKeep` rests on `NamesOwn` (the name in a row is its owner's or none, since
only logins write it) and `GoneStay` (a row that was deleted and not yet committed
keeps what it was selected by, with Postgres because nobody else may write it).
`UnpinCompletes` rests on `Isolated`: with SQLite what the transaction read is still
so at its later statements, so that the deletes take all that the SELECTs found, and
nothing else: rows that matched, or else those without name and id.

### What the proofs share (`ListLemmas`)

The library's induction theorems take an operator, which the installed provers cannot
instantiate.  Its theorem on minimal elements takes a set, and that gives induction
over sets of numbers and over the subsets of a finite set; with it the module proves
what sums (`SumRemove`, `SumAdd`, `SumSplit`, `SumShift`) and `Deleted` compute.

### Model-checked only

The liveness properties (`EveryRequestAnswered`, `TokenIssuerServes`,
`EveryReadAnswered`, `EveryImageAnswered`, `StatesConverge`): they rest on fairness,
hence on `ENABLED`, which the installed provers do not reach.  The two runs that end
in a violation show a behaviour, which is a matter for TLC.

## Plan

In this order; the first eight are done.

1. `Bindings`, `Router`, `Proxy`: affinity. Properties, runs, proofs of token affinity.
2. `Overlay`, `BackendFlags`: operator disable across restarts. Refinement proved.
3. `LibCache`, `Library`: invalidation against answers in flight, isolation,
   coalescing, slots, warm-up. Isolation and slots proved.
4. `ImageCache`, `ImageReads`: two tiers, interrupted writes, load at startup,
   coalesced reads.
5. `HealthMonitor`: probe layers, the failure window, `RecordAuthFailure`, readiness.
6. `UserPins`: unpin by username and its orphan fallback, between other statements.
7. Proofs of every safety property the runs check: `ParkedBackendNeverHopped`, `GrayTokenNeverDropped`, `ReloginStaysHome`;
   of `DirectoryMatches`, `AccountsExact` and `AnswersFit`; of `NoFailureLost` and
   `VerdictsDeserved`; of `UnpinComplete`; of `EntriesWhole`; of `CacheSound` and of
   freshness, the latter with an invariant on what each handler's answer may be
   older than.
8. `Affinity`, an abstract specification (a token is issued, pinned, lost) that
   `Proxy` implements. Refinement proved.
9. `BindingStore`: the lookup's SELECT and DELETE apart, many clients behind one
   address, first requests racing; `ImageCache` and `ImageReads` composed.
10. Pure operators: identifier precedence, gray-list matching, FNV placement over a
   changing pool.

## Not modelled

Origin and server-id rewriting and the ops page change no state and no choice.
Configuration loading is sequential parsing whose validated result is the
constants' assumptions (`ImageAssumption` among them).  Metrics and logging are left
out.  Of the status server's endpoints, those that list what others hold.  Graceful shutdown is
covered by `Restart` (a request that finished just before it is one of the
behaviours).
